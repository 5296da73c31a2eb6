-------------------------------- MODULE Pcnet32 -------------------------------
(***************************************************************************)
(* The pcnet32 driver and its card: the receive ring, whose frames a       *)
(* polling thread collects on a list that readers empty, and the transmit  *)
(* ring, which writers fill through two lists and another polling thread   *)
(* hands to the card.  The lists are changed store by store, because only  *)
(* the addition to the collector list is under the lock.  pc[t] is what    *)
(* thread t does next, reg[t] the registers it works from.                 *)
(***************************************************************************)
EXTENDS Links

CONSTANTS
  RING,        \* PCNET32_RING_SIZE
  Clients,     \* the threads that may read and write the device
  Kinds,       \* the frames that may arrive
  MaxFrames    \* how many of them arrive

Drivers == {"recv", "send"}

ASSUME PcnetAssumption ==
  /\ RING \in Nat \ {0, 1} /\ MaxFrames \in Nat
  /\ Drivers \cap Clients = {} /\ Kinds \subseteq {"us", "other", "echo", "long"}

Slots == 0 .. RING - 1
Collector == RING          \* the heads of the lists
FREE == RING
BUSY == RING + 1
Nothing == [id |-> 0, kind |-> "nothing"]

VARIABLES
  pc, reg,
  rx,             \* the links of collector_list and of the frames
  rx_own,         \* the descriptors whose status gives them to the card
  msg_length,     \* "none" (less than the checksum), "fits" or "over" the read
  payload,        \* what the card stored at each slot of f_buff_rx
  len,            \* the length of each frame as it was collected
  locked,         \* the word of collector_condlock
  tx, tx_own,     \* the links of both lists; the descriptors given to the card
  base,           \* the thread whose buffer each descriptor points to
  out,            \* what is in that buffer of each thread; 0 when it is gone
  coled,          \* the transmit entries whose writer must wait
  arrived,        \* how many frames have come so far
  cur_rx, cur_tx, \* where the card is in its two rings
  wire            \* what it has sent

rxVars == <<rx, rx_own, msg_length, payload, len, arrived, cur_rx>>
txVars == <<tx, tx_own, base, out, coled, cur_tx, wire>>
pcnetVars == <<pc, reg, rxVars, txVars, locked>>

Next1(i) == (i + 1) % RING
Goto(t, p) == pc' = [pc EXCEPT ![t] = p]
At(t, p) == pc[t] = p
SetReg(t, node, prev, next) == reg' = [reg EXCEPT ![t] = [node |-> node, prev |-> prev, next |-> next]]
Load(t, l, n) == SetReg(t, n, l.prev[n], l.next[n])
LoadTail(t, l, h) == SetReg(t, reg[t].node, l.prev[h], h)

(* pcnet32_device_init: every transmit entry free, every receive           *)
(* descriptor the card's, and the two threads started.                     *)
PcnetInit ==
  LET None == [i \in Slots |-> Nothing]
      Filled[i \in 0 .. RING] == IF i = 0 THEN Unlinked(0 .. BUSY)
                                 ELSE list_add_tail(Filled[i - 1], i - 1, FREE)
  IN  /\ pc = [t \in Drivers \cup Clients |->
                 CASE t = "recv" -> "scan" [] t = "send" -> "poll" [] t = "shell" -> "prompt" [] OTHER -> "none"]
      /\ reg = [t \in Drivers \cup Clients |-> [node |-> 0, prev |-> 0, next |-> 0]]
      /\ rx = Unlinked(0 .. Collector) /\ rx_own = Slots
      /\ msg_length = [i \in Slots |-> "none"] /\ len = msg_length /\ payload = None
      /\ tx = Filled[RING] /\ tx_own = {} /\ base = [i \in Slots |-> "shell"] /\ coled = {}
      /\ out = [t \in Clients |-> 0]
      /\ locked = FALSE /\ arrived = 0 /\ cur_rx = 0 /\ cur_tx = 0 /\ wire = <<>>

-----------------------------------------------------------------------------
(* The card.  A frame longer than a buffer takes two descriptors, and only *)
(* the second gets a length; a frame that finds no descriptor is missed.   *)
CardReceive(kind) ==
  /\ arrived < MaxFrames
  /\ arrived' = arrived + 1
  /\ LET id == arrived + 1
         last == IF kind = "long" THEN Next1(cur_rx) ELSE cur_rx
     IN  IF {cur_rx, last} \subseteq rx_own
         THEN /\ payload' = [payload EXCEPT ![cur_rx] = [id |-> id, kind |-> kind],
                                            ![last] = [id |-> id, kind |-> kind]]
              /\ msg_length' = [msg_length EXCEPT ![last] = IF kind = "long" THEN "over" ELSE "fits"]
              /\ rx_own' = rx_own \ {cur_rx, last}
              /\ cur_rx' = Next1(last)
         ELSE UNCHANGED <<payload, msg_length, rx_own, cur_rx>>
  /\ UNCHANGED <<pc, reg, rx, len, txVars, locked>>

CardSend ==
  /\ cur_tx \in tx_own
  /\ wire' = Append(wire, out[base[cur_tx]])
  /\ tx_own' = tx_own \ {cur_tx}
  /\ cur_tx' = Next1(cur_tx)
  /\ UNCHANGED <<pc, reg, rxVars, tx, base, out, coled, locked>>

-----------------------------------------------------------------------------
(* mutex_lock: the test of the lock word, then, on failure, the way to its *)
(* list, from which the next unlock brings the thread back.                *)
MutexLock(t, then) ==
  /\ At(t, "lock")
  /\ Goto(t, IF locked THEN "block" ELSE then)
  /\ locked' = TRUE
  /\ UNCHANGED <<reg, rxVars, txVars>>

Block(t) == At(t, "block") /\ Goto(t, "asleep") /\ UNCHANGED <<reg, rxVars, txVars, locked>>

(* mutex_unlock, by a thread that goes to p.                               *)
Unlocking(t, p) ==
  /\ pc' = [u \in DOMAIN pc |-> IF u = t THEN p ELSE IF At(u, "asleep") THEN "lock" ELSE pc[u]]
  /\ locked' = FALSE

MutexUnlock(t, from, p) ==
  At(t, from) /\ Unlocking(t, p) /\ SetReg(t, reg[t].node, 0, 0) /\ UNCHANGED <<rxVars, txVars>>

(* Mutant: a frame is collected again as long as it is the host's.         *)
ScanAgain ==
  /\ At("recv", "scan")
  /\ LET i == reg["recv"].node IN
     IF i \notin rx_own
     THEN /\ len' = [len EXCEPT ![i] = msg_length[i]] /\ Goto("recv", "lock") /\ UNCHANGED reg
     ELSE SetReg("recv", Next1(i), 0, 0) /\ UNCHANGED <<pc, len>>
  /\ UNCHANGED <<rx, rx_own, msg_length, payload, arrived, cur_rx, txVars, locked>>

(* Mutant: the status of the descriptor is not looked at.                  *)
ScanUnowned ==
  /\ At("recv", "scan")
  /\ LET i == reg["recv"].node IN
     IF list_empty(rx, i) /\ msg_length[i] # "none"
     THEN /\ len' = [len EXCEPT ![i] = msg_length[i]] /\ Goto("recv", "lock") /\ UNCHANGED reg
     ELSE SetReg("recv", Next1(i), 0, 0) /\ UNCHANGED <<pc, len>>
  /\ UNCHANGED <<rx, rx_own, msg_length, payload, arrived, cur_rx, txVars, locked>>

(* pcnet32_main_loop_recv, at the slot in its register.                    *)
Scan ==
  /\ At("recv", "scan")
  /\ LET i == reg["recv"].node IN
     IF list_empty(rx, i) /\ i \notin rx_own
     THEN /\ len' = [len EXCEPT ![i] = msg_length[i]] /\ Goto("recv", "lock") /\ UNCHANGED reg
     ELSE SetReg("recv", Next1(i), 0, 0) /\ UNCHANGED <<pc, len>>
  /\ UNCHANGED <<rx, rx_own, msg_length, payload, arrived, cur_rx, txVars, locked>>

(* Mutant: nobody is told.                                                 *)
BroadcastNobody ==
  /\ At("recv", "broadcast") /\ Goto("recv", "release") /\ UNCHANGED <<reg, rxVars, txVars, locked>>

(* condvar_broadcast: the waiting threads are on their way to the lock.    *)
Broadcast ==
  /\ At("recv", "broadcast")
  /\ pc' = [t \in DOMAIN pc |-> IF t = "recv" THEN "release" ELSE IF At(t, "waiting") THEN "lock" ELSE pc[t]]
  /\ UNCHANGED <<reg, rxVars, txVars, locked>>

(* pcnet32_collect: list_add_tail under the lock.                          *)
Collect ==
  \/ At("recv", "load") /\ LoadTail("recv", rx, Collector) /\ Goto("recv", "link")
       /\ UNCHANGED <<rxVars, txVars, locked>>
  \/ /\ \/ At("recv", "link") /\ rx' = Attached(rx, reg["recv"], Collector) /\ Goto("recv", "store")
        \/ At("recv", "store") /\ rx' = Added(rx, reg["recv"]) /\ Goto("recv", "broadcast")
     /\ UNCHANGED <<reg, rx_own, msg_length, payload, len, arrived, cur_rx, txVars, locked>>

RecvLoop ==
  Scan \/ MutexLock("recv", "load") \/ Block("recv") \/ Collect \/ Broadcast
    \/ MutexUnlock("recv", "release", "scan")

-----------------------------------------------------------------------------
(* pcnet32_read, with the lock: condvar_wait while there is no frame, else *)
(* the first one is read.                                                  *)
ReadFirst(t) ==
  /\ At(t, "test")
  /\ IF list_empty(rx, Collector)
     THEN Unlocking(t, "waiting") /\ UNCHANGED reg
     ELSE SetReg(t, rx.next[Collector], 0, 0) /\ Goto(t, "copy") /\ UNCHANGED locked
  /\ UNCHANGED <<rxVars, txVars>>

(* pcnet32_decollect, without the lock: list_del, INIT_LIST_HEAD, and the  *)
(* descriptor is the card's again.                                         *)
Decollect(t, then) ==
  LET i == reg[t].node IN
  \/ At(t, "decollect") /\ Load(t, rx, i) /\ Goto(t, "unlink") /\ UNCHANGED <<rxVars, txVars, locked>>
  \/ /\ \/ At(t, "unlink") /\ rx' = Bypassed(rx, reg[t]) /\ Goto(t, "unlinked")
        \/ At(t, "unlinked") /\ rx' = Removed(rx, reg[t]) /\ Goto(t, "reinit")
        \/ At(t, "reinit") /\ rx' = INIT_LIST_HEAD(rx, i) /\ Goto(t, "give")
     /\ UNCHANGED <<reg, rx_own, msg_length, payload, len, arrived, cur_rx, txVars, locked>>
  \/ /\ At(t, "give") /\ rx_own' = rx_own \cup {i} /\ Goto(t, then) /\ SetReg(t, i, 0, 0)
     /\ UNCHANGED <<rx, msg_length, payload, len, arrived, cur_rx, txVars, locked>>

-----------------------------------------------------------------------------
(* Mutant: the entry is the last one freed.                                *)
TakeLast(t, full) ==
  /\ At(t, "write")
  /\ IF list_empty(tx, FREE) THEN Goto(t, full) /\ UNCHANGED reg
     ELSE Load(t, tx, tx.prev[FREE]) /\ Goto(t, "take")
  /\ UNCHANGED <<rxVars, txVars, locked>>

(* pcnet32_write: refused when no entry is free.                           *)
Take(t, full) ==
  /\ At(t, "write")
  /\ IF list_empty(tx, FREE) THEN Goto(t, full) /\ UNCHANGED reg
     ELSE Load(t, tx, tx.next[FREE]) /\ Goto(t, "take")
  /\ UNCHANGED <<rxVars, txVars, locked>>

(* pcnet32_collect_tx: the entry leaves the free list, gets the caller's   *)
(* buffer, and joins the busy list; the caller spins until it is sent.     *)
CollectTx(t) ==
  \/ /\ \/ At(t, "take") /\ tx' = Bypassed(tx, reg[t]) /\ Goto(t, "taken")
        \/ At(t, "taken") /\ tx' = Removed(tx, reg[t]) /\ Goto(t, "base")
        \/ At(t, "queue") /\ tx' = Attached(tx, reg[t], BUSY) /\ Goto(t, "queued")
        \/ At(t, "queued") /\ tx' = Added(tx, reg[t]) /\ Goto(t, "spin")
     /\ UNCHANGED <<rxVars, reg, tx_own, base, out, coled, cur_tx, wire, locked>>
  \/ /\ At(t, "base")
     /\ base' = [base EXCEPT ![reg[t].node] = t] /\ coled' = coled \cup {reg[t].node}
     /\ LoadTail(t, tx, BUSY) /\ Goto(t, "queue")
     /\ UNCHANGED <<rxVars, tx, tx_own, out, cur_tx, wire, locked>>

Sent(t, then) ==
  /\ At(t, "spin") /\ reg[t].node \notin coled
  /\ Goto(t, then) /\ out' = [out EXCEPT ![t] = 0] /\ SetReg(t, 0, 0, 0)
  /\ UNCHANGED <<rxVars, tx, tx_own, base, coled, cur_tx, wire, locked>>

(* pcnet32_main_loop_send, with the first statement of the next function.  *)
Poll ==
  /\ At("send", "poll") /\ ~list_empty(tx, BUSY)
  /\ Load("send", tx, tx.next[BUSY]) /\ Goto("send", "take")
  /\ UNCHANGED <<rxVars, txVars, locked>>

(* Mutant: the writer goes on before the card is done.                     *)
DecollectTxEarly ==
  LET i == reg["send"].node IN
  \/ /\ \/ At("send", "take") /\ tx' = Bypassed(tx, reg["send"]) /\ Goto("send", "taken")
        \/ At("send", "taken") /\ tx' = Removed(tx, reg["send"]) /\ Goto("send", "give")
        \/ At("send", "free") /\ tx' = Attached(tx, reg["send"], FREE) /\ Goto("send", "freed")
        \/ At("send", "freed") /\ tx' = Added(tx, reg["send"]) /\ Goto("send", "poll")
     /\ UNCHANGED <<rxVars, reg, tx_own, base, out, coled, cur_tx, wire, locked>>
  \/ /\ At("send", "give") /\ tx_own' = tx_own \cup {i} /\ coled' = coled \ {i} /\ Goto("send", "wait")
     /\ UNCHANGED <<rxVars, reg, tx, base, out, cur_tx, wire, locked>>
  \/ /\ At("send", "wait") /\ i \notin tx_own /\ LoadTail("send", tx, FREE) /\ Goto("send", "free")
     /\ UNCHANGED <<rxVars, txVars, locked>>

(* pcnet32_decollect_tx: off the busy list; the card's until it has sent;  *)
(* back on the free list; the writer may go on.                            *)
DecollectTx ==
  LET i == reg["send"].node IN
  \/ /\ \/ At("send", "take") /\ tx' = Bypassed(tx, reg["send"]) /\ Goto("send", "taken")
        \/ At("send", "taken") /\ tx' = Removed(tx, reg["send"]) /\ Goto("send", "give")
        \/ At("send", "free") /\ tx' = Attached(tx, reg["send"], FREE) /\ Goto("send", "freed")
        \/ At("send", "freed") /\ tx' = Added(tx, reg["send"]) /\ Goto("send", "done")
     /\ UNCHANGED <<rxVars, reg, tx_own, base, out, coled, cur_tx, wire, locked>>
  \/ /\ At("send", "give") /\ tx_own' = tx_own \cup {i} /\ Goto("send", "wait")
     /\ UNCHANGED <<rxVars, reg, tx, base, out, coled, cur_tx, wire, locked>>
  \/ /\ At("send", "wait") /\ i \notin tx_own /\ LoadTail("send", tx, FREE) /\ Goto("send", "free")
     /\ UNCHANGED <<rxVars, txVars, locked>>
  \/ /\ At("send", "done") /\ coled' = coled \ {i} /\ Goto("send", "poll") /\ SetReg("send", 0, 0, 0)
     /\ UNCHANGED <<rxVars, tx, tx_own, base, out, cur_tx, wire, locked>>

SendLoop == Poll \/ DecollectTx
===============================================================================
