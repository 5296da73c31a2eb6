---------------------------------- MODULE Net ---------------------------------
(***************************************************************************)
(* The network as net_test.c uses it.  The shell thread configures the     *)
(* interface (ip -r), starts a session (net_test -i) and ends it; a thread *)
(* of its own reads frames in each session and hands them to ARP, which    *)
(* writes a reply to the requests for the address of the interface, or to  *)
(* IP and ICMP, which send nothing.  Frames: "us" and "other" are ARP      *)
(* requests, by the address asked for, "echo" an ICMP request, "long" an   *)
(* IP frame of more than a buffer.                                         *)
(***************************************************************************)
EXTENDS Pcnet32

CONSTANTS
  Sessions,    \* the threads of net_test, one for each session
  MaxRefresh,  \* how often the interface may be configured
  Fds          \* how many file descriptors may be free at first

NetThreads == {Sessions[k] : k \in DOMAIN Sessions}

ASSUME NetAssumption ==
  Clients = NetThreads \cup {"shell"} /\ "shell" \notin NetThreads /\ Fds \subseteq Nat

VARIABLES
  processing_ip,  \* the flag through which the shell and the thread talk
  interfaces,     \* the links of the list of interfaces: head 0, en0 is 1
  refreshed,      \* how often en0 was put on it
  free_fds,       \* file descriptors left
  buff,           \* the static buffer frames are read into
  asked, taken,   \* the requests for us and the frames read so far
  raced           \* whether decollect and the receive loop ever met

netVars == <<processing_ip, interfaces, refreshed, free_fds, buff, asked, taken>>
vars == <<pcnetVars, netVars, raced>>

Head0 == 0
en0 == 1

(* A path is resolved through a descriptor of its own, and file_open_fnode *)
(* panics when there is none: that stops the kernel.                       *)
Panicked == \E t \in Clients : At(t, "panicked")

-----------------------------------------------------------------------------
(* init_interfaces, by the option "refresh_interfaces" of an open file:    *)
(* it resolves another path, and en0 goes on the list whether it is there  *)
(* or not.                                                                 *)
Refresh ==
  /\ At("shell", "prompt") /\ refreshed < MaxRefresh
  /\ IF free_fds < 2 THEN Goto("shell", "panicked") /\ UNCHANGED <<interfaces, refreshed>>
     ELSE /\ interfaces' = list_add(interfaces, en0, Head0)
          /\ refreshed' = refreshed + 1
          /\ UNCHANGED pc
  /\ UNCHANGED <<reg, rxVars, txVars, locked, processing_ip, free_fds, buff, asked, taken>>

(* process_ip: a new thread, in the order of their names.                  *)
StartSession ==
  /\ At("shell", "prompt")
  /\ \E k \in DOMAIN Sessions :
       LET t == Sessions[k] IN
       /\ At(t, "none") /\ \A j \in 1 .. k - 1 : ~At(Sessions[j], "none")
       /\ pc' = [pc EXCEPT !["shell"] = "typing", ![t] = "open"]
  /\ processing_ip' = TRUE
  /\ UNCHANGED <<reg, rxVars, txVars, locked, interfaces, refreshed, free_fds, buff, asked, taken>>

TypeExit ==
  /\ At("shell", "typing") /\ Goto("shell", "exiting")
  /\ processing_ip' = FALSE
  /\ UNCHANGED <<reg, rxVars, txVars, locked, interfaces, refreshed, free_fds, buff, asked, taken>>

Exited ==
  /\ At("shell", "exiting") /\ processing_ip /\ Goto("shell", "prompt")
  /\ UNCHANGED <<reg, rxVars, txVars, locked, netVars>>

-----------------------------------------------------------------------------
(* process_ip_thread opens three files, which are there.                   *)
Open(t) ==
  /\ At(t, "open")
  /\ IF free_fds = 0 THEN Goto(t, "panicked") /\ UNCHANGED <<reg, free_fds>>
     ELSE /\ free_fds' = free_fds - 1
          /\ SetReg(t, reg[t].node + 1, 0, 0)
          /\ Goto(t, IF reg[t].node = 2 THEN "loop" ELSE "open")
  /\ UNCHANGED <<rxVars, txVars, locked, processing_ip, interfaces, refreshed, buff, asked, taken>>

(* The head of its loop; it closes one of the three.                       *)
Loop(t) ==
  /\ At(t, "loop")
  /\ IF processing_ip THEN Goto(t, "lock") /\ buff' = Nothing /\ UNCHANGED <<processing_ip, free_fds>>
     ELSE Goto(t, "dead") /\ processing_ip' = TRUE /\ free_fds' = free_fds + 1 /\ UNCHANGED buff
  /\ UNCHANGED <<reg, rxVars, txVars, locked, interfaces, refreshed, asked, taken>>

(* The copy in pcnet32_read, which takes a while; a frame that is too long *)
(* stays where it is.                                                      *)
Copy(t) ==
  LET i == reg[t].node IN
  /\ \/ At(t, "copy") /\ len[i] = "over" /\ Goto(t, "refuse") /\ UNCHANGED buff
     \/ /\ At(t, "copy") /\ len[i] # "over" /\ Goto(t, "copying")
        /\ buff' = IF len[i] = "none" THEN Nothing ELSE payload[i]
     \/ /\ At(t, "copying") /\ Goto(t, "release")
        /\ buff' = IF buff \in {Nothing, payload[i]} THEN buff ELSE [id |-> payload[i].id, kind |-> "torn"]
  /\ UNCHANGED <<reg, rxVars, txVars, locked, processing_ip, interfaces, refreshed, free_fds, asked, taken>>

pcnet32_read(t) ==
  \/ /\ \/ MutexLock(t, "test") \/ Block(t) \/ ReadFirst(t) \/ Decollect(t, "handle")
        \/ MutexUnlock(t, "refuse", "loop") \/ MutexUnlock(t, "release", "decollect")
     /\ UNCHANGED netVars
  \/ Copy(t)

(* The frame read goes to the protocol of its type; one of no length goes  *)
(* nowhere.                                                                *)
Handle(t) ==
  /\ At(t, "handle")
  /\ taken' = IF buff = Nothing THEN taken ELSE Append(taken, buff)
  /\ IF buff.kind \in {"us", "other"}
     THEN SetReg(t, interfaces.next[Head0], 0, 0) /\ Goto(t, "arp")
     ELSE Goto(t, "loop") /\ UNCHANGED reg
  /\ UNCHANGED <<rxVars, txVars, locked, processing_ip, interfaces, refreshed, free_fds, buff, asked>>

(* arp_write: the walk over the interfaces, and the reply, in a buffer on  *)
(* the stack.                                                              *)
Arp(t) ==
  /\ At(t, "arp")
  /\ LET pos == reg[t].node IN
     IF pos # Head0 /\ buff.kind = "us"
     THEN /\ out' = [out EXCEPT ![t] = buff.id] /\ asked' = Append(asked, buff.id)
          /\ Goto(t, "write") /\ UNCHANGED reg
     ELSE /\ Goto(t, IF pos = Head0 THEN "loop" ELSE "arp")
          /\ SetReg(t, interfaces.next[pos], 0, 0)
          /\ UNCHANGED <<out, asked>>
  /\ UNCHANGED <<rxVars, tx, tx_own, base, coled, cur_tx, wire, locked,
                 processing_ip, interfaces, refreshed, free_fds, buff, taken>>

pcnet32_write(t) == (Take(t, "loop") \/ CollectTx(t) \/ Sent(t, "loop")) /\ UNCHANGED netVars

process_ip_thread(t) ==
  Open(t) \/ Loop(t) \/ pcnet32_read(t) \/ Handle(t) \/ Arp(t) \/ pcnet32_write(t)

-----------------------------------------------------------------------------
Init ==
  /\ PcnetInit
  /\ processing_ip = FALSE /\ interfaces = Unlinked({Head0, en0}) /\ refreshed = 0
  /\ free_fds \in Fds /\ buff = Nothing /\ asked = <<>> /\ taken = <<>> /\ raced = FALSE

Shell == Refresh \/ StartSession \/ TypeExit \/ Exited

Card == (CardSend \/ \E k \in Kinds : CardReceive(k)) /\ UNCHANGED netVars

Drive == (RecvLoop \/ SendLoop) /\ UNCHANGED netVars

(* The receive loop and a reader inside decollect have met: both are among *)
(* the stores that link the collector list, or the loop collects the frame *)
(* that is being given back.                                               *)
Met ==
  \E t \in NetThreads :
    \/ pc[t] \in {"unlink", "unlinked"} /\ pc["recv"] \in {"link", "store"}
    \/ pc[t] = "give" /\ pc["recv"] # "scan" /\ reg["recv"].node = reg[t].node

Running(step) == ~raced /\ ~Panicked /\ step /\ raced' = (raced \/ Met')

Next == Running(Shell \/ Card \/ Drive \/ \E t \in NetThreads : process_ip_thread(t))

Spec == Init /\ [][Next]_vars

(* The threads are scheduled in turn, and the card sends what it is given. *)
FairSpec ==
  /\ Spec
  /\ WF_vars(Running(RecvLoop /\ UNCHANGED netVars))
  /\ WF_vars(Running(SendLoop /\ UNCHANGED netVars))
  /\ WF_vars(Running(CardSend /\ UNCHANGED netVars))
  /\ \A t \in NetThreads : WF_vars(Running(process_ip_thread(t)))

-----------------------------------------------------------------------------
Reading(t) == pc[t] \in {"decollect", "unlink", "unlinked", "reinit", "give"}
Among(l, h) == {Entries(l, h)[i] : i \in DOMAIN Entries(l, h)}

(* Unless they have met, no frame is read twice, and none changes while it *)
(* is copied.  (The two parts of a long frame count as two.)               *)
ReadOnce ==
  ~raced => \A i, j \in DOMAIN taken :
    /\ taken[i].kind # "torn"
    /\ taken[i] = taken[j] /\ taken[i].kind # "long" => i = j

Linking(t) == pc[t] \in {"take", "taken", "base", "queue", "queued", "give", "wait", "free", "freed"}

(* Unless the loop and a reader have met in decollect, which is outside    *)
(* the lock, the collector list is a sound ring whenever nobody is         *)
(* changing it, the frames on it are the host's, and a frame of the host   *)
(* is on it, or is not yet collected, or is being given back.              *)
CollectorSound ==
  ~raced =>
    /\ (\A t \in NetThreads : pc[t] \notin {"unlink", "unlinked"}) /\ pc["recv"] \notin {"link", "store"}
         => IsRing(rx, Collector)
    /\ pc["recv"] \notin {"link", "store"} => Among(rx, Collector) \cap rx_own = {}
    /\ \A i \in Slots : rx.next[i] # i /\ i \notin Among(rx, Collector)
         => \/ pc["recv"] \in {"link", "store"} /\ reg["recv"].node = i
            \/ \E t \in NetThreads : Reading(t) /\ reg[t].node = i

TransmitSound ==
  /\ \A t, u \in NetThreads \cup {"send"} : Linking(t) /\ Linking(u) => t = u
  /\ ~(\E t \in NetThreads \cup {"send"} : Linking(t)) =>
       /\ IsRing(tx, FREE) /\ IsRing(tx, BUSY)
       /\ Among(tx, FREE) \cap Among(tx, BUSY) = {} /\ Among(tx, FREE) \cup Among(tx, BUSY) = Slots
  /\ tx_own \subseteq {cur_tx}

(* The lists of the driver are sound: the collector list as above.  The    *)
(* lists of the transmit side have no lock at all: they are sound because  *)
(* a writer spins until the send loop is done with its entry and there is  *)
(* one net thread.  So no two threads ever change them at once, every      *)
(* entry is on one list or in the hands of one thread, and entries are     *)
(* used in the order in which the card looks at its ring.                  *)
ListsSound == CollectorSound /\ TransmitSound

(* What is sent are the replies to the requests for us, each once, in the  *)
(* order in which they were read, from a buffer that still holds it; none  *)
(* is refused for want of a free entry.                                    *)
Answered ==
  /\ Len(wire) <= Len(asked) /\ Len(asked) <= Len(wire) + 1
  /\ wire = SubSeq(asked, 1, Len(wire))
  /\ Len(asked) > Len(wire) => \E t \in NetThreads : out[t] = asked[Len(asked)]

(* Nobody listens: there is no session.  Or nobody can any more: the lists *)
(* of the driver have been mixed up; an ended session has kept descriptors *)
(* that a later one needs, and the kernel has stopped; a reader is in the  *)
(* loop that a second refresh ties in the list of interfaces, with a       *)
(* request for another; the first frame is longer than the buffer of the   *)
(* reader; or a thread went to sleep in mutex_lock after the unlock that   *)
(* should have woken it.                                                   *)
NoSession == \A t \in NetThreads : pc[t] \in {"none", "dead"}
OutOfDescriptors == Panicked /\ \E t \in NetThreads : At(t, "dead")
InTiedList == refreshed > 1 /\ buff.kind = "other" /\ \E t \in NetThreads : At(t, "arp")
TooLong == rx.next[Collector] \in Slots /\ len[rx.next[Collector]] = "over"
WakeupLost == ~locked /\ \E t \in NetThreads \cup {"recv"} : At(t, "asleep")

Deaf == NoSession \/ raced \/ OutOfDescriptors \/ InTiedList \/ TooLong \/ WakeupLost

Stored(k) == \E i \in Slots : payload[i].id = k /\ i \notin rx_own /\ payload[i].kind # "long"

(* While a session lasts, the reader catches up with the card: every frame *)
(* that the card has stored is read, unless the reader is lost in one of   *)
(* the ways that Deaf names.                                               *)
FramesRead ==
  []<>(Deaf \/ \A k \in 1 .. MaxFrames : Stored(k) => \E i \in DOMAIN taken : taken[i].id = k)
===============================================================================
