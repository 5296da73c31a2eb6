--------------------------------- MODULE Uart --------------------------------
(***************************************************************************)
(* The serial port: uart.c over the registers of i16550A.c.  Threads write *)
(* with interrupts disabled, and the interrupt handler runs with them      *)
(* disabled, so every operation is one action.                             *)
(***************************************************************************)
EXTENDS CharQueue

CONSTANTS
  MaxBurst  \* bound: characters in one uart_write, or read by one interrupt

ASSUME UartAssumption == MaxBurst \in Nat

VARIABLES
  rx_queue, tx_queue,
  ien,      \* the transmit bit of the interrupt enable register
  holding,  \* the transmit holding register, NUL when empty
  panic     \* "none", or the operation in which a queue overflowed

uartVars == <<rx_queue, tx_queue, ien, holding, panic>>

Bursts == UNION {[1 .. n -> Chars] : n \in 0 .. MaxBurst}

Up == panic = "none"
Panic(op) == panic' = op /\ UNCHANGED <<rx_queue, tx_queue, ien, holding>>

-----------------------------------------------------------------------------
(* Mutant: the transmit interrupt is not enabled.                          *)
UartPutcharNoEnable(ch) ==
  /\ Up
  /\ IF Overflows(tx_queue, 1)
     THEN Panic("putchar")
     ELSE /\ tx_queue' = Enqueued(tx_queue, <<ch>>)
          /\ UNCHANGED <<rx_queue, ien, holding, panic>>

uart_putchar(ch) ==
  /\ Up
  /\ IF Overflows(tx_queue, 1)
     THEN Panic("putchar")
     ELSE /\ tx_queue' = Enqueued(tx_queue, <<ch>>)
          /\ ien' = TRUE
          /\ UNCHANGED <<rx_queue, holding, panic>>

(* At most Free(tx_queue) characters are taken.                            *)
uart_write(s) ==
  LET written == Min({Free(tx_queue), Len(s)}) IN
  /\ Up
  /\ IF written > 0 /\ Overflows(tx_queue, written)
     THEN Panic("write")
     ELSE /\ tx_queue' = Enqueued(tx_queue, SubSeq(s, 1, written))
          /\ ien' = TRUE
          /\ UNCHANGED <<rx_queue, holding, panic>>

(* The receive interrupt reads characters until there are no more; those   *)
(* that are not escapes, typed, are queued and echoed one by one, so that  *)
(* the queue with less room overflows first.                               *)
uart_rx_isr(typed) ==
  LET full == {q \in {rx_queue, tx_queue} : Overflows(q, Len(typed))} IN
  /\ Up
  /\ typed # <<>>
  /\ IF full # {}
     THEN Panic(IF Size(rx_queue) >= Size(tx_queue) THEN "rx" ELSE "echo")
     ELSE /\ rx_queue' = Enqueued(rx_queue, typed)
          /\ tx_queue' = Enqueued(tx_queue, typed)
          /\ ien' = TRUE
          /\ UNCHANGED <<holding, panic>>

(* The transmit interrupt: enabled, and the holding register empty.        *)
uart_tx_isr ==
  /\ Up
  /\ ien /\ holding = NUL
  /\ IF Empty(tx_queue)
     THEN ien' = FALSE /\ UNCHANGED <<tx_queue, holding>>
     ELSE /\ holding' = Oldest(tx_queue)
          /\ tx_queue' = Dequeued(tx_queue)
          /\ UNCHANGED ien
  /\ UNCHANGED <<rx_queue, panic>>

(* The chip sends what is in the holding register.                         *)
Transmit ==
  /\ Up
  /\ holding # NUL
  /\ holding' = NUL
  /\ UNCHANGED <<rx_queue, tx_queue, ien, panic>>

-----------------------------------------------------------------------------
UartInit ==
  /\ rx_queue = null_char_queue
  /\ tx_queue = null_char_queue
  /\ ien = FALSE
  /\ holding = NUL
  /\ panic = "none"

UartNext ==
  \/ \E ch \in Chars : uart_putchar(ch)
  \/ \E s \in Bursts : uart_write(s) \/ uart_rx_isr(s)
  \/ uart_tx_isr
  \/ Transmit

UartSpec == UartInit /\ [][UartNext]_uartVars

-----------------------------------------------------------------------------
UartTypeOK ==
  /\ rx_queue \in CharQueues
  /\ tx_queue \in CharQueues
  /\ ien \in BOOLEAN
  /\ holding \in Chars \cup {NUL}
  /\ panic \in {"none", "putchar", "write", "rx", "echo"}

(* While characters wait to be sent the transmit interrupt is enabled, so  *)
(* that whoever came last need not send them.                              *)
PendingIsEnabled == ~Empty(tx_queue) => ien

(* The transmitter is a FIFO of SIZE - 1 characters: what threads write,   *)
(* put and echo leaves in that order, one character at a time.             *)
LineSpec == INSTANCE Fifo WITH
  Capacity <- SIZE - 1, contents <- Contents(tx_queue), line <- holding
ImplementsFifo == LineSpec!Spec
=============================================================================
