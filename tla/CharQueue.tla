------------------------------ MODULE CharQueue ------------------------------
(***************************************************************************)
(* The ring buffer of queue.c.  One slot stays free, so that first = last  *)
(* means empty.  The functions run with interrupts disabled or under the   *)
(* mutex of the keyboard: each is one operator.                            *)
(***************************************************************************)
EXTENDS Integers, Sequences, FiniteSetsExt

CONSTANTS
  Chars,  \* the characters that travel
  NUL,    \* what char_dequeue_nolock returns of an empty queue
  SIZE    \* CHAR_QUEUE_SIZE

ASSUME CharQueueAssumption ==
  /\ SIZE \in Nat \ {0}
  /\ NUL \notin Chars

Index == 0 .. SIZE - 1
CharQueues ==
  [buffer : [Index -> Chars \cup {NUL}], first : Index, last : Index]

null_char_queue == [buffer |-> [i \in Index |-> NUL], first |-> 0, last |-> 0]

Empty(q) == q.first = q.last

(* char_queue_size_nolock                                                  *)
Size(q) == LET s == q.last - q.first IN IF s < 0 THEN s + SIZE ELSE s

(* char_queue_free_nolock: one more than fit.                              *)
Free(q) == SIZE - Size(q)

(* Mutant: the test for a full queue comes one character late.             *)
OverflowsLate(q, n) == Size(q) + n > SIZE

(* Among n successive char_enqueue_nolock, one finds newlast = first and   *)
(* panics.                                                                 *)
Overflows(q, n) == Size(q) + n >= SIZE

(* Mutant: the character is stored after last is moved.                    *)
EnqueuedMoveFirst(q, s) ==
  LET slot(i) == (i - q.last - 1) % SIZE
  IN  [q EXCEPT !.buffer = [i \in Index |-> IF slot(i) < Len(s) THEN s[slot(i) + 1] ELSE @[i]],
                !.last = (q.last + Len(s)) % SIZE]

(* The characters of s are stored one after the other from last on, and    *)
(* last moves behind them.                                                 *)
Enqueued(q, s) ==
  LET slot(i) == (i - q.last) % SIZE
  IN  [q EXCEPT !.buffer = [i \in Index |-> IF slot(i) < Len(s) THEN s[slot(i) + 1] ELSE @[i]],
                !.last = (q.last + Len(s)) % SIZE]

(* Mutant: first does not wrap around.                                     *)
DequeuedNoWrap(q) == IF Empty(q) THEN q ELSE [q EXCEPT !.first = q.first + 1]

(* char_dequeue_nolock: what is left,                                      *)
Dequeued(q) == IF Empty(q) THEN q ELSE [q EXCEPT !.first = (q.first + 1) % SIZE]

(* and what it returns.                                                    *)
Oldest(q) == IF Empty(q) THEN NUL ELSE q.buffer[q.first]

(* The characters in a queue, in order.                                    *)
Contents(q) == [k \in 1 .. Size(q) |-> q.buffer[(q.first + k - 1) % SIZE]]
=============================================================================
