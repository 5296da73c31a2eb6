------------------------------- MODULE Monitor -------------------------------
(***************************************************************************)
(* What a mutex and a condition variable promise together: condvar_wait    *)
(* gives the mutex up and falls asleep in one step, a signal wakes the     *)
(* thread that has slept longest and a broadcast all of them, a sleeper    *)
(* does not own the mutex, and only a sleeper is ever woken.  All this     *)
(* while the kernel knows which thread runs: not once it is void.          *)
(***************************************************************************)
EXTENDS Sequences

CONSTANTS Threads, NoOne

VARIABLES
  owner,
  sleepers,  \* in the order in which they fell asleep
  void       \* whether the kernel has lost track of who runs

vars == <<owner, sleepers>>

Init == owner = NoOne /\ sleepers = <<>>

Acquire(t) ==
  /\ owner = NoOne
  /\ \A i \in DOMAIN sleepers : sleepers[i] # t
  /\ owner' = t
  /\ UNCHANGED sleepers

Release(t) == owner = t /\ owner' = NoOne /\ UNCHANGED sleepers

Wait(t) ==
  /\ owner = t
  /\ owner' = NoOne
  /\ sleepers' = Append(sleepers, t)

Signal == sleepers # <<>> /\ sleepers' = Tail(sleepers) /\ UNCHANGED owner

Broadcast == sleepers' = <<>> /\ UNCHANGED owner

Next ==
  \/ \E t \in Threads : Acquire(t) \/ Release(t) \/ Wait(t)
  \/ Signal
  \/ Broadcast

Spec == Init /\ [][void \/ Next]_vars
=============================================================================
