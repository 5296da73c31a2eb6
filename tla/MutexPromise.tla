----------------------------- MODULE MutexPromise ----------------------------
(***************************************************************************)
(* What mutex.h promises to its callers, whatever the scheduler does: the  *)
(* section between the return of mutex_lock and the mutex_unlock that ends *)
(* it is entered only when nobody is inside, by one thread, and is left by *)
(* that thread.  condvar_wait leaves it as mutex_unlock does, and enters   *)
(* it again before it returns.                                             *)
(***************************************************************************)
CONSTANT Threads

VARIABLE inside  \* the threads that have locked the mutex and not unlocked it

Free == inside = {}

Locks(t) == Free /\ inside' = {t}
Unlocks(t) == inside = {t} /\ Free'

Passage == \E t \in Threads : Locks(t) \/ Unlocks(t)

Promise == Free /\ [][Passage]_inside
=============================================================================
