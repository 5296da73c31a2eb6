--------------------------------- MODULE Sync --------------------------------
(***************************************************************************)
(* mutex.c and condvar.c on top of the scheduler: one mutex, one condition *)
(* variable, and threads that use them in any order the interface allows   *)
(* (lock only when not holding, unlock and wait only when holding, signal  *)
(* and broadcast at any time).                                             *)
(*                                                                         *)
(* Program points of a thread: "lock" is the test in the loop of           *)
(* mutex_lock, "block" lies between a failed test and the call of          *)
(* thread_schedule_preempted_in_list, "crit" is code that holds the mutex. *)
(***************************************************************************)
EXTENDS Sched

CONSTANT NoOne

VARIABLE spin_lock  \* the word of the mutex that xchg works on

vars == <<schedVars, spin_lock>>

SyncPoints == {"lock", "block", "crit"}

ASSUME SyncAssumption ==
  /\ WaitLists = {"mutex", "condvar"}
  /\ ClientPoints = SyncPoints
  /\ NoOne \notin Threads

-----------------------------------------------------------------------------
Goto(p) ==
  /\ stack' = SetTop(At(p))
  /\ UNCHANGED <<lists, current_tcb, current_context, cpu, quantum, fault>>

(* Mutant: the list is reinitialised after its first thread has been moved.*)
DrainedFirst(ls, l) ==
  [ls EXCEPT ![RQ] = IF ls[l] = <<>> THEN @ ELSE Append(@, Head(ls[l])),
             ![l] = <<>>]

(* list_for_each_safe: every thread of list l goes to the run queue.       *)
Drained(ls, l) == [ls EXCEPT ![RQ] = @ \o ls[l], ![l] = <<>>]

(* A call of mutex_lock,                                                   *)
MutexLock == Running /\ Goto("lock") /\ UNCHANGED spin_lock

(* Mutant: the test and the set of the lock word are two steps, and the    *)
(* test alone decides.                                                     *)
TryLockNoTest ==
  /\ Executing("lock")
  /\ Goto("crit")
  /\ spin_lock' = TRUE

(* spin_try_lock: one xchg.                                                *)
TryLock ==
  /\ Executing("lock")
  /\ Goto(IF spin_lock THEN "block" ELSE "crit")
  /\ spin_lock' = TRUE

(* The thread puts itself on the lazy list of the mutex, and will try      *)
(* again when resumed.                                                     *)
Block ==
  /\ Executing("block")
  /\ Schedule(lists, "mutex", "lock")
  /\ UNCHANGED spin_lock

MutexTrylock ==
  /\ Running
  /\ Goto(IF spin_lock THEN "run" ELSE "crit")
  /\ spin_lock' = TRUE

(* mutex_unlock, with interrupts disabled: all the waiters go back to the  *)
(* run queue, and the lock is released.                                    *)
MutexUnlock ==
  /\ Executing("crit")
  /\ lists' = Drained(lists, "mutex")
  /\ stack' = SetTop(At("run"))
  /\ spin_lock' = FALSE
  /\ UNCHANGED <<current_tcb, current_context, cpu, quantum, fault>>

Signalling == Running \/ Executing("crit")

(* Mutant: the thread woken is the one that has slept least.               *)
CondvarSignalLast ==
  /\ Signalling
  /\ lists["condvar"] # <<>>
  /\ lists' = [lists EXCEPT !["condvar"] = Front(@), ![RQ] = Append(@, Last(lists["condvar"]))]
  /\ UNCHANGED <<current_tcb, current_context, cpu, quantum, stack, fault, spin_lock>>

CondvarSignal ==
  /\ Signalling
  /\ lists["condvar"] # <<>>
  /\ lists' = [lists EXCEPT !["condvar"] = Tail(@), ![RQ] = Append(@, Head(lists["condvar"]))]
  /\ UNCHANGED <<current_tcb, current_context, cpu, quantum, stack, fault, spin_lock>>

CondvarBroadcast ==
  /\ Signalling
  /\ lists' = Drained(lists, "condvar")
  /\ UNCHANGED <<current_tcb, current_context, cpu, quantum, stack, fault, spin_lock>>

(* Mutant: the caller is resumed without taking the mutex back.            *)
CondvarWaitNoRelock ==
  /\ Executing("crit")
  /\ Schedule(Drained(lists, "mutex"), "condvar", "crit")
  /\ spin_lock' = FALSE

(* condvar_wait: unlock, and leave the processor for the list of the       *)
(* condition variable, in one critical section; then mutex_lock.           *)
CondvarWait ==
  /\ Executing("crit")
  /\ Schedule(Drained(lists, "mutex"), "condvar", "lock")
  /\ spin_lock' = FALSE

-----------------------------------------------------------------------------
Init == SchedInit /\ spin_lock = FALSE

SchedStep == KernelStep \/ Yield \/ Tick \/ ThreadReturned
               \/ \E t \in Threads : ThreadCreate(t)

Next ==
  \/ (SchedStep \/ Halted) /\ UNCHANGED spin_lock
  \/ MutexLock \/ TryLock \/ Block \/ MutexTrylock \/ MutexUnlock
  \/ CondvarSignal \/ CondvarBroadcast \/ CondvarWait

Spec == Init /\ [][Next]_vars

(* The processor executes the code of the kernel, the timer keeps ticking, *)
(* and a thread that holds the mutex gives it up.                          *)
FairSpec ==
  /\ Spec
  /\ WF_vars(KernelStep /\ UNCHANGED spin_lock)
  /\ WF_vars(Tick /\ UNCHANGED spin_lock)
  /\ WF_vars(TryLock)
  /\ WF_vars(Block)
  /\ SF_vars(MutexUnlock)

-----------------------------------------------------------------------------
TypeOK == SchedTypeOK /\ spin_lock \in BOOLEAN

(* The frames that own the mutex.                                          *)
Holding(t) == \E i \in DOMAIN stack[t] : stack[t][i].at = "crit"

(* At most one thread is between mutex_lock and mutex_unlock, even when    *)
(* the scheduler has lost track of who runs.                               *)
MutualExclusion ==
  \A t, u \in Threads : Holding(t) /\ Holding(u) => t = u

(* A thread that has not returned is on some list: nobody takes a thread   *)
(* off one list without putting it on another, until a tick has ended a    *)
(* quantum in the window and another thread is unlinked than the one that  *)
(* runs.                                                                   *)
NobodyForgotten ==
  fault = "none" =>
    \A t \in Threads : Created(t) /\ ~Finished(t) => Linked(t)

(* mutex.h:10, lazy_list stores the threads that wait on the mutex: no     *)
(* thread stays there for ever while the mutex is free and nothing else    *)
(* has gone wrong.                                                         *)
NoWaitOnFreeMutex ==
  \A t \in Threads :
    []<>(\/ fault # "none"
         \/ spin_lock
         \/ \A i \in DOMAIN lists["mutex"] : lists["mutex"][i] # t)

owner == IF \E t \in Threads : Holding(t)
         THEN CHOOSE t \in Threads : Holding(t)
         ELSE NoOne

(* The threads between mutex_lock and mutex_unlock.                        *)
holders == {t \in Threads : Holding(t)}

(* The mutex keeps its promise: the section it protects is entered when    *)
(* nobody is inside, by one thread, left by that thread, and never handed  *)
(* from one thread to another.                                             *)
MutexSpec == INSTANCE MutexPromise WITH inside <- holders
ImplementsLock == MutexSpec!Promise

(* Mutex and condition variable are a monitor: condvar_wait releases and   *)
(* falls asleep in one step, so that no signal can be lost in between, and *)
(* signals wake the right threads in the order they fell asleep; until a   *)
(* tick has ended a quantum in the window, the copied one of condvar_wait  *)
(* included.                                                               *)
MonitorSpec == INSTANCE Monitor WITH sleepers <- lists["condvar"], void <- fault # "none"
ImplementsMonitor == MonitorSpec!Spec

-----------------------------------------------------------------------------
(* The inductive invariant behind mutual exclusion.  A frame in the window *)
(* never goes on inside the critical section, and as long as the kernel    *)
(* goes on a thread is in it only while the lock word is set.  (When       *)
(* condvar_wait runs off an empty run queue the lock word is cleared and   *)
(* the thread has not left.)                                               *)
NoneResumesInside ==
  \A t \in Threads : \A i \in DOMAIN stack[t] :
    stack[t][i].then = "crit" => stack[t][i].at = "crit"

HeldIsLocked == Going => \A t \in Threads : Holding(t) => spin_lock

SyncInv ==
  /\ SchedInv
  /\ spin_lock \in BOOLEAN
  /\ NoneResumesInside
  /\ HeldIsLocked
  /\ MutualExclusion
=============================================================================
