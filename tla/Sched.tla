-------------------------------- MODULE Sched --------------------------------
(***************************************************************************)
(* The thread scheduler and dispatcher of the kernel: thread.c,            *)
(* dispatcher.c, the interrupt-level helpers of hal.h and the scheduling   *)
(* half of the timer interrupt.                                            *)
(*                                                                         *)
(* One CPU.  Code between hal_irql_set(IRQL_DISPATCH) and the matching     *)
(* hal_irql_restore runs with interrupts disabled, so it is one atomic     *)
(* action; everywhere else the timer interrupt may arrive between any two  *)
(* actions.  A thread has a kernel stack of frames: the bottom one is the  *)
(* thread's own code, the ones above are interrupt handlers that were      *)
(* interrupted or preempted.  A frame remembers the program point it is at *)
(* and, between the end of the critical section of the scheduler and the   *)
(* change of stack, the local variable `next' of the scheduler.            *)
(***************************************************************************)
EXTENDS Integers, Sequences, SequencesExt

CONSTANTS
  Threads,       \* every thread control block that may be created
  Idle,          \* idle_tcb
  Main,          \* the thread init.c creates to run main()
  WaitLists,     \* the lists other than the run queue a thread can wait on
  Sleepers,      \* the threads whose code calls thread_sleep
  ClientPoints,  \* program points of code that calls the scheduler
  Quantum,       \* THREAD_INITIAL_QUANTUM, in ticks
  MaxNest,       \* bound: preempted timer interrupts stacked on one thread
  Follow         \* bound: the same once the kernel has strayed; 0, it stops

ASSUME SchedAssumption ==
  /\ Idle \in Threads /\ Main \in Threads /\ Idle # Main
  /\ Sleepers \subseteq Threads
  /\ Quantum \in Nat \ {0}
  /\ MaxNest \in Nat \ {0}
  /\ Follow \in Nat
  /\ "runqueue" \notin WaitLists

VARIABLES
  lists,            \* the run queue and the wait lists, in order
  current_tcb,      \* thread.c: the thread the scheduler believes runs
  current_context,  \* dispatcher.c: the context it believes is loaded
  cpu,              \* the thread whose stack the processor really is on
  quantum,          \* ticks left to each thread
  stack,            \* the frames of each thread; <<>> if not yet created
  fault             \* "none", what went wrong first, or "lost"

schedVars ==
  <<lists, current_tcb, current_context, cpu, quantum, stack, fault>>

-----------------------------------------------------------------------------
RQ == "runqueue"
Lists == {RQ} \cup WaitLists

(* "switch" and "handover" are the window between hal_irql_restore in      *)
(* thread_schedule_preempted_in_list and the change of stack pointer:      *)
(* before and after dispatcher_switch_to has assigned current_context.     *)
Window == {"switch", "handover"}
Points ==
  {"first", "run", "slept", "exit", "gone", "expired", "iret"}
    \cup Window \cup ClientPoints

Frame == [at : Points, then : Points, next : Threads]

(* A frame with no pending switch; `then' and `next' are dead in it.       *)
At(p) == [at |-> p, then |-> p, next |-> Idle]

(* What the kernel may run into by itself.  "strayed" is a tick that has   *)
(* ended a quantum in the window: the scheduler is entered again before    *)
(* the stack has changed, for a thread that does not run yet.  The kernel  *)
(* goes on, up to the bound Follow; "lost" is what it runs into then.        *)
Faults == {"empty", "torn", "relinked", "unlinked"}
Strays == {"strayed", "lost"}
Going == fault = "none" \/ (fault = "strayed" /\ Follow > 0)
Nesting == IF fault = "none" THEN MaxNest ELSE Follow

Linked(t) == \E l \in Lists : \E i \in DOMAIN lists[l] : lists[l][i] = t
Created(t) == stack[t] # <<>>
Top == Last(stack[cpu])
InWindow == Top.at \in Window
Executing(p) == Going /\ Top.at = p
SetTop(f) == [stack EXCEPT ![cpu][Len(stack[cpu])] = f]

(* The kernel has run into undefined behaviour: nothing more is said of it.*)
Crash(f) ==
  /\ fault' = IF fault = "none" THEN f ELSE "lost"
  /\ UNCHANGED <<lists, current_tcb, current_context, cpu, quantum, stack>>

-----------------------------------------------------------------------------
(* Mutant: the thread is linked to l and not unlinked from the run queue.  *)
RequeuedStillLinked(ls, l) == [ls EXCEPT ![l] = Append(@, Head(ls[RQ]))]

(* Mutant: list_add for list_add_tail, the thread goes to the front of l.  *)
RequeuedInFront(ls, l) ==
  LET left == [ls EXCEPT ![RQ] = Tail(@)]
  IN  [left EXCEPT ![l] = <<Head(ls[RQ])>> \o @]

(* The head of the run queue is unlinked and appended to list l.           *)
Requeued(ls, l) ==
  LET left == [ls EXCEPT ![RQ] = Tail(@)]
  IN  [left EXCEPT ![l] = Append(@, Head(ls[RQ]))]

Renew(t) == [quantum EXCEPT ![t] = IF @ <= 0 THEN Quantum ELSE @]

(* Mutant: current_tcb is left alone.                                      *)
ScheduleKeepCurrent(ls, l, then) ==
  LET moved == Requeued(ls, l)
      next == Head(moved[RQ]) IN
  /\ lists' = moved
  /\ quantum' = Renew(next)
  /\ stack' = SetTop([at |-> "switch", then |-> then, next |-> next])
  /\ UNCHANGED <<current_tcb, current_context, cpu, fault>>

(* The critical section of thread_schedule_preempted_in_list(l), from list *)
(* contents ls; the caller continues at `then' when it is next resumed.    *)
(* With nobody left on the run queue `next' is computed from the list head *)
(* itself and is no thread at all.                                         *)
Schedule(ls, l, then) ==
  IF ls[RQ] = <<>> \/ Requeued(ls, l)[RQ] = <<>>
  THEN Crash("empty")
  ELSE LET next == Head(Requeued(ls, l)[RQ]) IN
       /\ lists' = Requeued(ls, l)
       /\ current_tcb' = next
       /\ quantum' = Renew(next)
       /\ stack' = SetTop([at |-> "switch", then |-> then, next |-> next])
       /\ UNCHANGED <<current_context, cpu, fault>>

(* dispatcher_switch_to up to the assignment of current_context.  The      *)
(* registers will be saved in the context that was current: if that is not *)
(* the running thread's, the one saved there before is lost.               *)
DispatcherSwitchTo ==
  /\ Executing("switch")
  /\ IF current_context # cpu
     THEN Crash("torn")
     ELSE /\ current_context' = Top.next
          /\ stack' = SetTop([Top EXCEPT !.at = "handover"])
          /\ UNCHANGED <<lists, current_tcb, cpu, quantum, fault>>

(* __dispatcher_switch_to: the stack pointer changes.                      *)
SwitchStack ==
  /\ Executing("handover")
  /\ cpu' = Top.next
  /\ stack' = SetTop(At(Top.then))
  /\ UNCHANGED <<lists, current_tcb, current_context, quantum, fault>>

-----------------------------------------------------------------------------
(* A tick may come whenever interrupts are enabled.  One that exhausts     *)
(* nothing has the same effect before or after the scheduler's window, so  *)
(* within it only the exhausting one is considered.                        *)
Ticking == Going /\ (InWindow => quantum[current_tcb] <= 1)

(* thread_timer_hook, run by the timer interrupt: the tick is charged to   *)
(* current_tcb, and when nothing is left interrupts are enabled ("expired")*)
(* and thread_schedule is called.                                          *)
ThreadTimerHook ==
  LET left == quantum[current_tcb] - 1 IN
  /\ fault' = IF InWindow THEN "strayed" ELSE fault
  /\ quantum' = [quantum EXCEPT ![current_tcb] = left]
  /\ IF left > 0
     THEN UNCHANGED stack
     ELSE /\ Len(stack[cpu]) <= Nesting
          /\ stack' = [stack EXCEPT ![cpu] = Append(@, At("expired"))]

Tick ==
  /\ Ticking
  /\ ThreadTimerHook
  /\ UNCHANGED <<lists, current_tcb, current_context, cpu>>

TimerSchedule == Executing("expired") /\ Schedule(lists, RQ, "iret")

(* The interrupt handler returns to the code it interrupted.               *)
TimerReturn ==
  /\ Executing("iret")
  /\ stack' = [stack EXCEPT ![cpu] = Front(@)]
  /\ UNCHANGED <<lists, current_tcb, current_context, cpu, quantum, fault>>

(* idle_thread: the first context switch, then it loops for ever.          *)
IdleFirstSchedule == Executing("first") /\ Schedule(lists, RQ, "run")

-----------------------------------------------------------------------------
(* What the code of a thread may do, at any time: call thread_schedule,    *)
Running == Executing("run") /\ cpu # Idle

Yield == Running /\ Schedule(lists, RQ, "run")

(* Mutant: the new thread is linked before it has a stack.                 *)
ThreadCreateNoStack(t) ==
  /\ Running
  /\ ~Created(t) /\ ~Linked(t)
  /\ quantum' = [quantum EXCEPT ![t] = Quantum]
  /\ lists' = [lists EXCEPT ![RQ] = Append(@, t)]
  /\ UNCHANGED <<current_tcb, current_context, cpu, stack, fault>>

(* create a thread,                                                        *)
ThreadCreate(t) ==
  /\ Running
  /\ ~Created(t)
  /\ stack' = [stack EXCEPT ![t] = <<At("run")>>]
  /\ quantum' = [quantum EXCEPT ![t] = Quantum]
  /\ lists' = [lists EXCEPT ![RQ] = Append(@, t)]
  /\ UNCHANGED <<current_tcb, current_context, cpu, fault>>

(* Mutant: thread_returned does not unlink the thread.                     *)
ThreadReturnedStillLinked ==
  /\ Running
  /\ stack' = SetTop(At("exit"))
  /\ UNCHANGED <<lists, current_tcb, current_context, cpu, quantum, fault>>

(* return from its function: thread_returned unlinks the head of the run   *)
(* queue with interrupts disabled, then calls thread_schedule,             *)
ThreadReturned ==
  /\ Running
  /\ IF lists[RQ] = <<>>
     THEN Crash("empty")
     ELSE /\ lists' = [lists EXCEPT ![RQ] = Tail(@)]
          /\ stack' = SetTop(At("exit"))
          /\ UNCHANGED <<current_tcb, current_context, cpu, quantum, fault>>

ReturnedSchedule == Executing("exit") /\ Schedule(lists, RQ, "gone")

(* or sleep: thread_sleep(thread_current()) unlinks the thread with        *)
(* interrupts disabled, then calls thread_schedule if it still is current. *)
SleepCurrent ==
  IF ~Linked(current_tcb)
  THEN Crash("unlinked")
  ELSE \E l \in Lists : \E i \in DOMAIN lists[l] :
         /\ lists[l][i] = current_tcb
         /\ lists' = [lists EXCEPT ![l] = RemoveAt(@, i)]
         /\ stack' = SetTop([At("slept") EXCEPT !.next = current_tcb])
         /\ UNCHANGED <<current_tcb, current_context, cpu, quantum, fault>>

ThreadSleep == Running /\ cpu \in Sleepers /\ SleepCurrent

SleepSchedule ==
  /\ Executing("slept")
  /\ IF Top.next = current_tcb
     THEN Schedule(lists, RQ, "run")
     ELSE /\ stack' = SetTop(At("run"))
          /\ UNCHANGED <<lists, current_tcb, current_context, cpu, quantum, fault>>

(* thread_wake.  Linking a thread that already is on a list destroys it.   *)
ThreadWake(t) ==
  IF Linked(t)
  THEN Crash("relinked")
  ELSE /\ lists' = [lists EXCEPT ![RQ] = Append(@, t)]
       /\ UNCHANGED <<current_tcb, current_context, cpu, quantum, stack, fault>>

(* A thread that sleeps, or is on its way to: unlinked, and not returned.  *)
Finished(t) ==
  Created(t) /\ (stack[t][1].at \in {"exit", "gone"} \/ stack[t][1].then = "gone")
Asleep(t) == Created(t) /\ ~Linked(t) /\ ~Finished(t)

-----------------------------------------------------------------------------
(* The state in which init.c jumps to the idle thread.                     *)
SchedInit ==
  /\ lists = [l \in Lists |-> IF l = RQ THEN <<Idle, Main>> ELSE <<>>]
  /\ current_tcb = Idle
  /\ current_context = Idle
  /\ cpu = Idle
  /\ quantum = [t \in Threads |-> Quantum]
  /\ stack = [t \in Threads |-> CASE t = Idle -> <<At("first")>>
                                  [] t = Main -> <<At("run")>>
                                  [] OTHER -> <<>>]
  /\ fault = "none"

(* Steps the processor takes by itself,                                    *)
KernelStep ==
  \/ DispatcherSwitchTo
  \/ SwitchStack
  \/ TimerSchedule
  \/ TimerReturn
  \/ IdleFirstSchedule
  \/ ReturnedSchedule
  \/ SleepSchedule

(* and steps the code of a thread may choose to take.                      *)
ClientStep ==
  \/ Yield
  \/ \E t \in Threads : ThreadCreate(t)
  \/ ThreadReturned
  \/ ThreadSleep

Wake == Going /\ \E t \in Threads : Asleep(t) /\ ThreadWake(t)

(* A kernel that has run into undefined behaviour has no next step.        *)
Halted == ~Going /\ UNCHANGED schedVars

SchedNext == KernelStep \/ ClientStep \/ Tick \/ Wake \/ Halted

SchedSpec == SchedInit /\ [][SchedNext]_schedVars

(* The processor executes the kernel's code, and the timer keeps ticking.  *)
SchedFairSpec ==
  /\ SchedSpec
  /\ WF_schedVars(KernelStep)
  /\ WF_schedVars(Tick)

-----------------------------------------------------------------------------
(* Type correctness; the processor is on the stack of a created thread.    *)
SchedTypeOK ==
  /\ lists \in [Lists -> Seq(Threads)]
  /\ current_tcb \in Threads
  /\ current_context \in Threads
  /\ cpu \in Threads
  /\ quantum \in [Threads -> Int]
  /\ stack \in [Threads -> Seq(Frame)]
  /\ stack[cpu] # <<>>
  /\ fault \in Faults \cup Strays \cup {"none"}

(* To the code of a thread, thread_current() is that thread, and the       *)
(* context the dispatcher will save into is its own; as long as no tick    *)
(* has ended a quantum between the choice of the next thread and the       *)
(* change of stack.                                                        *)
CurrentIsRunning ==
  fault = "none" /\ Len(stack[cpu]) = 1 /\ ~InWindow =>
    current_tcb = cpu /\ current_context = cpu

(* No list is corrupted, no context is lost, no dead thread is resumed and *)
(* the run queue never runs dry, however threads come, sleep and go: the   *)
(* only way to any of these is the tick that ends a quantum in the window. *)
NoUndefined == fault \notin Faults /\ (fault = "none" => Top.at # "gone")

(* A thread is linked at most once, in at most one list: run_list is the   *)
(* single link field that the run queue and all wait lists share.          *)
LinkedOnce ==
  Going =>
    \A k, l \in Lists : \A i \in DOMAIN lists[k], j \in DOMAIN lists[l] :
      lists[k][i] = lists[l][j] => k = l /\ i = j

(* Every thread on the run queue gets the processor, however it came there *)
(* and however often threads yield or the timer preempts them; unless      *)
(* threads call thread_sleep for ever: each call, which unlinks the caller *)
(* before it schedules, costs the next thread its turn; or a tick ends a   *)
(* quantum in the window, and the scheduler forgets who runs.              *)
NoStarvation ==
  \/ []<>(Top.at = "slept")
  \/ <>(fault = "strayed")
  \/ \A t \in Threads : (\E i \in DOMAIN lists[RQ] : lists[RQ][i] = t) ~> (cpu = t)

-----------------------------------------------------------------------------
(* The inductive invariant behind SchedTypeOK and behind what is proved of *)
(* the mutex.  Only created threads are linked or switched to, so that the *)
(* processor never lands on a stack that does not exist; the bottom frame  *)
(* of a stack is thread code and all the others are timer handlers, so     *)
(* that a handler always has a frame to return to.                         *)
Handler == {"expired", "iret"}
Born(st) == {t \in Threads : st[t] # <<>>}

ThreadFrame(f) == f.at \notin Handler /\ f.then \notin Handler
HandlerFrame(f) == f.at \in Handler \cup Window /\ f.then \in Handler

FramesOK(st) ==
  \A t \in Threads : \A i \in 1 .. Len(st[t]) :
    /\ st[t][i].next \in Born(st)
    /\ i = 1 => ThreadFrame(st[t][i])
    /\ i > 1 => HandlerFrame(st[t][i])

StackOK(st) == st \in [Threads -> Seq(Frame)] /\ FramesOK(st) /\ Idle \in Born(st)
ListsOK(ls, st) == ls \in [Lists -> Seq(Born(st))]

SchedInv ==
  /\ StackOK(stack)
  /\ ListsOK(lists, stack)
  /\ current_tcb \in Born(stack)
  /\ current_context \in Born(stack)
  /\ cpu \in Born(stack)
  /\ quantum \in [Threads -> Int]
  /\ fault \in Faults \cup Strays \cup {"none"}

-----------------------------------------------------------------------------
(* The inductive invariant behind CurrentIsRunning and NoUndefined, until  *)
(* a quantum ends in the window.  The lists share no thread, hold none     *)
(* that has returned, and the idle thread never leaves the run queue, so   *)
(* that it never runs dry.                                                 *)
Alive(st) == {t \in Born(st) : st[t][1].at \notin {"exit", "gone"} /\ st[t][1].then # "gone"}

Once(ls) ==
  \A k, l \in Lists : \A i \in DOMAIN ls[k], j \in DOMAIN ls[l] :
    ls[k][i] = ls[l][j] => k = l /\ i = j

QueuesOK(ls, st) ==
  /\ ls \in [Lists -> Seq(Alive(st))]
  /\ Once(ls)
  /\ \E i \in DOMAIN ls[RQ] : ls[RQ][i] = Idle

(* Between unlinking itself and scheduling.                                *)
Unlinking == {"exit", "slept"}

(* Only the frame the processor is at is in the window; no thread resumes  *)
(* where it had left the lists; a sleeper has unlinked itself; the idle    *)
(* thread only schedules.                                                  *)
PlacesOK(st, c) ==
  /\ \A t \in Threads : \A i \in DOMAIN st[t] : st[t][i].at \in Window => t = c /\ i = Len(st[t])
  /\ \A t \in Born(st) :
       /\ st[t][1].at \in Window => st[t][1].then \notin Unlinking \cup Window
       /\ st[t][1].at = "slept" => st[t][1].next = t /\ st[t][1].then = "slept"
  /\ st[Idle][1].at \in {"first", "run"} \cup Window /\ st[Idle][1].then \in {"first", "run"}

(* The scheduler, the dispatcher and the processor agree on who runs, and  *)
(* that thread is at the head of the run queue, unless it has just         *)
(* unlinked itself; it has not returned.                                   *)
RunnerOK ==
  /\ current_tcb = IF InWindow THEN Top.next ELSE cpu
  /\ current_context = IF Top.at = "handover" THEN Top.next ELSE cpu
  /\ InWindow \/ stack[cpu][1].at \notin Unlinking => Head(lists[RQ]) = current_tcb
  /\ stack[cpu][1].at # "gone"

RunOK == QueuesOK(lists, stack) /\ PlacesOK(stack, cpu) /\ RunnerOK
RunInv == fault = "none" /\ RunOK
UntilStrayed == fault \in Strays \/ RunInv
=============================================================================
