------------------------------ MODULE SyncProofs ------------------------------
(***************************************************************************)
(* The mutex excludes, and implements a lock, for any number of threads,   *)
(* with the timer interrupt anywhere, the scheduler's window included.     *)
(* When no tick lands in that window, nobody is forgotten on a list, and   *)
(* mutex and condition variable together implement a monitor.              *)
(***************************************************************************)
EXTENDS Sync, SchedProofs

(* A step that leaves every owner and every non-owner what it was.         *)
Quiet ==
  /\ NoneResumesInside'
  /\ \A t \in Threads : Holding(t)' <=> Holding(t)

(* The program points of the clients are program points.                   *)
LEMMA PointsOfSync ==
  /\ {"lock", "block", "crit", "run"} \subseteq Points \ Handler
  /\ {"mutex", "condvar", RQ} \subseteq Lists
BY SyncAssumption DEF Points, SyncPoints, Handler, Lists

(* What replacing the top frame does to the set of owners.                 *)
LEMMA SetTopHolding ==
  ASSUME SyncInv, NEW f, stack' = SetTop(f),
         f.then = "crit" => f.at = "crit",
         NEW t \in Threads
  PROVE  /\ NoneResumesInside'
         /\ t # cpu => (Holding(t)' <=> Holding(t))
         /\ t = cpu /\ f.at # "crit" /\ Top.at # "crit" => (Holding(t)' <=> Holding(t))
         /\ t = cpu /\ f.at = "crit" => Holding(t)'
         /\ t = cpu /\ Top.at = "crit" => Holding(t)
         /\ t = cpu /\ Len(stack[cpu]) = 1 /\ f.at # "crit" => ~Holding(t)'
<1> DEFINE n == Len(stack[cpu])
<1>1. /\ cpu \in Threads /\ stack[cpu] \in Seq(Frame) /\ n \in Nat \ {0}
      /\ Top = stack[cpu][n]
  BY TopFrame DEF SyncInv, SchedInv
<1>2. /\ \A u \in Threads : u # cpu => stack'[u] = stack[u]
      /\ stack'[cpu] \in Seq(Frame \cup {f})
      /\ Len(stack'[cpu]) = n
      /\ \A j \in 1 .. n : stack'[cpu][j] = IF j = n THEN f ELSE stack[cpu][j]
  BY SetTopFrames DEF SyncInv, SchedInv
<1>3. DOMAIN stack'[cpu] = 1 .. n /\ DOMAIN stack[cpu] = 1 .. n /\ n \in 1 .. n
  BY <1>1, <1>2
<1>4. NoneResumesInside'
  <2> SUFFICES ASSUME NEW u \in Threads, NEW i \in DOMAIN stack'[u],
                      stack'[u][i].then = "crit"
               PROVE  stack'[u][i].at = "crit"
    BY DEF NoneResumesInside
  <2>1. CASE u = cpu
    BY <1>2, <1>3, <2>1 DEF SyncInv, NoneResumesInside
  <2>2. CASE u # cpu
    BY <1>2, <2>2 DEF SyncInv, NoneResumesInside
  <2>3. QED
    BY <2>1, <2>2
<1>5. t # cpu => (Holding(t)' <=> Holding(t))
  BY <1>2 DEF Holding
<1>6. ASSUME t = cpu, f.at # "crit", Top.at # "crit"
      PROVE  Holding(t)' <=> Holding(t)
  BY <1>1, <1>2, <1>3, <1>6 DEF Holding
<1>7. t = cpu /\ f.at = "crit" => Holding(t)'
  BY <1>2, <1>3 DEF Holding
<1>8. t = cpu /\ Top.at = "crit" => Holding(t)
  BY <1>1, <1>3 DEF Holding
<1>9. ASSUME t = cpu, n = 1, f.at # "crit"
      PROVE  ~Holding(t)'
  <2>1. 1 .. 1 = {1}
    OBVIOUS
  <2>2. \A i \in DOMAIN stack'[cpu] : i = n
    BY <1>3, <1>9, <2>1
  <2>3. QED
    BY <1>2, <1>3, <1>9, <2>2 DEF Holding
<1>10. QED
  BY <1>4, <1>5, <1>6, <1>7, <1>8, <1>9

LEMMA QuietSetTop ==
  ASSUME SyncInv, NEW f, stack' = SetTop(f),
         f.at # "crit", f.then # "crit", Top.at # "crit"
  PROVE  Quiet
<1>1. \A t \in Threads : NoneResumesInside' /\ (Holding(t)' <=> Holding(t))
  BY SetTopHolding
<1>2. Idle \in Threads
  BY SchedAssumption
<1>3. QED
  BY <1>1, <1>2 DEF Quiet

LEMMA QuietGoto ==
  ASSUME SyncInv, NEW p, stack' = SetTop(At(p)), p # "crit", Top.at # "crit"
  PROVE  Quiet
<1>1. At(p).at # "crit" /\ At(p).then # "crit"
  BY DEF At
<1>2. QED
  BY <1>1, QuietSetTop

LEMMA QuietStutter ==
  ASSUME SyncInv, UNCHANGED stack
  PROVE  Quiet
BY DEF Quiet, SyncInv, NoneResumesInside, Holding

LEMMA QuietSchedule ==
  ASSUME SyncInv, NEW ls, NEW l, NEW then, Schedule(ls, l, then),
         then # "crit", Top.at # "crit"
  PROVE  Quiet
<1>1. CASE ls[RQ] = <<>> \/ Requeued(ls, l)[RQ] = <<>>
  BY <1>1, QuietStutter DEF Schedule, Crash
<1>2. CASE ~(ls[RQ] = <<>> \/ Requeued(ls, l)[RQ] = <<>>)
  <2> DEFINE f == [at |-> "switch", then |-> then, next |-> Head(Requeued(ls, l)[RQ])]
  <2>1. stack' = SetTop(f)
    BY <1>2 DEF Schedule
  <2>2. f.at # "crit" /\ f.then # "crit"
    OBVIOUS
  <2>3. QED
    BY <2>1, <2>2, QuietSetTop
<1>3. QED
  BY <1>1, <1>2

-----------------------------------------------------------------------------
(* The steps of the scheduler.                                             *)

LEMMA QuietTick ==
  ASSUME SyncInv, Tick
  PROVE  Quiet
<1> DEFINE f == At("expired")
           n == Len(stack[cpu])
<1>1. CASE UNCHANGED stack
  BY <1>1, QuietStutter
<1>2. CASE stack' = [stack EXCEPT ![cpu] = Append(@, f)]
  <2>1. /\ cpu \in Threads /\ stack[cpu] \in Seq(Frame) /\ n \in Nat
        /\ stack \in [Threads -> Seq(Frame)]
    BY TopFrame DEF SyncInv, SchedInv, StackOK
  <2>2. f.at # "crit" /\ f.then # "crit"
    BY DEF At
  <2>3. /\ DOMAIN Append(stack[cpu], f) = 1 .. n + 1
        /\ DOMAIN stack[cpu] = 1 .. n
        /\ \A i \in 1 .. n + 1 :
             Append(stack[cpu], f)[i] = IF i = n + 1 THEN f ELSE stack[cpu][i]
    BY <2>1
  <2>4. /\ stack'[cpu] = Append(stack[cpu], f)
        /\ \A t \in Threads : t # cpu => stack'[t] = stack[t]
    BY <1>2, <2>1
  <2>5. \A i \in 1 .. n + 1 : i \in 1 .. n \/ i = n + 1
    BY <2>1
  <2>6. \A i \in 1 .. n : i \in 1 .. n + 1 /\ i # n + 1
    BY <2>1
  <2>7. NoneResumesInside'
    <3> SUFFICES ASSUME NEW t \in Threads, NEW i \in DOMAIN stack'[t],
                        stack'[t][i].then = "crit"
                 PROVE  stack'[t][i].at = "crit"
      BY DEF NoneResumesInside
    <3>1. CASE t = cpu
      BY <2>2, <2>3, <2>4, <2>5, <3>1 DEF SyncInv, NoneResumesInside
    <3>2. CASE t # cpu
      BY <2>4, <3>2 DEF SyncInv, NoneResumesInside
    <3>3. QED
      BY <3>1, <3>2
  <2>8. ASSUME NEW t \in Threads
        PROVE  Holding(t)' <=> Holding(t)
    <3>1. CASE t = cpu
      BY <2>2, <2>3, <2>4, <2>5, <2>6, <3>1 DEF Holding
    <3>2. CASE t # cpu
      BY <2>4, <3>2 DEF Holding
    <3>3. QED
      BY <3>1, <3>2
  <2>9. QED
    BY <2>7, <2>8 DEF Quiet
<1>3. QED
  BY <1>1, <1>2 DEF Tick, ThreadTimerHook

LEMMA QuietTimerReturn ==
  ASSUME SyncInv, TimerReturn
  PROVE  Quiet
<1> DEFINE n == Len(stack[cpu])
<1>1. /\ cpu \in Threads /\ stack[cpu] \in Seq(Frame) /\ n \in Nat
      /\ stack \in [Threads -> Seq(Frame)]
      /\ Top = stack[cpu][n] /\ Top.at = "iret"
  BY TopFrame DEF SyncInv, SchedInv, StackOK, TimerReturn, Executing
<1>2. n > 1
  BY Depth DEF TimerReturn, Executing, Handler, SyncInv
<1>3. /\ DOMAIN Front(stack[cpu]) = 1 .. n - 1
      /\ DOMAIN stack[cpu] = 1 .. n
      /\ \A i \in 1 .. n - 1 : Front(stack[cpu])[i] = stack[cpu][i]
  <2>1. \A i \in 1 .. n - 1 : stack[cpu][i] \in Frame
    BY <1>1, ElementOfSeq
  <2>2. QED
    BY <1>1, <1>2, <2>1, SubSeqProperties DEF Front
<1>4. /\ stack'[cpu] = Front(stack[cpu])
      /\ \A t \in Threads : t # cpu => stack'[t] = stack[t]
  BY <1>1 DEF TimerReturn
<1>5. /\ \A i \in 1 .. n : i \in 1 .. n - 1 \/ i = n
      /\ \A i \in 1 .. n - 1 : i \in 1 .. n
  BY <1>1, <1>2
<1>6. NoneResumesInside'
  <2> SUFFICES ASSUME NEW t \in Threads, NEW i \in DOMAIN stack'[t],
                      stack'[t][i].then = "crit"
               PROVE  stack'[t][i].at = "crit"
    BY DEF NoneResumesInside
  <2>1. i \in DOMAIN stack[t] /\ stack'[t][i] = stack[t][i]
    <3>1. CASE t = cpu
      BY <1>3, <1>4, <1>5, <3>1
    <3>2. CASE t # cpu
      BY <1>4, <3>2
    <3>3. QED
      BY <3>1, <3>2
  <2>2. QED
    BY <2>1 DEF SyncInv, NoneResumesInside
<1>7. ASSUME NEW t \in Threads
      PROVE  Holding(t)' <=> Holding(t)
  <2>1. CASE t = cpu
    BY <1>1, <1>3, <1>4, <1>5, <2>1 DEF Holding
  <2>2. CASE t # cpu
    BY <1>4, <2>2 DEF Holding
  <2>3. QED
    BY <2>1, <2>2
<1>8. QED
  BY <1>6, <1>7 DEF Quiet

LEMMA QuietSwitchStack ==
  ASSUME SyncInv, SwitchStack
  PROVE  Quiet
<1>1. /\ Top = stack[cpu][Len(stack[cpu])]
      /\ Len(stack[cpu]) \in DOMAIN stack[cpu]
      /\ cpu \in Threads
      /\ Top.at = "handover"
  BY TopFrame DEF SyncInv, SchedInv, SwitchStack, Executing
<1>2. Top.then # "crit"
  BY <1>1 DEF SyncInv, NoneResumesInside
<1>3. QED
  BY <1>1, <1>2, QuietGoto DEF SwitchStack

LEMMA QuietThreadCreate ==
  ASSUME SyncInv, NEW t \in Threads, ThreadCreate(t)
  PROVE  Quiet
<1> DEFINE f == At("run")
<1>1. f.at # "crit" /\ f.then # "crit"
  BY DEF At
<1>2. /\ stack[t] = <<>> /\ stack'[t] = <<f>>
      /\ \A u \in Threads : u # t => stack'[u] = stack[u]
  BY DEF ThreadCreate, Created, SyncInv, SchedInv, StackOK
<1>3. DOMAIN <<f>> = {1} /\ <<f>>[1] = f
  OBVIOUS
<1>4. NoneResumesInside'
  BY <1>1, <1>2, <1>3 DEF SyncInv, NoneResumesInside
<1>5. ASSUME NEW u \in Threads
      PROVE  Holding(u)' <=> Holding(u)
  <2>1. CASE u = t
    <3>1. ~Holding(t)
      BY <1>2 DEF Holding
    <3>2. ~Holding(t)'
      BY <1>1, <1>2, <1>3 DEF Holding
    <3>3. QED
      BY <2>1, <3>1, <3>2
  <2>2. CASE u # t
    BY <1>2, <2>2 DEF Holding
  <2>3. QED
    BY <2>1, <2>2
<1>6. QED
  BY <1>4, <1>5 DEF Quiet

(* No step of the scheduler makes or unmakes an owner.                     *)
LEMMA QuietSchedStep ==
  ASSUME SyncInv, SchedStep
  PROVE  Quiet /\ SchedInv' /\ Going
<1>1. CASE DispatcherSwitchTo
  <2>1. CASE current_context # cpu
    BY <1>1, <2>1, QuietStutter, DispatcherSwitchToInv
       DEF SyncInv, DispatcherSwitchTo, Crash, Executing
  <2>2. CASE current_context = cpu
    <3> DEFINE f == [Top EXCEPT !.at = "handover"]
    <3>1. /\ Top \in Frame /\ Top.at = "switch" /\ stack' = SetTop(f)
          /\ Top = stack[cpu][Len(stack[cpu])]
          /\ Len(stack[cpu]) \in DOMAIN stack[cpu]
          /\ cpu \in Threads
      BY <1>1, <2>2, TopFrame DEF SyncInv, SchedInv, DispatcherSwitchTo, Executing
    <3>2. Top.then # "crit"
      BY <3>1 DEF SyncInv, NoneResumesInside
    <3>3. f.at # "crit" /\ f.then # "crit"
      BY <3>1, <3>2 DEF Frame
    <3>4. QED
      <4>1. Quiet
        BY <3>1, <3>3, QuietSetTop
      <4>2. QED
        BY <1>1, <4>1, DispatcherSwitchToInv DEF SyncInv, DispatcherSwitchTo, Executing
  <2>3. QED
    BY <1>1, <2>1, <2>2, DispatcherSwitchToInv DEF SyncInv, DispatcherSwitchTo, Executing
<1>2. CASE SwitchStack
  BY <1>2, QuietSwitchStack, SwitchStackInv DEF SyncInv, SwitchStack, Executing
<1>4. CASE TimerSchedule
  BY <1>4, QuietSchedule, TimerScheduleInv DEF SyncInv, TimerSchedule, Executing
<1>5. CASE TimerReturn
  BY <1>5, QuietTimerReturn, TimerReturnInv DEF SyncInv, TimerReturn, Executing
<1>6. CASE IdleFirstSchedule
  BY <1>6, QuietSchedule, KernelStepInv
     DEF SyncInv, KernelStep, IdleFirstSchedule, Executing
<1>7. CASE ReturnedSchedule
  BY <1>7, QuietSchedule, KernelStepInv
     DEF SyncInv, KernelStep, ReturnedSchedule, Executing
<1>8. CASE SleepSchedule
  BY <1>8, QuietSchedule, QuietGoto, SleepScheduleInv
     DEF SyncInv, SleepSchedule, Executing
<1>9. CASE Yield
  BY <1>9, QuietSchedule, YieldInv DEF SyncInv, Yield, Running, Executing
<1>10. CASE Tick
  BY <1>10, QuietTick, TickInv DEF SyncInv, Tick, Ticking
<1>11. CASE ThreadReturned
  BY <1>11, QuietStutter, QuietGoto, ThreadReturnedInv
     DEF SyncInv, ThreadReturned, Running, Executing, Crash
<1>12. ASSUME NEW t \in Threads, ThreadCreate(t)
       PROVE  Quiet /\ SchedInv' /\ Going
  BY <1>12, QuietThreadCreate, ThreadCreateInv DEF SyncInv, ThreadCreate, Running, Executing
<1>13. QED
  BY <1>1, <1>2, <1>4, <1>5, <1>6, <1>7, <1>8, <1>9, <1>10, <1>11, <1>12
     DEF SchedStep, KernelStep

-----------------------------------------------------------------------------
(* The steps of the mutex and of the condition variable.                   *)

(* What a step does to the ownership of the mutex.                         *)
Kept  == \A t \in Threads : Holding(t)' <=> Holding(t)
Taken == \A t \in Threads : ~Holding(t) /\ (Holding(t)' <=> t = cpu)
Left  == \A t \in Threads : (Holding(t) <=> t = cpu) /\ ~Holding(t)'

LEMMA KeptInv ==
  ASSUME SyncInv, SchedInv', Quiet, Going,
         spin_lock' \in BOOLEAN, spin_lock => spin_lock'
  PROVE  SyncInv' /\ Kept
<1>1. HeldIsLocked'
  BY DEF SyncInv, HeldIsLocked, Quiet
<1>2. MutualExclusion'
  BY DEF SyncInv, MutualExclusion, Quiet
<1>3. QED
  BY <1>1, <1>2 DEF SyncInv, Quiet, Kept

LEMMA TakenInv ==
  ASSUME SyncInv, SchedInv', Going, ~spin_lock, spin_lock' = TRUE,
         stack' = SetTop(At("crit"))
  PROVE  SyncInv' /\ Taken
<1>1. At("crit").at = "crit"
  BY DEF At
<1>2. \A t \in Threads : NoneResumesInside' /\ ~Holding(t) /\ (Holding(t)' <=> t = cpu)
  BY <1>1, SetTopHolding DEF SyncInv, HeldIsLocked
<1>3. NoneResumesInside'
  BY <1>2, SchedAssumption
<1>4. MutualExclusion'
  BY <1>2 DEF MutualExclusion
<1>5. HeldIsLocked'
  BY DEF HeldIsLocked
<1>6. QED
  BY <1>2, <1>3, <1>4, <1>5 DEF SyncInv, Taken

LEMMA LeftInv ==
  ASSUME SyncInv, SchedInv', spin_lock' = FALSE, Top.at = "crit",
         NEW f, stack' = SetTop(f), f.at # "crit", f.then # "crit"
  PROVE  SyncInv' /\ Left
<1>1. cpu \in Threads /\ Len(stack[cpu]) = 1
  BY TopFrame, Depth DEF SyncInv, SchedInv, Handler, Window
<1>2. \A t \in Threads :
        /\ NoneResumesInside'
        /\ t # cpu => (Holding(t)' <=> Holding(t))
        /\ t = cpu => Holding(t) /\ ~Holding(t)'
  BY <1>1, SetTopHolding
<1>3. \A t \in Threads : (Holding(t) <=> t = cpu) /\ ~Holding(t)'
  BY <1>1, <1>2 DEF SyncInv, MutualExclusion
<1>4. NoneResumesInside'
  BY <1>2, SchedAssumption
<1>5. MutualExclusion' /\ HeldIsLocked'
  BY <1>3 DEF MutualExclusion, HeldIsLocked
<1>6. QED
  BY <1>3, <1>4, <1>5 DEF SyncInv, Left

(* Waking every thread of a list keeps the lists well formed.              *)
LEMMA DrainedOK ==
  ASSUME SchedInv, NEW l \in Lists
  PROVE  ListsOK(Drained(lists, l), stack)
<1>1. lists \in [Lists -> Seq(Born(stack))] /\ RQ \in Lists
  BY ListsTyped DEF ListsOK
<1>2. lists[RQ] \o lists[l] \in Seq(Born(stack)) /\ <<>> \in Seq(Born(stack))
  BY <1>1, ConcatProperties
<1>3. QED
  BY <1>1, <1>2 DEF Drained, ListsOK

LEMMA GotoPoint ==
  ASSUME SchedInv, NEW p \in Points \ Handler, Goto(p),
         Top.at \notin Handler \cup Window
  PROVE  SchedInv'
<1>1. /\ At(p) \in Frame /\ At(p).next \in Born(stack)
      /\ ThreadFrame(At(p))
  BY PlainFrame DEF SchedInv, ThreadFrame
<1>2. QED
  BY <1>1, ThreadGotoInv, ListsTyped DEF Goto

LEMMA TryInv ==
  ASSUME SyncInv, Going, NEW p \in {"run", "block"},
         Top.at \in {"run", "lock"},
         Goto(IF spin_lock THEN p ELSE "crit"), spin_lock' = TRUE
  PROVE  SyncInv' /\ (Kept \/ Taken)
<1>1. Top.at \notin Handler \cup Window /\ Top.at # "crit"
  BY DEF Handler, Window
<1>2. p \in Points \ Handler /\ "crit" \in Points \ Handler /\ p # "crit"
  BY PointsOfSync
<1>3. CASE spin_lock
  <2>1. SchedInv'
    BY <1>1, <1>2, <1>3, GotoPoint DEF SyncInv
  <2>2. Quiet
    BY <1>1, <1>2, <1>3, QuietGoto DEF Goto
  <2>3. QED
    BY <2>1, <2>2, KeptInv
<1>4. CASE ~spin_lock
  <2>1. SchedInv'
    BY <1>1, <1>2, <1>4, GotoPoint DEF SyncInv
  <2>2. QED
    BY <1>4, <2>1, TakenInv DEF Goto
<1>5. QED
  BY <1>3, <1>4 DEF SyncInv

LEMMA MutexUnlockInv ==
  ASSUME SyncInv, MutexUnlock
  PROVE  SyncInv' /\ Left
<1>1. Top.at = "crit" /\ Top.at \notin Handler \cup Window
  BY DEF MutexUnlock, Executing, Handler, Window
<1> DEFINE f == At("run")
<1>2. /\ f \in Frame /\ f.next \in Born(stack) /\ f.at = "run" /\ f.then = "run"
      /\ ThreadFrame(f)
  BY PlainFrame, PointsOfSync DEF SyncInv, SchedInv, ThreadFrame
<1>3. SchedInv'
  BY <1>1, <1>2, PointsOfSync, DrainedOK, ThreadGotoInv DEF SyncInv, MutexUnlock
<1>4. QED
  BY <1>1, <1>2, <1>3, LeftInv DEF MutexUnlock

LEMMA CondvarWaitInv ==
  ASSUME SyncInv, CondvarWait
  PROVE  SyncInv' /\ (Kept \/ Left)
<1> DEFINE ls == Drained(lists, "mutex")
<1>1. /\ Top.at = "crit" /\ Top.at \notin Handler \cup Window
      /\ Schedule(ls, "condvar", "lock") /\ spin_lock' = FALSE
  BY DEF CondvarWait, Executing, Handler, Window
<1>2. ListsOK(ls, stack)
  BY PointsOfSync, DrainedOK DEF SyncInv
<1>3. SchedInv'
  BY <1>1, <1>2, PointsOfSync, ThreadScheduleInv DEF SyncInv
<1>4. CASE ls[RQ] = <<>> \/ Requeued(ls, "condvar")[RQ] = <<>>
  <2>1. UNCHANGED stack /\ ~Going'
    BY <1>1, <1>4 DEF Schedule, Crash, Going
  <2>2. Quiet
    BY <2>1, QuietStutter
  <2>3. MutualExclusion'
    BY <2>2 DEF SyncInv, MutualExclusion, Quiet
  <2>4. QED
    BY <1>1, <1>3, <2>1, <2>2, <2>3 DEF SyncInv, HeldIsLocked, Quiet, Kept
<1>5. CASE ~(ls[RQ] = <<>> \/ Requeued(ls, "condvar")[RQ] = <<>>)
  <2> DEFINE f == [at |-> "switch", then |-> "lock",
                   next |-> Head(Requeued(ls, "condvar")[RQ])]
  <2>1. stack' = SetTop(f) /\ f.at # "crit" /\ f.then # "crit"
    BY <1>1, <1>5 DEF Schedule
  <2>2. QED
    BY <1>1, <1>3, <2>1, LeftInv
<1>6. QED
  BY <1>4, <1>5

(* Signals move threads from list to list, and nothing else.               *)
LEMMA WakingInv ==
  ASSUME SyncInv, Going, ListsOK(lists', stack),
         UNCHANGED <<current_tcb, current_context, cpu, quantum, stack, fault, spin_lock>>
  PROVE  SyncInv' /\ Kept
<1>1. SchedInv'
  BY DEF SyncInv, SchedInv, StackOK, ListsOK
<1>2. QED
  BY <1>1, QuietStutter, KeptInv DEF SyncInv

LEMMA CondvarSignalInv ==
  ASSUME SyncInv, CondvarSignal
  PROVE  SyncInv' /\ Kept
<1>1. lists \in [Lists -> Seq(Born(stack))] /\ RQ \in Lists /\ "condvar" \in Lists
  BY PointsOfSync, ListsTyped DEF ListsOK, SyncInv
<1>2. /\ Tail(lists["condvar"]) \in Seq(Born(stack))
      /\ Head(lists["condvar"]) \in Born(stack)
  BY <1>1, HeadTailProperties DEF CondvarSignal
<1>3. Append(lists[RQ], Head(lists["condvar"])) \in Seq(Born(stack))
  BY <1>1, <1>2, AppendProperties
<1>4. ListsOK(lists', stack)
  BY <1>1, <1>2, <1>3 DEF CondvarSignal, ListsOK, RQ
<1>5. QED
  BY <1>4, WakingInv DEF CondvarSignal, Signalling, Running, Executing

LEMMA CondvarBroadcastInv ==
  ASSUME SyncInv, CondvarBroadcast
  PROVE  SyncInv' /\ Kept
<1>1. ListsOK(lists', stack)
  BY PointsOfSync, DrainedOK DEF CondvarBroadcast, SyncInv
<1>2. QED
  BY <1>1, WakingInv DEF CondvarBroadcast, Signalling, Running, Executing

LEMMA MutexLockInv ==
  ASSUME SyncInv, MutexLock
  PROVE  SyncInv' /\ Kept
<1>1. Top.at = "run" /\ Top.at \notin Handler \cup Window /\ Going
  BY DEF MutexLock, Running, Executing, Handler, Window
<1>2. SchedInv' /\ Quiet
  BY <1>1, PointsOfSync, GotoPoint, QuietGoto DEF MutexLock, Goto, SyncInv
<1>3. QED
  BY <1>1, <1>2, KeptInv DEF MutexLock, SyncInv

LEMMA BlockInv ==
  ASSUME SyncInv, Block
  PROVE  SyncInv' /\ Kept
<1>1. /\ Top.at = "block" /\ Top.at \notin Handler \cup Window /\ Going
      /\ Schedule(lists, "mutex", "lock")
  BY DEF Block, Executing, Handler, Window
<1>2. SchedInv'
  BY <1>1, PointsOfSync, ListsTyped, ThreadScheduleInv DEF SyncInv
<1>3. Quiet
  BY <1>1, QuietSchedule
<1>4. QED
  BY <1>1, <1>2, <1>3, KeptInv DEF Block, SyncInv

-----------------------------------------------------------------------------
(* Every step keeps the invariant, and the mutex is kept, taken when free, *)
(* or left by its owner.                                                   *)
LEMMA SyncStep ==
  ASSUME SyncInv, [Next]_vars
  PROVE  SyncInv' /\ (Kept \/ Taken \/ Left)
<1>1. CASE SchedStep /\ UNCHANGED spin_lock
  BY <1>1, QuietSchedStep, KeptInv DEF SyncInv
<1>2. CASE MutexLock
  BY <1>2, MutexLockInv
<1>3. CASE TryLock
  BY <1>3, TryInv DEF TryLock, Executing
<1>4. CASE Block
  BY <1>4, BlockInv
<1>5. CASE MutexTrylock
  BY <1>5, TryInv DEF MutexTrylock, Running, Executing
<1>6. CASE MutexUnlock
  BY <1>6, MutexUnlockInv
<1>7. CASE CondvarSignal
  BY <1>7, CondvarSignalInv
<1>8. CASE CondvarBroadcast
  BY <1>8, CondvarBroadcastInv
<1>9. CASE CondvarWait
  BY <1>9, CondvarWaitInv
<1>10. CASE UNCHANGED vars
  <2>1. SchedInv' /\ UNCHANGED <<stack, fault, spin_lock>>
    BY <1>10, StutterInv DEF vars, schedVars, SyncInv
  <2>2. Quiet
    BY <2>1, QuietStutter
  <2>3. QED
    BY <2>1, <2>2 DEF SyncInv, HeldIsLocked, Going, MutualExclusion, Quiet, Kept
<1>11. QED
  BY <1>1, <1>2, <1>3, <1>4, <1>5, <1>6, <1>7, <1>8, <1>9, <1>10 DEF Next, Halted, vars

(* Nobody holds the mutex when the kernel starts.                          *)
LEMMA SyncInit ==
  ASSUME Init
  PROVE  SyncInv /\ \A t \in Threads : ~Holding(t)
<1>1. SchedInv
  BY SchedInitInv DEF Init
<1>2. \A t \in Threads : stack[t] \in {<<At("first")>>, <<At("run")>>, <<>>}
  BY DEF Init, SchedInit
<1>3. \A t \in Threads : \A i \in DOMAIN stack[t] :
        stack[t][i].at # "crit" /\ stack[t][i].then # "crit"
  BY <1>2 DEF At
<1>4. \A t \in Threads : ~Holding(t)
  BY <1>3 DEF Holding
<1>5. QED
  BY <1>1, <1>3, <1>4
     DEF Init, SyncInv, NoneResumesInside, HeldIsLocked, MutualExclusion

(* Type correctness of mutex and condition variable.                       *)
THEOREM SyncTypeCorrect == Spec => []TypeOK
<1>1. Init => SyncInv
  BY SyncInit
<1>2. SyncInv /\ [Next]_vars => SyncInv'
  BY SyncStep
<1>3. SyncInv => TypeOK
  BY SchedInvType DEF SyncInv, TypeOK
<1>4. QED
  BY <1>1, <1>2, <1>3, PTL DEF Spec

(* Mutual exclusion: however many threads lock, try, unlock, wait and      *)
(* signal, and even after the scheduler has lost track of who runs, two of *)
(* them are never between mutex_lock and mutex_unlock.                     *)
THEOREM MutexExcludes == Spec => []MutualExclusion
<1>1. Init => SyncInv
  BY SyncInit
<1>2. SyncInv /\ [Next]_vars => SyncInv'
  BY SyncStep
<1>3. SyncInv => MutualExclusion
  BY DEF SyncInv
<1>4. QED
  BY <1>1, <1>2, <1>3, PTL DEF Spec

(* The mutex implements its promise: one thread at a time is between       *)
(* mutex_lock and mutex_unlock, it gets there only when nobody is, and the *)
(* thread that leaves is the one that was inside.                          *)
THEOREM MutexIsLock == Spec => ImplementsLock
<1>1. Init => SyncInv /\ MutexSpec!Free
  BY SyncInit DEF MutexSpec!Free, holders
<1>2. SyncInv /\ [Next]_vars => SyncInv' /\ [MutexSpec!Passage]_holders
  <2> SUFFICES ASSUME SyncInv, [Next]_vars
               PROVE  SyncInv' /\ [MutexSpec!Passage]_holders
    OBVIOUS
  <2>1. SyncInv' /\ (Kept \/ Taken \/ Left)
    BY SyncStep
  <2>2. cpu \in Threads
    BY DEF SyncInv, SchedInv, Born
  <2>3. CASE Kept
    BY <2>1, <2>3 DEF Kept, holders
  <2>4. CASE Taken
    <3>1. holders = {} /\ holders' = {cpu}
      BY <2>2, <2>4 DEF Taken, holders
    <3>2. QED
      BY <2>1, <2>2, <3>1
         DEF MutexSpec!Passage, MutexSpec!Locks, MutexSpec!Free
  <2>5. CASE Left
    <3>1. holders = {cpu} /\ holders' = {}
      BY <2>2, <2>5 DEF Left, holders
    <3>2. QED
      BY <2>1, <2>2, <3>1
         DEF MutexSpec!Passage, MutexSpec!Unlocks, MutexSpec!Free
  <2>6. QED
    BY <2>1, <2>3, <2>4, <2>5
<1>3. QED
  BY <1>1, <1>2, PTL DEF Spec, ImplementsLock, MutexSpec!Promise

-----------------------------------------------------------------------------
(* The lists under the mutex and the condition variable.                   *)

LEMMA DrainedLists ==
  ASSUME NEW B, NEW ls \in [Lists -> Seq(B)], Once(ls), NEW l \in Lists, l # RQ
  PROVE  /\ Drained(ls, l) \in [Lists -> Seq(B)]
         /\ Once(Drained(ls, l))
         /\ Drained(ls, l)[l] = <<>>
         /\ \A k \in Lists : k # l /\ k # RQ => Drained(ls, l)[k] = ls[k]
         /\ \A t : In(Drained(ls, l), RQ, t) <=> (In(ls, RQ, t) \/ In(ls, l, t))
         /\ ls[RQ] # <<>> => Head(Drained(ls, l)[RQ]) = Head(ls[RQ])
<1>0. PICK left : left = [ls EXCEPT ![l] = <<>>]
  OBVIOUS
<1>1. PICK w \in Seq(B) : w = ls[l]
  OBVIOUS
<1>2. /\ RQ \in Lists /\ left \in [Lists -> Seq(B)] /\ left[l] = <<>>
      /\ \A k \in Lists : k # l => left[k] = ls[k]
  <2>1. <<>> \in Seq(B)
    OBVIOUS
  <2>2. QED
    BY <1>0, <2>1 DEF Lists
<1>3. \A k \in Lists : \A i \in DOMAIN left[k] : k # l
  BY <1>2
<1>4. Once(left)
  BY <1>2, <1>3 DEF Once
<1>5. Fresh(left, w)
  BY <1>1, <1>2, <1>3 DEF Once, Fresh, Nowhere, In
<1>6. PICK new : new = Joined(left, RQ, w)
  OBVIOUS
<1>7. /\ new \in [Lists -> Seq(B)] /\ Once(new)
      /\ \A k \in Lists : k # RQ => new[k] = left[k]
      /\ \A t : In(new, RQ, t) <=> (In(left, RQ, t) \/ \E i \in DOMAIN w : w[i] = t)
      /\ left[RQ] # <<>> => Head(new[RQ]) = Head(left[RQ])
  <2>1. new \in [Lists -> Seq(B)] /\ Once(new) /\ Longer(left, RQ, w, new)
    BY <1>2, <1>4, <1>5, <1>6, JoinedLists
  <2>2. QED
    BY <2>1 DEF Longer
<1>8. Drained(ls, l) = new
  BY <1>0, <1>1, <1>2, <1>6 DEF Drained, Joined
<1>9. \A t : /\ In(left, RQ, t) <=> In(ls, RQ, t)
             /\ (\E i \in DOMAIN w : w[i] = t) <=> In(ls, l, t)
  BY <1>1, <1>2 DEF In
<1>10. QED
  BY <1>2, <1>7, <1>8, <1>9

(* Moving all threads of a list to the run queue.                          *)
LEMMA DrainedQueues ==
  ASSUME NEW st, QueuesOK(lists, st), NEW l \in Lists, l # RQ
  PROVE  /\ QueuesOK(Drained(lists, l), st)
         /\ Head(Drained(lists, l)[RQ]) = Head(lists[RQ])
<1>1. /\ lists \in [Lists -> Seq(Alive(st))] /\ Once(lists)
      /\ RQ \in Lists /\ lists[RQ] # <<>> /\ In(lists, RQ, Idle)
  BY IdleQueued DEF QueuesOK
<1>2. /\ Drained(lists, l) \in [Lists -> Seq(Alive(st))]
      /\ Once(Drained(lists, l))
      /\ In(Drained(lists, l), RQ, Idle)
      /\ Head(Drained(lists, l)[RQ]) = Head(lists[RQ])
  BY <1>1, DrainedLists
<1>3. QED
  BY <1>2 DEF QueuesOK, In

LEMMA SignalQueues ==
  ASSUME NEW st, QueuesOK(lists, st), CondvarSignal
  PROVE  /\ QueuesOK(lists', st)
         /\ Head(lists'[RQ]) = Head(lists[RQ])
         /\ \A t \in Alive(st) : \A k \in Lists : In(lists, k, t) => ~Nowhere(lists', t)
<1> DEFINE cv == "condvar"
           h == Head(lists[cv])
           left == Popped(lists, cv)
<1>1. /\ lists \in [Lists -> Seq(Alive(st))] /\ Once(lists)
      /\ RQ \in Lists /\ lists[RQ] # <<>> /\ In(lists, RQ, Idle) /\ Idle \in Alive(st)
      /\ cv \in Lists /\ cv # RQ /\ lists[cv] # <<>>
  BY IdleQueued, PointsOfSync DEF QueuesOK, CondvarSignal, RQ
<1>2. lists' = Pushed(left, RQ, h)
  BY <1>1 DEF CondvarSignal, Popped, Pushed
<1>3. /\ left \in [Lists -> Seq(Alive(st))] /\ Once(left) /\ Nowhere(left, h)
      /\ h \in Alive(st) /\ In(lists, cv, h)
      /\ \A k \in Lists, t \in Alive(st) : t # h => (In(left, k, t) <=> In(lists, k, t))
  <2> HIDE DEF cv
  <2>1. QED
    BY <1>1, TailLists
<1>4. left[RQ] = lists[RQ]
  BY <1>1 DEF Popped
<1>5. h # Idle
  BY <1>1, <1>3 DEF In, Once
<1>6. In(left, RQ, Idle)
  BY <1>1, <1>3, <1>5
<1>7. QueuesOK(left, st)
  BY <1>3, <1>6 DEF QueuesOK, In
<1>8. QueuesOK(lists', st) /\ Head(lists'[RQ]) = Head(lists[RQ])
  <2> HIDE DEF left, h
  <2>1. QED
    BY <1>2, <1>3, <1>4, <1>7, PushedQueues
<1>9. \A k \in Lists : \A t : In(lists', k, t) <=> (In(left, k, t) \/ (k = RQ /\ t = h))
  <2> HIDE DEF left, h
  <2>1. QED
    BY <1>1, <1>2, <1>3, AppendLists
<1>10. QED
  BY <1>1, <1>3, <1>8, <1>9 DEF Nowhere

-----------------------------------------------------------------------------
(* The steps of mutex and condition variable keep the invariant of the run *)
(* queue.                                                                  *)

(* Thread code at a point of the mutex is not the idle thread's.           *)
LEMMA ClientRuns ==
  ASSUME SchedInv, RunInv, Top.at \in {"lock", "block", "crit"} \/ (Top.at = "run" /\ cpu # Idle)
  PROVE  /\ Len(stack[cpu]) = 1 /\ ~InWindow /\ cpu # Idle /\ cpu \in Alive(stack)
         /\ current_tcb = cpu /\ Head(lists[RQ]) = cpu
         /\ lists[RQ] # <<>> /\ QueuesOK(lists, stack)
<1>1. Top.at \notin Handler \cup Window \cup Unlinking \cup {"exit"}
  BY DEF Handler, Window, Unlinking
<1>2. /\ Len(stack[cpu]) = 1 /\ Top = stack[cpu][1] /\ ~InWindow
      /\ current_tcb = cpu /\ lists[RQ] # <<>> /\ Head(lists[RQ]) = cpu
  BY <1>1, RunsAtHead
<1>3. cpu # Idle
  BY <1>2 DEF RunInv, RunOK, PlacesOK, Window
<1>4. QED
  BY <1>1, <1>2, <1>3, RunningAlive DEF RunInv, RunOK

(* Going from point to point, whatever that does to the lists behind the   *)
(* running thread.                                                         *)
LEMMA GotoRun ==
  ASSUME SchedInv, RunInv, NEW p \in {"run", "lock", "block", "crit"},
         Top.at \in {"lock", "block", "crit"} \/ (Top.at = "run" /\ cpu # Idle),
         stack' = SetTop(At(p)), QueuesOK(lists', stack), Head(lists'[RQ]) = Head(lists[RQ]),
         UNCHANGED <<current_tcb, current_context, cpu, fault>>
  PROVE  RunInv'
<1> DEFINE f == At(p)
<1>1. f.at = p /\ f.then = p
  BY DEF At
<1>2. f.at \notin Window \cup Unlinking \cup {"gone", "exit", "slept"} /\ f.then # "gone"
  BY <1>1 DEF Window, Unlinking
<1>3. QueuesOK(lists', stack')
  <2> HIDE DEF f
  <2>1. Alive(stack) \subseteq Alive(SetTop(f))
    BY <1>2, AliveStays
  <2>2. QED
    BY <2>1, QueuesStay DEF f
<1>4. QED
  <2> HIDE DEF f
  <2>1. stack' = SetTop(f)
    BY DEF f
  <2>2. QED
    BY <1>2, <1>3, <2>1, ClientRuns, CodeRun DEF RunInv, RunOK

(* A step of a thread at a point of the mutex that schedules.              *)
LEMMA ClientScheduleRun ==
  ASSUME SchedInv, RunInv, fault = "none", Top.at \in {"lock", "block", "crit"},
         NEW ls, QueuesOK(ls, stack), Head(ls[RQ]) = Head(lists[RQ]),
         NEW l \in Lists, Schedule(ls, l, "lock")
  PROVE  RunInv' /\ Sleeping(lists', stack') \subseteq Sleeping(ls, stack)
<1>1. /\ ~InWindow /\ cpu # Idle /\ cpu \in Alive(stack) /\ Head(ls[RQ]) # Idle
  BY ClientRuns
<1>2. "lock" \notin Unlinking \cup Window
  BY DEF Unlinking, Window
<1>3. RunInv'
  BY <1>1, <1>2, ScheduleRun DEF RunInv, RunOK
<1>4. QED
  BY <1>1, <1>3, ScheduleSleeping

(* Draining a list puts nobody to sleep.                                   *)
LEMMA DrainedSleeping ==
  ASSUME NEW st, QueuesOK(lists, st), NEW l \in Lists, l # RQ
  PROVE  Sleeping(Drained(lists, l), st) \subseteq Sleeping(lists, st)
<1>1. lists \in [Lists -> Seq(Alive(st))] /\ Once(lists) /\ RQ \in Lists
  BY IdleQueued DEF QueuesOK
<1>2. /\ \A k \in Lists : k # l /\ k # RQ => Drained(lists, l)[k] = lists[k]
      /\ \A t : In(Drained(lists, l), RQ, t) <=> (In(lists, RQ, t) \/ In(lists, l, t))
  BY <1>1, DrainedLists
<1>3. \A k \in Lists : \A t : In(lists, k, t) => In(Drained(lists, l), k, t) \/ In(Drained(lists, l), RQ, t)
  <2> TAKE k \in Lists
  <2>1. CASE k \in {l, RQ}
    BY <1>2, <2>1
  <2>2. CASE k \notin {l, RQ}
    BY <1>2, <2>2 DEF In
  <2>3. QED
    BY <2>1, <2>2
<1>4. QED
  BY <1>1, <1>3 DEF Sleeping, Nowhere

(* Nobody is put to sleep, but on a list.                                  *)
NoSleepers == Sleeping(lists, stack) = {}

LEMMA GotoSleeping ==
  ASSUME SchedInv, RunInv, NEW p,
         Top.at \in {"lock", "block", "crit"} \/ (Top.at = "run" /\ cpu # Idle),
         stack' = SetTop(At(p)), NoSleepers, Sleeping(lists', stack) \subseteq Sleeping(lists, stack)
  PROVE  NoSleepers'
<1>1. Alive(stack') \subseteq Alive(stack)
  BY ClientRuns, AliveShrinks
<1>2. QED
  BY <1>1 DEF NoSleepers, Sleeping

LEMMA ClientGotoStep ==
  ASSUME SchedInv, RunInv, NoSleepers, NEW p \in {"run", "lock", "block", "crit"}, Goto(p),
         Top.at \in {"lock", "block", "crit"} \/ (Top.at = "run" /\ cpu # Idle)
  PROVE  RunInv' /\ NoSleepers'
<1>1. stack' = SetTop(At(p)) /\ UNCHANGED <<lists, current_tcb, current_context, cpu, fault>>
  BY DEF Goto
<1>2. QueuesOK(lists, stack)
  BY DEF RunInv, RunOK
<1>3. QED
  BY <1>1, <1>2, GotoRun, GotoSleeping

LEMMA SchedStepSleeping ==
  ASSUME SchedInv, RunInv, NoSleepers, SchedStep
  PROVE  (RunInv' /\ NoSleepers') \/ fault' \in Strays
<1>1. CASE KernelStep
  BY <1>1, KernelStepRun, KernelStepSleeping DEF NoSleepers
<1>2. CASE Yield
  BY <1>2, YieldRun, YieldSleeping DEF NoSleepers
<1>3. CASE Tick
  <2>1. Alive(stack') = Alive(stack) /\ lists' = lists
    BY <1>3, HookFrames, BottomsSleeping DEF Tick
  <2>2. QED
    BY <1>3, <2>1, TickRun DEF NoSleepers, Sleeping
<1>4. CASE ThreadReturned
  BY <1>4, ThreadReturnedRun, ThreadReturnedSleeping DEF NoSleepers
<1>5. ASSUME NEW t \in Threads, ThreadCreate(t)
      PROVE  RunInv' /\ NoSleepers'
  BY <1>5, ThreadCreateRun, ThreadCreateSleeping DEF NoSleepers
<1>6. QED
  BY <1>1, <1>2, <1>3, <1>4, <1>5 DEF SchedStep

LEMMA MutexUnlockRun ==
  ASSUME SchedInv, RunInv, NoSleepers, MutexUnlock
  PROVE  RunInv' /\ NoSleepers'
<1>1. /\ Top.at = "crit" /\ lists' = Drained(lists, "mutex") /\ stack' = SetTop(At("run"))
      /\ UNCHANGED <<current_tcb, current_context, cpu, fault>>
      /\ QueuesOK(lists, stack) /\ "mutex" \in Lists /\ "mutex" # RQ
  BY PointsOfSync DEF MutexUnlock, Executing, RunInv, RunOK, RQ
<1>2. QueuesOK(lists', stack) /\ Head(lists'[RQ]) = Head(lists[RQ])
  BY <1>1, DrainedQueues
<1>3. Sleeping(lists', stack) \subseteq Sleeping(lists, stack)
  BY <1>1, DrainedSleeping
<1>4. QED
  BY <1>1, <1>2, <1>3, GotoRun, GotoSleeping

LEMMA BlockRun ==
  ASSUME SchedInv, RunInv, NoSleepers, Block
  PROVE  RunInv' /\ NoSleepers'
<1>1. /\ Top.at = "block" /\ fault = "none" /\ Schedule(lists, "mutex", "lock")
      /\ QueuesOK(lists, stack) /\ "mutex" \in Lists
  BY PointsOfSync DEF Block, Executing, RunInv, RunOK
<1>2. QED
  BY <1>1, ClientScheduleRun DEF NoSleepers

LEMMA CondvarWaitRun ==
  ASSUME SchedInv, RunInv, NoSleepers, CondvarWait
  PROVE  RunInv' /\ NoSleepers'
<1> DEFINE ls == Drained(lists, "mutex")
<1>1. /\ Top.at = "crit" /\ fault = "none" /\ Schedule(ls, "condvar", "lock")
      /\ QueuesOK(lists, stack) /\ "mutex" \in Lists /\ "condvar" \in Lists /\ "mutex" # RQ
  BY PointsOfSync DEF CondvarWait, Executing, RunInv, RunOK, RQ
<1>2. QueuesOK(ls, stack) /\ Head(ls[RQ]) = Head(lists[RQ])
  BY <1>1, DrainedQueues
<1>3. Sleeping(ls, stack) \subseteq Sleeping(lists, stack)
  BY <1>1, DrainedSleeping
<1>4. RunInv' /\ Sleeping(lists', stack') \subseteq Sleeping(ls, stack)
  <2> HIDE DEF ls
  <2>1. QED
    BY <1>1, <1>2, ClientScheduleRun
<1>5. QED
  BY <1>3, <1>4 DEF NoSleepers

LEMMA CondvarSignalRun ==
  ASSUME SchedInv, RunInv, NoSleepers, CondvarSignal
  PROVE  RunInv' /\ NoSleepers'
<1>1. UNCHANGED <<current_tcb, current_context, cpu, stack, fault>>
  BY DEF CondvarSignal
<1>2. /\ QueuesOK(lists', stack) /\ Head(lists'[RQ]) = Head(lists[RQ])
      /\ \A t \in Alive(stack) : \A k \in Lists : In(lists, k, t) => ~Nowhere(lists', t)
  BY SignalQueues DEF RunInv, RunOK
<1>3. QED
  BY <1>1, <1>2, ListsRun DEF NoSleepers, Sleeping, Nowhere

LEMMA CondvarBroadcastRun ==
  ASSUME SchedInv, RunInv, NoSleepers, CondvarBroadcast
  PROVE  RunInv' /\ NoSleepers'
<1>1. /\ lists' = Drained(lists, "condvar")
      /\ UNCHANGED <<current_tcb, current_context, cpu, stack, fault>>
      /\ QueuesOK(lists, stack) /\ "condvar" \in Lists /\ "condvar" # RQ
  BY PointsOfSync DEF CondvarBroadcast, RunInv, RunOK, RQ
<1>2. QueuesOK(lists', stack) /\ Head(lists'[RQ]) = Head(lists[RQ])
  BY <1>1, DrainedQueues
<1>3. Sleeping(lists', stack) \subseteq Sleeping(lists, stack)
  BY <1>1, DrainedSleeping
<1>4. QED
  BY <1>1, <1>2, <1>3, ListsRun DEF NoSleepers

LEMMA SyncStepRun ==
  ASSUME SyncInv, RunInv, NoSleepers, [Next]_vars
  PROVE  (RunInv' /\ NoSleepers') \/ fault' \in Strays
<1>0. SchedInv
  BY DEF SyncInv
<1>1. CASE SchedStep /\ UNCHANGED spin_lock
  BY <1>0, <1>1, SchedStepSleeping
<1>2. CASE MutexLock
  BY <1>0, <1>2, ClientGotoStep DEF MutexLock, Running, Executing
<1>3. CASE TryLock
  BY <1>0, <1>3, ClientGotoStep DEF TryLock, Executing
<1>4. CASE Block
  BY <1>0, <1>4, BlockRun
<1>5. CASE MutexTrylock
  BY <1>0, <1>5, ClientGotoStep DEF MutexTrylock, Running, Executing
<1>6. CASE MutexUnlock
  BY <1>0, <1>6, MutexUnlockRun
<1>7. CASE CondvarSignal
  BY <1>0, <1>7, CondvarSignalRun
<1>8. CASE CondvarBroadcast
  BY <1>0, <1>8, CondvarBroadcastRun
<1>9. CASE CondvarWait
  BY <1>0, <1>9, CondvarWaitRun
<1>10. CASE UNCHANGED vars
  <2>1. UNCHANGED schedVars
    BY <1>10 DEF vars
  <2>2. RunInv'
    BY <2>1, StutterRun
  <2>3. QED
    BY <2>1, <2>2 DEF schedVars, NoSleepers, Sleeping, Alive, Born, Nowhere, In
<1>11. QED
  BY <1>1, <1>2, <1>3, <1>4, <1>5, <1>6, <1>7, <1>8, <1>9, <1>10 DEF Next, Halted, vars

LEMMA SyncInitRun ==
  ASSUME Init
  PROVE  RunInv /\ NoSleepers
<1>1. SchedInit /\ RunInv
  BY SchedInitRun DEF Init
<1>2. lists[RQ] = <<Idle, Main>> /\ RQ \in Lists
  BY <1>1 DEF SchedInit, Lists
<1>3. In(lists, RQ, Idle) /\ In(lists, RQ, Main)
  <2>1. 1 \in DOMAIN lists[RQ] /\ lists[RQ][1] = Idle /\ 2 \in DOMAIN lists[RQ] /\ lists[RQ][2] = Main
    BY <1>2
  <2>2. QED
    BY <2>1 DEF In
<1>4. Alive(stack) \subseteq {Idle, Main}
  BY <1>1 DEF SchedInit, Alive, Born
<1>5. QED
  BY <1>1, <1>2, <1>3, <1>4 DEF NoSleepers, Sleeping, Nowhere

(* A kernel that has strayed stays so.                                     *)
LEMMA SyncStepStray ==
  ASSUME fault \in Strays, [Next]_vars
  PROVE  fault' \in Strays
<1>1. CASE SchedStep \/ Halted
  BY <1>1, SchedStepStray DEF SchedStep, SchedNext, ClientStep
<1>2. CASE MutexLock \/ TryLock \/ MutexTrylock
  BY <1>2 DEF MutexLock, TryLock, MutexTrylock, Goto
<1>3. CASE MutexUnlock \/ CondvarSignal \/ CondvarBroadcast
  BY <1>3 DEF MutexUnlock, CondvarSignal, CondvarBroadcast
<1>4. CASE Block \/ CondvarWait
  BY <1>4, ScheduleStray DEF Block, CondvarWait
<1>5. CASE UNCHANGED vars
  BY <1>5 DEF vars, schedVars
<1>6. QED
  BY <1>1, <1>2, <1>3, <1>4, <1>5 DEF Next

NoneAsleep == fault \in Strays \/ (RunInv /\ NoSleepers)

LEMMA NoneAsleepStep ==
  SyncInv /\ NoneAsleep /\ [Next]_vars => NoneAsleep'
BY SyncStepRun, SyncStepStray DEF NoneAsleep

LEMMA NoneAsleepAlways ==
  Spec => [](SyncInv /\ NoneAsleep)
<1>1. Init => SyncInv /\ NoneAsleep
  BY SyncInit, SyncInitRun DEF NoneAsleep
<1>2. SyncInv /\ NoneAsleep /\ [Next]_vars => SyncInv' /\ NoneAsleep'
  BY SyncStep, NoneAsleepStep
<1>3. QED
  BY <1>1, <1>2, PTL DEF Spec

(* A thread that has not returned is always on some list: whoever takes a  *)
(* thread off one list puts it on another, until a tick ends a quantum in  *)
(* the scheduler's window.                                                 *)
THEOREM SyncNobodyForgotten == Spec => []NobodyForgotten
<1>1. NoneAsleep => NobodyForgotten
  BY LinkedIn DEF NoneAsleep, Strays, NoSleepers, Sleeping, NobodyForgotten, Created, Finished,
                  Alive, Born
<1>2. QED
  BY <1>1, NoneAsleepAlways, PTL

(* Mutexes and condition variables never lead the scheduler into undefined *)
(* behaviour, but through that tick.                                       *)
THEOREM SyncNoUndefined == Spec => []NoUndefined
<1>1. SyncInv /\ NoneAsleep => NoUndefined
  BY RunInvUndefined DEF SyncInv, NoneAsleep, UntilStrayed
<1>2. QED
  BY <1>1, NoneAsleepAlways, PTL

-----------------------------------------------------------------------------
(* Mutex and condition variable are a monitor.                             *)

LEMMA RequeuedApart ==
  ASSUME NEW B, NEW ls \in [Lists -> Seq(B)], NEW l \in Lists
  PROVE  /\ \A k \in Lists : k # l /\ k # RQ => Requeued(ls, l)[k] = ls[k]
         /\ l # RQ => Requeued(ls, l)[l] = Append(ls[l], Head(ls[RQ]))
BY DEF Requeued, Lists

LEMMA ScheduleCondvar ==
  ASSUME SyncInv, NEW then, Schedule(lists, RQ, then)
  PROVE  UNCHANGED lists["condvar"]
<1>1. /\ lists \in [Lists -> Seq(Born(stack))] /\ RQ \in Lists
      /\ "condvar" \in Lists /\ "condvar" # RQ
  BY PointsOfSync, ListsTyped DEF SyncInv, ListsOK, RQ
<1>2. Requeued(lists, RQ)["condvar"] = lists["condvar"]
  BY <1>1, RequeuedApart
<1>3. QED
  BY <1>2 DEF Schedule, Crash

(* The scheduler does not touch the list of the condition variable.        *)
LEMMA SchedStepCondvar ==
  ASSUME SyncInv, SchedStep
  PROVE  UNCHANGED lists["condvar"]
<1>0. lists \in [Lists -> Seq(Born(stack))] /\ "condvar" \in Lists /\ "condvar" # RQ
  BY PointsOfSync, ListsTyped DEF SyncInv, ListsOK, RQ
<1>1. CASE KernelStep
  BY <1>1, ScheduleCondvar
     DEF KernelStep, DispatcherSwitchTo, SwitchStack, TimerSchedule, TimerReturn,
         IdleFirstSchedule, ReturnedSchedule, SleepSchedule, Crash
<1>2. CASE Yield
  BY <1>2, ScheduleCondvar DEF Yield
<1>3. CASE Tick
  BY <1>3 DEF Tick
<1>4. CASE ThreadReturned
  BY <1>0, <1>4 DEF ThreadReturned, Crash
<1>5. ASSUME NEW t \in Threads, ThreadCreate(t)
      PROVE  UNCHANGED lists["condvar"]
  BY <1>0, <1>5 DEF ThreadCreate
<1>6. QED
  BY <1>1, <1>2, <1>3, <1>4, <1>5 DEF SchedStep

(* The running thread does not sleep on the condition variable.            *)
LEMMA RunnerAwake ==
  ASSUME SchedInv, RunInv,
         Top.at \in {"lock", "block", "crit"} \/ (Top.at = "run" /\ cpu # Idle)
  PROVE  \A i \in DOMAIN lists["condvar"] : lists["condvar"][i] # cpu
<1>1. /\ Head(lists[RQ]) = cpu /\ lists[RQ] # <<>> /\ Once(lists)
      /\ lists[RQ] \in Seq(Born(stack)) /\ RQ \in Lists
      /\ "condvar" \in Lists /\ "condvar" # RQ
  BY ClientRuns, ListsTyped, PointsOfSync DEF QueuesOK, RQ
<1>2. 1 \in DOMAIN lists[RQ] /\ lists[RQ][1] = cpu
  BY <1>1, HeadTailProperties, EmptySeq
<1>3. QED
  BY <1>1, <1>2 DEF Once

(* What a step does to the monitor: nothing, or one of its actions.        *)
MonitorStep == [MonitorSpec!Next]_<<owner, lists["condvar"]>>

LEMMA KeptOwner ==
  ASSUME Kept
  PROVE  UNCHANGED owner
BY DEF Kept, owner

LEMMA TakenOwner ==
  ASSUME SyncInv, Taken
  PROVE  cpu \in Threads /\ owner = NoOne /\ owner' = cpu
BY SyncAssumption DEF SyncInv, SchedInv, Born, Taken, owner

LEMMA LeftOwner ==
  ASSUME SyncInv, Left
  PROVE  cpu \in Threads /\ owner = cpu /\ owner' = NoOne
BY SyncAssumption DEF SyncInv, SchedInv, Born, Left, owner

LEMMA KeptMonitor ==
  ASSUME Kept, UNCHANGED lists["condvar"]
  PROVE  MonitorStep
BY KeptOwner DEF MonitorStep

LEMMA TryMonitor ==
  ASSUME SyncInv, RunInv, Kept \/ Taken, UNCHANGED lists["condvar"],
         Top.at = "lock" \/ (Top.at = "run" /\ cpu # Idle)
  PROVE  MonitorStep
<1>1. CASE Kept
  BY <1>1, KeptMonitor
<1>2. CASE Taken
  <2>1. \A i \in DOMAIN lists["condvar"] : lists["condvar"][i] # cpu
    BY RunnerAwake DEF SyncInv
  <2>2. MonitorSpec!Acquire(cpu) /\ cpu \in Threads
    BY <1>2, <2>1, TakenOwner DEF MonitorSpec!Acquire
  <2>3. QED
    BY <2>2 DEF MonitorStep, MonitorSpec!Next
<1>3. QED
  BY <1>1, <1>2

LEMMA MutexUnlockMonitor ==
  ASSUME SyncInv, RunInv, MutexUnlock
  PROVE  MonitorStep
<1>1. /\ lists \in [Lists -> Seq(Alive(stack))] /\ Once(lists)
      /\ "mutex" \in Lists /\ "mutex" # RQ /\ "condvar" \in Lists /\ "condvar" # RQ
      /\ lists' = Drained(lists, "mutex")
  BY PointsOfSync DEF MutexUnlock, RunInv, RunOK, QueuesOK, RQ
<1>2. UNCHANGED lists["condvar"]
  BY <1>1, DrainedLists
<1>3. MonitorSpec!Release(cpu) /\ cpu \in Threads
  BY <1>2, MutexUnlockInv, LeftOwner DEF MonitorSpec!Release
<1>4. QED
  BY <1>3 DEF MonitorStep, MonitorSpec!Next

(* condvar_wait gives the mutex up and falls asleep in one step.           *)
LEMMA CondvarWaitMonitor ==
  ASSUME SyncInv, RunInv, NoSleepers, CondvarWait
  PROVE  MonitorStep
<1> DEFINE ls == Drained(lists, "mutex")
           f == [at |-> "switch", then |-> "lock", next |-> Head(Requeued(ls, "condvar")[RQ])]
<1>1. /\ Top.at = "crit" /\ Schedule(ls, "condvar", "lock") /\ spin_lock' = FALSE
      /\ lists \in [Lists -> Seq(Alive(stack))] /\ Once(lists)
      /\ "mutex" \in Lists /\ "mutex" # RQ /\ "condvar" \in Lists /\ "condvar" # RQ
  BY PointsOfSync DEF CondvarWait, Executing, RunInv, RunOK, QueuesOK, RQ
<1>2. RunInv' /\ SyncInv'
  BY CondvarWaitRun, CondvarWaitInv DEF SyncInv
<1>3. lists' = Requeued(ls, "condvar") /\ stack' = SetTop(f)
  BY <1>1, <1>2 DEF Schedule, Crash, RunInv
<1>4. Left
  <2>1. f.at # "crit" /\ f.then # "crit"
    OBVIOUS
  <2>2. QED
    BY <1>1, <1>2, <1>3, <2>1, LeftInv DEF SyncInv
<1>5. /\ ls \in [Lists -> Seq(Alive(stack))] /\ ls["condvar"] = lists["condvar"]
      /\ lists[RQ] # <<>> => Head(ls[RQ]) = Head(lists[RQ])
  BY <1>1, DrainedLists
<1>6. Head(ls[RQ]) = cpu
  BY <1>1, <1>5, ClientRuns DEF SyncInv
<1>7. lists'["condvar"] = Append(lists["condvar"], cpu)
  BY <1>1, <1>3, <1>5, <1>6, RequeuedApart
<1>8. MonitorSpec!Wait(cpu) /\ cpu \in Threads
  BY <1>4, <1>7, LeftOwner DEF MonitorSpec!Wait
<1>9. QED
  BY <1>8 DEF MonitorStep, MonitorSpec!Next

LEMMA BlockMonitor ==
  ASSUME SyncInv, Block
  PROVE  MonitorStep
<1>1. /\ Schedule(lists, "mutex", "lock") /\ "mutex" # RQ /\ "condvar" # RQ
      /\ lists \in [Lists -> Seq(Born(stack))] /\ {"mutex", "condvar"} \subseteq Lists
  BY PointsOfSync, ListsTyped DEF Block, SyncInv, ListsOK, RQ
<1>2. Requeued(lists, "mutex")["condvar"] = lists["condvar"]
  BY <1>1, RequeuedApart
<1>3. UNCHANGED lists["condvar"]
  BY <1>1, <1>2 DEF Schedule, Crash
<1>4. QED
  BY <1>3, BlockInv, KeptMonitor

LEMMA WakingMonitor ==
  ASSUME SyncInv, CondvarSignal \/ CondvarBroadcast
  PROVE  MonitorStep
<1>1. /\ lists \in [Lists -> Seq(Born(stack))] /\ "condvar" \in Lists /\ "condvar" # RQ
  BY PointsOfSync, ListsTyped DEF SyncInv, ListsOK, RQ
<1>2. UNCHANGED owner
  BY CondvarSignalInv, CondvarBroadcastInv, KeptOwner
<1>3. CASE CondvarSignal
  <2>1. lists["condvar"] # <<>> /\ lists'["condvar"] = Tail(lists["condvar"])
    BY <1>1, <1>3 DEF CondvarSignal
  <2>2. MonitorSpec!Signal
    BY <1>2, <2>1 DEF MonitorSpec!Signal
  <2>3. QED
    BY <2>2 DEF MonitorStep, MonitorSpec!Next
<1>4. CASE CondvarBroadcast
  <2>1. lists'["condvar"] = <<>>
    BY <1>1, <1>4 DEF CondvarBroadcast, Drained
  <2>2. MonitorSpec!Broadcast
    BY <1>2, <2>1 DEF MonitorSpec!Broadcast
  <2>3. QED
    BY <2>2 DEF MonitorStep, MonitorSpec!Next
<1>5. QED
  BY <1>3, <1>4

LEMMA SyncStepMonitor ==
  ASSUME SyncInv, RunInv, NoSleepers, [Next]_vars
  PROVE  MonitorStep
<1>1. CASE SchedStep /\ UNCHANGED spin_lock
  <2>1. Kept
    BY <1>1, QuietSchedStep, KeptInv DEF SyncInv
  <2>2. QED
    BY <1>1, <2>1, SchedStepCondvar, KeptMonitor
<1>2. CASE MutexLock
  BY <1>2, MutexLockInv, KeptMonitor DEF MutexLock, Goto
<1>3. CASE TryLock
  BY <1>3, TryInv, TryMonitor DEF TryLock, Executing, Goto
<1>4. CASE Block
  BY <1>4, BlockMonitor
<1>5. CASE MutexTrylock
  <2>1. Top.at = "run" /\ cpu # Idle /\ UNCHANGED lists["condvar"]
    BY <1>5 DEF MutexTrylock, Running, Executing, Goto
  <2>2. Kept \/ Taken
    BY <1>5, TryInv DEF MutexTrylock, Running, Executing
  <2>3. QED
    BY <2>1, <2>2, TryMonitor
<1>6. CASE MutexUnlock
  BY <1>6, MutexUnlockMonitor
<1>7. CASE CondvarSignal \/ CondvarBroadcast
  BY <1>7, WakingMonitor
<1>8. CASE CondvarWait
  BY <1>8, CondvarWaitMonitor
<1>9. CASE UNCHANGED vars
  BY <1>9 DEF vars, schedVars, MonitorStep, owner, Holding, Halted
<1>10. QED
  BY <1>1, <1>2, <1>3, <1>4, <1>5, <1>6, <1>7, <1>8, <1>9 DEF Next, Halted, vars

(* Mutex and condition variable implement a monitor, until a tick ends a   *)
(* quantum in the scheduler's window: condvar_wait releases the mutex and  *)
(* falls asleep in one step, so that no signal is lost in between, signals *)
(* wake the thread that has slept longest, and nobody acquires the mutex   *)
(* in its sleep.                                                           *)
THEOREM SyncIsMonitor == Spec => ImplementsMonitor
<1>1. Init => MonitorSpec!Init
  <2> SUFFICES ASSUME Init
               PROVE  MonitorSpec!Init
    OBVIOUS
  <2>1. owner = NoOne
    BY SyncInit DEF owner
  <2>2. lists["condvar"] = <<>>
    BY PointsOfSync DEF Init, SchedInit, RQ
  <2>3. QED
    BY <2>1, <2>2 DEF MonitorSpec!Init
<1>2. SyncInv /\ NoneAsleep /\ [Next]_vars
        => [fault # "none" \/ MonitorSpec!Next]_(MonitorSpec!vars)
  BY SyncStepMonitor DEF MonitorStep, MonitorSpec!vars, NoneAsleep, Strays
<1>3. QED
  BY <1>1, <1>2, NoneAsleepAlways, PTL DEF Spec, ImplementsMonitor, MonitorSpec!Spec
=============================================================================
