----------------------------- MODULE SchedProofs -----------------------------
(***************************************************************************)
(* Every step of the scheduler keeps SchedInv, hence type correctness, for *)
(* any number of threads, any quantum and with ticks anywhere.  The lists  *)
(* of the scheduler never share a thread, wherever the timer interrupts;   *)
(* and as long as no tick lands between the choice of the next thread and  *)
(* the change of stack, the scheduler knows which thread runs and never    *)
(* meets undefined behaviour.                                              *)
(***************************************************************************)
EXTENDS Sched, SequenceTheorems, TLAPS

(* A stack with one frame.                                                 *)
LEMMA Singleton ==
  ASSUME NEW x
  PROVE  Len(<<x>>) = 1 /\ <<x>>[1] = x /\ <<x>> # <<>>
OBVIOUS

(* The top frame of the running thread exists and is one of its frames.    *)
LEMMA TopFrame ==
  ASSUME StackOK(stack), cpu \in Born(stack)
  PROVE  /\ cpu \in Threads
         /\ stack[cpu] \in Seq(Frame)
         /\ Len(stack[cpu]) \in Nat \ {0}
         /\ Top = stack[cpu][Len(stack[cpu])]
         /\ Top \in Frame
         /\ Top.at \in Points /\ Top.then \in Points
         /\ Top.next \in Born(stack)
         /\ Len(stack[cpu]) = 1 => ThreadFrame(Top)
         /\ Len(stack[cpu]) > 1 => HandlerFrame(Top)
<1>1. cpu \in Threads /\ stack[cpu] \in Seq(Frame) /\ stack[cpu] # <<>>
  BY DEF StackOK, Born
<1>2. Len(stack[cpu]) \in Nat \ {0}
  BY <1>1, EmptySeq
<1>3. Top = stack[cpu][Len(stack[cpu])]
  BY DEF Top, Last
<1>4. Len(stack[cpu]) \in 1 .. Len(stack[cpu])
  BY <1>2
<1>5. Top \in Frame
  BY <1>1, <1>3, <1>4, ElementOfSeq
<1>6. /\ Top.next \in Born(stack)
      /\ Len(stack[cpu]) = 1 => ThreadFrame(Top)
      /\ Len(stack[cpu]) > 1 => HandlerFrame(Top)
  BY <1>1, <1>3, <1>4 DEF StackOK, FramesOK
<1>7. QED
  BY <1>1, <1>2, <1>3, <1>5, <1>6 DEF Frame

(* What replacing the top frame of the running thread does to the stacks.  *)
LEMMA SetTopFrames ==
  ASSUME StackOK(stack), cpu \in Born(stack), NEW f
  PROVE  /\ DOMAIN SetTop(f) = Threads
         /\ \A t \in Threads : t # cpu => SetTop(f)[t] = stack[t]
         /\ SetTop(f)[cpu] \in Seq(Frame \cup {f})
         /\ f \in Frame => SetTop(f)[cpu] \in Seq(Frame)
         /\ Len(SetTop(f)[cpu]) = Len(stack[cpu])
         /\ \A j \in 1 .. Len(stack[cpu]) :
              SetTop(f)[cpu][j] = IF j = Len(stack[cpu]) THEN f ELSE stack[cpu][j]
<1> DEFINE n == Len(stack[cpu])
           S == Frame \cup {f}
<1>1. cpu \in Threads /\ stack[cpu] \in Seq(Frame) /\ n \in 1 .. n /\ n \in Nat
  BY TopFrame
<1>2. stack \in [Threads -> Seq(Frame)]
  BY DEF StackOK
<1>3. /\ SetTop(f)[cpu] = [stack[cpu] EXCEPT ![n] = f]
      /\ \A t \in Threads : t # cpu => SetTop(f)[t] = stack[t]
      /\ DOMAIN SetTop(f) = Threads
  BY <1>1, <1>2 DEF SetTop
<1>4. stack[cpu] \in Seq(S) /\ f \in S
  BY <1>1, SeqMonotonic
<1>5. /\ [stack[cpu] EXCEPT ![n] = f] \in Seq(S)
      /\ Len([stack[cpu] EXCEPT ![n] = f]) = n
      /\ \A j \in 1 .. n : [stack[cpu] EXCEPT ![n] = f][j] = IF j = n THEN f ELSE stack[cpu][j]
  BY <1>1, <1>4, ExceptSeq
<1>6. f \in Frame => [stack[cpu] EXCEPT ![n] = f] \in Seq(Frame)
  BY <1>1, ExceptSeq
<1>7. QED
  BY <1>3, <1>5, <1>6

(* Replacing the top frame by one of the same sort.                        *)
LEMMA SetTopOK ==
  ASSUME StackOK(stack), cpu \in Born(stack),
         NEW f \in Frame, f.next \in Born(stack),
         Len(stack[cpu]) = 1 => ThreadFrame(f),
         Len(stack[cpu]) > 1 => HandlerFrame(f)
  PROVE  StackOK(SetTop(f)) /\ Born(SetTop(f)) = Born(stack)
<1> DEFINE n == Len(stack[cpu])
           st == SetTop(f)
<1>1. cpu \in Threads /\ stack[cpu] \in Seq(Frame) /\ n \in 1 .. n /\ n \in Nat
  BY TopFrame
<1>2. stack \in [Threads -> Seq(Frame)]
  BY DEF StackOK
<1>3. /\ \A t \in Threads : t # cpu => st[t] = stack[t]
      /\ st = [stack EXCEPT ![cpu] = st[cpu]]
  BY <1>1, <1>2, SetTopFrames DEF SetTop
<1>4. /\ st[cpu] \in Seq(Frame)
      /\ Len(st[cpu]) = n
      /\ \A j \in 1 .. n : st[cpu][j] = IF j = n THEN f ELSE stack[cpu][j]
  BY SetTopFrames
<1>5. st \in [Threads -> Seq(Frame)]
  BY <1>2, <1>3, <1>4
<1>6. st[cpu] # <<>>
  BY <1>1, <1>4, EmptySeq
<1>7. Born(st) = Born(stack)
  BY <1>3, <1>6 DEF Born
<1>8. FramesOK(st)
  <2> SUFFICES ASSUME NEW t \in Threads, NEW i \in 1 .. Len(st[t])
               PROVE  /\ st[t][i].next \in Born(stack)
                      /\ i = 1 => ThreadFrame(st[t][i])
                      /\ i > 1 => HandlerFrame(st[t][i])
    BY <1>7 DEF FramesOK
  <2>1. CASE t = cpu /\ i = n
    BY <2>1, <1>1, <1>4
  <2>2. CASE t = cpu /\ i # n
    BY <2>2, <1>1, <1>4 DEF StackOK, FramesOK
  <2>3. CASE t # cpu
    BY <2>3, <1>3 DEF StackOK, FramesOK
  <2>4. QED
    BY <2>1, <2>2, <2>3
<1>9. QED
  BY <1>5, <1>7, <1>8 DEF StackOK

(* A plain frame of thread code, or of a handler.                          *)
LEMMA PlainFrame ==
  ASSUME StackOK(stack), NEW p \in Points
  PROVE  /\ At(p) \in Frame
         /\ At(p).next \in Born(stack)
         /\ At(p).at = p /\ At(p).then = p
BY SchedAssumption DEF At, Frame, StackOK

(* Moving the head of the run queue to the tail of a list.                 *)
LEMMA RequeuedOK ==
  ASSUME NEW B, NEW ls \in [Lists -> Seq(B)], NEW l \in Lists, ls[RQ] # <<>>
  PROVE  Requeued(ls, l) \in [Lists -> Seq(B)]
<1> DEFINE left == [ls EXCEPT ![RQ] = Tail(@)]
<1>1. RQ \in Lists
  BY DEF Lists
<1>2. Head(ls[RQ]) \in B /\ Tail(ls[RQ]) \in Seq(B)
  BY <1>1, HeadTailProperties
<1>3. left \in [Lists -> Seq(B)]
  BY <1>1, <1>2
<1>4. Append(left[l], Head(ls[RQ])) \in Seq(B)
  BY <1>2, <1>3, AppendProperties
<1>5. Requeued(ls, l) = [left EXCEPT ![l] = Append(left[l], Head(ls[RQ]))]
  BY <1>3 DEF Requeued
<1>6. QED
  BY <1>3, <1>4, <1>5

(* An undefined behaviour changes nothing but the verdict.                 *)
LEMMA CrashInv ==
  ASSUME SchedInv, NEW f \in Faults, Crash(f)
  PROVE  SchedInv'
BY DEF SchedInv, Crash, Faults, Strays

(* The critical section of the scheduler, called from a frame that will be *)
(* resumed as one of its own sort.                                         *)
LEMMA ScheduleInv ==
  ASSUME SchedInv,
         NEW ls, ListsOK(ls, stack),
         NEW l \in Lists,
         NEW then \in Points,
         Len(stack[cpu]) = 1 => then \notin Handler,
         Len(stack[cpu]) > 1 => then \in Handler,
         Schedule(ls, l, then)
  PROVE  SchedInv'
<1>1. CASE ls[RQ] = <<>> \/ Requeued(ls, l)[RQ] = <<>>
  BY <1>1, CrashInv DEF Schedule, Faults
<1>2. CASE ~(ls[RQ] = <<>> \/ Requeued(ls, l)[RQ] = <<>>)
  <2> DEFINE next == Head(Requeued(ls, l)[RQ])
             f == [at |-> "switch", then |-> then, next |-> next]
  <2>1. /\ lists' = Requeued(ls, l)
        /\ current_tcb' = next
        /\ quantum' = Renew(next)
        /\ stack' = SetTop(f)
        /\ UNCHANGED <<current_context, cpu, fault>>
    BY <1>2 DEF Schedule
  <2>2. lists' \in [Lists -> Seq(Born(stack))]
    BY <1>2, <2>1, RequeuedOK DEF ListsOK
  <2>3. next \in Born(stack) /\ next \in Threads
    BY <1>2, <2>1, <2>2, HeadTailProperties DEF Lists, Born
  <2>4. f \in Frame
    BY <2>3 DEF Frame, Points, Window
  <2>5. /\ Len(stack[cpu]) = 1 => ThreadFrame(f)
        /\ Len(stack[cpu]) > 1 => HandlerFrame(f)
    BY DEF ThreadFrame, HandlerFrame, Handler, Window
  <2>6. StackOK(stack') /\ Born(stack') = Born(stack)
    BY <2>1, <2>3, <2>4, <2>5, SetTopOK DEF SchedInv
  <2>7. quantum' \in [Threads -> Int]
    BY <2>1, <2>3, SchedAssumption DEF Renew, SchedInv
  <2>8. QED
    BY <2>1, <2>2, <2>3, <2>6, <2>7 DEF SchedInv, ListsOK
<1>3. QED
  BY <1>1, <1>2

(* A step of a thread to another point of its own code.                    *)
LEMMA GotoInv ==
  ASSUME SchedInv,
         NEW f \in Frame, f.next \in Born(stack),
         Len(stack[cpu]) = 1 => ThreadFrame(f),
         Len(stack[cpu]) > 1 => HandlerFrame(f),
         stack' = SetTop(f),
         ListsOK(lists', stack),
         current_tcb' \in Born(stack),
         current_context' \in Born(stack),
         cpu' \in Born(stack),
         UNCHANGED <<quantum, fault>>
  PROVE  SchedInv'
<1>1. StackOK(stack') /\ Born(stack') = Born(stack)
  BY SetTopOK DEF SchedInv
<1>2. QED
  BY <1>1 DEF SchedInv, ListsOK

(* At a point of thread code the stack has one frame, at a point of a      *)
(* handler it has more.                                                    *)
LEMMA Depth ==
  ASSUME SchedInv
  PROVE  /\ Top.at \notin Handler \cup Window => Len(stack[cpu]) = 1
         /\ Top.at \in Handler => Len(stack[cpu]) > 1
<1>1. /\ Len(stack[cpu]) \in Nat \ {0}
      /\ Len(stack[cpu]) = 1 => ThreadFrame(Top)
      /\ Len(stack[cpu]) > 1 => HandlerFrame(Top)
  BY TopFrame DEF SchedInv
<1>2. \A n \in Nat \ {0} : n = 1 \/ n > 1
  OBVIOUS
<1>3. Len(stack[cpu]) = 1 \/ Len(stack[cpu]) > 1
  BY <1>1, <1>2, Zenon
<1>4. QED
  BY <1>1, <1>3 DEF ThreadFrame, HandlerFrame

-----------------------------------------------------------------------------
(* The actions of the processor.                                           *)

LEMMA ListsTyped ==
  ASSUME SchedInv
  PROVE  ListsOK(lists, stack) /\ RQ \in Lists /\ lists[RQ] \in Seq(Born(stack))
BY DEF SchedInv, ListsOK, Lists

LEMMA DispatcherSwitchToInv ==
  ASSUME SchedInv, DispatcherSwitchTo
  PROVE  SchedInv'
<1>1. CASE current_context # cpu
  BY <1>1, CrashInv DEF DispatcherSwitchTo, Faults
<1>2. CASE current_context = cpu
  <2> DEFINE f == [Top EXCEPT !.at = "handover"]
  <2>1. /\ Top \in Frame /\ Top.next \in Born(stack) /\ Top.at = "switch"
        /\ Len(stack[cpu]) = 1 => ThreadFrame(Top)
        /\ Len(stack[cpu]) > 1 => HandlerFrame(Top)
    BY TopFrame DEF SchedInv, DispatcherSwitchTo, Executing
  <2>2. f \in Frame /\ f.next = Top.next /\ f.at = "handover" /\ f.then = Top.then
    BY <2>1 DEF Frame, Points, Window
  <2>3. /\ Len(stack[cpu]) = 1 => ThreadFrame(f)
        /\ Len(stack[cpu]) > 1 => HandlerFrame(f)
    BY <2>1, <2>2 DEF ThreadFrame, HandlerFrame, Handler, Window
  <2>4. QED
    BY <1>2, <2>1, <2>2, <2>3, GotoInv DEF DispatcherSwitchTo, SchedInv
<1>3. QED
  BY <1>1, <1>2

LEMMA SwitchStackInv ==
  ASSUME SchedInv, SwitchStack
  PROVE  SchedInv'
<1>1. /\ Top.then \in Points /\ Top.next \in Born(stack)
      /\ Len(stack[cpu]) = 1 => ThreadFrame(Top)
      /\ Len(stack[cpu]) > 1 => HandlerFrame(Top)
  BY TopFrame DEF SchedInv
<1> DEFINE f == At(Top.then)
<1>2. f \in Frame /\ f.next \in Born(stack) /\ f.at = Top.then /\ f.then = Top.then
  BY <1>1, PlainFrame DEF SchedInv
<1>3. /\ Len(stack[cpu]) = 1 => ThreadFrame(f)
      /\ Len(stack[cpu]) > 1 => HandlerFrame(f)
  BY <1>1, <1>2 DEF ThreadFrame, HandlerFrame
<1>4. QED
  BY <1>1, <1>2, <1>3, GotoInv DEF SwitchStack, SchedInv

LEMMA TimerReturnInv ==
  ASSUME SchedInv, TimerReturn
  PROVE  SchedInv'
<1> DEFINE n == Len(stack[cpu])
           st == [stack EXCEPT ![cpu] = Front(@)]
<1>1. /\ cpu \in Threads /\ stack[cpu] \in Seq(Frame) /\ n \in Nat
      /\ stack \in [Threads -> Seq(Frame)] /\ FramesOK(stack) /\ Idle \in Born(stack)
  BY TopFrame DEF SchedInv, StackOK
<1>2. n > 1
  BY Depth DEF TimerReturn, Executing, Handler
<1>3. /\ Front(stack[cpu]) \in Seq(Frame)
      /\ Len(Front(stack[cpu])) = n - 1
      /\ \A i \in 1 .. n - 1 : Front(stack[cpu])[i] = stack[cpu][i]
  <2>1. \A i \in 1 .. n - 1 : stack[cpu][i] \in Frame
    BY <1>1, ElementOfSeq
  <2>2. QED
    BY <1>1, <1>2, <2>1, SubSeqProperties DEF Front
<1>4. Front(stack[cpu]) # <<>>
  BY <1>1, <1>2, <1>3, EmptySeq
<1>5. /\ st \in [Threads -> Seq(Frame)]
      /\ st[cpu] = Front(stack[cpu])
      /\ \A t \in Threads : t # cpu => st[t] = stack[t]
  BY <1>1, <1>3
<1>6. Born(st) = Born(stack)
  BY <1>4, <1>5 DEF Born, SchedInv
<1>7. FramesOK(st)
  <2> SUFFICES ASSUME NEW t \in Threads, NEW i \in 1 .. Len(st[t])
               PROVE  /\ st[t][i].next \in Born(stack)
                      /\ i = 1 => ThreadFrame(st[t][i])
                      /\ i > 1 => HandlerFrame(st[t][i])
    BY <1>6 DEF FramesOK
  <2>1. i \in 1 .. Len(stack[t]) /\ st[t][i] = stack[t][i]
    BY <1>1, <1>3, <1>5
  <2>2. QED
    BY <1>1, <2>1 DEF FramesOK
<1>8. QED
  BY <1>1, <1>5, <1>6, <1>7 DEF TimerReturn, SchedInv, StackOK, ListsOK

(* What the timer interrupt does to the stacks, whatever it did to the     *)
(* lists before.                                                           *)
LEMMA ThreadTimerHookInv ==
  ASSUME SchedInv, ThreadTimerHook, ListsOK(lists', stack),
         UNCHANGED <<current_tcb, current_context, cpu>>
  PROVE  SchedInv'
<1> DEFINE left == quantum[current_tcb] - 1
           f == At("expired")
           st == [stack EXCEPT ![cpu] = Append(@, f)]
           n == Len(stack[cpu])
<1>1. /\ cpu \in Threads /\ stack[cpu] \in Seq(Frame) /\ n \in Nat \ {0}
      /\ stack \in [Threads -> Seq(Frame)] /\ FramesOK(stack) /\ Idle \in Born(stack)
  BY TopFrame DEF SchedInv, StackOK
<1>2. quantum' \in [Threads -> Int] /\ fault' \in Faults \cup Strays \cup {"none"}
  BY DEF SchedInv, ThreadTimerHook, Born, Strays
<1>3. CASE left > 0
  BY <1>2, <1>3 DEF SchedInv, ThreadTimerHook
<1>4. CASE ~(left > 0)
  <2>1. f \in Frame /\ f.next \in Born(stack) /\ f.at = "expired" /\ f.then = "expired"
    BY PlainFrame DEF SchedInv, Points
  <2>2. HandlerFrame(f)
    BY <2>1 DEF HandlerFrame, Handler
  <2>3. /\ Append(stack[cpu], f) \in Seq(Frame)
        /\ Append(stack[cpu], f) # <<>>
        /\ Len(Append(stack[cpu], f)) = n + 1
        /\ \A i \in 1 .. n : Append(stack[cpu], f)[i] = stack[cpu][i]
        /\ Append(stack[cpu], f)[n + 1] = f
    BY <1>1, <2>1, AppendProperties
  <2>4. /\ st \in [Threads -> Seq(Frame)]
        /\ st[cpu] = Append(stack[cpu], f)
        /\ \A t \in Threads : t # cpu => st[t] = stack[t]
    BY <1>1, <2>3
  <2>5. Born(st) = Born(stack)
    BY <2>3, <2>4 DEF Born, SchedInv
  <2>6. FramesOK(st)
    <3> SUFFICES ASSUME NEW t \in Threads, NEW i \in 1 .. Len(st[t])
                 PROVE  /\ st[t][i].next \in Born(stack)
                        /\ i = 1 => ThreadFrame(st[t][i])
                        /\ i > 1 => HandlerFrame(st[t][i])
      BY <2>5 DEF FramesOK
    <3>1. CASE t = cpu /\ i = n + 1
      BY <3>1, <1>1, <2>1, <2>2, <2>3, <2>4
    <3>2. CASE ~(t = cpu /\ i = n + 1)
      <4>1. i \in 1 .. Len(stack[t]) /\ st[t][i] = stack[t][i]
        BY <3>2, <1>1, <2>3, <2>4
      <4>2. QED
        BY <1>1, <4>1 DEF FramesOK
    <3>3. QED
      BY <3>1, <3>2
  <2>7. stack' = st
    BY <1>4 DEF ThreadTimerHook
  <2>8. QED
    BY <1>1, <1>2, <2>4, <2>5, <2>6, <2>7 DEF SchedInv, StackOK, ListsOK
<1>5. QED
  BY <1>3, <1>4

LEMMA TickInv ==
  ASSUME SchedInv, Tick
  PROVE  SchedInv'
BY ThreadTimerHookInv DEF Tick, SchedInv, ListsOK

LEMMA TimerScheduleInv ==
  ASSUME SchedInv, TimerSchedule
  PROVE  SchedInv'
<1>1. Len(stack[cpu]) > 1 /\ Len(stack[cpu]) \in Nat
  BY Depth, TopFrame DEF TimerSchedule, Executing, Handler, SchedInv
<1>2. "iret" \in Points /\ "iret" \in Handler
  BY DEF Points, Handler
<1>a. \A n \in Nat : n > 1 => n # 1
  OBVIOUS
<1>3. Len(stack[cpu]) # 1
  BY <1>1, <1>a, Zenon
<1>4. Schedule(lists, RQ, "iret")
  BY DEF TimerSchedule
<1>5. QED
  BY <1>2, <1>3, <1>4, ScheduleInv, ListsTyped

(* Thread code that calls the scheduler, and goes on as thread code.       *)
LEMMA ThreadScheduleInv ==
  ASSUME SchedInv,
         Top.at \notin Handler \cup Window,
         NEW ls, ListsOK(ls, stack),
         NEW l \in Lists,
         NEW then \in Points \ Handler,
         Schedule(ls, l, then)
  PROVE  SchedInv'
<1>1. Len(stack[cpu]) = 1
  BY Depth
<1>2. QED
  BY <1>1, ScheduleInv

(* Thread code that goes to another point of its own.                      *)
LEMMA ThreadGotoInv ==
  ASSUME SchedInv,
         Top.at \notin Handler \cup Window,
         NEW f \in Frame, f.next \in Born(stack), ThreadFrame(f),
         stack' = SetTop(f),
         ListsOK(lists', stack),
         UNCHANGED <<current_tcb, current_context, cpu, quantum, fault>>
  PROVE  SchedInv'
<1>1. Len(stack[cpu]) = 1
  BY Depth
<1>2. QED
  BY <1>1, GotoInv DEF SchedInv

-----------------------------------------------------------------------------
(* The actions of thread code.                                             *)

LEMMA ThreadReturnedInv ==
  ASSUME SchedInv, ThreadReturned
  PROVE  SchedInv'
<1>1. CASE lists[RQ] = <<>>
  BY <1>1, CrashInv DEF ThreadReturned, Faults
<1>2. CASE lists[RQ] # <<>>
  <2>1. Top.at \notin Handler \cup Window
    BY DEF ThreadReturned, Running, Executing, Handler, Window
  <2>2. /\ At("exit") \in Frame /\ At("exit").next \in Born(stack)
        /\ ThreadFrame(At("exit"))
    BY PlainFrame DEF SchedInv, Points, ThreadFrame, Handler
  <2>3. Tail(lists[RQ]) \in Seq(Born(stack))
    BY <1>2, ListsTyped, HeadTailProperties
  <2>4. lists' = [lists EXCEPT ![RQ] = Tail(@)] /\ stack' = SetTop(At("exit"))
    BY <1>2 DEF ThreadReturned
  <2>5. ListsOK(lists', stack)
    BY <2>3, <2>4, ListsTyped DEF ListsOK
  <2>6. QED
    BY <1>2, <2>1, <2>2, <2>4, <2>5, ThreadGotoInv DEF ThreadReturned
<1>3. QED
  BY <1>1, <1>2

LEMMA SleepCurrentInv ==
  ASSUME SchedInv, Top.at \notin Handler \cup Window, SleepCurrent
  PROVE  SchedInv'
<1>1. CASE ~Linked(current_tcb)
  BY <1>1, CrashInv DEF SleepCurrent, Faults
<1>2. CASE Linked(current_tcb)
  <2> DEFINE f == [At("slept") EXCEPT !.next = current_tcb]
  <2>0. PICK l \in Lists : \E i \in DOMAIN lists[l] :
          /\ lists' = [lists EXCEPT ![l] = RemoveAt(@, i)]
          /\ stack' = SetTop(f)
          /\ UNCHANGED <<current_tcb, current_context, cpu, quantum, fault>>
    BY <1>2 DEF SleepCurrent
  <2>1. PICK i \in DOMAIN lists[l] :
          /\ lists' = [lists EXCEPT ![l] = RemoveAt(@, i)]
          /\ stack' = SetTop(f)
          /\ UNCHANGED <<current_tcb, current_context, cpu, quantum, fault>>
    BY <2>0
  <2>3. current_tcb \in Threads /\ current_tcb \in Born(stack)
    BY DEF SchedInv, Born
  <2>4. f \in Frame /\ f.next = current_tcb /\ f.at = "slept" /\ f.then = "slept"
    BY <2>3 DEF At, Frame, Points
  <2>5. ThreadFrame(f)
    BY <2>4 DEF ThreadFrame, Handler
  <2>6. RemoveAt(lists[l], i) \in Seq(Born(stack))
    <3>1. /\ lists[l] \in Seq(Born(stack)) /\ Len(lists[l]) \in Nat
          /\ i \in 1 .. Len(lists[l])
          /\ \A j \in 1 .. Len(lists[l]) : lists[l][j] \in Born(stack)
      <4>1. lists[l] \in Seq(Born(stack))
        BY ListsTyped DEF ListsOK
      <4>2. QED
        BY <4>1, LenProperties, ElementOfSeq
    <3>2. /\ \A j \in 1 .. i - 1 : lists[l][j] \in Born(stack)
          /\ \A j \in i + 1 .. Len(lists[l]) : lists[l][j] \in Born(stack)
      BY <3>1
    <3>3. SubSeq(lists[l], 1, i - 1) \in Seq(Born(stack))
      BY <3>1, <3>2, SubSeqProperties
    <3>4. SubSeq(lists[l], i + 1, Len(lists[l])) \in Seq(Born(stack))
      BY <3>1, <3>2, SubSeqProperties
    <3>5. QED
      BY <3>3, <3>4, ConcatProperties DEF RemoveAt
  <2>7. ListsOK(lists', stack)
    BY <2>1, <2>6, ListsTyped DEF ListsOK
  <2>8. QED
    BY <2>1, <2>3, <2>4, <2>5, <2>7, ThreadGotoInv
<1>3. QED
  BY <1>1, <1>2

LEMMA ThreadSleepInv ==
  ASSUME SchedInv, ThreadSleep
  PROVE  SchedInv'
BY SleepCurrentInv DEF ThreadSleep, Running, Executing, Handler, Window

LEMMA SleepScheduleInv ==
  ASSUME SchedInv, SleepSchedule
  PROVE  SchedInv'
<1>1. Top.at \notin Handler \cup Window
  BY DEF SleepSchedule, Executing, Handler, Window
<1>2. "run" \in Points \ Handler
  BY DEF Points, Handler
<1>3. CASE Top.next = current_tcb
  BY <1>1, <1>2, <1>3, ThreadScheduleInv, ListsTyped DEF SleepSchedule
<1>4. CASE Top.next # current_tcb
  <2>1. /\ At("run") \in Frame /\ At("run").next \in Born(stack)
        /\ ThreadFrame(At("run"))
    BY <1>2, PlainFrame DEF SchedInv, ThreadFrame, Handler
  <2>2. QED
    BY <1>1, <1>4, <2>1, ThreadGotoInv, ListsTyped DEF SleepSchedule
<1>5. QED
  BY <1>3, <1>4

LEMMA ThreadCreateInv ==
  ASSUME SchedInv, NEW t \in Threads, ThreadCreate(t)
  PROVE  SchedInv'
<1> DEFINE f == At("run")
           st == [stack EXCEPT ![t] = <<f>>]
<1>1. f \in Frame /\ f.next = Idle /\ ThreadFrame(f) /\ Idle \in Born(stack)
  BY PlainFrame DEF SchedInv, StackOK, Points, ThreadFrame, Handler, At
<1>2. stack \in [Threads -> Seq(Frame)] /\ FramesOK(stack)
  BY DEF SchedInv, StackOK
<1>3. <<f>> \in Seq(Frame) /\ Len(<<f>>) = 1 /\ <<f>>[1] = f /\ <<f>> # <<>>
  BY <1>1
<1>4. /\ st \in [Threads -> Seq(Frame)]
      /\ st[t] = <<f>>
      /\ \A u \in Threads : u # t => st[u] = stack[u]
  BY <1>2, <1>3
<1>5. Born(st) = Born(stack) \cup {t}
  BY <1>3, <1>4 DEF Born
<1>6. FramesOK(st)
  <2> SUFFICES ASSUME NEW u \in Threads, NEW i \in 1 .. Len(st[u])
               PROVE  /\ st[u][i].next \in Born(st)
                      /\ i = 1 => ThreadFrame(st[u][i])
                      /\ i > 1 => HandlerFrame(st[u][i])
    BY DEF FramesOK
  <2>1. CASE u = t
    <3>1. st[u] = <<f>> /\ i = 1
      BY <2>1, <1>3, <1>4
    <3>2. st[u][i] = f
      BY <3>1
    <3>3. ~(i > 1) /\ Idle \in Born(st)
      <4>1. ~(1 > 1)
        OBVIOUS
      <4>2. QED
        BY <1>1, <1>5, <3>1, <4>1, Zenon
    <3>4. QED
      BY <1>1, <3>2, <3>3
  <2>2. CASE u # t
    BY <2>2, <1>2, <1>4, <1>5 DEF FramesOK
  <2>3. QED
    BY <2>1, <2>2
<1>7. lists' \in [Lists -> Seq(Born(st))]
  <2>1. lists \in [Lists -> Seq(Born(st))]
    <3>1. \A l \in Lists : lists[l] \in Seq(Born(st))
      BY <1>5, ListsTyped, SeqMonotonic DEF ListsOK
    <3>2. QED
      BY <3>1, ListsTyped DEF ListsOK
  <2>2. Append(lists[RQ], t) \in Seq(Born(st))
    BY <1>5, <2>1, ListsTyped, AppendProperties
  <2>3. QED
    BY <2>1, <2>2 DEF ThreadCreate
<1>8. quantum' \in [Threads -> Int]
  BY SchedAssumption DEF ThreadCreate, SchedInv
<1>9. stack' = st
  BY DEF ThreadCreate
<1>10. QED
  BY <1>1, <1>4, <1>5, <1>6, <1>7, <1>8, <1>9
     DEF ThreadCreate, SchedInv, StackOK, ListsOK

LEMMA WakeInv ==
  ASSUME SchedInv, Wake
  PROVE  SchedInv'
<1>1. PICK t \in Threads : Asleep(t) /\ ThreadWake(t)
  BY DEF Wake
<1>2. ~Linked(t) /\ t \in Born(stack)
  BY <1>1 DEF Asleep, Created, Born
<1>3. Append(lists[RQ], t) \in Seq(Born(stack))
  BY <1>2, ListsTyped, AppendProperties
<1>4. lists' = [lists EXCEPT ![RQ] = Append(@, t)]
  BY <1>1, <1>2 DEF ThreadWake
<1>5. ListsOK(lists', stack)
  BY <1>3, <1>4, ListsTyped DEF ListsOK
<1>6. QED
  BY <1>1, <1>2, <1>5 DEF ThreadWake, SchedInv, StackOK, ListsOK

-----------------------------------------------------------------------------
LEMMA KernelStepInv ==
  ASSUME SchedInv, KernelStep
  PROVE  SchedInv'
<1>1. CASE DispatcherSwitchTo
  BY <1>1, DispatcherSwitchToInv
<1>2. CASE SwitchStack
  BY <1>2, SwitchStackInv
<1>4. CASE TimerSchedule
  BY <1>4, TimerScheduleInv
<1>5. CASE TimerReturn
  BY <1>5, TimerReturnInv
<1>6. CASE IdleFirstSchedule
  <2>1. Top.at \notin Handler \cup Window /\ "run" \in Points \ Handler
    BY <1>6 DEF IdleFirstSchedule, Executing, Handler, Window, Points
  <2>2. QED
    BY <1>6, <2>1, ThreadScheduleInv, ListsTyped DEF IdleFirstSchedule
<1>7. CASE ReturnedSchedule
  <2>1. Top.at \notin Handler \cup Window /\ "gone" \in Points \ Handler
    BY <1>7 DEF ReturnedSchedule, Executing, Handler, Window, Points
  <2>2. QED
    BY <1>7, <2>1, ThreadScheduleInv, ListsTyped DEF ReturnedSchedule
<1>8. CASE SleepSchedule
  BY <1>8, SleepScheduleInv
<1>9. QED
  BY <1>1, <1>2, <1>4, <1>5, <1>6, <1>7, <1>8 DEF KernelStep

LEMMA YieldInv ==
  ASSUME SchedInv, Yield
  PROVE  SchedInv'
<1>1. Top.at \notin Handler \cup Window /\ "run" \in Points \ Handler
  BY DEF Yield, Running, Executing, Handler, Window, Points
<1>2. QED
  BY <1>1, ThreadScheduleInv, ListsTyped DEF Yield

LEMMA StutterInv ==
  ASSUME SchedInv, UNCHANGED schedVars
  PROVE  SchedInv'
BY DEF SchedInv, schedVars, StackOK, ListsOK

LEMMA SchedInitInv ==
  ASSUME SchedInit
  PROVE  SchedInv
<1>1. /\ At("first") \in Frame /\ At("first").next = Idle /\ ThreadFrame(At("first"))
      /\ At("run") \in Frame /\ At("run").next = Idle /\ ThreadFrame(At("run"))
  BY SchedAssumption DEF At, Frame, Points, ThreadFrame, Handler
<1>2. /\ stack \in [Threads -> Seq(Frame)]
      /\ stack[Idle] = <<At("first")>>
      /\ stack[Main] = <<At("run")>>
      /\ \A t \in Threads : t # Idle /\ t # Main => stack[t] = <<>>
  BY <1>1, SchedAssumption DEF SchedInit
<1>3. Idle \in Born(stack) /\ Main \in Born(stack)
  BY <1>2, SchedAssumption, Singleton DEF Born
<1>4. FramesOK(stack)
  <2> SUFFICES ASSUME NEW t \in Threads, NEW i \in 1 .. Len(stack[t])
               PROVE  /\ stack[t][i].next \in Born(stack)
                      /\ i = 1 => ThreadFrame(stack[t][i])
                      /\ i > 1 => HandlerFrame(stack[t][i])
    BY DEF FramesOK
  <2>1. stack[t] = <<At("first")>> \/ stack[t] = <<At("run")>>
    <3>1. stack[t] # <<>>
      OBVIOUS
    <3>2. QED
      BY <1>2, <3>1
  <2>2. /\ i = 1
        /\ stack[t][i] = At("first") \/ stack[t][i] = At("run")
    <3>1. Len(stack[t]) = 1
      BY <2>1, Singleton, Zenon
    <3>2. i = 1
      BY <3>1
    <3>3. QED
      BY <2>1, <3>2
  <2>3. QED
    BY <1>1, <1>3, <2>2
<1>5. ListsOK(lists, stack)
  <2>1. <<Idle, Main>> \in Seq(Born(stack)) /\ <<>> \in Seq(Born(stack))
    BY <1>3
  <2>2. QED
    BY <2>1 DEF SchedInit, ListsOK
<1>6. QED
  BY <1>2, <1>3, <1>4, <1>5, SchedAssumption DEF SchedInit, SchedInv, StackOK

LEMMA SchedInvType ==
  ASSUME SchedInv
  PROVE  SchedTypeOK
<1>1. lists \in [Lists -> Seq(Threads)]
  <2>1. \A l \in Lists : lists[l] \in Seq(Threads)
    <3>1. Born(stack) \subseteq Threads
      BY DEF Born
    <3>2. \A l \in Lists : lists[l] \in Seq(Born(stack))
      BY DEF SchedInv, ListsOK
    <3>3. QED
      BY <3>1, <3>2, SeqMonotonic
  <2>2. QED
    BY <2>1 DEF SchedInv, ListsOK
<1>2. QED
  BY <1>1 DEF SchedInv, SchedTypeOK, StackOK, Born

LEMMA SchedStepInv ==
  SchedInv /\ [SchedNext]_schedVars => SchedInv'
<1> SUFFICES ASSUME SchedInv, [SchedNext]_schedVars
             PROVE  SchedInv'
  OBVIOUS
<1>1. CASE KernelStep
  BY <1>1, KernelStepInv
<1>2. CASE Yield
  BY <1>2, YieldInv
<1>3. ASSUME NEW t \in Threads, ThreadCreate(t)
      PROVE  SchedInv'
  BY <1>3, ThreadCreateInv
<1>4. CASE ThreadReturned
  BY <1>4, ThreadReturnedInv
<1>5. CASE ThreadSleep
  BY <1>5, ThreadSleepInv
<1>6. CASE Tick
  BY <1>6, TickInv
<1>7. CASE Wake
  BY <1>7, WakeInv
<1>8. CASE UNCHANGED schedVars
  BY <1>8, StutterInv DEF Halted
<1>9. QED
  BY <1>1, <1>2, <1>3, <1>4, <1>5, <1>6, <1>7, <1>8 DEF SchedNext, ClientStep, Halted

(* Type correctness of the scheduler: whatever threads are created, sleep, *)
(* are woken and return, and wherever the timer interrupts them, the run   *)
(* queue holds only created threads and the processor is on the stack of   *)
(* one.                                                                    *)
THEOREM SchedTypeCorrect == SchedSpec => []SchedTypeOK
<1>1. SchedInit => SchedInv
  BY SchedInitInv
<1>2. SchedInv /\ [SchedNext]_schedVars => SchedInv'
  BY SchedStepInv
<1>3. SchedInv => SchedTypeOK
  BY SchedInvType
<1>4. QED
  BY <1>1, <1>2, <1>3, PTL DEF SchedSpec

-----------------------------------------------------------------------------
(* Thread t is on list l.                                                  *)
In(ls, l, t) == \E i \in DOMAIN ls[l] : ls[l][i] = t
Nowhere(ls, t) == \A l \in Lists : ~In(ls, l, t)

Popped(ls, l) == [ls EXCEPT ![l] = Tail(@)]
Pushed(ls, l, t) == [ls EXCEPT ![l] = Append(@, t)]
Joined(ls, l, w) == [ls EXCEPT ![l] = @ \o w]

(* The threads of w are all different, and on no list.                     *)
Fresh(ls, w) ==
  /\ \A i, j \in DOMAIN w : w[i] = w[j] => i = j
  /\ \A i \in DOMAIN w : Nowhere(ls, w[i])

-----------------------------------------------------------------------------
(* What taking the first thread off a list and putting one at the end of   *)
(* a list do to the lists.                                                 *)

LEMMA TailLists ==
  ASSUME NEW B, NEW ls \in [Lists -> Seq(B)], Once(ls),
         NEW l \in Lists, ls[l] # <<>>
  PROVE  /\ Popped(ls, l) \in [Lists -> Seq(B)]
         /\ Once(Popped(ls, l))
         /\ Head(ls[l]) \in B /\ In(ls, l, Head(ls[l]))
         /\ Nowhere(Popped(ls, l), Head(ls[l]))
         /\ \A k \in Lists, t \in B :
              t # Head(ls[l]) => (In(Popped(ls, l), k, t) <=> In(ls, k, t))
<1> DEFINE h == Head(ls[l])
<1>0. PICK left : left = [ls EXCEPT ![l] = Tail(@)]
  OBVIOUS
<1> USE <1>0
<1>1. /\ Tail(ls[l]) \in Seq(B) /\ ls[l] \in Seq(B)
      /\ Len(ls[l]) \in Nat \ {0} /\ Len(Tail(ls[l])) = Len(ls[l]) - 1
      /\ h = ls[l][1] /\ h \in B
      /\ \A i \in 1 .. Len(ls[l]) - 1 : Tail(ls[l])[i] = ls[l][i + 1]
  BY HeadTailProperties, EmptySeq
<1>2. /\ left \in [Lists -> Seq(B)]
      /\ left[l] = Tail(ls[l])
      /\ \A k \in Lists : k # l => left[k] = ls[k]
  BY <1>1
<1>3. \A k \in Lists : DOMAIN ls[k] = 1 .. Len(ls[k]) /\ DOMAIN left[k] = 1 .. Len(left[k])
                       /\ Len(ls[k]) \in Nat /\ Len(left[k]) \in Nat
  BY <1>2
(* Where a thread of the rest was before.                                  *)
<1>4. \A k \in Lists : \A i \in DOMAIN left[k] :
        /\ left[k][i] = ls[k][IF k = l THEN i + 1 ELSE i]
        /\ (IF k = l THEN i + 1 ELSE i) \in DOMAIN ls[k]
        /\ k = l => i + 1 > 1
  BY <1>1, <1>2, <1>3
<1>5. Once(left)
  BY <1>3, <1>4 DEF Once
<1>6. In(ls, l, h)
  BY <1>1, <1>3 DEF In
<1>7. Nowhere(left, h)
  BY <1>1, <1>3, <1>4 DEF Nowhere, In, Once
<1>8. ASSUME NEW k \in Lists, NEW t \in B, t # h
      PROVE  In(left, k, t) <=> In(ls, k, t)
  <2>1. In(left, k, t) => In(ls, k, t)
    BY <1>4 DEF In
  <2>2. ASSUME NEW i \in DOMAIN ls[k], ls[k][i] = t
        PROVE  In(left, k, t)
    <3>1. CASE k # l
      BY <2>2, <3>1, <1>2 DEF In
    <3>2. CASE k = l
      <4>1. i - 1 \in 1 .. Len(ls[l]) - 1
        BY <1>1, <1>3, <1>8, <2>2, <3>2
      <4>2. i - 1 \in DOMAIN left[l] /\ left[l][i - 1] = t
        BY <4>1, <1>1, <1>2, <1>3, <2>2, <3>2
      <4>3. QED
        BY <4>2, <3>2 DEF In
    <3>3. QED
      BY <3>1, <3>2
  <2>3. QED
    BY <2>1, <2>2 DEF In
<1>9. QED
  BY <1>1, <1>2, <1>5, <1>6, <1>7, <1>8 DEF Popped

LEMMA AppendLists ==
  ASSUME NEW B, NEW ls \in [Lists -> Seq(B)], Once(ls),
         NEW l \in Lists, NEW t \in B, Nowhere(ls, t)
  PROVE  /\ Pushed(ls, l, t) \in [Lists -> Seq(B)]
         /\ Once(Pushed(ls, l, t))
         /\ \A k \in Lists : \A u :
              In(Pushed(ls, l, t), k, u) <=> (In(ls, k, u) \/ (k = l /\ u = t))
         /\ \A k \in Lists :
              ls[k] # <<>> => Pushed(ls, l, t)[k] # <<>> /\ Head(Pushed(ls, l, t)[k]) = Head(ls[k])
<1>0. PICK more : more = [ls EXCEPT ![l] = Append(@, t)]
  OBVIOUS
<1> USE <1>0
<1>1. /\ ls[l] \in Seq(B) /\ Append(ls[l], t) \in Seq(B)
      /\ Len(ls[l]) \in Nat /\ Len(Append(ls[l], t)) = Len(ls[l]) + 1
      /\ \A i \in 1 .. Len(ls[l]) : Append(ls[l], t)[i] = ls[l][i]
      /\ Append(ls[l], t)[Len(ls[l]) + 1] = t
  BY AppendProperties
<1>2. /\ more \in [Lists -> Seq(B)]
      /\ more[l] = Append(ls[l], t)
      /\ \A k \in Lists : k # l => more[k] = ls[k]
  BY <1>1
<1>3. \A k \in Lists : /\ DOMAIN ls[k] = 1 .. Len(ls[k]) /\ DOMAIN more[k] = 1 .. Len(more[k])
                       /\ Len(ls[k]) \in Nat
  BY <1>2
<1>4. \A k \in Lists : \A i \in DOMAIN more[k] :
        \/ i \in DOMAIN ls[k] /\ more[k][i] = ls[k][i]
        \/ k = l /\ i = Len(ls[l]) + 1 /\ more[k][i] = t
  BY <1>1, <1>2, <1>3
<1>5. \A k \in Lists : \A i \in DOMAIN ls[k] : i \in DOMAIN more[k] /\ more[k][i] = ls[k][i]
  BY <1>1, <1>2, <1>3
<1>6. Once(more)
  BY <1>4 DEF Once, Nowhere, In
<1>7. ASSUME NEW k \in Lists, NEW u
      PROVE  In(more, k, u) <=> (In(ls, k, u) \/ (k = l /\ u = t))
  <2>1. In(more, k, u) => (In(ls, k, u) \/ (k = l /\ u = t))
    BY <1>4 DEF In
  <2>2. In(ls, k, u) => In(more, k, u)
    BY <1>5 DEF In
  <2>3. In(more, l, t)
    BY <1>1, <1>2, <1>3 DEF In
  <2>4. QED
    BY <2>1, <2>2, <2>3
<1>8. ASSUME NEW k \in Lists, ls[k] # <<>>
      PROVE  more[k] # <<>> /\ Head(more[k]) = Head(ls[k])
  <2>1. CASE k # l
    BY <1>2, <1>8, <2>1
  <2>2. CASE k = l
    <3>1. Len(ls[l]) >= 1 /\ Len(more[l]) >= 1 /\ more[l] \in Seq(B)
      BY <1>1, <1>2, <1>8, <2>2, EmptySeq
    <3>2. Head(more[l]) = more[l][1] /\ Head(ls[l]) = ls[l][1] /\ more[l][1] = ls[l][1]
      BY <3>1, <1>1, <1>2, HeadTailProperties, EmptySeq
    <3>3. QED
      BY <2>2, <3>1, <3>2, EmptySeq
  <2>3. QED
    BY <2>1, <2>2
<1>9. QED
  BY <1>2, <1>6, <1>7, <1>8 DEF Pushed

(* The same for a whole sequence of threads.                               *)
Longer(ls, l, w, new) ==
  /\ \A k \in Lists : k # l => new[k] = ls[k]
  /\ \A t : In(new, l, t) <=> (In(ls, l, t) \/ \E i \in DOMAIN w : w[i] = t)
  /\ ls[l] # <<>> => Head(new[l]) = Head(ls[l])

LEMMA JoinedLists ==
  ASSUME NEW B, NEW ls \in [Lists -> Seq(B)], Once(ls), NEW l \in Lists, NEW w \in Seq(B),
         Fresh(ls, w), NEW new, new = Joined(ls, l, w)
  PROVE  new \in [Lists -> Seq(B)] /\ Once(new) /\ Longer(ls, l, w, new)
<1> DEFINE n == Len(ls[l])
           m == Len(w)
<1>0. new = [ls EXCEPT ![l] = @ \o w]
  BY DEF Joined
<1>1. /\ ls[l] \in Seq(B) /\ n \in Nat /\ m \in Nat
      /\ DOMAIN ls[l] = 1 .. n /\ DOMAIN w = 1 .. m
  OBVIOUS
<1>2. PICK both \in Seq(B) : both = ls[l] \o w
  BY <1>1, ConcatProperties
<1>3. /\ Len(both) = n + m
      /\ \A i \in 1 .. n + m : both[i] = IF i <= n THEN ls[l][i] ELSE w[i - n]
  BY <1>1, <1>2, ConcatProperties
<1>4. /\ new \in [Lists -> Seq(B)] /\ new[l] = both
      /\ \A k \in Lists : k # l => new[k] = ls[k]
  BY <1>0, <1>1, <1>2
<1>5. DOMAIN both = 1 .. n + m
  BY <1>3
(* Where a thread of the longer list was.                                  *)
<1>6. \A i \in DOMAIN both :
        \/ i \in DOMAIN ls[l] /\ both[i] = ls[l][i] /\ i <= n
        \/ i - n \in DOMAIN w /\ both[i] = w[i - n] /\ i > n
  BY <1>1, <1>3, <1>5
<1>7. \A i \in DOMAIN ls[l] : i \in DOMAIN both /\ both[i] = ls[l][i]
  BY <1>1, <1>3, <1>5
<1>8. \A i \in DOMAIN w : i + n \in DOMAIN both /\ both[i + n] = w[i]
  <2> TAKE i \in DOMAIN w
  <2>1. i + n \in 1 .. n + m /\ ~(i + n <= n) /\ (i + n) - n = i
    BY <1>1
  <2>2. QED
    BY <1>3, <1>5, <2>1
<1>9. Once(new)
  <2> SUFFICES ASSUME NEW k \in Lists, NEW j \in Lists,
                      NEW a \in DOMAIN new[k], NEW b \in DOMAIN new[j],
                      new[k][a] = new[j][b]
               PROVE  k = j /\ a = b
    BY DEF Once
  <2>1. CASE k = l /\ j = l
    <3>1. a \in DOMAIN both /\ b \in DOMAIN both /\ both[a] = both[b] /\ a \in Int /\ b \in Int
      BY <1>4, <1>5, <2>1
    <3>2. CASE a <= n /\ b <= n
      <4>1. a \in DOMAIN ls[l] /\ b \in DOMAIN ls[l] /\ ls[l][a] = ls[l][b]
        BY <1>1, <1>6, <3>1, <3>2
      <4>2. QED
        BY <1>1, <2>1, <4>1 DEF Once
    <3>3. CASE a > n /\ b > n
      <4>1. a - n \in DOMAIN w /\ b - n \in DOMAIN w /\ w[a - n] = w[b - n]
        BY <1>1, <1>6, <3>1, <3>3
      <4>2. a - n = b - n
        BY <4>1 DEF Fresh
      <4>3. QED
        BY <1>1, <2>1, <3>1, <4>2
    <3>4. CASE a <= n /\ b > n
      <4>1. a \in DOMAIN ls[l] /\ b - n \in DOMAIN w /\ ls[l][a] = w[b - n]
        BY <1>1, <1>6, <3>1, <3>4
      <4>2. QED
        BY <4>1 DEF Once, Fresh, Nowhere, In
    <3>5. CASE a > n /\ b <= n
      <4>1. b \in DOMAIN ls[l] /\ a - n \in DOMAIN w /\ ls[l][b] = w[a - n]
        BY <1>1, <1>6, <3>1, <3>5
      <4>2. QED
        BY <4>1 DEF Once, Fresh, Nowhere, In
    <3>6. QED
      BY <1>1, <3>1, <3>2, <3>3, <3>4, <3>5
  <2>2. CASE k # l /\ j # l
    BY <1>4, <2>2 DEF Once
  <2>3. CASE k = l /\ j # l
    <3>1. new[j] = ls[j] /\ a \in DOMAIN both /\ both[a] = ls[j][b] /\ b \in DOMAIN ls[j]
      BY <1>4, <2>3
    <3>2. CASE a \in DOMAIN ls[l] /\ both[a] = ls[l][a]
      <4>1. ls[l][a] = ls[j][b] /\ l # j
        BY <2>3, <3>1, <3>2
      <4>2. QED
        BY <3>1, <3>2, <4>1 DEF Once
    <3>3. CASE a - n \in DOMAIN w /\ both[a] = w[a - n]
      BY <2>3, <3>1, <3>3 DEF Fresh, Nowhere, In
    <3>4. QED
      BY <1>6, <3>1, <3>2, <3>3
  <2>4. CASE k # l /\ j = l
    <3>1. new[k] = ls[k] /\ b \in DOMAIN both /\ both[b] = ls[k][a] /\ a \in DOMAIN ls[k]
      BY <1>4, <2>4
    <3>2. CASE b \in DOMAIN ls[l] /\ both[b] = ls[l][b]
      <4>1. ls[l][b] = ls[k][a] /\ l # k
        BY <2>4, <3>1, <3>2
      <4>2. QED
        BY <3>1, <3>2, <4>1 DEF Once
    <3>3. CASE b - n \in DOMAIN w /\ both[b] = w[b - n]
      BY <2>4, <3>1, <3>3 DEF Fresh, Nowhere, In
    <3>4. QED
      BY <1>6, <3>1, <3>2, <3>3
  <2>5. QED
    BY <2>1, <2>2, <2>3, <2>4
<1>10. ASSUME NEW t
       PROVE  In(new, l, t) <=> (In(ls, l, t) \/ \E i \in DOMAIN w : w[i] = t)
  <2>1. In(new, l, t) => (In(ls, l, t) \/ \E i \in DOMAIN w : w[i] = t)
    BY <1>4, <1>6 DEF In
  <2>2. In(ls, l, t) => In(new, l, t)
    BY <1>4, <1>7 DEF In
  <2>3. (\E i \in DOMAIN w : w[i] = t) => In(new, l, t)
    BY <1>4, <1>8 DEF In
  <2>4. QED
    BY <2>1, <2>2, <2>3
<1>11. ASSUME ls[l] # <<>>
       PROVE  Head(new[l]) = Head(ls[l])
  <2>1. 1 \in DOMAIN ls[l] /\ Head(ls[l]) = ls[l][1]
    BY <1>1, <1>11, EmptySeq, HeadTailProperties
  <2>2. 1 \in DOMAIN both /\ both[1] = ls[l][1]
    BY <1>7, <2>1
  <2>3. both # <<>>
    BY <2>2
  <2>4. QED
    BY <1>2, <1>4, <2>1, <2>2, <2>3, HeadTailProperties
<1>12. QED
  BY <1>4, <1>9, <1>10, <1>11 DEF Longer

LEMMA RequeuedLists ==
  ASSUME NEW B, NEW ls \in [Lists -> Seq(B)], Once(ls), NEW l \in Lists, ls[RQ] # <<>>
  PROVE  /\ Requeued(ls, l) \in [Lists -> Seq(B)]
         /\ Once(Requeued(ls, l))
         /\ Head(ls[RQ]) \in B
         /\ In(Requeued(ls, l), l, Head(ls[RQ]))
         /\ \A k \in Lists, t \in B :
              t # Head(ls[RQ]) => (In(Requeued(ls, l), k, t) <=> In(ls, k, t))
<1>1. RQ \in Lists
  BY DEF Lists
<1> DEFINE left == Popped(ls, RQ)
           h == Head(ls[RQ])
<1>2. /\ left \in [Lists -> Seq(B)] /\ Once(left) /\ h \in B /\ Nowhere(left, h)
      /\ \A k \in Lists, t \in B : t # h => (In(left, k, t) <=> In(ls, k, t))
  BY <1>1, TailLists
<1>3. /\ Pushed(left, l, h) \in [Lists -> Seq(B)] /\ Once(Pushed(left, l, h))
      /\ \A k \in Lists : \A u : In(Pushed(left, l, h), k, u) <=> (In(left, k, u) \/ (k = l /\ u = h))
  <2> HIDE DEF left, h
  <2>1. QED
    BY <1>2, AppendLists
<1>4. Requeued(ls, l) = Pushed(left, l, h)
  BY DEF Requeued, Popped, Pushed
<1>5. QED
  BY <1>2, <1>3, <1>4

-----------------------------------------------------------------------------
(* The lists share no thread, whatever the timer does.                     *)

LEMMA CrashOnce ==
  ASSUME Once(lists), NEW f, Crash(f)
  PROVE  Once(lists')
BY DEF Crash

LEMMA ScheduleOnce ==
  ASSUME Once(lists), NEW ls, ListsOK(ls, stack), Once(ls), NEW l \in Lists,
         NEW then, Schedule(ls, l, then)
  PROVE  Once(lists')
<1>1. CASE ls[RQ] = <<>> \/ Requeued(ls, l)[RQ] = <<>>
  BY <1>1, CrashOnce DEF Schedule
<1>2. CASE ~(ls[RQ] = <<>> \/ Requeued(ls, l)[RQ] = <<>>)
  <2>1. lists' = Requeued(ls, l)
    BY <1>2 DEF Schedule
  <2>2. Once(Requeued(ls, l))
    BY <1>2, RequeuedLists DEF ListsOK
  <2>3. QED
    BY <2>1, <2>2
<1>3. QED
  BY <1>1, <1>2

(* A created thread that is on no list is put on the run queue.            *)
LEMMA LinkedIn ==
  ASSUME NEW t
  PROVE  ~Linked(t) <=> Nowhere(lists, t)
BY DEF Linked, Nowhere, In

(* In a world without duplicates, what thread_sleep and thread_returned    *)
(* leave of a list.                                                        *)
LEMMA RemovedOnce ==
  ASSUME NEW B, NEW ls \in [Lists -> Seq(B)], Once(ls), NEW l \in Lists,
         NEW i \in DOMAIN ls[l], NEW left, left = [ls EXCEPT ![l] = RemoveAt(@, i)]
  PROVE  Once(left)
<1> DEFINE n == Len(ls[l])
           old(k, j) == IF k = l /\ j >= i THEN j + 1 ELSE j
<1>1. ls[l] \in Seq(B) /\ n \in Nat /\ i \in 1 .. n
  OBVIOUS
<1>2. RemoveAt(ls[l], i) = SubSeq(ls[l], 1, i - 1) \o SubSeq(ls[l], i + 1, n)
  BY DEF RemoveAt
<1>3. /\ DOMAIN RemoveAt(ls[l], i) = 1 .. n - 1
      /\ \A j \in 1 .. n - 1 : RemoveAt(ls[l], i)[j] = ls[l][IF j >= i THEN j + 1 ELSE j]
  <2>1. SubSeq(ls[l], 1, i - 1) \in Seq(B) /\ SubSeq(ls[l], i + 1, n) \in Seq(B)
    BY <1>1
  <2>2. /\ Len(SubSeq(ls[l], 1, i - 1)) = i - 1 /\ Len(SubSeq(ls[l], i + 1, n)) = n - i
        /\ \A j \in 1 .. i - 1 : SubSeq(ls[l], 1, i - 1)[j] = ls[l][j]
        /\ \A j \in 1 .. n - i : SubSeq(ls[l], i + 1, n)[j] = ls[l][i + j]
    BY <1>1
  <2>3. PICK s1 \in Seq(B) : s1 = SubSeq(ls[l], 1, i - 1)
    BY <2>1
  <2>4. PICK s2 \in Seq(B) : s2 = SubSeq(ls[l], i + 1, n)
    BY <2>1
  <2>5. /\ s1 \o s2 \in Seq(B) /\ Len(s1 \o s2) = Len(s1) + Len(s2)
        /\ \A j \in 1 .. Len(s1) + Len(s2) :
             (s1 \o s2)[j] = IF j <= Len(s1) THEN s1[j] ELSE s2[j - Len(s1)]
    BY ConcatProperties
  <2>a. Len(s1) = i - 1 /\ Len(s2) = n - i
    BY <2>2, <2>3, <2>4
  <2>6. /\ DOMAIN (s1 \o s2) = 1 .. n - 1
        /\ \A j \in 1 .. n - 1 : (s1 \o s2)[j] = IF j < i THEN s1[j] ELSE s2[j - (i - 1)]
    <3>1. i \in Int /\ n \in Int /\ Len(s1) + Len(s2) = n - 1
      BY <1>1, <2>a
    <3>2. Len(s1 \o s2) = n - 1
      BY <2>5, <3>1
    <3>3. DOMAIN (s1 \o s2) = 1 .. n - 1
      BY <2>5, <3>2
    <3>4. \A j \in 1 .. n - 1 : (s1 \o s2)[j] = IF j <= i - 1 THEN s1[j] ELSE s2[j - (i - 1)]
      BY <2>5, <2>a, <3>1
    <3>5. \A j \in 1 .. n - 1 : j <= i - 1 <=> j < i
      BY <3>1
    <3>6. QED
      BY <3>3, <3>4, <3>5
  <2>8. ASSUME NEW j \in 1 .. n - 1
        PROVE  (s1 \o s2)[j] = ls[l][IF j >= i THEN j + 1 ELSE j]
    <3>0. j < i \/ j >= i
      BY <1>1
    <3>1. CASE j < i
      <4>1. j \in 1 .. i - 1 /\ ~(j >= i)
        BY <1>1, <3>1
      <4>2. s1[j] = ls[l][j]
        BY <2>2, <2>3, <4>1
      <4>3. QED
        BY <2>6, <3>1, <4>1, <4>2
    <3>2. CASE j >= i
      <4>1. j - (i - 1) \in 1 .. n - i /\ i + (j - (i - 1)) = j + 1
        BY <1>1, <3>2
      <4>2. s2[j - (i - 1)] = ls[l][j + 1]
        BY <2>2, <2>4, <4>1
      <4>3. ~(j < i)
        BY <1>1, <3>2
      <4>4. (s1 \o s2)[j] = s2[j - (i - 1)]
        BY <2>6, <4>3, Zenon
      <4>5. QED
        BY <3>2, <4>2, <4>4, Zenon
    <3>3. QED
      BY <3>0, <3>1, <3>2, Zenon
  <2>7. QED
    BY <1>2, <2>3, <2>4, <2>6, <2>8
<1>4. \A k \in Lists : DOMAIN left[k] = IF k = l THEN 1 .. n - 1 ELSE DOMAIN ls[k]
  BY <1>3
<1>5. \A k \in Lists : \A j \in DOMAIN left[k] :
        j \in Int /\ old(k, j) \in DOMAIN ls[k] /\ left[k][j] = ls[k][old(k, j)]
  <2> TAKE k \in Lists
  <2> TAKE j \in DOMAIN left[k]
  <2>1. DOMAIN ls[k] = 1 .. Len(ls[k]) /\ Len(ls[k]) \in Nat
    OBVIOUS
  <2>2. CASE k = l
    BY <1>1, <1>3, <1>4, <2>1, <2>2
  <2>3. CASE k # l
    BY <1>4, <2>1, <2>3
  <2>4. QED
    BY <2>2, <2>3
<1>6. SUFFICES ASSUME NEW k \in Lists, NEW m \in Lists,
                      NEW a \in DOMAIN left[k], NEW b \in DOMAIN left[m],
                      left[k][a] = left[m][b]
               PROVE  k = m /\ a = b
  BY DEF Once
<1>7. k = m /\ old(k, a) = old(m, b)
  BY <1>5, <1>6 DEF Once
<1>8. QED
  BY <1>1, <1>5, <1>7

LEMMA CreatedOnce ==
  ASSUME SchedInv, Once(lists), NEW t \in Threads, ThreadCreate(t)
  PROVE  Once(lists')
<1>1. lists \in [Lists -> Seq(Threads)]
  BY SchedInvType DEF SchedTypeOK
<1>2. lists \in [Lists -> Seq(Born(stack))] /\ t \notin Born(stack) /\ RQ \in Lists
  BY DEF SchedInv, ListsOK, ThreadCreate, Created, Born, Lists
<1>3. Nowhere(lists, t)
  BY <1>2 DEF Nowhere, In
<1>4. lists' = Pushed(lists, RQ, t)
  BY DEF ThreadCreate, Pushed
<1>5. QED
  BY <1>1, <1>2, <1>3, <1>4, AppendLists

LEMMA ReturnedOnce ==
  ASSUME SchedInv, Once(lists), ThreadReturned
  PROVE  Once(lists')
<1>1. CASE lists[RQ] = <<>>
  BY <1>1, CrashOnce DEF ThreadReturned
<1>2. CASE lists[RQ] # <<>>
  <2>1. lists' = Popped(lists, RQ)
    BY <1>2 DEF ThreadReturned, Popped
  <2>2. QED
    BY <1>2, <2>1, TailLists, ListsTyped DEF ListsOK
<1>3. QED
  BY <1>1, <1>2

LEMMA SleptOnce ==
  ASSUME SchedInv, Once(lists), SleepCurrent
  PROVE  Once(lists')
<1>1. CASE ~Linked(current_tcb)
  BY <1>1, CrashOnce DEF SleepCurrent
<1>2. CASE Linked(current_tcb)
  <2>1. PICK l \in Lists : \E i \in DOMAIN lists[l] :
          lists' = [lists EXCEPT ![l] = RemoveAt(@, i)]
    BY <1>2 DEF SleepCurrent
  <2>2. PICK i \in DOMAIN lists[l] : lists' = [lists EXCEPT ![l] = RemoveAt(@, i)]
    BY <2>1
  <2>3. QED
    BY <2>2, RemovedOnce, ListsTyped DEF ListsOK
<1>3. QED
  BY <1>1, <1>2

LEMMA WokenOnce ==
  ASSUME SchedInv, Once(lists), NEW t \in Threads, ThreadWake(t)
  PROVE  Once(lists')
<1>1. CASE Linked(t)
  BY <1>1, CrashOnce DEF ThreadWake
<1>2. CASE ~Linked(t)
  <2>1. lists \in [Lists -> Seq(Threads)] /\ RQ \in Lists
    BY SchedInvType DEF SchedTypeOK, Lists
  <2>2. lists' = Pushed(lists, RQ, t)
    BY <1>2 DEF ThreadWake, Pushed
  <2>3. QED
    BY <1>2, <2>1, <2>2, LinkedIn, AppendLists
<1>3. QED
  BY <1>1, <1>2

LEMMA KernelStepOnce ==
  ASSUME SchedInv, Once(lists), KernelStep
  PROVE  Once(lists')
<1>1. CASE DispatcherSwitchTo
  BY <1>1 DEF DispatcherSwitchTo, Crash
<1>2. CASE SwitchStack
  BY <1>2 DEF SwitchStack
<1>3. CASE TimerReturn
  BY <1>3 DEF TimerReturn
<1>4. CASE TimerSchedule
  BY <1>4, ScheduleOnce, ListsTyped DEF TimerSchedule
<1>5. CASE IdleFirstSchedule
  BY <1>5, ScheduleOnce, ListsTyped DEF IdleFirstSchedule
<1>6. CASE ReturnedSchedule
  BY <1>6, ScheduleOnce, ListsTyped DEF ReturnedSchedule
<1>7. CASE SleepSchedule
  BY <1>7, ScheduleOnce, ListsTyped DEF SleepSchedule
<1>8. QED
  BY <1>1, <1>2, <1>3, <1>4, <1>5, <1>6, <1>7 DEF KernelStep

LEMMA SchedInitOnce ==
  ASSUME SchedInit
  PROVE  Once(lists)
<1>1. \A l \in Lists : \A i \in DOMAIN lists[l] :
        /\ l = RQ /\ i \in {1, 2}
        /\ lists[l][i] = IF i = 1 THEN Idle ELSE Main
  BY DEF SchedInit
<1>2. QED
  BY <1>1, SchedAssumption DEF Once

(* A thread is linked at most once, in at most one list, whatever threads  *)
(* do and wherever the timer interrupts them: run_list, the one link field *)
(* that the run queue and all wait lists share, is never linked twice.     *)
THEOREM SchedLinkedOnce == SchedSpec => []LinkedOnce
<1>1. SchedInit => SchedInv /\ Once(lists)
  BY SchedInitInv, SchedInitOnce
<1>2. SchedInv /\ Once(lists) /\ [SchedNext]_schedVars => Once(lists)'
  <2> SUFFICES ASSUME SchedInv, Once(lists), [SchedNext]_schedVars
               PROVE  Once(lists')
    OBVIOUS
  <2>1. CASE KernelStep
    BY <2>1, KernelStepOnce
  <2>2. CASE Yield
    BY <2>2, ScheduleOnce, ListsTyped DEF Yield
  <2>3. ASSUME NEW t \in Threads, ThreadCreate(t)
        PROVE  Once(lists')
    BY <2>3, CreatedOnce
  <2>4. CASE ThreadReturned
    BY <2>4, ReturnedOnce
  <2>5. CASE ThreadSleep
    BY <2>5, SleptOnce DEF ThreadSleep
  <2>6. CASE Tick
    BY <2>6 DEF Tick
  <2>7. CASE Wake
    BY <2>7, WokenOnce DEF Wake
  <2>8. CASE UNCHANGED schedVars
    BY <2>8 DEF schedVars
  <2>9. QED
    BY <2>1, <2>2, <2>3, <2>4, <2>5, <2>6, <2>7, <2>8 DEF SchedNext, ClientStep, Halted
<1>3. SchedInv /\ [SchedNext]_schedVars => SchedInv'
  BY SchedStepInv
<1>4. Once(lists) => LinkedOnce
  BY DEF Once, LinkedOnce
<1>5. QED
  BY <1>1, <1>2, <1>3, <1>4, PTL DEF SchedSpec

-----------------------------------------------------------------------------
(* Replacing the top frame of the running thread by f.                     *)

LEMMA NewTop ==
  ASSUME SchedInv, NEW f
  PROVE  /\ cpu \in Threads
         /\ Len(stack[cpu]) \in Nat \ {0}
         /\ \A t \in Threads : t # cpu => SetTop(f)[t] = stack[t]
         /\ SetTop(f)[cpu] # <<>> /\ Len(SetTop(f)[cpu]) = Len(stack[cpu])
         /\ Last(SetTop(f)[cpu]) = f
         /\ SetTop(f)[cpu][1] = IF Len(stack[cpu]) = 1 THEN f ELSE stack[cpu][1]
         /\ DOMAIN SetTop(f)[cpu] = 1 .. Len(stack[cpu]) /\ DOMAIN stack[cpu] = 1 .. Len(stack[cpu])
         /\ \A j \in 1 .. Len(stack[cpu]) :
              SetTop(f)[cpu][j] = IF j = Len(stack[cpu]) THEN f ELSE stack[cpu][j]
         /\ Born(SetTop(f)) = Born(stack)
<1>1. /\ cpu \in Threads /\ stack[cpu] \in Seq(Frame) /\ Len(stack[cpu]) \in Nat \ {0}
      /\ cpu \in Born(stack)
  BY TopFrame DEF SchedInv
<1>2. /\ \A t \in Threads : t # cpu => SetTop(f)[t] = stack[t]
      /\ SetTop(f)[cpu] \in Seq(Frame \cup {f}) /\ Len(SetTop(f)[cpu]) = Len(stack[cpu])
      /\ \A j \in 1 .. Len(stack[cpu]) :
           SetTop(f)[cpu][j] = IF j = Len(stack[cpu]) THEN f ELSE stack[cpu][j]
  BY SetTopFrames DEF SchedInv
<1>3. SetTop(f)[cpu] # <<>> /\ stack[cpu] # <<>>
  BY <1>1, <1>2, EmptySeq
<1>4. Last(SetTop(f)[cpu]) = f
  BY <1>1, <1>2 DEF Last
<1>5. DOMAIN SetTop(f)[cpu] = 1 .. Len(stack[cpu]) /\ DOMAIN stack[cpu] = 1 .. Len(stack[cpu])
  BY <1>1, <1>2
<1>6. SetTop(f)[cpu][1] = IF Len(stack[cpu]) = 1 THEN f ELSE stack[cpu][1]
  <2>1. 1 \in 1 .. Len(stack[cpu])
    BY <1>1
  <2>2. SetTop(f)[cpu][1] = IF 1 = Len(stack[cpu]) THEN f ELSE stack[cpu][1]
    BY <1>2, <2>1
  <2>3. QED
    BY <2>2
<1>7. Born(SetTop(f)) = Born(stack)
  BY <1>1, <1>2, <1>3 DEF Born
<1>8. QED
  BY <1>1, <1>2, <1>3, <1>4, <1>5, <1>6, <1>7

LEMMA AliveStays ==
  ASSUME SchedInv, NEW f,
         Len(stack[cpu]) = 1 /\ cpu \in Alive(stack) => f.at \notin {"exit", "gone"} /\ f.then # "gone"
  PROVE  Alive(stack) \subseteq Alive(SetTop(f))
<1> SUFFICES ASSUME NEW t \in Alive(stack)
             PROVE  t \in Alive(SetTop(f))
  OBVIOUS
<1>1. t \in Threads /\ t \in Born(stack) /\ t \in Born(SetTop(f))
  BY NewTop DEF Alive, Born
<1>2. SetTop(f)[t][1] = IF t = cpu /\ Len(stack[cpu]) = 1 THEN f ELSE stack[t][1]
  BY <1>1, NewTop
<1>3. QED
  BY <1>1, <1>2 DEF Alive

LEMMA QueuesStay ==
  ASSUME NEW ls, NEW st, NEW su, QueuesOK(ls, st), Alive(st) \subseteq Alive(su)
  PROVE  QueuesOK(ls, su)
<1>1. \A l \in Lists : ls[l] \in Seq(Alive(su))
  BY SeqMonotonic DEF QueuesOK
<1>2. QED
  BY <1>1 DEF QueuesOK

LEMMA PlacesStay ==
  ASSUME SchedInv, PlacesOK(stack, cpu), NEW f,
         Len(stack[cpu]) = 1 =>
           /\ f.at \in Window => f.then \notin Unlinking \cup Window
           /\ f.at = "slept" => f.next = cpu /\ f.then = "slept"
           /\ cpu = Idle => f.at \in {"first", "run"} \cup Window /\ f.then \in {"first", "run"}
  PROVE  PlacesOK(SetTop(f), cpu)
<1>1. \A t \in Threads : \A i \in DOMAIN SetTop(f)[t] :
        SetTop(f)[t][i].at \in Window => t = cpu /\ i = Len(SetTop(f)[t])
  <2> SUFFICES ASSUME NEW t \in Threads, NEW i \in DOMAIN SetTop(f)[t],
                      SetTop(f)[t][i].at \in Window
               PROVE  t = cpu /\ i = Len(SetTop(f)[t])
    OBVIOUS
  <2>1. CASE t # cpu
    <3>1. SetTop(f)[t] = stack[t]
      BY <2>1, NewTop
    <3>2. QED
      BY <3>1 DEF PlacesOK
  <2>2. CASE t = cpu
    <3>1. i \in DOMAIN stack[cpu] /\ Len(SetTop(f)[cpu]) = Len(stack[cpu])
      BY <2>2, NewTop
    <3>2. i # Len(stack[cpu]) => SetTop(f)[cpu][i] = stack[cpu][i]
      BY <2>2, NewTop
    <3>3. QED
      BY <2>2, <3>1, <3>2 DEF PlacesOK
  <2>3. QED
    BY <2>1, <2>2
<1>2. \A t \in Threads : t \in Born(SetTop(f)) <=> t \in Born(stack)
  BY NewTop
<1>3. \A t \in Born(SetTop(f)) :
        /\ SetTop(f)[t][1].at \in Window => SetTop(f)[t][1].then \notin Unlinking \cup Window
        /\ SetTop(f)[t][1].at = "slept" => SetTop(f)[t][1].next = t /\ SetTop(f)[t][1].then = "slept"
  <2> TAKE t \in Born(SetTop(f))
  <2>1. t \in Threads /\ t \in Born(stack)
    BY <1>2 DEF Born
  <2>2. SetTop(f)[t][1] = IF t = cpu /\ Len(stack[cpu]) = 1 THEN f ELSE stack[t][1]
    BY <2>1, NewTop
  <2>3. QED
    BY <2>1, <2>2 DEF PlacesOK
<1>4. SetTop(f)[Idle][1] = IF Idle = cpu /\ Len(stack[cpu]) = 1 THEN f ELSE stack[Idle][1]
  BY NewTop, SchedAssumption
<1>5. QED
  BY <1>1, <1>3, <1>4 DEF PlacesOK

(* The frame the processor is at, one level up.                            *)
LEMMA TopIs ==
  ASSUME SchedInv
  PROVE  /\ Top = stack[cpu][Len(stack[cpu])] /\ Top.at \in Points /\ Top.then \in Points
         /\ cpu \in Threads /\ cpu \in Born(stack) /\ Len(stack[cpu]) \in Nat \ {0}
         /\ Len(stack[cpu]) = 1 => Top = stack[cpu][1]
         /\ Top.at \notin Handler \cup Window => Len(stack[cpu]) = 1
         /\ Top.at \in Handler => Len(stack[cpu]) # 1
         /\ Len(stack[cpu]) # 1 => Len(stack[cpu]) > 1
<1>1. \A n \in Nat \ {0} : n # 1 <=> n > 1
  OBVIOUS
<1>2. Len(stack[cpu]) \in Nat \ {0}
  BY TopFrame DEF SchedInv
<1>3. Len(stack[cpu]) # 1 <=> Len(stack[cpu]) > 1
  BY <1>1, <1>2, Zenon
<1>4. QED
  BY <1>3, TopFrame, Depth DEF SchedInv

-----------------------------------------------------------------------------
(* The run queue never runs dry, and whoever is chosen runs.               *)

LEMMA IdleQueued ==
  ASSUME NEW ls, NEW st, QueuesOK(ls, st)
  PROVE  RQ \in Lists /\ ls[RQ] # <<>> /\ In(ls, RQ, Idle) /\ Idle \in Alive(st)
<1>1. RQ \in Lists
  BY DEF Lists
<1>2. PICK i \in DOMAIN ls[RQ] : ls[RQ][i] = Idle
  BY DEF QueuesOK
<1>3. ls[RQ] \in Seq(Alive(st))
  BY <1>1 DEF QueuesOK
<1>4. QED
  BY <1>1, <1>2, <1>3 DEF In

LEMMA ScheduleRun ==
  ASSUME SchedInv, PlacesOK(stack, cpu), RunnerOK, fault = "none",
         ~InWindow,
         NEW ls, QueuesOK(ls, stack),
         NEW l \in Lists, l = RQ \/ Head(ls[RQ]) # Idle,
         NEW then, then \notin Unlinking \cup Window,
         Len(stack[cpu]) = 1 /\ cpu \in Alive(stack) => then # "gone",
         Len(stack[cpu]) = 1 /\ cpu = Idle => then \in {"first", "run"},
         Schedule(ls, l, then)
  PROVE  RunInv'
<1> DEFINE moved == Requeued(ls, l)
           next == Head(moved[RQ])
           f == [at |-> "switch", then |-> then, next |-> next]
<1>1. /\ RQ \in Lists /\ ls[RQ] # <<>> /\ In(ls, RQ, Idle) /\ Idle \in Alive(stack)
      /\ ls \in [Lists -> Seq(Alive(stack))] /\ Once(ls)
  BY IdleQueued DEF QueuesOK
<1>2. /\ moved \in [Lists -> Seq(Alive(stack))] /\ Once(moved)
      /\ In(moved, l, Head(ls[RQ]))
      /\ \A k \in Lists, t \in Alive(stack) :
           t # Head(ls[RQ]) => (In(moved, k, t) <=> In(ls, k, t))
  BY <1>1, RequeuedLists
<1>3. In(moved, RQ, Idle)
  BY <1>1, <1>2
<1>4. QueuesOK(moved, stack) /\ moved[RQ] # <<>>
  <2>1. QueuesOK(moved, stack)
    BY <1>2, <1>3 DEF QueuesOK, In
  <2>2. QED
    BY <2>1, IdleQueued
<1>5. /\ lists' = moved /\ current_tcb' = next /\ stack' = SetTop(f)
      /\ current_context' = current_context /\ cpu' = cpu /\ fault' = fault
  BY <1>1, <1>4 DEF Schedule
<1>6. Alive(stack) \subseteq Alive(stack')
  BY <1>5, AliveStays
<1>7. QueuesOK(lists', stack')
  BY <1>4, <1>5, <1>6, QueuesStay
<1>8. PlacesOK(stack', cpu')
  BY <1>5, PlacesStay DEF Window
<1>9. /\ stack'[cpu'][1].at # "gone" /\ Top' = f
  BY <1>5, NewTop DEF Top, RunnerOK
<1>10. RunnerOK'
  BY <1>5, <1>9 DEF RunnerOK, InWindow, Window
<1>11. QED
  BY <1>5, <1>7, <1>8, <1>10 DEF RunInv, RunOK

(* A step of the code of a thread that does not schedule.                  *)
LEMMA CodeRun ==
  ASSUME SchedInv, PlacesOK(stack, cpu), RunnerOK, fault = "none",
         Len(stack[cpu]) = 1, ~InWindow, cpu # Idle,
         NEW f, f.at \notin Window \cup {"gone"},
         f.at = "slept" => f.next = cpu /\ f.then = "slept",
         stack' = SetTop(f),
         QueuesOK(lists', stack'),
         f.at \notin Unlinking => Head(lists'[RQ]) = cpu,
         UNCHANGED <<current_tcb, current_context, cpu, fault>>
  PROVE  RunInv'
<1>1. PlacesOK(stack', cpu')
  BY PlacesStay
<1>2. stack'[cpu'][1] = f /\ Top' = f
  BY NewTop DEF Top
<1>3. RunnerOK'
  BY <1>2 DEF RunnerOK, InWindow, Window
<1>4. QED
  BY <1>1, <1>3 DEF RunInv, RunOK

(* The thread that runs its own code is at the head of the run queue.      *)
LEMMA RunsAtHead ==
  ASSUME SchedInv, RunInv, Top.at \notin Handler \cup Window \cup Unlinking
  PROVE  /\ Len(stack[cpu]) = 1 /\ Top = stack[cpu][1] /\ ~InWindow
         /\ current_tcb = cpu /\ current_context = cpu
         /\ lists[RQ] # <<>> /\ Head(lists[RQ]) = cpu
<1>1. Len(stack[cpu]) = 1 /\ Top = stack[cpu][1] /\ ~InWindow
  BY TopIs DEF InWindow
<1>2. lists[RQ] # <<>>
  BY IdleQueued DEF RunInv, RunOK
<1>3. QED
  BY <1>1, <1>2 DEF RunInv, RunOK, RunnerOK, InWindow, Window

-----------------------------------------------------------------------------
(* The steps of the processor.                                             *)

LEMMA DispatcherSwitchToRun ==
  ASSUME SchedInv, RunInv, DispatcherSwitchTo
  PROVE  RunInv'
<1> DEFINE f == [Top EXCEPT !.at = "handover"]
<1>1. /\ Top.at = "switch" /\ InWindow /\ fault = "none"
      /\ current_context = cpu /\ current_tcb = Top.next
  BY DEF DispatcherSwitchTo, Executing, InWindow, Window, RunInv, RunOK, RunnerOK
<1>2. /\ stack' = SetTop(f) /\ current_context' = Top.next
      /\ UNCHANGED <<lists, current_tcb, cpu, quantum, fault>>
  BY <1>1 DEF DispatcherSwitchTo
<1>3. f.at = "handover" /\ f.then = Top.then /\ f.next = Top.next
  BY TopFrame DEF SchedInv, Frame
<1>4. Len(stack[cpu]) = 1 => /\ Top = stack[cpu][1] /\ Top.then \notin Unlinking \cup Window
                             /\ cpu = Idle => Top.then \in {"first", "run"}
  BY <1>1, TopIs DEF RunInv, RunOK, PlacesOK, InWindow
<1>5. PlacesOK(stack', cpu')
  <2> HIDE DEF f
  <2>1. QED
    BY <1>2, <1>3, <1>4, PlacesStay DEF RunInv, RunOK, Window
<1>6. QueuesOK(lists', stack')
  <2> HIDE DEF f
  <2>1. Alive(stack) \subseteq Alive(SetTop(f))
    BY <1>3, <1>4, AliveStays DEF Alive
  <2>2. QED
    BY <1>2, <2>1, QueuesStay DEF RunInv, RunOK
<1>7. Top' = f /\ stack'[cpu'][1].at # "gone"
  <2> HIDE DEF f
  <2>1. QED
    BY <1>2, <1>3, NewTop DEF Top, RunInv, RunOK, RunnerOK
<1>8. RunnerOK'
  BY <1>1, <1>2, <1>3, <1>7 DEF RunInv, RunOK, RunnerOK, InWindow, Window
<1>9. QED
  BY <1>1, <1>2, <1>5, <1>6, <1>8 DEF RunInv, RunOK

LEMMA SwitchStackRun ==
  ASSUME SchedInv, RunInv, SwitchStack
  PROVE  RunInv'
<1> DEFINE f == At(Top.then)
           next == Top.next
<1>1. /\ Top.at = "handover" /\ InWindow /\ fault = "none"
      /\ current_tcb = next /\ current_context = next /\ Head(lists[RQ]) = next
  BY DEF SwitchStack, Executing, InWindow, Window, RunInv, RunOK, RunnerOK
<1>2. /\ stack' = SetTop(f) /\ cpu' = next
      /\ UNCHANGED <<lists, current_tcb, current_context, fault>>
  BY DEF SwitchStack
<1>3. f.at = Top.then /\ f.then = Top.then
  BY DEF At
<1>4. Top.then \notin Window
  <2>1. CASE Len(stack[cpu]) = 1
    BY <1>1, <2>1, TopIs DEF RunInv, RunOK, PlacesOK, InWindow
  <2>2. CASE Len(stack[cpu]) # 1
    <3>1. Len(stack[cpu]) > 1
      BY <2>2, TopIs
    <3>2. QED
      BY <3>1, TopFrame DEF SchedInv, HandlerFrame, Handler, Window
  <2>3. QED
    BY <2>1, <2>2
<1>5. Len(stack[cpu]) = 1 => /\ Top = stack[cpu][1] /\ Top.then \notin Unlinking
                             /\ cpu = Idle => Top.then \in {"first", "run"}
  BY <1>1, TopIs DEF RunInv, RunOK, PlacesOK, InWindow
<1>6. PlacesOK(stack', cpu)
  <2> HIDE DEF f
  <2>1. QED
    BY <1>2, <1>3, <1>4, <1>5, PlacesStay DEF RunInv, RunOK, Unlinking
<1>7. \A t \in Threads : \A i \in DOMAIN stack'[t] : stack'[t][i].at \notin Window
  <2> HIDE DEF f
  <2>1. Len(stack'[cpu]) = Len(stack[cpu]) /\ stack'[cpu][Len(stack[cpu])] = f
    BY <1>2, NewTop
  <2>2. QED
    BY <1>3, <1>4, <1>6, <2>1 DEF PlacesOK
<1>8. PlacesOK(stack', cpu')
  BY <1>6, <1>7 DEF PlacesOK
<1>9. Alive(stack) \subseteq Alive(stack')
  <2> HIDE DEF f
  <2>1. QED
    BY <1>2, <1>3, <1>5, AliveStays DEF Alive, Unlinking
<1>10. QueuesOK(lists', stack')
  BY <1>2, <1>9, QueuesStay DEF RunInv, RunOK
<1>11. next \in Alive(stack')
  <2>1. lists[RQ] \in Seq(Alive(stack)) /\ lists[RQ] # <<>>
    BY IdleQueued DEF RunInv, RunOK, QueuesOK
  <2>2. Head(lists[RQ]) \in Alive(stack)
    BY <2>1, HeadTailProperties
  <2>3. QED
    BY <1>1, <1>9, <2>2
<1>12. stack'[next][1].at # "gone" /\ Top'.at \notin Window
  <2>1. next \in Threads /\ stack'[next] # <<>> /\ stack'[next] \in Seq(Frame)
    BY <1>11, SwitchStackInv DEF Alive, Born, SchedInv, StackOK
  <2>2. Len(stack'[next]) \in DOMAIN stack'[next]
    BY <2>1, EmptySeq
  <2>3. Top' = stack'[next][Len(stack'[next])]
    BY <1>2 DEF Top, Last
  <2>4. QED
    BY <1>7, <1>11, <2>1, <2>2, <2>3 DEF Alive
<1>13. RunnerOK'
  BY <1>1, <1>2, <1>12 DEF RunnerOK, InWindow, Window
<1>14. QED
  BY <1>1, <1>2, <1>8, <1>10, <1>13 DEF RunInv, RunOK

(* A handler that returns leaves the code it interrupted as it was.        *)
LEMMA TimerReturnFrames ==
  ASSUME SchedInv, TimerReturn
  PROVE  LET n == Len(stack[cpu])
         IN  /\ n \in Nat /\ n > 1
             /\ Len(stack'[cpu]) = n - 1 /\ DOMAIN stack'[cpu] = 1 .. n - 1 /\ DOMAIN stack[cpu] = 1 .. n
             /\ \A i \in 1 .. n - 1 : stack'[cpu][i] = stack[cpu][i]
             /\ \A t \in Threads : t # cpu => stack'[t] = stack[t]
             /\ \A t \in Threads : (stack'[t] # <<>> <=> stack[t] # <<>>) /\ stack'[t][1] = stack[t][1]
<1> DEFINE n == Len(stack[cpu])
<1>1. Top.at = "iret" /\ stack' = [stack EXCEPT ![cpu] = Front(@)]
  BY DEF TimerReturn, Executing
<1>3. /\ cpu \in Threads /\ n \in Nat \ {0} /\ n > 1
      /\ stack[cpu] \in Seq(Frame) /\ stack \in [Threads -> Seq(Frame)]
  BY <1>1, TopIs DEF Handler, SchedInv, StackOK
<1>4. /\ Front(stack[cpu]) \in Seq(Frame) /\ Len(Front(stack[cpu])) = n - 1
      /\ \A i \in 1 .. n - 1 : Front(stack[cpu])[i] = stack[cpu][i]
  <2>1. \A i \in 1 .. n - 1 : stack[cpu][i] \in Frame
    BY <1>3, ElementOfSeq
  <2>2. QED
    BY <1>3, <2>1, SubSeqProperties DEF Front
<1>5. /\ stack'[cpu] = Front(stack[cpu]) /\ \A t \in Threads : t # cpu => stack'[t] = stack[t]
      /\ DOMAIN stack'[cpu] = 1 .. n - 1 /\ DOMAIN stack[cpu] = 1 .. n
  BY <1>1, <1>3, <1>4
<1>6. stack'[cpu] # <<>> /\ stack[cpu] # <<>> /\ stack'[cpu][1] = stack[cpu][1]
  <2>0. \A k \in Nat : k > 1 => 1 \in 1 .. k - 1 /\ k - 1 # 0 /\ k # 0
    OBVIOUS
  <2>1. 1 \in 1 .. n - 1 /\ n - 1 # 0 /\ n # 0
    BY <1>3, <2>0
  <2>2. QED
    BY <1>3, <1>4, <1>5, <2>1, EmptySeq
<1>7. QED
  BY <1>3, <1>4, <1>5, <1>6

LEMMA TimerReturnRun ==
  ASSUME SchedInv, RunInv, TimerReturn
  PROVE  RunInv'
<1> DEFINE n == Len(stack[cpu])
<1>1. /\ Top.at = "iret" /\ ~InWindow /\ fault = "none"
      /\ current_tcb = cpu /\ current_context = cpu
  BY DEF TimerReturn, Executing, InWindow, Window, RunInv, RunOK, RunnerOK
<1>2. UNCHANGED <<lists, current_tcb, current_context, cpu, fault>> /\ cpu \in Threads
  BY TopIs DEF TimerReturn
<1>3. /\ n \in Nat /\ n > 1
      /\ Len(stack'[cpu]) = n - 1 /\ DOMAIN stack'[cpu] = 1 .. n - 1 /\ DOMAIN stack[cpu] = 1 .. n
      /\ \A i \in 1 .. n - 1 : stack'[cpu][i] = stack[cpu][i]
      /\ \A t \in Threads : t # cpu => stack'[t] = stack[t]
      /\ \A t \in Threads : (stack'[t] # <<>> <=> stack[t] # <<>>) /\ stack'[t][1] = stack[t][1]
  BY TimerReturnFrames
<1>4. Born(stack') = Born(stack) /\ Alive(stack') = Alive(stack)
  BY <1>3 DEF Born, Alive
<1>5. \A t \in Threads : \A i \in DOMAIN stack'[t] : stack'[t][i].at \notin Window
  <2> SUFFICES ASSUME NEW t \in Threads, NEW i \in DOMAIN stack'[t]
               PROVE  stack'[t][i].at \notin Window
    OBVIOUS
  <2>1. CASE t = cpu
    <3>1. i \in DOMAIN stack[cpu] /\ i # n /\ stack'[cpu][i] = stack[cpu][i]
      BY <1>3, <2>1
    <3>2. QED
      BY <2>1, <3>1 DEF RunInv, RunOK, PlacesOK
  <2>2. CASE t # cpu
    BY <1>3, <2>2 DEF RunInv, RunOK, PlacesOK
  <2>3. QED
    BY <2>1, <2>2
<1>6. PlacesOK(stack', cpu')
  BY <1>2, <1>3, <1>4, <1>5, SchedAssumption DEF RunInv, RunOK, PlacesOK, Born
<1>7. Top'.at \notin Window
  <2>1. Top' = stack'[cpu][n - 1] /\ n - 1 \in DOMAIN stack'[cpu]
    BY <1>2, <1>3 DEF Top, Last
  <2>2. QED
    BY <1>2, <1>5, <2>1
<1>8. RunnerOK'
  <2>1. UNCHANGED <<lists, current_tcb, current_context, cpu>>
    BY <1>2
  <2>2. stack'[cpu'][1] = stack[cpu][1] /\ ~InWindow' /\ Top'.at # "handover"
    BY <1>2, <1>3, <1>7 DEF InWindow, Window
  <2>3. QED
    BY <1>1, <2>1, <2>2 DEF RunInv, RunOK, RunnerOK
<1>9. QueuesOK(lists', stack')
  BY <1>2, <1>4, QueuesStay DEF RunInv, RunOK
<1>10. QED
  BY <1>1, <1>2, <1>6, <1>8, <1>9 DEF RunInv, RunOK

LEMMA TimerScheduleRun ==
  ASSUME SchedInv, RunInv, TimerSchedule
  PROVE  RunInv'
<1>1. Top.at = "expired" /\ fault = "none" /\ Schedule(lists, RQ, "iret") /\ RQ \in Lists
  BY DEF TimerSchedule, Executing, RunInv, Lists
<1>2. ~InWindow /\ Len(stack[cpu]) # 1
  BY <1>1, TopIs DEF InWindow, Window, Handler
<1>3. "iret" \notin Unlinking \cup Window
  BY DEF Unlinking, Window
<1>4. QED
  BY <1>1, <1>2, <1>3, ScheduleRun DEF RunInv, RunOK

LEMMA IdleFirstScheduleRun ==
  ASSUME SchedInv, RunInv, IdleFirstSchedule
  PROVE  RunInv'
<1>1. Top.at = "first" /\ fault = "none" /\ Schedule(lists, RQ, "run") /\ RQ \in Lists
  BY DEF IdleFirstSchedule, Executing, RunInv, Lists
<1>2. ~InWindow /\ "run" \notin Unlinking \cup Window
  BY <1>1 DEF InWindow, Window, Unlinking
<1>3. QED
  BY <1>1, <1>2, ScheduleRun DEF RunInv, RunOK

LEMMA ReturnedScheduleRun ==
  ASSUME SchedInv, RunInv, ReturnedSchedule
  PROVE  RunInv'
<1>1. Top.at = "exit" /\ fault = "none" /\ Schedule(lists, RQ, "gone") /\ RQ \in Lists
  BY DEF ReturnedSchedule, Executing, RunInv, Lists
<1>2. ~InWindow /\ "gone" \notin Unlinking \cup Window
  BY <1>1 DEF InWindow, Window, Unlinking
<1>3. stack[cpu][1].at = "exit"
  BY <1>1, TopIs DEF Handler, Window
<1>4. cpu \notin Alive(stack) /\ cpu # Idle
  BY <1>3 DEF Alive, RunInv, RunOK, PlacesOK, Window
<1>5. QED
  BY <1>1, <1>2, <1>4, ScheduleRun DEF RunInv, RunOK

(* A sleeper that comes to schedule is still the current thread.           *)
LEMMA SleepScheduleRun ==
  ASSUME SchedInv, RunInv, SleepSchedule
  PROVE  RunInv'
<1>1. Top.at = "slept" /\ fault = "none" /\ RQ \in Lists
  BY DEF SleepSchedule, Executing, RunInv, Lists
<1>2. ~InWindow /\ "run" \notin Unlinking \cup Window
  BY <1>1 DEF InWindow, Window, Unlinking
<1>3. Top = stack[cpu][1] /\ cpu \in Born(stack)
  BY <1>1, TopIs DEF Handler, Window
<1>4. Top.next = cpu /\ current_tcb = cpu
  BY <1>1, <1>2, <1>3 DEF RunInv, RunOK, PlacesOK, RunnerOK
<1>5. Schedule(lists, RQ, "run")
  BY <1>4 DEF SleepSchedule
<1>6. QED
  BY <1>1, <1>2, <1>5, ScheduleRun DEF RunInv, RunOK

LEMMA KernelStepRun ==
  ASSUME SchedInv, RunInv, KernelStep
  PROVE  RunInv'
<1>1. CASE DispatcherSwitchTo
  BY <1>1, DispatcherSwitchToRun
<1>2. CASE SwitchStack
  BY <1>2, SwitchStackRun
<1>3. CASE TimerSchedule
  BY <1>3, TimerScheduleRun
<1>4. CASE TimerReturn
  BY <1>4, TimerReturnRun
<1>5. CASE IdleFirstSchedule
  BY <1>5, IdleFirstScheduleRun
<1>6. CASE ReturnedSchedule
  BY <1>6, ReturnedScheduleRun
<1>7. CASE SleepSchedule
  BY <1>7, SleepScheduleRun
<1>8. QED
  BY <1>1, <1>2, <1>3, <1>4, <1>5, <1>6, <1>7 DEF KernelStep

-----------------------------------------------------------------------------
(* The steps of thread code, of the timer and of whoever wakes a sleeper.  *)

LEMMA YieldRun ==
  ASSUME SchedInv, RunInv, Yield
  PROVE  RunInv'
<1>1. Top.at = "run" /\ fault = "none" /\ Schedule(lists, RQ, "run") /\ RQ \in Lists
  BY DEF Yield, Running, Executing, RunInv, Lists
<1>2. ~InWindow /\ "run" \notin Unlinking \cup Window
  BY <1>1 DEF InWindow, Window, Unlinking
<1>3. QED
  BY <1>1, <1>2, ScheduleRun DEF RunInv, RunOK

(* A step that only moves threads from list to list.                       *)
LEMMA ListsRun ==
  ASSUME RunInv, QueuesOK(lists', stack), Head(lists'[RQ]) = Head(lists[RQ]),
         UNCHANGED <<current_tcb, current_context, cpu, stack, fault>>
  PROVE  RunInv'
<1>1. Top' = Top /\ (InWindow' <=> InWindow)
  BY DEF Top, InWindow
<1>2. QED
  BY <1>1 DEF RunInv, RunOK, RunnerOK

(* Linking an unlinked thread to the run queue, behind whoever is there.   *)
LEMMA PushedQueues ==
  ASSUME NEW ls, NEW st, NEW su, QueuesOK(ls, st), Alive(st) \subseteq Alive(su),
         NEW t \in Alive(su), Nowhere(ls, t)
  PROVE  /\ QueuesOK(Pushed(ls, RQ, t), su)
         /\ Head(Pushed(ls, RQ, t)[RQ]) = Head(ls[RQ])
<1>1. QueuesOK(ls, su) /\ RQ \in Lists /\ ls[RQ] # <<>> /\ In(ls, RQ, Idle)
  BY QueuesStay, IdleQueued
<1>2. /\ Pushed(ls, RQ, t) \in [Lists -> Seq(Alive(su))]
      /\ Once(Pushed(ls, RQ, t))
      /\ In(Pushed(ls, RQ, t), RQ, Idle)
      /\ Head(Pushed(ls, RQ, t)[RQ]) = Head(ls[RQ])
  BY <1>1, AppendLists DEF QueuesOK
<1>3. QED
  BY <1>2 DEF QueuesOK, In

LEMMA WakeRun ==
  ASSUME SchedInv, RunInv, Wake
  PROVE  RunInv'
<1>1. PICK t \in Threads : Asleep(t) /\ ThreadWake(t)
  BY DEF Wake
<1>2. t \in Alive(stack) /\ Nowhere(lists, t)
  BY <1>1, LinkedIn DEF Asleep, Created, Finished, Alive, Born
<1>3. /\ lists' = Pushed(lists, RQ, t)
      /\ UNCHANGED <<current_tcb, current_context, cpu, stack, fault>>
  BY <1>1 DEF ThreadWake, Asleep, Pushed
<1>4. QED
  BY <1>2, <1>3, PushedQueues, ListsRun DEF RunInv, RunOK

LEMMA ThreadCreateRun ==
  ASSUME SchedInv, RunInv, NEW t \in Threads, ThreadCreate(t)
  PROVE  RunInv'
<1>1. /\ stack[t] = <<>> /\ stack' = [stack EXCEPT ![t] = <<At("run")>>]
      /\ lists' = Pushed(lists, RQ, t)
      /\ UNCHANGED <<current_tcb, current_context, cpu, fault>>
  BY DEF ThreadCreate, Created, Pushed
<1>2. /\ stack'[t] = <<At("run")>> /\ \A u \in Threads : u # t => stack'[u] = stack[u]
      /\ t \notin Born(stack) /\ cpu # t /\ cpu \in Threads /\ t # Idle
  BY <1>1 DEF SchedInv, StackOK, Born
<1>3. stack'[t] # <<>> /\ DOMAIN stack'[t] = {1} /\ stack'[t][1] = At("run")
  BY <1>2
<1>4. At("run").at = "run" /\ At("run").then = "run"
  BY DEF At
<1>5. Born(stack') = Born(stack) \cup {t}
  BY <1>2, <1>3 DEF Born
<1>6. t \in Alive(stack') /\ Alive(stack) \subseteq Alive(stack')
  BY <1>2, <1>3, <1>4, <1>5 DEF Alive, Born
<1>7. Nowhere(lists, t)
  <2>1. \A l \in Lists : lists[l] \in Seq(Alive(stack))
    BY DEF RunInv, RunOK, QueuesOK
  <2>2. t \notin Alive(stack)
    BY <1>2 DEF Alive
  <2>3. QED
    BY <2>1, <2>2 DEF Nowhere, In
<1>8. QueuesOK(lists', stack') /\ Head(lists'[RQ]) = Head(lists[RQ])
  BY <1>1, <1>6, <1>7, PushedQueues DEF RunInv, RunOK
<1>9. PlacesOK(stack', cpu')
  <2>1. \A u \in Threads : \A i \in DOMAIN stack'[u] :
          stack'[u][i].at \in Window => u = cpu /\ i = Len(stack'[u])
    BY <1>2, <1>3, <1>4 DEF Window, RunInv, RunOK, PlacesOK
  <2>2. \A u \in Born(stack') :
          /\ stack'[u][1].at \in Window => stack'[u][1].then \notin Unlinking \cup Window
          /\ stack'[u][1].at = "slept" => stack'[u][1].next = u /\ stack'[u][1].then = "slept"
    BY <1>2, <1>3, <1>4, <1>5 DEF Window, RunInv, RunOK, PlacesOK, Born
  <2>3. /\ stack'[Idle][1].at \in {"first", "run"} \cup Window
        /\ stack'[Idle][1].then \in {"first", "run"}
    <3>1. PlacesOK(stack, cpu)
      BY DEF RunInv, RunOK
    <3>2. stack'[Idle] = stack[Idle]
      BY <1>2, SchedAssumption
    <3>3. QED
      BY <3>1, <3>2 DEF PlacesOK
  <2>4. cpu' = cpu
    BY <1>1
  <2>5. QED
    BY <2>1, <2>2, <2>3, <2>4 DEF PlacesOK
<1>10. RunnerOK'
  <2>1. stack'[cpu'] = stack[cpu] /\ Top' = Top /\ (InWindow' <=> InWindow)
    BY <1>1, <1>2 DEF Top, InWindow
  <2>2. QED
    BY <1>1, <1>8, <2>1 DEF RunInv, RunOK, RunnerOK
<1>11. QED
  BY <1>1, <1>8, <1>9, <1>10 DEF RunInv, RunOK

(* A sequence without x.                                                   *)
LEMMA WithoutSeq ==
  ASSUME NEW B, NEW s \in Seq(B), NEW x, \A i \in DOMAIN s : s[i] # x
  PROVE  s \in Seq(B \ {x})
<1>1. Len(s) \in Nat /\ s \in [1 .. Len(s) -> B] /\ DOMAIN s = 1 .. Len(s)
  BY LenProperties
<1>2. s \in [1 .. Len(s) -> B \ {x}]
  BY <1>1
<1>3. QED
  BY <1>1, <1>2, SeqDef

LEMMA ThreadReturnedRun ==
  ASSUME SchedInv, RunInv, ThreadReturned
  PROVE  RunInv'
<1>1. Top.at = "run" /\ cpu # Idle /\ fault = "none"
  BY DEF ThreadReturned, Running, Executing, RunInv
<1>2. /\ Len(stack[cpu]) = 1 /\ ~InWindow
      /\ lists[RQ] # <<>> /\ Head(lists[RQ]) = cpu
  BY <1>1, RunsAtHead DEF Handler, Window, Unlinking
<1>3. /\ lists' = Popped(lists, RQ) /\ stack' = SetTop(At("exit"))
      /\ UNCHANGED <<current_tcb, current_context, cpu, fault>>
  BY <1>2 DEF ThreadReturned, Popped
<1>4. /\ RQ \in Lists /\ In(lists, RQ, Idle) /\ Idle \in Alive(stack)
      /\ lists \in [Lists -> Seq(Alive(stack))] /\ Once(lists)
  BY IdleQueued DEF RunInv, RunOK, QueuesOK
<1>5. /\ lists' \in [Lists -> Seq(Alive(stack))] /\ Once(lists')
      /\ Nowhere(lists', cpu)
      /\ In(lists', RQ, Idle)
  BY <1>1, <1>2, <1>3, <1>4, TailLists
<1>6. Alive(stack) \ {cpu} \subseteq Alive(stack')
  <2> SUFFICES ASSUME NEW t \in Alive(stack), t # cpu
               PROVE  t \in Alive(stack')
    OBVIOUS
  <2>1. t \in Threads /\ stack'[t] = stack[t]
    BY <1>3, NewTop DEF Alive, Born
  <2>2. QED
    BY <2>1 DEF Alive, Born
<1>7. lists' \in [Lists -> Seq(Alive(stack'))]
  <2>1. \A l \in Lists : lists'[l] \in Seq(Alive(stack) \ {cpu})
    BY <1>5, WithoutSeq DEF Nowhere, In
  <2>2. \A l \in Lists : lists'[l] \in Seq(Alive(stack'))
    BY <1>6, <2>1, SeqMonotonic
  <2>3. QED
    BY <1>5, <2>2
<1>8. QueuesOK(lists', stack')
  BY <1>5, <1>7 DEF QueuesOK, In
<1>9. At("exit").at = "exit"
  BY DEF At
<1>10. At("exit").at \notin Window \cup {"gone"} /\ "exit" \in Unlinking
  BY <1>9 DEF Window, Unlinking
<1>11. QED
  BY <1>1, <1>2, <1>3, <1>8, <1>9, <1>10, CodeRun DEF RunInv, RunOK

LEMMA RemoveAtOne ==
  ASSUME NEW B, NEW s \in Seq(B), s # <<>>
  PROVE  RemoveAt(s, 1) = Tail(s)
<1>1. Len(s) \in Nat \ {0} /\ \A i \in 1 .. Len(s) : s[i] \in B
  BY EmptySeq, ElementOfSeq
<1>2. RemoveAt(s, 1) = SubSeq(s, 1, 0) \o SubSeq(s, 2, Len(s))
  BY DEF RemoveAt
<1>3. SubSeq(s, 1, 0) = <<>>
  OBVIOUS
<1>4. SubSeq(s, 2, Len(s)) \in Seq(B)
  BY <1>1, SubSeqProperties
<1>5. RemoveAt(s, 1) = SubSeq(s, 2, Len(s))
  BY <1>2, <1>3, <1>4, ConcatEmptySeq
<1>6. QED
  BY <1>5, TailIsSubSeq

(* A thread that goes to sleep takes itself, and nobody else, off the run  *)
(* queue.                                                                  *)
LEMMA SleepCurrentRun ==
  ASSUME SchedInv, RunInv, Top.at \notin Handler \cup Window \cup Unlinking, cpu # Idle,
         SleepCurrent
  PROVE  RunInv' /\ lists' = Popped(lists, RQ) /\ Head(lists[RQ]) = cpu
<1>1. /\ Len(stack[cpu]) = 1 /\ ~InWindow /\ current_tcb = cpu
      /\ lists[RQ] # <<>> /\ Head(lists[RQ]) = cpu
  BY RunsAtHead
<1>2. /\ RQ \in Lists /\ In(lists, RQ, Idle) /\ Idle \in Alive(stack)
      /\ lists \in [Lists -> Seq(Alive(stack))] /\ Once(lists)
  BY IdleQueued DEF RunInv, RunOK, QueuesOK
<1>3. 1 \in DOMAIN lists[RQ] /\ lists[RQ][1] = cpu
  BY <1>1, <1>2, EmptySeq
<1>4. Linked(current_tcb)
  BY <1>1, <1>2, <1>3 DEF Linked
<1> DEFINE f == [At("slept") EXCEPT !.next = current_tcb]
<1>5. PICK l \in Lists : \E i \in DOMAIN lists[l] :
        /\ lists[l][i] = current_tcb
        /\ lists' = [lists EXCEPT ![l] = RemoveAt(@, i)]
        /\ stack' = SetTop(f)
        /\ UNCHANGED <<current_tcb, current_context, cpu, fault>>
  BY <1>4 DEF SleepCurrent
<1>6. PICK i \in DOMAIN lists[l] :
        /\ lists[l][i] = current_tcb
        /\ lists' = [lists EXCEPT ![l] = RemoveAt(@, i)]
        /\ stack' = SetTop(f)
        /\ UNCHANGED <<current_tcb, current_context, cpu, fault>>
  BY <1>5
<1>7. l = RQ /\ i = 1
  BY <1>1, <1>2, <1>3, <1>6 DEF Once
<1>8. lists' = Popped(lists, RQ)
  <2>0. lists[RQ] \in Seq(Alive(stack)) /\ lists[RQ] # <<>>
    BY <1>1, <1>2
  <2>1. RemoveAt(lists[RQ], 1) = Tail(lists[RQ])
    BY <2>0, RemoveAtOne
  <2>2. QED
    BY <1>6, <1>7, <2>1 DEF Popped
<1>9. f.at = "slept" /\ f.then = "slept" /\ f.next = cpu
  BY <1>1 DEF At
<1>10. /\ lists' \in [Lists -> Seq(Alive(stack))] /\ Once(lists') /\ In(lists', RQ, Idle)
  BY <1>1, <1>2, <1>8, TailLists
<1>11. QueuesOK(lists', stack')
  <2> HIDE DEF f
  <2>1. QueuesOK(lists', stack)
    BY <1>10 DEF QueuesOK, In
  <2>2. Alive(stack) \subseteq Alive(SetTop(f))
    BY <1>9, AliveStays
  <2>3. QED
    BY <1>6, <2>1, <2>2, QueuesStay
<1>12. f.at \notin Window \cup {"gone"} /\ f.at \in Unlinking
  BY <1>9 DEF Window, Unlinking
<1>13. RunInv'
  <2> HIDE DEF f
  <2>1. QED
    BY <1>1, <1>6, <1>9, <1>11, <1>12, CodeRun DEF RunInv, RunOK
<1>14. QED
  BY <1>1, <1>8, <1>13

LEMMA ThreadSleepRun ==
  ASSUME SchedInv, RunInv, ThreadSleep
  PROVE  RunInv'
BY SleepCurrentRun DEF ThreadSleep, Running, Executing, Handler, Window, Unlinking

(* The tick: at most one handler frame more, above the code it interrupts. *)
LEMMA HookFrames ==
  ASSUME SchedInv, ThreadTimerHook
  PROVE  \A t \in Threads : (stack'[t] # <<>> <=> stack[t] # <<>>) /\ stack'[t][1] = stack[t][1]
<1> DEFINE n == Len(stack[cpu])
           f == At("expired")
<1>1. CASE UNCHANGED stack
  BY <1>1
<1>2. CASE stack' = [stack EXCEPT ![cpu] = Append(@, f)]
  <2>1. /\ cpu \in Threads /\ stack[cpu] \in Seq(Frame) /\ n \in Nat \ {0}
        /\ stack \in [Threads -> Seq(Frame)] /\ stack[cpu] # <<>>
    BY TopIs DEF SchedInv, StackOK, Born
  <2>2. /\ Append(stack[cpu], f) # <<>> /\ 1 \in 1 .. n
        /\ \A i \in 1 .. n : Append(stack[cpu], f)[i] = stack[cpu][i]
    BY <2>1
  <2>3. QED
    BY <1>2, <2>1, <2>2
<1>3. QED
  BY <1>1, <1>2 DEF ThreadTimerHook

LEMMA HookRun ==
  ASSUME SchedInv, RunInv, ~InWindow, ThreadTimerHook,
         QueuesOK(lists', stack), Head(lists'[RQ]) = Head(lists[RQ]),
         UNCHANGED <<current_tcb, current_context, cpu>>
  PROVE  RunInv'
<1>0. UNCHANGED fault
  BY DEF ThreadTimerHook
<1>1. CASE UNCHANGED stack
  BY <1>0, <1>1, ListsRun
<1>2. CASE stack' = [stack EXCEPT ![cpu] = Append(@, At("expired"))]
  <2> DEFINE n == Len(stack[cpu])
             f == At("expired")
  <2>1. /\ cpu \in Threads /\ stack[cpu] \in Seq(Frame) /\ n \in Nat \ {0}
        /\ stack \in [Threads -> Seq(Frame)] /\ stack[cpu] # <<>>
    BY TopIs DEF SchedInv, StackOK, Born
  <2>2. f.at = "expired" /\ f.at \notin Window
    BY DEF At, Window
  <2>3. /\ DOMAIN Append(stack[cpu], f) = 1 .. n + 1 /\ DOMAIN stack[cpu] = 1 .. n
        /\ Append(stack[cpu], f)[n + 1] = f /\ Append(stack[cpu], f) # <<>>
        /\ Len(Append(stack[cpu], f)) = n + 1
        /\ \A i \in 1 .. n : Append(stack[cpu], f)[i] = stack[cpu][i]
        /\ 1 \in 1 .. n
    <3>1. PICK s \in Seq(Frame) : s = stack[cpu]
      BY <2>1
    <3> DEFINE g == Append(s, f)
    <3>2. DOMAIN s = 1 .. Len(s) /\ Len(s) = n /\ n \in Nat \ {0}
      BY <2>1, <3>1
    <3>3. DOMAIN g = 1 .. n + 1 /\ Len(g) = n + 1 /\ g[n + 1] = f /\ g # <<>>
      BY <3>2
    <3>4. \A i \in 1 .. n : g[i] = s[i]
      BY <3>2
    <3>5. QED
      BY <3>1, <3>2, <3>3, <3>4
  <2>4. /\ stack'[cpu] = Append(stack[cpu], f)
        /\ \A t \in Threads : t # cpu => stack'[t] = stack[t]
    BY <1>2, <2>1
  <2>5. \A i \in 1 .. n + 1 : i \in 1 .. n \/ i = n + 1
    BY <2>1
  <2>6. \A t \in Threads : (stack'[t] # <<>> <=> stack[t] # <<>>) /\ stack'[t][1] = stack[t][1]
    BY <2>1, <2>3, <2>4
  <2>7. Born(stack') = Born(stack) /\ Alive(stack') = Alive(stack)
    BY <2>6 DEF Born, Alive
  <2>8. \A t \in Threads : \A i \in DOMAIN stack'[t] : stack'[t][i].at \notin Window
    <3> SUFFICES ASSUME NEW t \in Threads, NEW i \in DOMAIN stack'[t],
                        stack'[t][i].at \in Window
                 PROVE  FALSE
      OBVIOUS
    <3>1. CASE t = cpu /\ i = n + 1
      BY <2>2, <2>3, <2>4, <3>1
    <3>2. CASE ~(t = cpu /\ i = n + 1)
      <4>1. i \in DOMAIN stack[t] /\ stack'[t][i] = stack[t][i]
        BY <2>3, <2>4, <2>5, <3>2
      <4>2. t = cpu /\ i = n
        BY <4>1 DEF RunInv, RunOK, PlacesOK
      <4>3. QED
        BY <4>1, <4>2, TopIs DEF InWindow
    <3>3. QED
      BY <3>1, <3>2
  <2>9. PlacesOK(stack', cpu')
    BY <2>6, <2>7, <2>8, SchedAssumption DEF RunInv, RunOK, PlacesOK, Born
  <2>10. Top' = f
    BY <2>3, <2>4 DEF Top, Last
  <2>11. QueuesOK(lists', stack')
    BY <2>7, QueuesStay
  <2>12. RunnerOK'
    <3>1. stack'[cpu'][1] = stack[cpu][1] /\ ~InWindow' /\ Top'.at # "handover"
      BY <2>1, <2>2, <2>6, <2>10 DEF InWindow, Window
    <3>2. Top.at # "handover"
      BY DEF InWindow, Window
    <3>3. QED
      BY <3>1, <3>2 DEF RunInv, RunOK, RunnerOK
  <2>13. QED
    BY <1>0, <2>9, <2>11, <2>12 DEF RunInv, RunOK
<1>3. QED
  BY <1>1, <1>2 DEF ThreadTimerHook

(* A tick outside the window keeps it; one inside makes the kernel stray.  *)
LEMMA TickRun ==
  ASSUME SchedInv, RunInv, Tick
  PROVE  RunInv' \/ fault' \in Strays
<1>1. CASE InWindow
  BY <1>1 DEF Tick, ThreadTimerHook, Strays
<1>2. CASE ~InWindow
  BY <1>2, HookRun DEF Tick, RunInv, RunOK
<1>3. QED
  BY <1>1, <1>2

LEMMA SchedInitRun ==
  ASSUME SchedInit
  PROVE  RunInv
<1>1. /\ stack[Idle] = <<At("first")>> /\ stack[Main] = <<At("run")>>
      /\ \A t \in Threads : t # Idle /\ t # Main => stack[t] = <<>>
      /\ stack \in [Threads -> Seq(Frame)]
  BY SchedAssumption, SchedInitInv DEF SchedInit, SchedInv, StackOK
<1>2. /\ At("first").at = "first" /\ At("first").then = "first"
      /\ At("run").at = "run" /\ At("run").then = "run"
  BY DEF At
<1>3. /\ DOMAIN stack[Idle] = {1} /\ stack[Idle][1] = At("first") /\ stack[Idle] # <<>>
      /\ DOMAIN stack[Main] = {1} /\ stack[Main][1] = At("run") /\ stack[Main] # <<>>
      /\ Len(stack[Idle]) = 1
  BY <1>1
<1>4. Born(stack) = {Idle, Main} /\ Alive(stack) = {Idle, Main}
  BY <1>1, <1>2, <1>3, SchedAssumption DEF Born, Alive
<1>5. \A t \in Threads : \A i \in DOMAIN stack[t] :
        /\ t \in {Idle, Main} /\ i = 1
        /\ stack[t][i].at \in {"first", "run"} /\ stack[t][i].then \in {"first", "run"}
  <2>1. DOMAIN <<>> = {}
    OBVIOUS
  <2>2. QED
    BY <1>1, <1>2, <1>3, <2>1
<1>6. PlacesOK(stack, cpu)
  <2>1. \A t \in Threads : \A i \in DOMAIN stack[t] : stack[t][i].at \notin Window \cup {"slept"}
    BY <1>5 DEF Window
  <2>2. \A t \in Born(stack) : t \in Threads /\ 1 \in DOMAIN stack[t]
    BY <1>3, <1>4, SchedAssumption
  <2>3. QED
    BY <1>2, <1>3, <2>1, <2>2 DEF PlacesOK
<1>7. QueuesOK(lists, stack)
  <2>1. lists[RQ] = <<Idle, Main>> /\ RQ \in Lists
    BY DEF SchedInit, Lists
  <2>2. 1 \in DOMAIN lists[RQ] /\ lists[RQ][1] = Idle
    BY <2>1
  <2>3. lists \in [Lists -> Seq(Alive(stack))]
    <3>1. <<Idle, Main>> \in Seq({Idle, Main}) /\ <<>> \in Seq({Idle, Main})
      OBVIOUS
    <3>2. QED
      BY <1>4, <3>1 DEF SchedInit
  <2>4. QED
    BY <2>2, <2>3, SchedInitOnce DEF QueuesOK
<1>8. RunnerOK
  <2>1. Top = At("first") /\ cpu = Idle /\ current_tcb = Idle /\ current_context = Idle
    BY <1>3 DEF SchedInit, Top, Last
  <2>2. Head(lists[RQ]) = Idle
    BY DEF SchedInit, Lists
  <2>3. QED
    BY <1>2, <1>3, <2>1, <2>2 DEF RunnerOK, InWindow, Window
<1>9. QED
  BY <1>6, <1>7, <1>8 DEF RunInv, RunOK, SchedInit

LEMMA StutterRun ==
  ASSUME RunInv, UNCHANGED schedVars
  PROVE  RunInv'
BY ListsRun DEF schedVars, RunInv, RunOK

(* A kernel that has strayed stays so.                                     *)
LEMMA ScheduleStray ==
  ASSUME fault \in Strays, NEW ls, NEW l, NEW then, Schedule(ls, l, then)
  PROVE  fault' \in Strays
BY DEF Schedule, Crash, Strays

LEMMA KernelStepStray ==
  ASSUME fault \in Strays, KernelStep
  PROVE  fault' \in Strays
<1>1. CASE DispatcherSwitchTo
  BY <1>1 DEF DispatcherSwitchTo, Crash, Strays
<1>2. CASE SwitchStack \/ TimerReturn
  BY <1>2 DEF SwitchStack, TimerReturn
<1>3. CASE TimerSchedule \/ IdleFirstSchedule \/ ReturnedSchedule
  BY <1>3, ScheduleStray DEF TimerSchedule, IdleFirstSchedule, ReturnedSchedule
<1>4. CASE SleepSchedule
  BY <1>4, ScheduleStray DEF SleepSchedule
<1>5. QED
  BY <1>1, <1>2, <1>3, <1>4 DEF KernelStep

LEMMA SchedStepStray ==
  ASSUME fault \in Strays, [SchedNext]_schedVars
  PROVE  fault' \in Strays
<1>1. CASE KernelStep
  BY <1>1, KernelStepStray
<1>2. CASE Yield
  BY <1>2, ScheduleStray DEF Yield
<1>3. CASE \E t \in Threads : ThreadCreate(t)
  BY <1>3 DEF ThreadCreate
<1>4. CASE ThreadReturned
  BY <1>4 DEF ThreadReturned, Crash, Strays
<1>5. CASE ThreadSleep
  BY <1>5 DEF ThreadSleep, SleepCurrent, Crash, Strays
<1>6. CASE Tick
  BY <1>6 DEF Tick, ThreadTimerHook, Strays
<1>7. CASE Wake
  BY <1>7 DEF Wake, ThreadWake, Crash, Strays
<1>8. CASE UNCHANGED schedVars
  BY <1>8 DEF schedVars
<1>9. QED
  BY <1>1, <1>2, <1>3, <1>4, <1>5, <1>6, <1>7, <1>8 DEF SchedNext, ClientStep, Halted

(* Every step of the scheduler keeps the invariant, until a tick ends a    *)
(* quantum in the window.                                                  *)
LEMMA SchedStepRun ==
  ASSUME SchedInv, RunInv, [SchedNext]_schedVars
  PROVE  RunInv' \/ fault' \in Strays
<1>1. CASE KernelStep
  BY <1>1, KernelStepRun
<1>2. CASE Yield
  BY <1>2, YieldRun
<1>3. ASSUME NEW t \in Threads, ThreadCreate(t)
      PROVE  RunInv'
  BY <1>3, ThreadCreateRun
<1>4. CASE ThreadReturned
  BY <1>4, ThreadReturnedRun
<1>5. CASE ThreadSleep
  BY <1>5, ThreadSleepRun
<1>6. CASE Tick
  BY <1>6, TickRun
<1>7. CASE Wake
  BY <1>7, WakeRun
<1>8. CASE UNCHANGED schedVars
  BY <1>8, StutterRun
<1>9. QED
  BY <1>1, <1>2, <1>3, <1>4, <1>5, <1>6, <1>7, <1>8 DEF SchedNext, ClientStep, Halted

LEMMA SchedStepUntilStrayed ==
  SchedInv /\ UntilStrayed /\ [SchedNext]_schedVars => UntilStrayed'
BY SchedStepRun, SchedStepStray DEF UntilStrayed

-----------------------------------------------------------------------------
(* Who sleeps: alive, and on no list.  The scheduler, the dispatcher, the  *)
(* timer interrupt and the creation and the return of threads put nobody   *)
(* to sleep.                                                               *)
Sleeping(ls, st) == {t \in Alive(st) : Nowhere(ls, t)}

LEMMA AliveShrinks ==
  ASSUME SchedInv, NEW f,
         Len(stack[cpu]) = 1 /\ cpu \notin Alive(stack) => f.at \in {"exit", "gone"} \/ f.then = "gone"
  PROVE  Alive(SetTop(f)) \subseteq Alive(stack)
<1> SUFFICES ASSUME NEW t \in Alive(SetTop(f))
             PROVE  t \in Alive(stack)
  OBVIOUS
<1>1. t \in Threads /\ t \in Born(stack) /\ t \in Born(SetTop(f))
  BY NewTop DEF Alive, Born
<1>2. SetTop(f)[t][1] = IF t = cpu /\ Len(stack[cpu]) = 1 THEN f ELSE stack[t][1]
  BY <1>1, NewTop
<1>3. QED
  BY <1>1, <1>2 DEF Alive

(* A step that changes bottom frames of nobody, or only the running one.   *)
LEMMA BottomsSleeping ==
  ASSUME \A t \in Threads : (stack'[t] # <<>> <=> stack[t] # <<>>) /\ stack'[t][1] = stack[t][1]
  PROVE  Alive(stack') = Alive(stack)
BY DEF Alive, Born

LEMMA TopSleeping ==
  ASSUME SchedInv, lists' = lists, NEW f, stack' = SetTop(f),
         Len(stack[cpu]) = 1 /\ cpu \notin Alive(stack) => f.at \in {"exit", "gone"} \/ f.then = "gone"
  PROVE  Sleeping(lists', stack') \subseteq Sleeping(lists, stack)
BY AliveShrinks DEF Sleeping

LEMMA ScheduleSleeping ==
  ASSUME SchedInv, RunInv', NEW ls, QueuesOK(ls, stack), NEW l \in Lists, NEW then,
         Len(stack[cpu]) = 1 /\ cpu \notin Alive(stack) => then = "gone",
         Schedule(ls, l, then)
  PROVE  Sleeping(lists', stack') \subseteq Sleeping(ls, stack)
<1> DEFINE moved == Requeued(ls, l)
           f == [at |-> "switch", then |-> then, next |-> Head(moved[RQ])]
<1>1. lists' = moved /\ stack' = SetTop(f)
  BY DEF Schedule, Crash, RunInv
<1>2. Alive(SetTop(f)) \subseteq Alive(stack)
  BY AliveShrinks
<1>3. ls \in [Lists -> Seq(Alive(stack))] /\ Once(ls) /\ ls[RQ] # <<>>
  BY IdleQueued DEF QueuesOK
<1>4. /\ In(moved, l, Head(ls[RQ]))
      /\ \A k \in Lists, t \in Alive(stack) :
           t # Head(ls[RQ]) => (In(moved, k, t) <=> In(ls, k, t))
  BY <1>3, RequeuedLists
<1>5. QED
  BY <1>1, <1>2, <1>4 DEF Sleeping, Nowhere

LEMMA RunningAlive ==
  ASSUME SchedInv, RunInv, Top.at \notin Handler \cup Window \cup {"exit"}
  PROVE  cpu \in Alive(stack)
<1>1. Len(stack[cpu]) = 1 /\ Top = stack[cpu][1] /\ cpu \in Born(stack)
  BY TopIs
<1>2. CASE Top.at = "slept"
  BY <1>1, <1>2 DEF Alive, RunInv, RunOK, PlacesOK
<1>3. CASE Top.at # "slept"
  <2>1. Head(lists[RQ]) = cpu /\ lists[RQ] # <<>>
    BY <1>3, RunsAtHead DEF Unlinking
  <2>2. lists[RQ] \in Seq(Alive(stack))
    BY IdleQueued DEF RunInv, RunOK, QueuesOK
  <2>3. QED
    BY <2>1, <2>2, HeadTailProperties
<1>4. QED
  BY <1>2, <1>3

LEMMA KernelStepSleeping ==
  ASSUME SchedInv, RunInv, RunInv', KernelStep
  PROVE  Sleeping(lists', stack') \subseteq Sleeping(lists, stack)
<1>0. QueuesOK(lists, stack) /\ RQ \in Lists
  BY DEF RunInv, RunOK, Lists
<1>1. CASE DispatcherSwitchTo
  <2> DEFINE f == [Top EXCEPT !.at = "handover"]
  <2>1. lists' = lists /\ stack' = SetTop(f) /\ Top.at = "switch"
    BY <1>1 DEF DispatcherSwitchTo, Executing, Crash, RunInv
  <2>2. f.then = Top.then
    BY TopFrame DEF SchedInv, Frame
  <2>3. Len(stack[cpu]) = 1 /\ cpu \notin Alive(stack) => Top.then = "gone"
    BY <2>1, TopIs DEF Alive
  <2>4. QED
    BY <2>1, <2>2, <2>3, TopSleeping
<1>2. CASE SwitchStack
  <2> DEFINE f == At(Top.then)
  <2>1. lists' = lists /\ stack' = SetTop(f) /\ Top.at = "handover"
    BY <1>2 DEF SwitchStack, Executing
  <2>2. f.then = Top.then
    BY DEF At
  <2>3. Len(stack[cpu]) = 1 /\ cpu \notin Alive(stack) => Top.then = "gone"
    BY <2>1, TopIs DEF Alive
  <2>4. QED
    BY <2>1, <2>2, <2>3, TopSleeping
<1>3. CASE TimerSchedule
  <2>1. Top.at = "expired" /\ Schedule(lists, RQ, "iret")
    BY <1>3 DEF TimerSchedule, Executing
  <2>2. Len(stack[cpu]) # 1
    BY <2>1, TopIs DEF Handler
  <2>3. QED
    BY <1>0, <2>1, <2>2, ScheduleSleeping
<1>4. CASE TimerReturn
  <2>1. lists' = lists /\ Alive(stack') = Alive(stack)
    BY <1>4, TimerReturnFrames, BottomsSleeping DEF TimerReturn
  <2>2. QED
    BY <2>1 DEF Sleeping
<1>5. CASE IdleFirstSchedule
  <2>1. Top.at = "first" /\ Schedule(lists, RQ, "run")
    BY <1>5 DEF IdleFirstSchedule, Executing
  <2>2. cpu \in Alive(stack)
    BY <2>1, RunningAlive DEF Handler, Window
  <2>3. QED
    BY <1>0, <2>1, <2>2, ScheduleSleeping
<1>6. CASE ReturnedSchedule
  BY <1>0, <1>6, ScheduleSleeping DEF ReturnedSchedule
<1>7. CASE SleepSchedule
  <2>1. Top.at = "slept" /\ cpu \in Alive(stack)
    BY <1>7, RunningAlive DEF SleepSchedule, Executing, Handler, Window
  <2>2. CASE Top.next = current_tcb
    BY <1>0, <1>7, <2>1, <2>2, ScheduleSleeping DEF SleepSchedule
  <2>3. CASE Top.next # current_tcb
    BY <1>7, <2>1, <2>3, TopSleeping DEF SleepSchedule
  <2>4. QED
    BY <2>2, <2>3
<1>8. QED
  BY <1>1, <1>2, <1>3, <1>4, <1>5, <1>6, <1>7 DEF KernelStep

LEMMA YieldSleeping ==
  ASSUME SchedInv, RunInv, RunInv', Yield
  PROVE  Sleeping(lists', stack') \subseteq Sleeping(lists, stack)
<1>1. Top.at = "run" /\ Schedule(lists, RQ, "run") /\ RQ \in Lists
  BY DEF Yield, Running, Executing, Lists
<1>2. cpu \in Alive(stack)
  BY <1>1, RunningAlive DEF Handler, Window
<1>3. QED
  BY <1>1, <1>2, ScheduleSleeping DEF RunInv, RunOK

LEMMA ThreadCreateSleeping ==
  ASSUME SchedInv, RunInv, NEW t \in Threads, ThreadCreate(t)
  PROVE  Sleeping(lists', stack') \subseteq Sleeping(lists, stack)
<1>1. /\ \A u \in Threads : u # t => stack'[u] = stack[u]
      /\ lists' = Pushed(lists, RQ, t)
  BY DEF ThreadCreate, Pushed, SchedInv, StackOK
<1>2. t \in Born(stack') /\ t \notin Born(stack)
  BY ThreadCreateInv DEF ThreadCreate, Created, Born, SchedInv, StackOK
<1>3. Alive(stack') \subseteq Alive(stack) \cup {t}
  BY <1>1 DEF Alive, Born
<1>4. lists \in [Lists -> Seq(Threads)] /\ Once(lists) /\ RQ \in Lists
  BY SchedInvType DEF SchedTypeOK, RunInv, RunOK, QueuesOK, Lists
<1>5. Nowhere(lists, t)
  <2>1. \A l \in Lists : lists[l] \in Seq(Born(stack))
    BY DEF SchedInv, ListsOK
  <2>2. QED
    BY <1>2, <2>1 DEF Nowhere, In
<1>6. \A k \in Lists : \A u : In(lists', k, u) <=> (In(lists, k, u) \/ (k = RQ /\ u = t))
  BY <1>1, <1>4, <1>5, AppendLists
<1>7. QED
  BY <1>3, <1>4, <1>6 DEF Sleeping, Nowhere

LEMMA ThreadReturnedSleeping ==
  ASSUME SchedInv, RunInv, ThreadReturned
  PROVE  Sleeping(lists', stack') \subseteq Sleeping(lists, stack)
<1>1. Top.at = "run" /\ cpu # Idle /\ fault = "none"
  BY DEF ThreadReturned, Running, Executing, RunInv
<1>2. /\ Len(stack[cpu]) = 1 /\ ~InWindow
      /\ lists[RQ] # <<>> /\ Head(lists[RQ]) = cpu
  BY <1>1, RunsAtHead DEF Handler, Window, Unlinking
<1>3. lists' = Popped(lists, RQ) /\ stack' = SetTop(At("exit"))
  BY <1>2 DEF ThreadReturned, Popped
<1>4. At("exit").at = "exit"
  BY DEF At
<1>5. Alive(stack') \subseteq Alive(stack)
  BY <1>3, <1>4, AliveShrinks
<1>6. cpu \notin Alive(stack')
  BY <1>2, <1>3, <1>4, NewTop DEF Alive
<1>7. lists \in [Lists -> Seq(Alive(stack))] /\ Once(lists) /\ RQ \in Lists
  BY DEF RunInv, RunOK, QueuesOK, Lists
<1>8. \A k \in Lists, t \in Alive(stack) : t # cpu => (In(lists', k, t) <=> In(lists, k, t))
  BY <1>2, <1>3, <1>7, TailLists
<1>9. QED
  BY <1>5, <1>6, <1>8 DEF Sleeping, Nowhere

LEMMA RunInvUndefined ==
  ASSUME SchedInv, UntilStrayed
  PROVE  NoUndefined
<1>1. CASE fault \in Strays
  BY <1>1 DEF Strays, Faults, NoUndefined
<1>2. CASE RunInv /\ Len(stack[cpu]) = 1
  BY <1>2, TopIs DEF RunInv, RunOK, RunnerOK, NoUndefined, Faults
<1>3. CASE RunInv /\ Len(stack[cpu]) # 1
  <2>1. HandlerFrame(Top)
    BY <1>3, TopIs, TopFrame DEF SchedInv
  <2>2. QED
    BY <1>3, <2>1 DEF HandlerFrame, Handler, Window, RunInv, NoUndefined, Faults
<1>4. QED
  BY <1>1, <1>2, <1>3 DEF UntilStrayed

LEMMA RunInvCurrent ==
  ASSUME UntilStrayed
  PROVE  CurrentIsRunning
BY DEF UntilStrayed, Strays, RunInv, RunOK, RunnerOK, CurrentIsRunning, InWindow, Window

(* Until a tick ends a quantum between the choice of the next thread and   *)
(* the change of stack: whenever the code of a thread runs,                *)
(* thread_current() is that thread, and the dispatcher will save into its  *)
(* context.                                                                *)
THEOREM SchedCurrentIsRunning == SchedSpec => []CurrentIsRunning
<1>1. SchedInit => SchedInv /\ UntilStrayed
  BY SchedInitInv, SchedInitRun DEF UntilStrayed
<1>2. SchedInv /\ UntilStrayed /\ [SchedNext]_schedVars => SchedInv' /\ UntilStrayed'
  BY SchedStepInv, SchedStepUntilStrayed
<1>3. UntilStrayed => CurrentIsRunning
  BY RunInvCurrent
<1>4. QED
  BY <1>1, <1>2, <1>3, PTL DEF SchedSpec

(* The kernel meets no undefined behaviour but through that tick: the run  *)
(* queue never runs dry, no thread is linked twice or unlinked when it is  *)
(* on no list, no context is lost, and no thread that has returned is      *)
(* resumed.                                                                *)
THEOREM SchedNoUndefined == SchedSpec => []NoUndefined
<1>1. SchedInit => SchedInv /\ UntilStrayed
  BY SchedInitInv, SchedInitRun DEF UntilStrayed
<1>2. SchedInv /\ UntilStrayed /\ [SchedNext]_schedVars => SchedInv' /\ UntilStrayed'
  BY SchedStepInv, SchedStepUntilStrayed
<1>3. SchedInv /\ UntilStrayed => NoUndefined
  BY RunInvUndefined
<1>4. QED
  BY <1>1, <1>2, <1>3, PTL DEF SchedSpec
===============================================================================
