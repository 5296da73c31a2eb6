-------------------------------- MODULE Timer --------------------------------
(***************************************************************************)
(* timer_delay: a thread registers an entry in the list of delays and then *)
(* sleeps; the timer interrupt counts the entries down, takes those that   *)
(* are due off the list and wakes their threads, before it charges the     *)
(* tick to the running thread.  Nothing else here sleeps or wakes.         *)
(***************************************************************************)
EXTENDS Sched

CONSTANTS
  Msecs,  \* what timer_delay is called with
  Never   \* 2^64 - 1 ticks, left by decrementing 0: no run lasts that long

ASSUME TimerAssumption ==
  /\ Msecs \subseteq Nat
  /\ Never \notin Nat
  /\ "delaying" \in ClientPoints

VARIABLE delay_list  \* the registered entries, in order

vars == <<schedVars, delay_list>>

HZ == 500

DelayTicks(msec) == (msec * HZ) \div 1000

-----------------------------------------------------------------------------
(* timer_delay: the entry is registered with interrupts disabled,          *)
TimerDelay(msec) ==
  /\ Running /\ cpu \in Sleepers
  /\ delay_list' = Append(delay_list, [thread |-> current_tcb, delay |-> DelayTicks(msec)])
  /\ stack' = SetTop(At("delaying"))
  /\ UNCHANGED <<lists, current_tcb, current_context, cpu, quantum, fault>>

(* and then, with interrupts enabled in between, the thread sleeps.        *)
DelaySleep == Executing("delaying") /\ SleepCurrent /\ UNCHANGED delay_list

(* Mutant: the decrement is tested to be negative, of an unsigned number.  *)
DueBelowZero(e) == FALSE

Counted(e) == [e EXCEPT !.delay = IF @ \in {0, Never} THEN Never ELSE @ - 1]
Due(e) == Counted(e).delay = 0

(* The entries of es at the positions of I, in order.                      *)
PickedUpTo(es, I) ==
  LET upto[n \in 0 .. Len(es)] ==
        IF n = 0 THEN <<>>
        ELSE IF n \in I THEN Append(upto[n - 1], es[n])
        ELSE upto[n - 1]
  IN  upto

Picked(es, I) == PickedUpTo(es, I)[Len(es)]

DueIn(es) == {i \in DOMAIN es : Due(es[i])}

(* Mutant: the loop ends at the first due entry whose thread it wakes, the *)
(* others are taken off the list all the same.                             *)
WokenFirst(es) == LET w == Picked(es, DueIn(es)) IN IF w = <<>> THEN w ELSE <<w[1].thread>>

(* The threads that timer_awake_thread is called with, in order.           *)
Woken(es) == LET w == Picked(es, DueIn(es)) IN [i \in DOMAIN w |-> w[i].thread]

(* The entries that stay registered.                                       *)
Left(es) ==
  LET left == Picked(es, DOMAIN es \ DueIn(es))
  IN  [i \in DOMAIN left |-> Counted(left[i])]

(* timer_cisr.                                                             *)
TimerTick ==
  /\ Ticking
  /\ IF \E i \in DOMAIN Woken(delay_list) : Linked(Woken(delay_list)[i])
     THEN Crash("relinked") /\ UNCHANGED delay_list
     ELSE /\ delay_list' = Left(delay_list)
          /\ lists' = [lists EXCEPT ![RQ] = @ \o Woken(delay_list)]
          /\ ThreadTimerHook
          /\ UNCHANGED <<current_tcb, current_context, cpu>>

-----------------------------------------------------------------------------
Init == SchedInit /\ delay_list = <<>>

OtherStep ==
  \/ KernelStep
  \/ Yield
  \/ \E t \in Threads : ThreadCreate(t)
  \/ ThreadReturned

Next ==
  \/ (OtherStep \/ Halted) /\ UNCHANGED delay_list
  \/ \E msec \in Msecs : TimerDelay(msec)
  \/ DelaySleep
  \/ TimerTick

Spec == Init /\ [][Next]_vars

(* The processor executes the kernel's code, and the timer keeps ticking.  *)
FairSpec ==
  /\ Spec
  /\ WF_vars(KernelStep /\ UNCHANGED delay_list)
  /\ WF_vars(TimerTick)

-----------------------------------------------------------------------------
Registered(t) == {i \in DOMAIN delay_list : delay_list[i].thread = t}

(* A thread that sleeps has an entry that will wake it, and while its      *)
(* entry waits a thread is asleep, or has not yet gone to sleep: nobody is *)
(* forgotten and nobody returns from timer_delay before the time.          *)
AsleepIffRegistered ==
  fault = "none" =>
    \A t \in Threads :
      /\ Asleep(t) => Registered(t) # {}
      /\ Registered(t) # {} /\ Linked(t) => stack[t][1].at = "delaying"

(* The inductive invariant behind it, until a thread has been linked twice *)
(* or a quantum has ended in the scheduler's window: a thread has one      *)
(* entry at most, and those that have one are the threads on the way from  *)
(* registering it to sleep, which still are on the run queue, and the      *)
(* threads asleep.  No call of the scheduler resumes a thread before its   *)
(* sleep.                                                                  *)
Entry == [thread : Threads, delay : Nat \cup {Never}]

Delayed == {delay_list[i].thread : i \in DOMAIN delay_list}
Delaying == {t \in Alive(stack) : stack[t][1].at = "delaying"}
Unlinked == {t \in Alive(stack) : ~Linked(t)}

OneEntryEach(es) ==
  \A i, j \in DOMAIN es : es[i].thread = es[j].thread => i = j

DelaysOK ==
  /\ delay_list \in Seq(Entry)
  /\ OneEntryEach(delay_list)
  /\ Delayed = Delaying \cup Unlinked
  /\ Delaying \cap Unlinked = {}
  /\ \A t \in Born(stack) : stack[t][1].then = "delaying" => stack[t][1].at = "delaying"

TimerInv == fault = "none" => SchedInv /\ RunOK /\ DelaysOK

(* timer.h:18, a delay ends.                                               *)
DelayEnds == \A t \in Threads : Asleep(t) ~> (Linked(t) \/ fault # "none")

(* timer.h:35, the timer wakes "a thread which went to sleep".             *)
WakesSleeper == fault # "relinked"
=============================================================================
