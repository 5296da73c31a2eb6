------------------------------ MODULE TimerProofs ------------------------------
(***************************************************************************)
(* A thread that calls timer_delay is never forgotten: as long as no       *)
(* thread is woken that still is on a list, and no tick lands in the       *)
(* scheduler's window, the threads asleep are those with an entry that     *)
(* waits.  For any number of threads and any delays.                       *)
(***************************************************************************)
EXTENDS Timer, SchedProofs, WellFoundedInduction

(* A set of numbers has a least one.                                       *)
LEMMA NatMin ==
  ASSUME NEW T, T \subseteq Nat, T # {}
  PROVE  \E x \in T : \A y \in T : x <= y
<1>1. PICK R : R = {ss \in Nat \X Nat : ss[1] < ss[2]}
  OBVIOUS
<1>2. IsWellFoundedOn(R, Nat)
  BY <1>1, NatLessThanWellFounded DEF OpToRel
<1>3. PICK x \in T : \A y \in T : ~(<<y, x>> \in R)
  BY <1>2, WFMin
<1>4. \A y \in T : x <= y
  <2> TAKE y \in T
  <2>1. x \in Nat /\ y \in Nat /\ ~(<<y, x>> \in R)
    BY <1>3
  <2>2. ~(y < x)
    BY <1>1, <2>1
  <2>3. QED
    BY <2>1, <2>2
<1>5. QED
  BY <1>4

(* Induction, for a set of numbers.                                        *)
LEMMA NatInduct ==
  ASSUME NEW S, 0 \in S, \A n \in Nat : n \in S => n + 1 \in S
  PROVE  \A n \in Nat : n \in S
<1> SUFFICES ASSUME Nat \ S # {}
             PROVE  FALSE
  OBVIOUS
<1>1. PICK x \in Nat \ S : \A y \in Nat \ S : x <= y
  BY NatMin
<1>2. x # 0 /\ x - 1 \in Nat /\ ~(x <= x - 1) /\ (x - 1) + 1 = x
  OBVIOUS
<1>3. x - 1 \in S
  BY <1>1, <1>2
<1>4. QED
  BY <1>2, <1>3

-----------------------------------------------------------------------------
(* What goes through the list of entries and picks some of them returns.   *)

(* f picks the entries of es at the positions of I, up to m.             *)
Picks(f, es, I, m) ==
  f = [n \in 0 .. m |->
         IF n = 0 THEN <<>>
         ELSE IF n \in I THEN Append(f[n - 1], es[n])
         ELSE f[n - 1]]

LEMMA PicksValue ==
  ASSUME NEW f, NEW es, NEW I, NEW m, Picks(f, es, I, m), NEW n \in 0 .. m
  PROVE  f[n] = IF n = 0 THEN <<>>
                ELSE IF n \in I THEN Append(f[n - 1], es[n])
                ELSE f[n - 1]
BY DEF Picks

LEMMA PicksExist ==
  ASSUME NEW es, NEW I, NEW m \in Nat
  PROVE  \E f : Picks(f, es, I, m)
<1> DEFINE S == {k \in Nat : \E f : Picks(f, es, I, k)}
<1>1. 0 \in S
  <2>1. Picks([n \in 0 .. 0 |-> <<>>], es, I, 0)
    BY DEF Picks
  <2>2. QED
    BY <2>1
<1>2. ASSUME NEW k \in Nat, k \in S
      PROVE  k + 1 \in S
  <2>1. PICK f : Picks(f, es, I, k)
    BY <1>2
  <2> DEFINE more == IF k + 1 \in I THEN Append(f[k], es[k + 1]) ELSE f[k]
  <2>2. PICK g : g = [n \in 0 .. k + 1 |-> IF n = k + 1 THEN more ELSE f[n]]
    OBVIOUS
  <2>3. \A n \in 0 .. k + 1 : n = k + 1 \/ (n \in 0 .. k /\ n # k + 1)
    OBVIOUS
  <2>4. \A n \in 0 .. k + 1 : n # 0 => n - 1 \in 0 .. k /\ n - 1 # k + 1 /\ n - 1 \in 0 .. k + 1
    OBVIOUS
  <2>5. \A n \in 0 .. k + 1 :
          g[n] = IF n = 0 THEN <<>>
                 ELSE IF n \in I THEN Append(g[n - 1], es[n])
                 ELSE g[n - 1]
    <3> TAKE n \in 0 .. k + 1
    <3>1. n # 0 => g[n - 1] = f[n - 1]
      BY <2>2, <2>4
    <3>2. CASE n = k + 1
      <4>1. n # 0 /\ n - 1 = k /\ g[n] = more
        BY <2>2, <3>2
      <4>2. QED
        BY <3>1, <3>2, <4>1
    <3>3. CASE n \in 0 .. k /\ n # k + 1
      <4>1. g[n] = f[n]
        BY <2>2, <3>3
      <4>2. f[n] = IF n = 0 THEN <<>>
                   ELSE IF n \in I THEN Append(f[n - 1], es[n])
                   ELSE f[n - 1]
        BY <2>1, <3>3 DEF Picks
      <4>3. QED
        BY <3>1, <4>1, <4>2
    <3>4. QED
      BY <2>3, <3>2, <3>3
  <2>6. Picks(g, es, I, k + 1)
    BY <2>2, <2>5 DEF Picks
  <2>7. QED
    BY <2>6
<1>3. \A k \in Nat : k \in S
  <2> HIDE DEF S
  <2>1. QED
    BY <1>1, <1>2, NatInduct
<1>4. QED
  BY <1>3

LEMMA PickedUpToPicks ==
  ASSUME NEW es, NEW I, Len(es) \in Nat
  PROVE  Picks(PickedUpTo(es, I), es, I, Len(es))
<1>1. PICK f : Picks(f, es, I, Len(es))
  BY PicksExist
<1>2. QED
  BY <1>1 DEF PickedUpTo, Picks

(* The entries picked so far are those at the positions of I, each once.   *)
FirstPicked(s, es, I, n) ==
  \E p \in [DOMAIN s -> I \cap 1 .. n] :
    /\ \A k, l \in DOMAIN s : p[k] = p[l] => k = l
    /\ \A i \in I \cap 1 .. n : \E k \in DOMAIN s : p[k] = i
    /\ \A k \in DOMAIN s : s[k] = es[p[k]]

LEMMA NonePicked ==
  ASSUME NEW es, NEW I
  PROVE  FirstPicked(<<>>, es, I, 0)
<1>1. I \cap 1 .. 0 = {} /\ DOMAIN <<>> = {}
  OBVIOUS
<1>2. PICK p : p = [k \in {} |-> 0]
  OBVIOUS
<1>3. p \in [DOMAIN <<>> -> I \cap 1 .. 0]
  BY <1>1, <1>2
<1>4. QED
  BY <1>1, <1>3 DEF FirstPicked

LEMMA OnePickedMore ==
  ASSUME NEW B, NEW s \in Seq(B), NEW es, NEW I, NEW n \in Nat, FirstPicked(s, es, I, n),
         n + 1 \in I, es[n + 1] \in B
  PROVE  FirstPicked(Append(s, es[n + 1]), es, I, n + 1)
<1>1. PICK p \in [DOMAIN s -> I \cap 1 .. n] :
        /\ \A k, l \in DOMAIN s : p[k] = p[l] => k = l
        /\ \A i \in I \cap 1 .. n : \E k \in DOMAIN s : p[k] = i
        /\ \A k \in DOMAIN s : s[k] = es[p[k]]
  BY DEF FirstPicked
<1>2. PICK m \in Nat : m = Len(s) /\ DOMAIN s = 1 .. m
  OBVIOUS
<1>3. PICK t : t = Append(s, es[n + 1])
  OBVIOUS
<1>4. /\ DOMAIN t = 1 .. m + 1 /\ t[m + 1] = es[n + 1]
      /\ \A k \in 1 .. m : t[k] = s[k]
  BY <1>2, <1>3
<1>5. PICK q : q = [k \in DOMAIN t |-> IF k = m + 1 THEN n + 1 ELSE p[k]]
  OBVIOUS
<1>6. /\ \A k \in DOMAIN t : k = m + 1 \/ (k \in DOMAIN s /\ k # m + 1)
      /\ \A k \in DOMAIN s : k \in DOMAIN t /\ k # m + 1
      /\ m + 1 \in DOMAIN t
  BY <1>2, <1>4
<1>7. /\ \A i \in I \cap 1 .. n + 1 : i = n + 1 \/ i \in I \cap 1 .. n
      /\ \A i \in I \cap 1 .. n : i \in I \cap 1 .. n + 1 /\ i # n + 1
      /\ n + 1 \in I \cap 1 .. n + 1
  OBVIOUS
<1>8. /\ q[m + 1] = n + 1
      /\ \A k \in DOMAIN s : q[k] = p[k] /\ q[k] \in I \cap 1 .. n /\ q[k] # n + 1
  BY <1>1, <1>5, <1>6, <1>7
<1>9. q \in [DOMAIN t -> I \cap 1 .. n + 1]
  BY <1>5, <1>6, <1>7, <1>8
<1>10. \A k, l \in DOMAIN t : q[k] = q[l] => k = l
  BY <1>1, <1>6, <1>8
<1>11. \A i \in I \cap 1 .. n + 1 : \E k \in DOMAIN t : q[k] = i
  BY <1>1, <1>6, <1>7, <1>8
<1>12. \A k \in DOMAIN t : t[k] = es[q[k]]
  BY <1>1, <1>2, <1>4, <1>6, <1>8
<1>13. \E u \in [DOMAIN t -> I \cap 1 .. n + 1] :
         /\ \A k, l \in DOMAIN t : u[k] = u[l] => k = l
         /\ \A i \in I \cap 1 .. n + 1 : \E k \in DOMAIN t : u[k] = i
         /\ \A k \in DOMAIN t : t[k] = es[u[k]]
  <2> WITNESS q \in [DOMAIN t -> I \cap 1 .. n + 1]
  <2>1. QED
    BY <1>10, <1>11, <1>12
<1>14. FirstPicked(t, es, I, n + 1)
  BY <1>13 DEF FirstPicked
<1>15. QED
  BY <1>3, <1>14

LEMMA NotPicked ==
  ASSUME NEW s, NEW es, NEW I, NEW n \in Nat, FirstPicked(s, es, I, n), n + 1 \notin I
  PROVE  FirstPicked(s, es, I, n + 1)
<1>1. I \cap 1 .. n + 1 = I \cap 1 .. n
  OBVIOUS
<1>2. QED
  BY <1>1 DEF FirstPicked

LEMMA PickedPositions ==
  ASSUME NEW B, NEW es \in Seq(B), NEW I
  PROVE  Picked(es, I) \in Seq(B) /\ FirstPicked(Picked(es, I), es, I, Len(es))
<1> DEFINE f == PickedUpTo(es, I)
           Good(n) == f[n] \in Seq(B) /\ FirstPicked(f[n], es, I, n)
           S == {n \in Nat : n <= Len(es) => Good(n)}
<1>1. Len(es) \in Nat /\ \A n \in 1 .. Len(es) : es[n] \in B
  BY ElementOfSeq
<1>2. Picks(f, es, I, Len(es))
  BY <1>1, PickedUpToPicks
<1>3. 0 \in S
  <2>1. f[0] = <<>>
    <3> HIDE DEF f
    <3>1. 0 \in 0 .. Len(es)
      BY <1>1
    <3>2. QED
      BY <1>2, <3>1, PicksValue
  <2>2. Good(0)
    <3> HIDE DEF f
    <3>1. <<>> \in Seq(B)
      OBVIOUS
    <3>2. QED
      BY <2>1, <3>1, NonePicked
  <2>3. QED
    BY <2>2
<1>4. ASSUME NEW n \in Nat, n \in S
      PROVE  n + 1 \in S
  <2> SUFFICES ASSUME n + 1 <= Len(es)
               PROVE  Good(n + 1)
    OBVIOUS
  <2>1. Good(n)
    BY <1>1, <1>4
  <2>2. n + 1 \in 1 .. Len(es) /\ n + 1 \in 0 .. Len(es) /\ n + 1 # 0 /\ (n + 1) - 1 = n
    BY <1>1
  <2>3. f[n + 1] = IF n + 1 \in I THEN Append(f[n], es[n + 1]) ELSE f[n]
    <3> HIDE DEF f
    <3>1. QED
      BY <1>2, <2>2, PicksValue
  <2>4. CASE n + 1 \in I
    <3>1. Append(f[n], es[n + 1]) \in Seq(B)
      BY <1>1, <2>1, <2>2
    <3>2. FirstPicked(Append(f[n], es[n + 1]), es, I, n + 1)
      <4> HIDE DEF f
      <4>1. QED
        BY <1>1, <2>1, <2>2, <2>4, OnePickedMore
    <3>3. QED
      BY <2>3, <2>4, <3>1, <3>2
  <2>5. CASE n + 1 \notin I
    <3>1. FirstPicked(f[n], es, I, n + 1)
      <4> HIDE DEF f
      <4>1. QED
        BY <2>1, <2>5, NotPicked
    <3>2. QED
      BY <2>1, <2>3, <2>5, <3>1
  <2>6. QED
    BY <2>4, <2>5
<1>5. \A n \in Nat : n \in S
  <2> HIDE DEF S
  <2>1. QED
    BY <1>3, <1>4, NatInduct
<1>6. Good(Len(es))
  BY <1>1, <1>5
<1>7. QED
  BY <1>6 DEF Picked

(* Whose entry they are.                                                   *)
LEMMA PickedEntries ==
  ASSUME NEW es \in Seq(Entry), NEW I, I \subseteq DOMAIN es
  PROVE  /\ Picked(es, I) \in Seq(Entry)
         /\ \A k \in DOMAIN Picked(es, I) : \E i \in I : Picked(es, I)[k] = es[i]
         /\ \A i \in I : \E k \in DOMAIN Picked(es, I) : Picked(es, I)[k] = es[i]
         /\ OneEntryEach(es) => OneEntryEach(Picked(es, I))
<1>1. PICK w : w = Picked(es, I)
  OBVIOUS
<1>2. w \in Seq(Entry) /\ FirstPicked(w, es, I, Len(es))
  BY <1>1, PickedPositions
<1>3. I \cap 1 .. Len(es) = I
  OBVIOUS
<1>4. PICK p \in [DOMAIN w -> I] :
        /\ \A k, l \in DOMAIN w : p[k] = p[l] => k = l
        /\ \A i \in I : \E k \in DOMAIN w : p[k] = i
        /\ \A k \in DOMAIN w : w[k] = es[p[k]]
  BY <1>2, <1>3 DEF FirstPicked
<1>5. \A k \in DOMAIN w : p[k] \in I /\ p[k] \in DOMAIN es
  BY <1>4
<1>6. OneEntryEach(es) => OneEntryEach(w)
  BY <1>4, <1>5 DEF OneEntryEach
<1>7. QED
  BY <1>1, <1>2, <1>4, <1>5, <1>6

LEMMA CountedEntry ==
  ASSUME NEW e \in Entry
  PROVE  Counted(e) \in Entry /\ Counted(e).thread = e.thread
BY TimerAssumption DEF Counted, Entry

(* The threads that are woken, and the entries that stay.                  *)
LEMMA WokenThreads ==
  ASSUME NEW es \in Seq(Entry), OneEntryEach(es)
  PROVE  /\ Woken(es) \in Seq(Threads)
         /\ \A t : (\E k \in DOMAIN Woken(es) : Woken(es)[k] = t)
                   <=> \E i \in DueIn(es) : es[i].thread = t
         /\ \A k, l \in DOMAIN Woken(es) : Woken(es)[k] = Woken(es)[l] => k = l
<1>1. DueIn(es) \subseteq DOMAIN es
  BY DEF DueIn
<1>2. PICK w \in Seq(Entry) : w = Picked(es, DueIn(es))
  BY <1>1, PickedEntries
<1>3. /\ \A k \in DOMAIN w : \E i \in DueIn(es) : w[k] = es[i]
      /\ \A i \in DueIn(es) : \E k \in DOMAIN w : w[k] = es[i]
      /\ OneEntryEach(w)
  BY <1>1, <1>2, PickedEntries
<1>4. PICK m \in Nat : DOMAIN w = 1 .. m /\ \A k \in 1 .. m : w[k] \in Entry
  BY ElementOfSeq
<1>5. PICK v : v = [k \in 1 .. m |-> w[k].thread]
  OBVIOUS
<1>6. v \in Seq(Threads) /\ DOMAIN v = 1 .. m
  <2>1. v \in [1 .. m -> Threads]
    BY <1>4, <1>5 DEF Entry
  <2>2. QED
    BY <2>1, SeqDef
<1>7. Woken(es) = v
  BY <1>2, <1>4, <1>5 DEF Woken
<1>8. QED
  BY <1>3, <1>4, <1>5, <1>6, <1>7 DEF OneEntryEach

LEMMA LeftEntries ==
  ASSUME NEW es \in Seq(Entry), OneEntryEach(es)
  PROVE  /\ Left(es) \in Seq(Entry)
         /\ \A t : (\E k \in DOMAIN Left(es) : Left(es)[k].thread = t)
                   <=> \E i \in DOMAIN es \ DueIn(es) : es[i].thread = t
         /\ OneEntryEach(Left(es))
<1> DEFINE I == DOMAIN es \ DueIn(es)
<1>1. I \subseteq DOMAIN es
  OBVIOUS
<1>2. PICK w \in Seq(Entry) : w = Picked(es, I)
  BY <1>1, PickedEntries
<1>3. /\ \A k \in DOMAIN w : \E i \in I : w[k] = es[i]
      /\ \A i \in I : \E k \in DOMAIN w : w[k] = es[i]
      /\ OneEntryEach(w)
  <2> HIDE DEF I
  <2>1. QED
    BY <1>1, <1>2, PickedEntries
<1>4. PICK m \in Nat : DOMAIN w = 1 .. m /\ \A k \in 1 .. m : w[k] \in Entry
  BY ElementOfSeq
<1>5. PICK v : v = [k \in DOMAIN w |-> Counted(w[k])]
  OBVIOUS
<1>6. \A k \in 1 .. m : v[k] \in Entry /\ v[k].thread = w[k].thread
  BY <1>4, <1>5, CountedEntry
<1>7. v \in Seq(Entry) /\ DOMAIN v = 1 .. m
  <2>1. v \in [1 .. m -> Entry]
    BY <1>4, <1>5, <1>6
  <2>2. QED
    BY <2>1, SeqDef
<1>8. Left(es) = v
  BY <1>2, <1>5 DEF Left
<1>9. \A t : (\E k \in DOMAIN v : v[k].thread = t) <=> \E i \in I : es[i].thread = t
  <2> HIDE DEF I
  <2>1. \A t : (\E k \in DOMAIN v : v[k].thread = t) <=> \E k \in DOMAIN w : w[k].thread = t
    BY <1>4, <1>6, <1>7
  <2>2. \A t : (\E k \in DOMAIN w : w[k].thread = t) <=> \E i \in I : es[i].thread = t
    BY <1>3
  <2>3. QED
    BY <2>1, <2>2
<1>10. OneEntryEach(v)
  BY <1>3, <1>4, <1>6, <1>7 DEF OneEntryEach
<1>11. QED
  BY <1>7, <1>8, <1>9, <1>10

-----------------------------------------------------------------------------
(* Which steps leave the delayed threads alone.                            *)

Plain(f) == f.at \notin {"exit", "gone"} /\ f.then # "gone"
SleepsAfter(st) == \A t \in Born(st) : st[t][1].then = "delaying" => st[t][1].at = "delaying"

(* The threads alive, on their way to sleep and asleep stay the same.      *)
Undelayed ==
  /\ Alive(stack') = Alive(stack)
  /\ Delaying' = Delaying
  /\ Unlinked' = Unlinked
  /\ SleepsAfter(stack')

(* Nobody comes to the lists or leaves them.                               *)
SameLinks == \A t \in Alive(stack) : Nowhere(lists', t) <=> Nowhere(lists, t)

LEMMA UnlinkedNowhere ==
  /\ Unlinked = {t \in Alive(stack) : Nowhere(lists, t)}
  /\ Unlinked' = {t \in Alive(stack') : Nowhere(lists', t)}
BY DEF Unlinked, Linked, Nowhere, In

LEMMA BottomsUndelayed ==
  ASSUME SleepsAfter(stack), lists' = lists,
         \A t \in Threads : (stack'[t] # <<>> <=> stack[t] # <<>>) /\ stack'[t][1] = stack[t][1]
  PROVE  Undelayed
<1>1. Born(stack') = Born(stack) /\ \A t \in Born(stack) : stack'[t][1] = stack[t][1]
  BY DEF Born
<1>2. Alive(stack') = Alive(stack)
  BY BottomsSleeping
<1>3. Delaying' = Delaying
  BY <1>1, <1>2 DEF Delaying, Alive
<1>4. Unlinked' = Unlinked
  BY <1>2, UnlinkedNowhere
<1>5. QED
  BY <1>1, <1>2, <1>3, <1>4 DEF Undelayed, SleepsAfter

LEMMA TopUndelayed ==
  ASSUME SchedInv, SleepsAfter(stack), SameLinks, NEW f, stack' = SetTop(f),
         Len(stack[cpu]) = 1 =>
           /\ cpu \in Alive(stack) <=> Plain(f)
           /\ Top.at = "delaying" <=> f.at = "delaying"
           /\ f.then = "delaying" => f.at = "delaying"
  PROVE  Undelayed
<1>1. Alive(stack') = Alive(stack)
  <2>1. Alive(stack) \subseteq Alive(SetTop(f))
    BY AliveStays DEF Plain
  <2>2. Alive(SetTop(f)) \subseteq Alive(stack)
    BY AliveShrinks DEF Plain
  <2>3. QED
    BY <2>1, <2>2
<1>2. /\ Born(stack') = Born(stack) /\ cpu \in Threads
      /\ \A t \in Threads : stack'[t][1] = IF t = cpu /\ Len(stack[cpu]) = 1 THEN f ELSE stack[t][1]
  BY NewTop
<1>3. Len(stack[cpu]) = 1 => Top = stack[cpu][1]
  BY TopIs
<1>4. \A t \in Born(stack) : t \in Threads
  BY DEF Born
<1>5. Delaying' = Delaying
  BY <1>1, <1>2, <1>3, <1>4 DEF Delaying, Alive
<1>6. Unlinked' = Unlinked
  BY <1>1, UnlinkedNowhere DEF SameLinks
<1>7. SleepsAfter(stack')
  BY <1>2, <1>3, <1>4 DEF SleepsAfter
<1>8. QED
  BY <1>1, <1>5, <1>6, <1>7 DEF Undelayed

LEMMA ScheduleUndelayed ==
  ASSUME SchedInv, RunInv, RunInv', SleepsAfter(stack), NEW then, Schedule(lists, RQ, then),
         Top.at # "delaying", then # "delaying",
         Len(stack[cpu]) = 1 => (cpu \in Alive(stack) <=> then # "gone")
  PROVE  Undelayed
<1> DEFINE moved == Requeued(lists, RQ)
           f == [at |-> "switch", then |-> then, next |-> Head(moved[RQ])]
<1>1. lists' = moved /\ stack' = SetTop(f)
  BY DEF Schedule, Crash, RunInv
<1>2. /\ lists \in [Lists -> Seq(Alive(stack))] /\ Once(lists) /\ lists[RQ] # <<>> /\ RQ \in Lists
  BY IdleQueued DEF RunInv, RunOK, QueuesOK
<1>3. /\ In(moved, RQ, Head(lists[RQ])) /\ In(lists, RQ, Head(lists[RQ]))
      /\ \A k \in Lists, t \in Alive(stack) :
           t # Head(lists[RQ]) => (In(moved, k, t) <=> In(lists, k, t))
  BY <1>2, RequeuedLists, TailLists
<1>4. SameLinks
  BY <1>1, <1>2, <1>3 DEF SameLinks, Nowhere
<1>5. f.at # "delaying" /\ f.then # "delaying" /\ (Plain(f) <=> then # "gone")
  BY DEF Plain
<1>6. QED
  <2> HIDE DEF f
  <2>1. QED
    BY <1>1, <1>4, <1>5, TopUndelayed

LEMMA KernelStepUndelayed ==
  ASSUME SchedInv, RunInv, RunInv', SleepsAfter(stack), KernelStep
  PROVE  Undelayed
<1>0. cpu \in Born(stack) /\ (Len(stack[cpu]) = 1 => Top = stack[cpu][1])
  BY TopIs
<1>1. CASE DispatcherSwitchTo
  <2> DEFINE f == [Top EXCEPT !.at = "handover"]
  <2>1. lists' = lists /\ stack' = SetTop(f) /\ Top.at = "switch"
    BY <1>1 DEF DispatcherSwitchTo, Executing, Crash, RunInv
  <2>2. f.then = Top.then /\ f.at = "handover"
    BY TopFrame DEF SchedInv, Frame
  <2>3. Len(stack[cpu]) = 1 => (cpu \in Alive(stack) <=> Plain(f)) /\ Top.then # "delaying"
    BY <1>0, <2>1, <2>2 DEF Alive, Plain, SleepsAfter
  <2>4. QED
    <3> HIDE DEF f
    <3>1. QED
      BY <2>1, <2>2, <2>3, TopUndelayed DEF SameLinks
<1>2. CASE SwitchStack
  <2> DEFINE f == At(Top.then)
  <2>1. lists' = lists /\ stack' = SetTop(f) /\ Top.at = "handover"
    BY <1>2 DEF SwitchStack, Executing
  <2>2. f.then = Top.then /\ f.at = Top.then
    BY DEF At
  <2>3. Len(stack[cpu]) = 1 => Top.then # "delaying" /\ Top.then # "exit"
    BY <1>0, <2>1 DEF SleepsAfter, RunInv, RunOK, PlacesOK, Window, Unlinking
  <2>4. Len(stack[cpu]) = 1 => (cpu \in Alive(stack) <=> Plain(f))
    BY <1>0, <2>1, <2>2, <2>3 DEF Alive, Plain
  <2>5. QED
    <3> HIDE DEF f
    <3>1. QED
      BY <2>1, <2>2, <2>3, <2>4, TopUndelayed DEF SameLinks
<1>3. CASE TimerSchedule
  <2>1. Top.at = "expired" /\ Schedule(lists, RQ, "iret")
    BY <1>3 DEF TimerSchedule, Executing
  <2>2. Len(stack[cpu]) # 1
    BY <2>1, TopIs DEF Handler
  <2>3. QED
    BY <2>1, <2>2, ScheduleUndelayed
<1>4. CASE TimerReturn
  BY <1>4, TimerReturnFrames, BottomsUndelayed DEF TimerReturn
<1>5. CASE IdleFirstSchedule
  <2>1. Top.at = "first" /\ Schedule(lists, RQ, "run")
    BY <1>5 DEF IdleFirstSchedule, Executing
  <2>2. cpu \in Alive(stack)
    BY <2>1, RunningAlive DEF Handler, Window
  <2>3. QED
    BY <2>1, <2>2, ScheduleUndelayed
<1>6. CASE ReturnedSchedule
  <2>1. Top.at = "exit" /\ Schedule(lists, RQ, "gone")
    BY <1>6 DEF ReturnedSchedule, Executing
  <2>2. Len(stack[cpu]) = 1 => cpu \notin Alive(stack)
    BY <1>0, <2>1 DEF Alive
  <2>3. QED
    BY <2>1, <2>2, ScheduleUndelayed
<1>7. CASE SleepSchedule
  <2>1. Top.at = "slept"
    BY <1>7 DEF SleepSchedule, Executing
  <2>2. cpu \in Alive(stack)
    BY <2>1, RunningAlive DEF Handler, Window
  <2>3. CASE Schedule(lists, RQ, "run")
    BY <2>1, <2>2, <2>3, ScheduleUndelayed
  <2>4. CASE lists' = lists /\ stack' = SetTop(At("run"))
    <3>1. Plain(At("run")) /\ At("run").at = "run" /\ At("run").then = "run"
      BY DEF Plain, At
    <3>2. QED
      BY <2>1, <2>2, <2>4, <3>1, TopUndelayed DEF SameLinks
  <2>5. QED
    BY <1>7, <2>3, <2>4 DEF SleepSchedule
<1>8. QED
  BY <1>1, <1>2, <1>3, <1>4, <1>5, <1>6, <1>7 DEF KernelStep

LEMMA YieldUndelayed ==
  ASSUME SchedInv, RunInv, RunInv', SleepsAfter(stack), Yield
  PROVE  Undelayed
<1>1. Top.at = "run" /\ Schedule(lists, RQ, "run")
  BY DEF Yield, Running, Executing
<1>2. cpu \in Alive(stack)
  BY <1>1, RunningAlive DEF Handler, Window
<1>3. QED
  BY <1>1, <1>2, ScheduleUndelayed

(* A thread that runs its code, and is not on its way to sleep.            *)
LEMMA RunnerUndelayed ==
  ASSUME SchedInv, RunInv, Top.at = "run"
  PROVE  cpu \notin Delaying /\ cpu \notin Unlinked
<1>1. Head(lists[RQ]) = cpu /\ lists[RQ] # <<>> /\ Top = stack[cpu][1]
  BY RunsAtHead DEF Handler, Window, Unlinking
<1>2. /\ lists \in [Lists -> Seq(Alive(stack))] /\ Once(lists) /\ RQ \in Lists
  BY IdleQueued DEF RunInv, RunOK, QueuesOK
<1>3. In(lists, RQ, cpu)
  BY <1>1, <1>2, TailLists
<1>4. QED
  BY <1>1, <1>2, <1>3, UnlinkedNowhere DEF Delaying, Nowhere

LEMMA ThreadCreateUndelayed ==
  ASSUME SchedInv, RunInv, SleepsAfter(stack), NEW t \in Threads, ThreadCreate(t)
  PROVE  Delaying' = Delaying /\ Unlinked' = Unlinked /\ SleepsAfter(stack')
<1>1. /\ stack[t] = <<>> /\ stack'[t] = <<At("run")>> /\ lists' = Pushed(lists, RQ, t)
      /\ \A u \in Threads : u # t => stack'[u] = stack[u]
  BY DEF ThreadCreate, Created, Pushed, SchedInv, StackOK
<1>2. stack'[t] # <<>> /\ stack'[t][1] = At("run") /\ At("run").at = "run" /\ At("run").then = "run"
  BY <1>1 DEF At
<1>3. Born(stack') = Born(stack) \cup {t} /\ t \notin Born(stack)
  BY <1>1, <1>2 DEF Born
<1>4. Alive(stack') = Alive(stack) \cup {t} /\ t \notin Alive(stack)
  BY <1>1, <1>2, <1>3 DEF Alive, Born
<1>5. \A u \in Alive(stack) : u # t /\ stack'[u] = stack[u]
  BY <1>1, <1>4 DEF Alive, Born
<1>6. Delaying' = Delaying
  BY <1>2, <1>4, <1>5 DEF Delaying
<1>7. /\ lists \in [Lists -> Seq(Alive(stack))] /\ Once(lists) /\ RQ \in Lists
  BY IdleQueued DEF RunInv, RunOK, QueuesOK
<1>8. lists \in [Lists -> Seq(Alive(stack'))] /\ Nowhere(lists, t)
  <2>1. Nowhere(lists, t)
    BY <1>4, <1>7 DEF Nowhere, In
  <2>2. \A l \in Lists : lists[l] \in Seq(Alive(stack'))
    BY <1>4, <1>7, SeqMonotonic
  <2>3. QED
    BY <1>7, <2>1, <2>2
<1>9. \A k \in Lists : \A u : In(lists', k, u) <=> (In(lists, k, u) \/ (k = RQ /\ u = t))
  BY <1>1, <1>4, <1>7, <1>8, AppendLists
<1>10. Unlinked' = Unlinked
  BY <1>4, <1>7, <1>9, UnlinkedNowhere DEF Nowhere
<1>11. SleepsAfter(stack')
  BY <1>1, <1>2, <1>3 DEF SleepsAfter, Born
<1>12. QED
  BY <1>6, <1>10, <1>11

LEMMA ThreadReturnedUndelayed ==
  ASSUME SchedInv, RunInv, SleepsAfter(stack), ThreadReturned
  PROVE  Delaying' = Delaying /\ Unlinked' = Unlinked /\ SleepsAfter(stack')
<1> DEFINE f == At("exit")
<1>1. Top.at = "run" /\ Len(stack[cpu]) = 1
  BY TopIs DEF ThreadReturned, Running, Executing, Handler, Window
<1>2. Head(lists[RQ]) = cpu /\ lists[RQ] # <<>>
  BY <1>1, RunsAtHead DEF Handler, Window, Unlinking
<1>3. /\ lists \in [Lists -> Seq(Alive(stack))] /\ Once(lists) /\ RQ \in Lists
  BY IdleQueued DEF RunInv, RunOK, QueuesOK
<1>4. lists' = Popped(lists, RQ) /\ stack' = SetTop(f) /\ f.at = "exit" /\ f.then = "exit"
  BY <1>2 DEF ThreadReturned, Popped, At
<1>5. \A k \in Lists, t \in Alive(stack) : t # cpu => (In(lists', k, t) <=> In(lists, k, t))
  BY <1>2, <1>3, <1>4, TailLists
<1>6. /\ Born(stack') = Born(stack) /\ cpu \in Threads /\ stack'[cpu][1] = f
      /\ \A t \in Threads : t # cpu => stack'[t] = stack[t]
  <2> HIDE DEF f
  <2>1. QED
    BY <1>1, <1>4, NewTop
<1>7. Alive(stack') = Alive(stack) \ {cpu}
  BY <1>4, <1>6 DEF Alive, Born
<1>8. cpu \notin Delaying /\ cpu \notin Unlinked
  BY <1>1, RunnerUndelayed
<1>9. \A t \in Alive(stack) \ {cpu} : stack'[t] = stack[t]
  BY <1>6 DEF Alive, Born
<1>10. Delaying' = Delaying
  BY <1>7, <1>8, <1>9 DEF Delaying
<1>11. Unlinked' = Unlinked
  BY <1>5, <1>7, <1>8, UnlinkedNowhere DEF Nowhere
<1>12. SleepsAfter(stack')
  BY <1>4, <1>6 DEF SleepsAfter, Born
<1>13. QED
  BY <1>10, <1>11, <1>12

-----------------------------------------------------------------------------
(* Every step keeps the invariant of the delays.                           *)

Sound == SchedInv /\ RunInv /\ DelaysOK

LEMMA SoundInv ==
  /\ TimerInv /\ fault = "none" => Sound
  /\ Sound' => TimerInv'
BY DEF TimerInv, Sound, RunInv

LEMMA DelaysStay ==
  ASSUME DelaysOK, delay_list' = delay_list,
         Delaying' = Delaying, Unlinked' = Unlinked, SleepsAfter(stack')
  PROVE  DelaysOK'
BY DEF DelaysOK, Delayed, SleepsAfter

LEMMA OtherStepSound ==
  ASSUME Sound, OtherStep, UNCHANGED delay_list
  PROVE  Sound'
<1>0. SchedInv /\ RunInv /\ DelaysOK /\ SleepsAfter(stack)
  BY DEF Sound, DelaysOK, SleepsAfter
<1>1. CASE KernelStep
  <2>1. SchedInv' /\ RunInv'
    BY <1>0, <1>1, KernelStepInv, KernelStepRun
  <2>2. QED
    BY <1>0, <1>1, <2>1, KernelStepUndelayed, DelaysStay DEF Sound, Undelayed
<1>2. CASE Yield
  <2>1. SchedInv' /\ RunInv'
    BY <1>0, <1>2, YieldInv, YieldRun
  <2>2. QED
    BY <1>0, <1>2, <2>1, YieldUndelayed, DelaysStay DEF Sound, Undelayed
<1>3. ASSUME NEW t \in Threads, ThreadCreate(t)
      PROVE  Sound'
  <2>1. SchedInv' /\ RunInv'
    BY <1>0, <1>3, ThreadCreateInv, ThreadCreateRun
  <2>2. QED
    BY <1>0, <1>3, <2>1, ThreadCreateUndelayed, DelaysStay DEF Sound
<1>4. CASE ThreadReturned
  <2>1. SchedInv' /\ RunInv'
    BY <1>0, <1>4, ThreadReturnedInv, ThreadReturnedRun
  <2>2. QED
    BY <1>0, <1>4, <2>1, ThreadReturnedUndelayed, DelaysStay DEF Sound
<1>5. QED
  BY <1>1, <1>2, <1>3, <1>4 DEF OtherStep

(* timer_delay registers a thread that has no entry yet.                   *)
LEMMA TimerDelaySound ==
  ASSUME Sound, NEW msec \in Msecs, TimerDelay(msec)
  PROVE  Sound'
<1> DEFINE f == At("delaying")
           e == [thread |-> current_tcb, delay |-> DelayTicks(msec)]
<1>0. SchedInv /\ RunInv /\ DelaysOK /\ SleepsAfter(stack)
  BY DEF Sound, DelaysOK, SleepsAfter
<1>1. /\ Top.at = "run" /\ cpu # Idle /\ fault = "none"
      /\ delay_list' = Append(delay_list, e) /\ stack' = SetTop(f)
      /\ UNCHANGED <<lists, current_tcb, current_context, cpu, quantum, fault>>
  BY DEF TimerDelay, Running, Executing, Sound, RunInv
<1>2. Top.at \notin Handler \cup Window \cup Unlinking /\ Top.at # "exit"
  BY <1>1 DEF Handler, Window, Unlinking
<1>3. /\ Len(stack[cpu]) = 1 /\ Top = stack[cpu][1] /\ ~InWindow /\ current_tcb = cpu
      /\ Head(lists[RQ]) = cpu /\ lists[RQ] # <<>> /\ cpu \in Alive(stack)
  BY <1>0, <1>2, RunsAtHead, RunningAlive
<1>4. f.at = "delaying" /\ f.then = "delaying"
  BY DEF At
<1>5. SchedInv'
  <2>1. "delaying" \in Points
    BY TimerAssumption DEF Points
  <2>2. f \in Frame /\ f.next \in Born(stack) /\ ThreadFrame(f)
    BY <1>0, <2>1, PlainFrame DEF SchedInv, ThreadFrame, Handler
  <2>3. ListsOK(lists', stack)
    BY <1>0, <1>1, ListsTyped
  <2>4. QED
    <3> HIDE DEF f
    <3>1. QED
      BY <1>0, <1>1, <1>2, <2>2, <2>3, ThreadGotoInv
<1>6. Alive(stack') = Alive(stack)
  <2> HIDE DEF f
  <2>1. Alive(stack) \subseteq Alive(SetTop(f))
    BY <1>0, <1>4, AliveStays
  <2>2. Alive(SetTop(f)) \subseteq Alive(stack)
    BY <1>0, <1>3, AliveShrinks
  <2>3. QED
    BY <1>1, <2>1, <2>2
<1>7. RunInv'
  <2> HIDE DEF f
  <2>1. QueuesOK(lists', stack')
    BY <1>0, <1>1, <1>6, QueuesStay DEF RunInv, RunOK
  <2>2. f.at \notin Window \cup {"gone"} /\ f.at # "slept"
    BY <1>4 DEF Window
  <2>3. QED
    BY <1>0, <1>1, <1>3, <2>1, <2>2, CodeRun DEF RunInv, RunOK
<1>8. /\ Born(stack') = Born(stack) /\ cpu \in Threads
      /\ \A t \in Threads : stack'[t][1] = IF t = cpu THEN f ELSE stack[t][1]
  <2> HIDE DEF f
  <2>1. QED
    BY <1>0, <1>1, <1>3, NewTop
<1>9. Delaying' = Delaying \cup {cpu} /\ Unlinked' = Unlinked /\ cpu \notin Delaying \cup Unlinked
  <2>1. cpu \notin Delaying /\ cpu \notin Unlinked
    BY <1>0, <1>1, RunnerUndelayed
  <2>2. Delaying' = Delaying \cup {cpu}
    BY <1>3, <1>4, <1>6, <1>8 DEF Delaying, Alive, Born
  <2>3. Unlinked' = Unlinked
    BY <1>1, <1>6, UnlinkedNowhere
  <2>4. QED
    BY <2>1, <2>2, <2>3
<1>10. e \in Entry /\ e.thread = cpu
  <2>1. DelayTicks(msec) \in Nat
    BY TimerAssumption DEF DelayTicks, HZ
  <2>2. QED
    BY <1>3, <1>8, <2>1 DEF Entry
<1>11. /\ delay_list \in Seq(Entry) /\ delay_list' \in Seq(Entry)
       /\ Len(delay_list) \in Nat
       /\ DOMAIN delay_list = 1 .. Len(delay_list)
       /\ DOMAIN delay_list' = 1 .. Len(delay_list) + 1
       /\ \A i \in 1 .. Len(delay_list) : delay_list'[i] = delay_list[i]
       /\ delay_list'[Len(delay_list) + 1] = e
  BY <1>0, <1>1, <1>10 DEF DelaysOK
<1>12. \A i \in DOMAIN delay_list' :
         \/ i \in DOMAIN delay_list /\ delay_list'[i] = delay_list[i]
         \/ i = Len(delay_list) + 1 /\ delay_list'[i].thread = cpu
  BY <1>10, <1>11
<1>13. \A i \in DOMAIN delay_list : i \in DOMAIN delay_list' /\ delay_list[i].thread # cpu
  BY <1>0, <1>9, <1>11 DEF DelaysOK, Delayed
<1>14. OneEntryEach(delay_list')
  BY <1>0, <1>12, <1>13 DEF DelaysOK, OneEntryEach
<1>15. Delayed' = Delayed \cup {cpu}
  BY <1>10, <1>11, <1>12, <1>13 DEF Delayed
<1>16. SleepsAfter(stack')
  BY <1>0, <1>4, <1>8 DEF SleepsAfter, Born
<1>17. DelaysOK'
  BY <1>0, <1>9, <1>11, <1>14, <1>15, <1>16 DEF DelaysOK, SleepsAfter
<1>18. QED
  BY <1>5, <1>7, <1>17 DEF Sound

(* The thread takes itself off the run queue, its entry waits.             *)
LEMMA DelaySleepSound ==
  ASSUME Sound, DelaySleep
  PROVE  Sound'
<1> DEFINE f == [At("slept") EXCEPT !.next = current_tcb]
<1>0. SchedInv /\ RunInv /\ DelaysOK /\ SleepsAfter(stack)
  BY DEF Sound, DelaysOK, SleepsAfter
<1>1. Top.at = "delaying" /\ SleepCurrent /\ delay_list' = delay_list
  BY DEF DelaySleep, Executing
<1>2. Top.at \notin Handler \cup Window \cup Unlinking /\ Top.at # "exit"
  BY <1>1 DEF Handler, Window, Unlinking
<1>3. /\ Len(stack[cpu]) = 1 /\ Top = stack[cpu][1] /\ current_tcb = cpu
      /\ Head(lists[RQ]) = cpu /\ lists[RQ] # <<>> /\ cpu \in Alive(stack)
  BY <1>0, <1>2, RunsAtHead, RunningAlive
<1>4. cpu # Idle
  BY <1>0, <1>1, <1>3 DEF RunInv, RunOK, PlacesOK, Window
<1>5. SchedInv' /\ RunInv' /\ lists' = Popped(lists, RQ)
  BY <1>0, <1>1, <1>2, <1>4, SleepCurrentInv, SleepCurrentRun
<1>6. stack' = SetTop(f)
  BY <1>1, <1>5 DEF SleepCurrent, Crash, RunInv
<1>7. f.at = "slept" /\ f.then = "slept"
  BY DEF At
<1>8. /\ Born(stack') = Born(stack) /\ cpu \in Threads
      /\ \A t \in Threads : stack'[t][1] = IF t = cpu THEN f ELSE stack[t][1]
  <2> HIDE DEF f
  <2>1. QED
    BY <1>0, <1>3, <1>6, NewTop
<1>9. Alive(stack') = Alive(stack)
  BY <1>3, <1>7, <1>8 DEF Alive, Born
<1>10. /\ lists \in [Lists -> Seq(Alive(stack))] /\ Once(lists) /\ RQ \in Lists
  BY <1>0, IdleQueued DEF RunInv, RunOK, QueuesOK
<1>11. /\ Nowhere(lists', cpu)
       /\ \A k \in Lists, t \in Alive(stack) : t # cpu => (In(lists', k, t) <=> In(lists, k, t))
  BY <1>3, <1>5, <1>10, TailLists
<1>12. Delaying' = Delaying \ {cpu}
  BY <1>7, <1>8, <1>9 DEF Delaying, Alive, Born
<1>13. Unlinked' = Unlinked \cup {cpu}
  BY <1>3, <1>9, <1>11, UnlinkedNowhere DEF Nowhere
<1>14. cpu \in Delaying
  BY <1>1, <1>3 DEF Delaying
<1>15. Delayed' = Delaying' \cup Unlinked' /\ Delaying' \cap Unlinked' = {}
  BY <1>0, <1>1, <1>12, <1>13, <1>14 DEF DelaysOK, Delayed
<1>16. SleepsAfter(stack')
  BY <1>0, <1>7, <1>8 DEF SleepsAfter, Born
<1>17. DelaysOK'
  BY <1>0, <1>1, <1>15, <1>16 DEF DelaysOK, SleepsAfter
<1>18. QED
  BY <1>5, <1>17 DEF Sound

(* The timer wakes the threads whose entries are due, and only those.      *)
LEMMA TimerTickSound ==
  ASSUME Sound, TimerTick, fault' = "none"
  PROVE  Sound'
<1> DEFINE w == Woken(delay_list)
<1>0. SchedInv /\ RunInv /\ DelaysOK /\ SleepsAfter(stack)
  BY DEF Sound, DelaysOK, SleepsAfter
<1>1. /\ ~InWindow /\ ThreadTimerHook /\ delay_list' = Left(delay_list)
      /\ \A i \in DOMAIN w : ~Linked(w[i])
      /\ lists' = Joined(lists, RQ, w)
      /\ UNCHANGED <<current_tcb, current_context, cpu, fault>>
  BY DEF TimerTick, ThreadTimerHook, Crash, Joined, Sound, RunInv
<1>2. delay_list \in Seq(Entry) /\ OneEntryEach(delay_list)
  BY <1>0 DEF DelaysOK
<1>3. /\ w \in Seq(Threads)
      /\ \A t : (\E k \in DOMAIN w : w[k] = t) <=> \E i \in DueIn(delay_list) : delay_list[i].thread = t
      /\ \A k, l \in DOMAIN w : w[k] = w[l] => k = l
  BY <1>2, WokenThreads
<1>4. /\ delay_list' \in Seq(Entry) /\ OneEntryEach(delay_list')
      /\ \A t : t \in Delayed' <=> \E i \in DOMAIN delay_list \ DueIn(delay_list) : delay_list[i].thread = t
  <2>1. \A t : t \in Delayed' <=> \E k \in DOMAIN delay_list' : delay_list'[k].thread = t
    BY DEF Delayed
  <2>2. QED
    <3>1. /\ Left(delay_list) \in Seq(Entry) /\ OneEntryEach(Left(delay_list))
          /\ \A t : (\E k \in DOMAIN Left(delay_list) : Left(delay_list)[k].thread = t)
                    <=> \E i \in DOMAIN delay_list \ DueIn(delay_list) : delay_list[i].thread = t
      BY <1>2, LeftEntries
    <3>2. delay_list' = Left(delay_list)
      BY <1>1
    <3>3. QED
      BY <2>1, <3>1, <3>2
<1>5. DueIn(delay_list) \subseteq DOMAIN delay_list
  BY DEF DueIn
(* A thread that is woken is asleep.                                       *)
<1>6. \A k \in DOMAIN w : w[k] \in Unlinked /\ w[k] \in Alive(stack)
  <2> TAKE k \in DOMAIN w
  <2>1. w[k] \in Delayed
    BY <1>3, <1>5 DEF Delayed
  <2>2. w[k] \in Alive(stack)
    BY <1>0, <2>1 DEF DelaysOK, Delaying, Unlinked
  <2>3. QED
    BY <1>1, <2>2 DEF Unlinked
<1>7. w \in Seq(Alive(stack))
  <2>1. Len(w) \in Nat /\ DOMAIN w = 1 .. Len(w) /\ w \in [1 .. Len(w) -> Threads]
    BY <1>3, LenProperties
  <2>2. w \in [1 .. Len(w) -> Alive(stack)]
    BY <1>6, <2>1
  <2>3. QED
    BY <2>1, <2>2, SeqDef
<1>8. Fresh(lists, w)
  BY <1>3, <1>6, UnlinkedNowhere DEF Fresh
<1>9. /\ lists \in [Lists -> Seq(Alive(stack))] /\ Once(lists) /\ RQ \in Lists
      /\ lists[RQ] # <<>> /\ In(lists, RQ, Idle)
  BY <1>0, IdleQueued DEF RunInv, RunOK, QueuesOK
<1>10. /\ lists' \in [Lists -> Seq(Alive(stack))] /\ Once(lists')
       /\ \A k \in Lists : k # RQ => lists'[k] = lists[k]
       /\ \A t : In(lists', RQ, t) <=> (In(lists, RQ, t) \/ \E k \in DOMAIN w : w[k] = t)
       /\ Head(lists'[RQ]) = Head(lists[RQ])
  <2> HIDE DEF w
  <2>1. lists' \in [Lists -> Seq(Alive(stack))] /\ Once(lists') /\ Longer(lists, RQ, w, lists')
    BY <1>1, <1>7, <1>8, <1>9, JoinedLists
  <2>2. QED
    BY <1>9, <2>1 DEF Longer
<1>11. QueuesOK(lists', stack)
  BY <1>9, <1>10 DEF QueuesOK, In
<1>12. SchedInv'
  <2>1. \A l \in Lists : lists'[l] \in Seq(Born(stack))
    <3>1. Alive(stack) \subseteq Born(stack)
      BY DEF Alive
    <3>2. QED
      BY <1>10, <3>1, SeqMonotonic
  <2>2. ListsOK(lists', stack)
    BY <1>10, <2>1 DEF ListsOK
  <2>3. QED
    BY <1>0, <1>1, <2>2, ThreadTimerHookInv
<1>13. RunInv'
  BY <1>0, <1>1, <1>10, <1>11, HookRun
<1>14. \A t \in Threads : (stack'[t] # <<>> <=> stack[t] # <<>>) /\ stack'[t][1] = stack[t][1]
  BY <1>0, <1>1, HookFrames
<1>15. /\ Born(stack') = Born(stack) /\ Alive(stack') = Alive(stack)
       /\ \A t \in Born(stack) : stack'[t][1] = stack[t][1]
  BY <1>14 DEF Born, Alive
<1>16. Delaying' = Delaying
  BY <1>15 DEF Delaying, Alive
<1>17. \A t : t \in Unlinked' <=> t \in Unlinked /\ ~\E k \in DOMAIN w : w[k] = t
  <2> HIDE DEF w
  <2>0. \A l \in Lists : \A t : In(lists', l, t) <=> In(lists, l, t) \/ (l = RQ /\ \E k \in DOMAIN w : w[k] = t)
    BY <1>10 DEF In
  <2>1. \A t : Nowhere(lists', t) <=> Nowhere(lists, t) /\ ~\E k \in DOMAIN w : w[k] = t
    BY <1>9, <2>0 DEF Nowhere
  <2>2. QED
    BY <1>15, <2>1, UnlinkedNowhere
<1>18. \A t : t \in Delayed' <=> t \in Delayed /\ ~\E k \in DOMAIN w : w[k] = t
  <2> HIDE DEF w
  <2>1. \A t : t \in Delayed <=> \E i \in DOMAIN delay_list : delay_list[i].thread = t
    BY DEF Delayed
  <2>2. \A i, j \in DOMAIN delay_list : delay_list[i].thread = delay_list[j].thread => i = j
    BY <1>2 DEF OneEntryEach
  <2> TAKE t
  <2>3. t \in Delayed' => t \in Delayed /\ ~\E i \in DueIn(delay_list) : delay_list[i].thread = t
    BY <1>4, <1>5, <2>1, <2>2
  <2>4. t \in Delayed /\ (~\E i \in DueIn(delay_list) : delay_list[i].thread = t) => t \in Delayed'
    BY <1>4, <2>1
  <2>5. QED
    BY <1>3, <2>3, <2>4
<1>19. Delayed' = Delaying' \cup Unlinked' /\ Delaying' \cap Unlinked' = {}
  <2> HIDE DEF w
  <2>1. Delayed = Delaying \cup Unlinked /\ Delaying \cap Unlinked = {}
    BY <1>0 DEF DelaysOK
  <2>2. QED
    BY <1>6, <1>16, <1>17, <1>18, <2>1
<1>20. SleepsAfter(stack')
  BY <1>0, <1>15 DEF SleepsAfter
<1>21. DelaysOK'
  BY <1>4, <1>19, <1>20 DEF DelaysOK, SleepsAfter
<1>22. QED
  BY <1>12, <1>13, <1>21 DEF Sound

(* A kernel that has gone wrong stays so.                                  *)
LEMMA TimerStepWrong ==
  ASSUME fault # "none", [Next]_vars
  PROVE  fault' # "none"
<1>0. \A ls, l, then : Schedule(ls, l, then) => fault' # "none"
  BY DEF Schedule, Crash
<1>1. CASE DispatcherSwitchTo \/ SwitchStack \/ TimerReturn
  BY <1>1 DEF DispatcherSwitchTo, SwitchStack, TimerReturn, Crash
<1>2. CASE TimerSchedule \/ IdleFirstSchedule \/ ReturnedSchedule \/ SleepSchedule \/ Yield
  BY <1>0, <1>2 DEF TimerSchedule, IdleFirstSchedule, ReturnedSchedule, SleepSchedule, Yield
<1>3. CASE ThreadReturned \/ (\E t \in Threads : ThreadCreate(t)) \/ Halted
  BY <1>3 DEF ThreadReturned, ThreadCreate, Crash, Halted, schedVars
<1>4. CASE \E msec \in Msecs : TimerDelay(msec)
  BY <1>4 DEF TimerDelay
<1>5. CASE DelaySleep
  BY <1>5 DEF DelaySleep, SleepCurrent, Crash
<1>6. CASE TimerTick
  BY <1>6 DEF TimerTick, ThreadTimerHook, Crash
<1>7. CASE UNCHANGED vars
  BY <1>7 DEF vars, schedVars
<1>8. QED
  BY <1>1, <1>2, <1>3, <1>4, <1>5, <1>6, <1>7 DEF Next, OtherStep, KernelStep

LEMMA TimerStepInv ==
  ASSUME TimerInv, [Next]_vars
  PROVE  TimerInv'
<1> SUFFICES ASSUME fault = "none", fault' = "none"
             PROVE  TimerInv'
  BY TimerStepWrong DEF TimerInv
<1>0. Sound
  BY SoundInv
<1>1. CASE OtherStep /\ UNCHANGED delay_list
  BY <1>0, <1>1, SoundInv, OtherStepSound
<1>2. ASSUME NEW msec \in Msecs, TimerDelay(msec)
      PROVE  TimerInv'
  BY <1>0, <1>2, SoundInv, TimerDelaySound
<1>3. CASE DelaySleep
  BY <1>0, <1>3, SoundInv, DelaySleepSound
<1>4. CASE TimerTick
  BY <1>0, <1>4, SoundInv, TimerTickSound
<1>5. CASE UNCHANGED vars
  <2>1. UNCHANGED schedVars /\ UNCHANGED delay_list
    BY <1>5 DEF vars
  <2>2. SchedInv' /\ RunOK'
    BY <1>0, <2>1, StutterInv, StutterRun DEF Sound, RunInv
  <2>3. DelaysOK'
    BY <1>0, <2>1 DEF Sound, schedVars, DelaysOK, Delayed, Delaying, Unlinked, Alive, Born, Linked
  <2>4. QED
    BY <2>2, <2>3 DEF TimerInv
<1>6. QED
  BY <1>1, <1>2, <1>3, <1>4, <1>5 DEF Next, Halted, vars

LEMMA TimerInitInv ==
  ASSUME Init
  PROVE  TimerInv
<1>1. SchedInit /\ SchedInv /\ RunInv /\ delay_list = <<>>
  BY SchedInitInv, SchedInitRun DEF Init
<1>2. DOMAIN delay_list = {} /\ delay_list \in Seq(Entry)
  BY <1>1
<1>3. Born(stack) = {Idle, Main} /\ \A t \in Born(stack) : stack[t][1].at # "delaying" /\ stack[t][1].then # "delaying"
  <2>1. /\ stack[Idle] = <<At("first")>> /\ stack[Main] = <<At("run")>>
        /\ \A t \in Threads : t # Idle /\ t # Main => stack[t] = <<>>
    BY <1>1, SchedAssumption DEF SchedInit
  <2>2. /\ stack[Idle] # <<>> /\ stack[Idle][1] = At("first")
        /\ stack[Main] # <<>> /\ stack[Main][1] = At("run")
    BY <2>1
  <2>3. QED
    BY <2>1, <2>2, SchedAssumption DEF Born, At
<1>4. Linked(Idle) /\ Linked(Main)
  <2>1. RQ \in Lists /\ lists[RQ] = <<Idle, Main>>
    BY <1>1 DEF SchedInit, Lists
  <2>2. /\ 1 \in DOMAIN lists[RQ] /\ lists[RQ][1] = Idle
        /\ 2 \in DOMAIN lists[RQ] /\ lists[RQ][2] = Main
    BY <2>1
  <2>3. QED
    BY <2>1, <2>2 DEF Linked
<1>5. Delayed = {} /\ Delaying = {} /\ Unlinked = {}
  BY <1>2, <1>3, <1>4 DEF Delayed, Delaying, Unlinked, Alive
<1>6. DelaysOK
  BY <1>2, <1>3, <1>5 DEF DelaysOK, OneEntryEach
<1>7. QED
  BY <1>1, <1>6 DEF TimerInv, RunInv

(* A thread that sleeps in timer_delay has an entry that will wake it, and *)
(* a thread whose entry waits is asleep or has not yet gone to sleep:      *)
(* whatever the delays and wherever the timer interrupts, until a thread   *)
(* is woken before it sleeps or a quantum ends in the scheduler's window.  *)
THEOREM TimerForgetsNobody == Spec => []AsleepIffRegistered
<1>1. Init => TimerInv
  BY TimerInitInv
<1>2. TimerInv /\ [Next]_vars => TimerInv'
  BY TimerStepInv
<1>3. TimerInv => AsleepIffRegistered
  <2> SUFFICES ASSUME TimerInv, fault = "none", NEW t \in Threads
               PROVE  /\ Asleep(t) => Registered(t) # {}
                      /\ Registered(t) # {} /\ Linked(t) => stack[t][1].at = "delaying"
    BY DEF AsleepIffRegistered
  <2>1. Delayed = Delaying \cup Unlinked
    BY DEF TimerInv, DelaysOK
  <2>2. t \in Delayed <=> Registered(t) # {}
    BY DEF Delayed, Registered
  <2>3. Asleep(t) => t \in Unlinked
    BY DEF Asleep, Created, Finished, Unlinked, Alive, Born
  <2>4. QED
    BY <2>1, <2>2, <2>3 DEF Delaying, Unlinked
<1>4. QED
  BY <1>1, <1>2, <1>3, PTL DEF Spec
=============================================================================
