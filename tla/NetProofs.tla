-------------------------------- MODULE NetProofs ------------------------------
(***************************************************************************)
(* What holds of the network for every ring, every number of sessions and  *)
(* of frames: the lists of the driver are sound, no frame is read twice,   *)
(* and the replies are those to the requests, in their order (NetInv, at   *)
(* NetHolds).  First come the lists of list.h on their own, then the       *)
(* invariant, then its parts under the steps that they see, then each step.*)
(***************************************************************************)
EXTENDS Net, FiniteSetTheorems, SequenceTheorems, TLAPS, WellFoundedInduction

-----------------------------------------------------------------------------
LEMMA NatInduct ==
  ASSUME NEW S, 0 \in S, \A n \in Nat : n \in S => n + 1 \in S
  PROVE  \A n \in Nat : n \in S
<1> SUFFICES ASSUME Nat \ S # {}
             PROVE  FALSE
  OBVIOUS
<1>1. PICK R : R = {ss \in Nat \X Nat : ss[1] < ss[2]}
  OBVIOUS
<1>2. IsWellFoundedOn(R, Nat)
  BY <1>1, NatLessThanWellFounded DEF OpToRel
<1>3. PICK x \in Nat \ S : \A y \in Nat \ S : ~(<<y, x>> \in R)
  BY <1>2, WFMin
<1>4. x \in Nat /\ x # 0 /\ x - 1 \in Nat /\ x - 1 < x /\ (x - 1) + 1 = x
  OBVIOUS
<1>5. x - 1 \in S
  <2>1. <<x - 1, x>> \in R
    BY <1>1, <1>4
  <2>2. QED
    BY <1>3, <1>4, <2>1
<1>6. QED
  BY <1>3, <1>4, <1>5

(* Lists: the entries s of the list with the head h, in the links l of the *)
(* nodes D.  Node(s, h, k) is the k-th of them, and the head on both sides *)
(* of them; next follows them one way, prev the other.                     *)
Node(s, h, k) == IF k \in 1 .. Len(s) THEN s[k] ELSE h
On(s) == {s[k] : k \in 1 .. Len(s)}
Distinct(s) == \A i, j \in 1 .. Len(s) : s[i] = s[j] => i = j

Chain(l, h, s) == \A k \in 0 .. Len(s) : l.next[Node(s, h, k)] = Node(s, h, k + 1)
Backs(l, h, s) == \A k \in 0 .. Len(s) : l.prev[Node(s, h, k + 1)] = Node(s, h, k)
Holds(l, h, s) == Chain(l, h, s) /\ Backs(l, h, s)

(* Between the two stores that take out the first entry, and those that    *)
(* add n as the last one.                                                  *)
Leaving(l, h, s) ==
  /\ Chain(l, h, s) /\ l.prev[Node(s, h, 2)] = h
  /\ \A k \in 2 .. Len(s) : l.prev[Node(s, h, k + 1)] = Node(s, h, k)
Joining(l, h, s, n) ==
  /\ Chain(l, h, s) /\ l.next[n] = h /\ l.prev[h] = n /\ l.prev[n] = Node(s, h, Len(s))
  /\ \A k \in 1 .. Len(s) : l.prev[Node(s, h, k)] = Node(s, h, k - 1)

Linked(l, D) == l = [next |-> l.next, prev |-> l.prev] /\ l.next \in [D -> D] /\ l.prev \in [D -> D]
Listed(D, h, s) == h \in D /\ s \in Seq(D \ {h}) /\ Distinct(s)

LEMMA LenOf ==
  ASSUME NEW D, NEW h, NEW s, Listed(D, h, s)
  PROVE  /\ \E m \in Nat : Len(s) = m
         /\ \A k \in 1 .. Len(s) : s[k] \in D \ {h} /\ s[k] # h /\ s[k] \in D
         /\ h \notin On(s)
<1>1. Len(s) \in Nat /\ \A k \in 1 .. Len(s) : s[k] \in D \ {h}
  BY LenProperties, ElementOfSeq DEF Listed
<1>2. QED
  BY <1>1 DEF On

LEMMA NodeOf ==
  ASSUME NEW D, NEW h, NEW s, Listed(D, h, s)
  PROVE  /\ \A k \in 1 .. Len(s) : Node(s, h, k) = s[k] /\ s[k] # h /\ s[k] \in D /\ s[k] \in On(s)
         /\ Node(s, h, 0) = h /\ Node(s, h, Len(s) + 1) = h
         /\ \A k \in Nat : Node(s, h, k) \in D /\ Node(s, h, k) \in On(s) \cup {h}
         /\ \A j, k \in 0 .. Len(s) : Node(s, h, j) = Node(s, h, k) => j = k
<1>1. PICK m \in Nat : Len(s) = m
  BY LenOf
<1>2. \A k \in 1 .. m : s[k] \in D /\ s[k] # h /\ s[k] \in On(s)
  BY <1>1, LenOf DEF On
<1>3. \A i, j \in 1 .. m : s[i] = s[j] => i = j
  BY <1>1 DEF Listed, Distinct
<1>4. \A k \in 1 .. m : Node(s, h, k) = s[k]
  BY <1>1 DEF Node
<1>5. Node(s, h, 0) = h /\ Node(s, h, m + 1) = h
  BY <1>1 DEF Node
<1>6. \A k \in Nat : Node(s, h, k) \in D /\ Node(s, h, k) \in On(s) \cup {h}
  BY <1>1, <1>2 DEF Node, Listed
<1>7. \A j, k \in 0 .. m : Node(s, h, j) = Node(s, h, k) => j = k
  <2> TAKE j, k \in 0 .. m
  <2> HAVE Node(s, h, j) = Node(s, h, k)
  <2>1. CASE j = 0
    BY <1>2, <1>4, <1>5, <2>1
  <2>2. CASE k = 0
    BY <1>2, <1>4, <1>5, <2>2
  <2>3. CASE j # 0 /\ k # 0
    <3>1. j \in 1 .. m /\ k \in 1 .. m
      BY <2>3
    <3>2. s[j] = s[k]
      BY <1>4, <3>1
    <3>3. QED
      BY <1>3, <3>1, <3>2
  <2>4. QED
    BY <2>1, <2>2, <2>3
<1>8. QED
  BY <1>1, <1>2, <1>4, <1>5, <1>6, <1>7

(* A list has fewer entries than there are nodes.                          *)
LEMMA Shorter ==
  ASSUME NEW D, IsFiniteSet(D), NEW h, NEW s, Listed(D, h, s)
  PROVE  Len(s) \in Nat /\ Cardinality(D) \in Nat /\ Len(s) + 1 <= Cardinality(D)
<1>1. PICK m \in Nat : Len(s) = m
  BY LenOf
<1>2. PICK f : f = [k \in 0 .. m |-> Node(s, h, k)]
  OBVIOUS
<1>3. f \in [0 .. m -> D]
  BY <1>1, <1>2, NodeOf
<1>4. \A j, k \in 0 .. m : f[j] = f[k] => j = k
  BY <1>1, <1>2, NodeOf
<1>5. f \in Injection(0 .. m, D)
  BY <1>3, <1>4 DEF Injection, IsInjective
<1>6. Cardinality(0 .. m) <= Cardinality(D)
  BY <1>5, FS_Injection
<1>7. Cardinality(0 .. m) = m + 1
  BY FS_Interval
<1>8. QED
  BY <1>1, <1>6, <1>7, FS_CardinalityType

LEMMA StepIs ==
  ASSUME NEW D, NEW h, NEW s, Listed(D, h, s), NEW l, Chain(l, h, s),
         NEW k \in 0 .. Len(s) + 1
  PROVE  Step(l, h, k) = Node(s, h, k)
<1>0. PICK m \in Nat : Len(s) = m
  BY LenOf
<1> DEFINE Walk(f) == f = [i \in 0 .. k |-> IF i = 0 THEN h ELSE l.next[f[i - 1]]]
           F == CHOOSE f : Walk(f)
<1>1. PICK g : g = [i \in 0 .. k |-> Node(s, h, i)]
  OBVIOUS
<1>2. k \in Nat /\ k <= m + 1
  BY <1>0
<1>3. \A i \in 0 .. m : l.next[Node(s, h, i)] = Node(s, h, i + 1)
  BY <1>0 DEF Chain
<1>4. \A i \in 0 .. k : g[i] = IF i = 0 THEN h ELSE l.next[g[i - 1]]
  <2> TAKE i \in 0 .. k
  <2>1. CASE i = 0
    BY <1>1, <2>1, NodeOf
  <2>2. CASE i # 0
    <3>1. i - 1 \in 0 .. m /\ i - 1 \in 0 .. k /\ (i - 1) + 1 = i
      BY <1>2, <2>2
    <3>2. l.next[Node(s, h, i - 1)] = Node(s, h, i)
      BY <1>3, <3>1
    <3>3. QED
      BY <1>1, <2>2, <3>1, <3>2
  <2>3. QED
    BY <2>1, <2>2
<1>5. Walk(g)
  BY <1>1, <1>4
<1>6. Walk(F)
  BY <1>5
<1>7. PICK e : e = F
  OBVIOUS
<1>8. e = [i \in 0 .. k |-> IF i = 0 THEN h ELSE l.next[e[i - 1]]]
  BY <1>6, <1>7
<1>9. \A i \in 0 .. k : e[i] = IF i = 0 THEN h ELSE l.next[e[i - 1]]
  BY <1>8
<1>10. \A i \in Nat : i <= k => e[i] = g[i]
  <2> DEFINE S == {i \in Nat : i <= k => e[i] = g[i]}
  <2>1. 0 \in S
    BY <1>2, <1>4, <1>9
  <2>2. ASSUME NEW i \in Nat, i \in S
        PROVE  i + 1 \in S
    <3>1. CASE i + 1 <= k
      <4>1. i + 1 \in 0 .. k /\ i + 1 # 0 /\ (i + 1) - 1 = i /\ i <= k
        BY <1>2, <3>1
      <4>2. QED
        BY <1>4, <1>9, <2>2, <4>1
    <3>2. QED
      BY <3>1
  <2>3. \A i \in Nat : i \in S
    <3> HIDE DEF S
    <3>1. QED
      BY <2>1, <2>2, NatInduct
  <2>4. QED
    BY <2>3
<1>11. e[k] = g[k] /\ k \in 0 .. k /\ g[k] = Node(s, h, k)
  BY <1>1, <1>2, <1>10
<1>12. Step(l, h, k) = F[k]
  BY DEF Step
<1>13. QED
  BY <1>7, <1>11, <1>12

(* A walk along a list meets its entries.                                  *)
LEMMA EntriesAre ==
  ASSUME NEW D, IsFiniteSet(D), NEW h, NEW s, Listed(D, h, s),
         NEW l, DOMAIN l.next = D, Chain(l, h, s)
  PROVE  Entries(l, h) = s
<1>1. PICK m \in Nat : Len(s) = m
  BY LenOf
<1>2. PICK far \in Nat : far = Cardinality(D) /\ m + 1 <= far
  BY <1>1, Shorter
<1>3. PICK walk : walk = [k \in 1 .. far |-> Step(l, h, k)]
  OBVIOUS
<1>4. PICK back : back = {k \in 1 .. far : walk[k] = h}
  OBVIOUS
<1>5. PICK b : b = CHOOSE k \in back : \A j \in back : k <= j
  OBVIOUS
<1>6. \A k \in 1 .. m + 1 : walk[k] = Node(s, h, k)
  <2> TAKE k \in 1 .. m + 1
  <2>1. k \in 1 .. far /\ k \in 0 .. Len(s) + 1
    BY <1>1, <1>2
  <2>2. QED
    BY <1>3, <2>1, StepIs
<1>7. \A k \in 1 .. m : walk[k] = s[k] /\ walk[k] # h
  <2> TAKE k \in 1 .. m
  <2>1. k \in 1 .. m + 1 /\ k \in 1 .. Len(s)
    BY <1>1
  <2>2. QED
    BY <1>6, <2>1, NodeOf
<1>8. m + 1 \in back
  <2>1. walk[m + 1] = h
    BY <1>1, <1>6, NodeOf
  <2>2. QED
    BY <1>2, <1>4, <2>1
<1>9. \A j \in back : m + 1 <= j
  <2> TAKE j \in back
  <2>1. j \in 1 .. far /\ walk[j] = h
    BY <1>4
  <2>2. j \notin 1 .. m
    BY <1>7, <2>1
  <2>3. QED
    BY <2>1, <2>2
<1>10. b \in back /\ \A j \in back : b <= j
  BY <1>5, <1>8, <1>9
<1>11. b = m + 1
  <2>1. b \in Nat /\ b <= m + 1 /\ m + 1 <= b
    BY <1>4, <1>8, <1>9, <1>10
  <2>2. QED
    BY <2>1
<1>12. Entries(l, h) = SubSeq(walk, 1, IF back = {} THEN far ELSE b - 1)
  BY <1>2, <1>3, <1>4, <1>5 DEF Entries
<1>13. Entries(l, h) = SubSeq(walk, 1, m)
  BY <1>8, <1>11, <1>12
<1>14. SubSeq(walk, 1, m) = [k \in 1 .. m |-> walk[k]]
  <2>1. SubSeq(walk, 1, m) = [k \in 1 .. (1 + m - 1) |-> walk[k + 1 - 1]]
    BY DEF SubSeq
  <2>2. 1 .. (1 + m - 1) = 1 .. m /\ \A k \in 1 .. m : k + 1 - 1 = k
    OBVIOUS
  <2>3. QED
    BY <2>1, <2>2
<1>15. s = [k \in 1 .. m |-> s[k]]
  <2>1. s \in Seq(D \ {h})
    BY DEF Listed
  <2>2. QED
    BY <1>1, <2>1, LenProperties
<1>16. QED
  BY <1>7, <1>13, <1>14, <1>15

LEMMA RingIs ==
  ASSUME NEW D, IsFiniteSet(D), NEW h, NEW s, Listed(D, h, s),
         NEW l, DOMAIN l.next = D, Holds(l, h, s)
  PROVE  IsRing(l, h)
<1>1. PICK m \in Nat : Len(s) = m
  BY LenOf
<1>2. Entries(l, h) = s
  BY EntriesAre DEF Holds
<1>3. DOMAIN s = 1 .. m /\ s \in [1 .. m -> D \ {h}]
  BY <1>1, LenProperties DEF Listed
<1>4. PICK on : on = {h} \cup {s[i] : i \in DOMAIN s}
  OBVIOUS
<1>5. on \subseteq D /\ h \in on
  BY <1>3, <1>4 DEF Listed
<1>6. IsFiniteSet(on)
  BY <1>5, FS_Subset
<1>7. Listed(on, h, s)
  <2>1. \A i \in 1 .. m : s[i] \in on \ {h}
    BY <1>3, <1>4
  <2>2. s \in [1 .. m -> on \ {h}]
    BY <1>3, <2>1
  <2>3. s \in Seq(on \ {h})
    BY <2>2
  <2>4. QED
    BY <1>5, <2>3 DEF Listed
<1>8. m + 1 \in 1 .. Cardinality(on)
  BY <1>1, <1>6, <1>7, Shorter
<1>9. Step(l, h, m + 1) = h
  <2>1. m + 1 \in 0 .. Len(s) + 1
    BY <1>1
  <2>2. Step(l, h, m + 1) = Node(s, h, m + 1)
    BY <2>1, StepIs DEF Holds
  <2>3. QED
    BY <1>1, <2>2, NodeOf
<1>10. \A n \in on : l.prev[l.next[n]] = n
  <2> TAKE n \in on
  <2>1. PICK k \in 0 .. m : n = Node(s, h, k)
    <3>1. CASE n = h
      <4>1. 0 \in 0 .. m /\ Node(s, h, 0) = h
        BY NodeOf
      <4>2. QED
        BY <3>1, <4>1
    <3>2. CASE n # h
      <4>1. PICK i \in 1 .. m : n = s[i]
        BY <1>3, <1>4, <3>2
      <4>2. i \in 0 .. m /\ Node(s, h, i) = s[i]
        BY <1>1, <4>1, NodeOf
      <4>3. QED
        BY <4>1, <4>2
    <3>3. QED
      BY <3>1, <3>2
  <2>2. l.next[Node(s, h, k)] = Node(s, h, k + 1) /\ l.prev[Node(s, h, k + 1)] = Node(s, h, k)
    BY <1>1, <2>1 DEF Holds, Chain, Backs
  <2>3. QED
    BY <2>1, <2>2
<1>11. IsRing(l, h) <=> /\ \E k \in 1 .. Cardinality(on) : Step(l, h, k) = h
                        /\ \A n \in on : l.prev[l.next[n]] = n
  BY <1>2, <1>4 DEF IsRing
<1>12. QED
  BY <1>8, <1>9, <1>10, <1>11

(* What changes no node of a list leaves it as it is.                      *)
SameAlong(l, k, h, s) ==
  \A n \in On(s) \cup {h} : k.next[n] = l.next[n] /\ k.prev[n] = l.prev[n]

LEMMA ListKept ==
  ASSUME NEW D, NEW h, NEW s, Listed(D, h, s), NEW l, NEW k, SameAlong(l, k, h, s)
  PROVE  /\ Chain(l, h, s) => Chain(k, h, s)
         /\ Backs(l, h, s) => Backs(k, h, s)
         /\ Holds(l, h, s) => Holds(k, h, s)
         /\ Leaving(l, h, s) => Leaving(k, h, s)
<1>1. PICK m \in Nat : Len(s) = m
  BY LenOf
<1>2. \A i \in Nat : /\ k.next[Node(s, h, i)] = l.next[Node(s, h, i)]
                     /\ k.prev[Node(s, h, i)] = l.prev[Node(s, h, i)]
  BY NodeOf DEF SameAlong
<1>3. Chain(l, h, s) => Chain(k, h, s)
  BY <1>1, <1>2 DEF Chain
<1>4. Backs(l, h, s) => Backs(k, h, s)
  BY <1>1, <1>2 DEF Backs
<1>5. Leaving(l, h, s) => Leaving(k, h, s)
  BY <1>1, <1>2, <1>3 DEF Leaving
<1>6. QED
  BY <1>3, <1>4, <1>5 DEF Holds

(* The stores, one by one.                                                 *)
LEMMA Bypasses ==
  ASSUME NEW D, NEW h, NEW s, Listed(D, h, s), s # <<>>, NEW l, Linked(l, D), Holds(l, h, s),
         NEW r, r.prev = h, r.next = Node(s, h, 2)
  PROVE  /\ Linked(Bypassed(l, r), D) /\ Leaving(Bypassed(l, r), h, s)
         /\ Bypassed(l, r).next = l.next
         /\ \A n \in D \ (On(s) \cup {h}) : Bypassed(l, r).prev[n] = l.prev[n]
<1>1. PICK m \in Nat : Len(s) = m /\ m >= 1
  <2>1. Len(s) \in Nat /\ Len(s) # 0
    BY LenProperties, EmptySeq DEF Listed
  <2>2. QED
    BY <2>1
<1>2. PICK x : x = Node(s, h, 2)
  OBVIOUS
<1>3. PICK b : b = Bypassed(l, r)
  OBVIOUS
<1>4. b = [next |-> l.next, prev |-> [l.prev EXCEPT ![x] = h]]
  BY <1>2, <1>3 DEF Bypassed, Linked
<1>5. x \in D /\ x \in On(s) \cup {h} /\ h \in D
  BY <1>2, NodeOf DEF Listed
<1>6. b.next = l.next /\ b.prev = [l.prev EXCEPT ![x] = h] /\ b = [next |-> b.next, prev |-> b.prev]
  BY <1>4
<1>7. \A n \in D : b.prev[n] = IF n = x THEN h ELSE l.prev[n]
  BY <1>6 DEF Linked
<1>8. Linked(b, D)
  BY <1>5, <1>6 DEF Linked
<1>9. \A k \in 2 .. m : b.prev[Node(s, h, k + 1)] = Node(s, h, k)
  <2> TAKE k \in 2 .. m
  <2>1. k \in 0 .. m /\ k + 1 \in Nat /\ k \in Nat
    OBVIOUS
  <2>2. l.prev[Node(s, h, k + 1)] = Node(s, h, k)
    BY <1>1, <2>1 DEF Holds, Backs
  <2>3. Node(s, h, k + 1) # x
    <3>1. CASE k + 1 <= m
      <4>1. k + 1 \in 0 .. m /\ 2 \in 0 .. m /\ k + 1 # 2
        BY <3>1
      <4>2. QED
        BY <1>1, <1>2, <4>1, NodeOf
    <3>2. CASE ~(k + 1 <= m)
      <4>1. k = m
        BY <3>2
      <4>2. Node(s, h, k + 1) = h /\ 2 \in 1 .. m
        BY <1>1, <4>1, NodeOf
      <4>3. QED
        BY <1>1, <1>2, <4>2, NodeOf
    <3>3. QED
      BY <3>1, <3>2
  <2>4. Node(s, h, k + 1) \in D
    BY <2>1, NodeOf
  <2>5. QED
    BY <1>7, <2>2, <2>3, <2>4
<1>10. Chain(b, h, s)
  BY <1>6 DEF Holds, Chain
<1>11. b.prev[x] = h
  BY <1>5, <1>7
<1>12. Leaving(b, h, s)
  BY <1>1, <1>2, <1>9, <1>10, <1>11 DEF Leaving
<1>13. QED
  BY <1>3, <1>5, <1>6, <1>7, <1>8, <1>12

TailFacts(D, h, s) ==
  /\ Listed(D, h, Tail(s)) /\ Len(Tail(s)) = Len(s) - 1 /\ Len(s) \in Nat /\ Len(s) >= 1
  /\ \A k \in 0 .. Len(s) : k # 0 => Node(Tail(s), h, k) = Node(s, h, k + 1)
  /\ On(Tail(s)) = On(s) \ {s[1]} /\ s[1] \in On(s)
  /\ Node(s, h, 2) # s[1] /\ Node(s, h, 1) = s[1] /\ s[1] \in D /\ s[1] # h

LEMMA TailOf ==
  ASSUME NEW D, NEW h, NEW s, Listed(D, h, s), s # <<>>
  PROVE  TailFacts(D, h, s)
<1>1. PICK m \in Nat : Len(s) = m + 1
  <2>1. Len(s) \in Nat /\ Len(s) # 0
    BY LenProperties, EmptySeq DEF Listed
  <2>2. Len(s) - 1 \in Nat /\ Len(s) = (Len(s) - 1) + 1
    BY <2>1
  <2>3. QED
    BY <2>2
<1>2. /\ Tail(s) \in Seq(D \ {h}) /\ Len(Tail(s)) = m
      /\ \A i \in 1 .. m : Tail(s)[i] = s[i + 1]
  <2>1. /\ Tail(s) \in Seq(D \ {h}) /\ Len(Tail(s)) = Len(s) - 1
        /\ \A i \in 1 .. Len(Tail(s)) : Tail(s)[i] = s[i + 1]
    BY HeadTailProperties DEF Listed
  <2>2. Len(Tail(s)) = m
    BY <1>1, <2>1
  <2>3. QED
    BY <2>1, <2>2
<1>3. PICK t : t = Tail(s)
  OBVIOUS
<1>4. \A i, j \in 1 .. m + 1 : s[i] = s[j] => i = j
  BY <1>1 DEF Listed, Distinct
<1>5. Listed(D, h, t)
  <2>1. \A i, j \in 1 .. m : t[i] = t[j] => i = j
    <3> TAKE i, j \in 1 .. m
    <3> HAVE t[i] = t[j]
    <3>1. s[i + 1] = s[j + 1] /\ i + 1 \in 1 .. m + 1 /\ j + 1 \in 1 .. m + 1
      BY <1>2, <1>3
    <3>2. i + 1 = j + 1
      BY <1>4, <3>1
    <3>3. QED
      BY <3>2
  <2>2. QED
    BY <1>2, <1>3, <2>1 DEF Listed, Distinct
<1>6. \A k \in 1 .. m + 1 : Node(t, h, k) = Node(s, h, k + 1)
  <2> TAKE k \in 1 .. m + 1
  <2>1. CASE k <= m
    <3>1. k \in 1 .. m /\ k + 1 \in 1 .. m + 1
      BY <2>1
    <3>2. QED
      BY <1>1, <1>2, <1>3, <3>1 DEF Node
  <2>2. CASE ~(k <= m)
    <3>1. k \notin 1 .. m /\ k + 1 \notin 1 .. m + 1
      BY <2>2
    <3>2. QED
      BY <1>1, <1>2, <1>3, <3>1 DEF Node
  <2>3. QED
    BY <2>1, <2>2
<1>7. On(t) = On(s) \ {s[1]}
  <2>1. ASSUME NEW x \in On(t)
        PROVE  x \in On(s) \ {s[1]}
    <3>1. PICK k \in 1 .. m : x = t[k]
      BY <1>2, <1>3, <2>1 DEF On
    <3>2. x = s[k + 1] /\ k + 1 \in 1 .. m + 1 /\ 1 \in 1 .. m + 1 /\ k + 1 # 1
      BY <1>2, <1>3, <3>1
    <3>3. x # s[1]
      BY <1>4, <3>2
    <3>4. QED
      BY <1>1, <3>2, <3>3 DEF On
  <2>2. ASSUME NEW x \in On(s) \ {s[1]}
        PROVE  x \in On(t)
    <3>1. PICK k \in 1 .. m + 1 : x = s[k]
      BY <1>1, <2>2 DEF On
    <3>2. k # 1 /\ k - 1 \in 1 .. m /\ (k - 1) + 1 = k
      <4>1. k # 1
        BY <2>2, <3>1
      <4>2. QED
        BY <4>1
    <3>3. t[k - 1] = x
      BY <1>2, <1>3, <3>1, <3>2
    <3>4. QED
      BY <1>2, <1>3, <3>2, <3>3 DEF On
  <2>3. QED
    BY <2>1, <2>2
<1>8. 1 \in 1 .. m + 1 /\ s[1] \in On(s) /\ Node(s, h, 1) = s[1] /\ s[1] \in D /\ s[1] # h
  <2>1. 1 \in 1 .. m + 1
    OBVIOUS
  <2>2. QED
    BY <1>1, <2>1, NodeOf
<1>9. Node(s, h, 2) # s[1]
  <2>1. CASE m = 0
    <3>1. Node(s, h, 2) = h
      BY <1>1, <2>1 DEF Node
    <3>2. QED
      BY <1>8, <3>1
  <2>2. CASE m # 0
    <3>1. 2 \in 1 .. m + 1
      BY <2>2
    <3>2. Node(s, h, 2) = s[2]
      BY <1>1, <3>1 DEF Node
    <3>3. QED
      BY <1>4, <1>8, <3>1, <3>2
  <2>3. QED
    BY <2>1, <2>2
<1>10. /\ Len(s) = m + 1 /\ Len(t) = m /\ m = (m + 1) - 1
       /\ \A k \in 0 .. m + 1 : k # 0 => k \in 1 .. m + 1
  BY <1>1, <1>2, <1>3
<1>11. \A k \in 0 .. m + 1 : k # 0 => Node(t, h, k) = Node(s, h, k + 1)
  BY <1>6, <1>10
<1>12. QED
  BY <1>3, <1>5, <1>7, <1>8, <1>9, <1>10, <1>11 DEF TailFacts

LEMMA Removes ==
  ASSUME NEW D, NEW h, NEW s, Listed(D, h, s), s # <<>>, NEW l, Linked(l, D), Leaving(l, h, s),
         NEW r, r.prev = h, r.next = Node(s, h, 2)
  PROVE  /\ Linked(Removed(l, r), D) /\ Holds(Removed(l, r), h, Tail(s))
         /\ Removed(l, r).prev = l.prev
         /\ \A n \in D \ {h} : Removed(l, r).next[n] = l.next[n]
         /\ l.next[s[1]] # s[1]
<1>0. TailFacts(D, h, s)
  BY TailOf
<1>1. PICK m \in Nat : Len(s) = m + 1
  <2>1. Len(s) - 1 \in Nat /\ Len(s) = (Len(s) - 1) + 1
    BY <1>0 DEF TailFacts
  <2>2. QED
    BY <2>1
<1>2. PICK x : x = Node(s, h, 2)
  OBVIOUS
<1>3. PICK b : b = Removed(l, r)
  OBVIOUS
<1>4. PICK t : t = Tail(s)
  OBVIOUS
<1>5. b = [next |-> [l.next EXCEPT ![h] = x], prev |-> l.prev]
  BY <1>2, <1>3 DEF Removed, Linked
<1>6. x \in D /\ h \in D
  BY <1>2, NodeOf DEF Listed
<1>7. b.prev = l.prev /\ b.next = [l.next EXCEPT ![h] = x] /\ b = [next |-> b.next, prev |-> b.prev]
  BY <1>5
<1>8. \A n \in D : b.next[n] = IF n = h THEN x ELSE l.next[n]
  BY <1>7 DEF Linked
<1>9. Linked(b, D)
  BY <1>6, <1>7 DEF Linked
<1>10. Listed(D, h, t) /\ Len(t) = m /\ Node(t, h, 0) = h /\ Node(s, h, 1) = s[1]
  <2>1. Listed(D, h, t) /\ Len(t) = (m + 1) - 1 /\ Node(s, h, 1) = s[1]
    BY <1>0, <1>1, <1>4 DEF TailFacts
  <2>2. QED
    BY <2>1, NodeOf
<1>11. \A k \in 1 .. m + 1 : Node(t, h, k) = Node(s, h, k + 1)
  BY <1>0, <1>1, <1>4 DEF TailFacts
<1>12. \A k \in 0 .. m + 1 : l.next[Node(s, h, k)] = Node(s, h, k + 1)
  BY <1>1 DEF Leaving, Chain
<1>13. \A k \in 1 .. m : Node(t, h, k) \in D /\ Node(t, h, k) # h
  BY <1>10, NodeOf
<1>14. Chain(b, h, t)
  <2>1. ASSUME NEW k \in 0 .. m
        PROVE  b.next[Node(t, h, k)] = Node(t, h, k + 1)
    <3>1. CASE k = 0
      <4>1. b.next[h] = x /\ 0 + 1 = 1 /\ 1 \in 1 .. m + 1 /\ 1 + 1 = 2
        BY <1>6, <1>8
      <4>2. Node(t, h, 1) = x
        BY <1>2, <1>11, <4>1
      <4>3. QED
        BY <1>10, <3>1, <4>1, <4>2
    <3>2. CASE k # 0
      <4>1. k \in 1 .. m /\ k \in 1 .. m + 1 /\ k + 1 \in 1 .. m + 1 /\ k + 1 \in 0 .. m + 1
        BY <3>2
      <4>2. b.next[Node(t, h, k)] = l.next[Node(t, h, k)]
        BY <1>8, <1>13, <4>1
      <4>3. l.next[Node(s, h, k + 1)] = Node(s, h, (k + 1) + 1)
        BY <1>12, <4>1
      <4>4. Node(t, h, k) = Node(s, h, k + 1) /\ Node(t, h, k + 1) = Node(s, h, (k + 1) + 1)
        BY <1>11, <4>1
      <4>5. QED
        BY <4>2, <4>3, <4>4
    <3>3. QED
      BY <3>1, <3>2
  <2>2. QED
    BY <1>10, <2>1 DEF Chain
<1>15. Backs(b, h, t)
  <2>1. ASSUME NEW k \in 0 .. m
        PROVE  b.prev[Node(t, h, k + 1)] = Node(t, h, k)
    <3>1. CASE k = 0
      <4>1. l.prev[Node(s, h, 2)] = h
        BY DEF Leaving
      <4>2. 0 + 1 = 1 /\ 1 \in 1 .. m + 1 /\ 1 + 1 = 2
        OBVIOUS
      <4>3. Node(t, h, 1) = Node(s, h, 2)
        BY <1>11, <4>2
      <4>4. QED
        BY <1>7, <1>10, <3>1, <4>1, <4>2, <4>3
    <3>2. CASE k # 0
      <4>1. k \in 1 .. m + 1 /\ k + 1 \in 1 .. m + 1 /\ k + 1 \in 2 .. m + 1
        BY <3>2
      <4>2. l.prev[Node(s, h, (k + 1) + 1)] = Node(s, h, k + 1)
        BY <1>1, <4>1 DEF Leaving
      <4>3. Node(t, h, k) = Node(s, h, k + 1) /\ Node(t, h, k + 1) = Node(s, h, (k + 1) + 1)
        BY <1>11, <4>1
      <4>4. QED
        BY <1>7, <4>2, <4>3
    <3>3. QED
      BY <3>1, <3>2
  <2>2. QED
    BY <1>10, <2>1 DEF Backs
<1>16. l.next[s[1]] # s[1]
  <2>1. 1 \in 0 .. m + 1 /\ 1 + 1 = 2
    OBVIOUS
  <2>2. l.next[s[1]] = Node(s, h, 2)
    BY <1>10, <1>12, <2>1
  <2>3. QED
    BY <1>0, <2>2 DEF TailFacts
<1>17. QED
  BY <1>3, <1>4, <1>7, <1>8, <1>9, <1>14, <1>15, <1>16 DEF Holds

LEMMA Attaches ==
  ASSUME NEW D, NEW h, NEW s, Listed(D, h, s), NEW l, Linked(l, D), Holds(l, h, s),
         NEW n \in D \ (On(s) \cup {h}), NEW r, r.node = n, r.prev = Node(s, h, Len(s))
  PROVE  /\ Linked(Attached(l, r, h), D) /\ Joining(Attached(l, r, h), h, s, n)
         /\ \A x \in D \ {n} : Attached(l, r, h).next[x] = l.next[x]
         /\ \A x \in D \ {n, h} : Attached(l, r, h).prev[x] = l.prev[x]
<1>1. PICK m \in Nat : Len(s) = m
  BY LenOf
<1>2. PICK z : z = Node(s, h, m)
  OBVIOUS
<1>3. PICK b : b = Attached(l, r, h)
  OBVIOUS
<1>4. b = [next |-> [l.next EXCEPT ![n] = h], prev |-> [l.prev EXCEPT ![h] = n, ![n] = z]]
  BY <1>1, <1>2, <1>3 DEF Attached
<1>5. z \in D /\ h \in D /\ n \in D /\ n # h
  BY <1>2, NodeOf DEF Listed
<1>6. /\ b.next = [l.next EXCEPT ![n] = h] /\ b.prev = [l.prev EXCEPT ![h] = n, ![n] = z]
      /\ b = [next |-> b.next, prev |-> b.prev]
  BY <1>4
<1>7. /\ \A x \in D : b.next[x] = IF x = n THEN h ELSE l.next[x]
      /\ \A x \in D : b.prev[x] = IF x = n THEN z ELSE IF x = h THEN n ELSE l.prev[x]
  BY <1>5, <1>6 DEF Linked
<1>8. Linked(b, D)
  BY <1>5, <1>6 DEF Linked
<1>9. \A k \in Nat : Node(s, h, k) \in D /\ Node(s, h, k) # n
  BY NodeOf
<1>10. Chain(b, h, s)
  <2>1. \A k \in 0 .. m : l.next[Node(s, h, k)] = Node(s, h, k + 1)
    BY <1>1 DEF Holds, Chain
  <2>2. QED
    BY <1>1, <1>7, <1>9, <2>1 DEF Chain
<1>11. \A k \in 1 .. m : b.prev[Node(s, h, k)] = Node(s, h, k - 1)
  <2> TAKE k \in 1 .. m
  <2>1. k - 1 \in 0 .. m /\ (k - 1) + 1 = k
    OBVIOUS
  <2>2. l.prev[Node(s, h, k)] = Node(s, h, k - 1)
    BY <1>1, <2>1 DEF Holds, Backs
  <2>3. Node(s, h, k) # h
    BY <1>1, NodeOf
  <2>4. QED
    BY <1>7, <1>9, <2>2, <2>3
<1>12. b.next[n] = h /\ b.prev[h] = n /\ b.prev[n] = z
  BY <1>5, <1>7
<1>13. Joining(b, h, s, n)
  BY <1>1, <1>2, <1>10, <1>11, <1>12 DEF Joining
<1>14. QED
  BY <1>3, <1>7, <1>8, <1>13

LEMMA AppendOf ==
  ASSUME NEW D, NEW h, NEW s, Listed(D, h, s), NEW n \in D \ (On(s) \cup {h})
  PROVE  /\ Listed(D, h, Append(s, n)) /\ Len(Append(s, n)) = Len(s) + 1
         /\ \A k \in 0 .. Len(s) : Node(Append(s, n), h, k) = Node(s, h, k)
         /\ Node(Append(s, n), h, Len(s) + 1) = n
         /\ On(Append(s, n)) = On(s) \cup {n} /\ Append(s, n) # <<>>
         /\ s # <<>> => Append(s, n)[1] = s[1]
<1>1. PICK m \in Nat : Len(s) = m
  BY LenOf
<1>2. PICK t : t = Append(s, n)
  OBVIOUS
<1>3. /\ t \in Seq(D \ {h}) /\ Len(t) = m + 1 /\ t # <<>>
      /\ \A i \in 1 .. m : t[i] = s[i]
      /\ t[m + 1] = n
  BY <1>1, <1>2, AppendProperties DEF Listed
<1>4. \A i \in 1 .. m : s[i] # n
  BY <1>1, NodeOf
<1>5. \A i, j \in 1 .. m : s[i] = s[j] => i = j
  BY <1>1 DEF Listed, Distinct
<1>6. \A i \in 1 .. m + 1 : i \in 1 .. m \/ i = m + 1
  OBVIOUS
<1>7. \A i, j \in 1 .. m + 1 : t[i] = t[j] => i = j
  BY <1>3, <1>4, <1>5, <1>6
<1>8. Listed(D, h, t)
  BY <1>3, <1>7 DEF Listed, Distinct
<1>9. \A k \in 0 .. m : Node(t, h, k) = Node(s, h, k)
  BY <1>1, <1>3 DEF Node
<1>10. Node(t, h, m + 1) = n
  <2>1. m + 1 \in 1 .. m + 1
    OBVIOUS
  <2>2. QED
    BY <1>3, <2>1 DEF Node
<1>11. On(t) = On(s) \cup {n}
  <2>1. \A i \in 1 .. m : i \in 1 .. m + 1
    OBVIOUS
  <2>2. m + 1 \in 1 .. m + 1
    OBVIOUS
  <2>3. On(t) \subseteq On(s) \cup {n}
    BY <1>1, <1>3, <1>6 DEF On
  <2>4. On(s) \cup {n} \subseteq On(t)
    BY <1>1, <1>3, <2>1, <2>2 DEF On
  <2>5. QED
    BY <2>3, <2>4
<1>12. s # <<>> => t[1] = s[1]
  <2>1. ASSUME s # <<>>
        PROVE  1 \in 1 .. m
    BY <1>1, <2>1, EmptySeq DEF Listed
  <2>2. QED
    BY <1>3, <2>1
<1>13. QED
  BY <1>1, <1>2, <1>3, <1>8, <1>9, <1>10, <1>11, <1>12

LEMMA Adds ==
  ASSUME NEW D, NEW h, NEW s, Listed(D, h, s), NEW l, Linked(l, D),
         NEW n \in D \ (On(s) \cup {h}), Joining(l, h, s, n),
         NEW r, r.node = n, r.prev = Node(s, h, Len(s))
  PROVE  /\ Linked(Added(l, r), D) /\ Holds(Added(l, r), h, Append(s, n))
         /\ Added(l, r).prev = l.prev
         /\ r.prev \in On(s) \cup {h} /\ r.prev \in D /\ Added(l, r).next[r.prev] = n
         /\ \A x \in D \ {r.prev} : Added(l, r).next[x] = l.next[x]
<1>1. PICK m \in Nat : Len(s) = m
  BY LenOf
<1>2. PICK z : z = Node(s, h, m)
  OBVIOUS
<1>3. PICK b : b = Added(l, r)
  OBVIOUS
<1>4. PICK t : t = Append(s, n)
  OBVIOUS
<1>5. b = [next |-> [l.next EXCEPT ![z] = n], prev |-> l.prev]
  BY <1>1, <1>2, <1>3 DEF Added, Linked
<1>6. z \in D /\ z \in On(s) \cup {h} /\ n \in D /\ z # n
  BY <1>2, NodeOf
<1>7. b.prev = l.prev /\ b.next = [l.next EXCEPT ![z] = n] /\ b = [next |-> b.next, prev |-> b.prev]
  BY <1>5
<1>8. \A x \in D : b.next[x] = IF x = z THEN n ELSE l.next[x]
  BY <1>7 DEF Linked
<1>9. Linked(b, D)
  BY <1>6, <1>7 DEF Linked
<1>10. /\ Listed(D, h, t) /\ Len(t) = m + 1
       /\ \A k \in 0 .. m : Node(t, h, k) = Node(s, h, k)
       /\ Node(t, h, m + 1) = n
  BY <1>1, <1>4, AppendOf
<1>11. Node(t, h, (m + 1) + 1) = h
  BY <1>10, NodeOf
<1>12. \A k \in 0 .. m + 1 : k = m + 1 \/ k = m \/ (k \in 0 .. m /\ k + 1 \in 0 .. m /\ k # m)
  OBVIOUS
<1>13. \A j, k \in 0 .. m : Node(s, h, j) = Node(s, h, k) => j = k
  BY <1>1, NodeOf
<1>14. Chain(b, h, t)
  <2>1. ASSUME NEW k \in 0 .. m + 1
        PROVE  b.next[Node(t, h, k)] = Node(t, h, k + 1)
    <3>1. CASE k = m + 1
      <4>1. b.next[n] = h
        BY <1>6, <1>8 DEF Joining
      <4>2. QED
        BY <1>10, <1>11, <3>1, <4>1
    <3>2. CASE k = m
      <4>1. b.next[z] = n /\ m \in 0 .. m
        BY <1>6, <1>8
      <4>2. QED
        BY <1>2, <1>10, <3>2, <4>1
    <3>3. CASE k \in 0 .. m /\ k + 1 \in 0 .. m /\ k # m
      <4>1. l.next[Node(s, h, k)] = Node(s, h, k + 1)
        BY <1>1, <3>3 DEF Joining, Chain
      <4>2. m \in 0 .. m /\ k \in Nat
        OBVIOUS
      <4>3. Node(s, h, k) # z
        BY <1>2, <1>13, <3>3, <4>2
      <4>4. Node(s, h, k) \in D
        BY <4>2, NodeOf
      <4>5. QED
        BY <1>8, <1>10, <3>3, <4>1, <4>3, <4>4
    <3>4. QED
      BY <1>12, <3>1, <3>2, <3>3
  <2>2. QED
    BY <1>10, <2>1 DEF Chain
<1>15. Backs(b, h, t)
  <2>1. ASSUME NEW k \in 0 .. m + 1
        PROVE  b.prev[Node(t, h, k + 1)] = Node(t, h, k)
    <3>1. CASE k = m + 1
      <4>1. b.prev[h] = n
        BY <1>7 DEF Joining
      <4>2. QED
        BY <1>10, <1>11, <3>1, <4>1
    <3>2. CASE k = m
      <4>1. b.prev[n] = z /\ m \in 0 .. m
        BY <1>1, <1>2, <1>7 DEF Joining
      <4>2. QED
        BY <1>2, <1>10, <3>2, <4>1
    <3>3. CASE k \in 0 .. m /\ k + 1 \in 0 .. m /\ k # m
      <4>1. k + 1 \in 1 .. m /\ (k + 1) - 1 = k
        BY <3>3
      <4>2. l.prev[Node(s, h, k + 1)] = Node(s, h, k)
        BY <1>1, <4>1 DEF Joining
      <4>3. QED
        BY <1>7, <1>10, <3>3, <4>2
    <3>4. QED
      BY <1>12, <3>1, <3>2, <3>3
  <2>2. QED
    BY <1>10, <2>1 DEF Backs
<1>16. r.prev = z
  BY <1>1, <1>2
<1>17. QED
  BY <1>3, <1>4, <1>6, <1>7, <1>8, <1>9, <1>14, <1>15, <1>16 DEF Holds

(* The two ends of a list.                                                 *)
LEMMA Ends ==
  ASSUME NEW D, NEW h, NEW s, Listed(D, h, s), NEW l
  PROVE  /\ Chain(l, h, s) => l.next[h] = Node(s, h, 1)
         /\ Backs(l, h, s) => l.prev[h] = Node(s, h, Len(s))
         /\ s # <<>> => Node(s, h, 1) = s[1] /\ s[1] # h /\ s[1] \in On(s)
         /\ s = <<>> => Node(s, h, 1) = h /\ Node(s, h, 0) = h /\ On(s) = {} /\ Len(s) = 0
<1>1. PICK m \in Nat : Len(s) = m
  BY LenOf
<1>2. 0 \in 0 .. m /\ m \in 0 .. m /\ 0 + 1 = 1
  OBVIOUS
<1>3. Node(s, h, 0) = h /\ Node(s, h, m + 1) = h
  BY <1>1, NodeOf
<1>4. Chain(l, h, s) => l.next[h] = Node(s, h, 1)
  BY <1>1, <1>2, <1>3 DEF Chain
<1>5. Backs(l, h, s) => l.prev[h] = Node(s, h, m)
  BY <1>1, <1>2, <1>3 DEF Backs
<1>6. ASSUME s # <<>>
      PROVE  Node(s, h, 1) = s[1] /\ s[1] # h /\ s[1] \in On(s)
  <2>1. TailFacts(D, h, s)
    BY <1>6, TailOf
  <2>2. QED
    BY <2>1 DEF TailFacts
<1>7. ASSUME s = <<>>
      PROVE  Node(s, h, 1) = h /\ Node(s, h, 0) = h /\ On(s) = {} /\ Len(s) = 0
  BY <1>7 DEF Node, On
<1>8. QED
  BY <1>1, <1>4, <1>5, <1>6, <1>7

-----------------------------------------------------------------------------
(* The slots of a ring, n of them from i on; all of them; all but i.       *)
Place(i, k) == IF i + k - 1 < RING THEN i + k - 1 ELSE i + k - 1 - RING
Rot(i, n) == [k \in 1 .. n |-> Place(i, k)]
Full(i) == Rot(i, RING)
Rest(i) == Rot(Next1(i), RING - 1)

LEMMA RingSize == RING \in Nat /\ RING >= 2 /\ Slots = 0 .. RING - 1
BY PcnetAssumption DEF Slots

LEMMA NextSlot ==
  ASSUME NEW i \in Slots
  PROVE  Next1(i) = (IF i + 1 < RING THEN i + 1 ELSE 0) /\ Next1(i) \in Slots /\ Next1(i) # i
<1>1. i \in Nat /\ i < RING /\ RING \in Nat /\ RING >= 2
  BY RingSize
<1>2. CASE i + 1 < RING
  <2>1. (i + 1) % RING = i + 1
    BY <1>1, <1>2
  <2>2. QED
    BY <1>1, <1>2, <2>1, RingSize DEF Next1
<1>3. CASE ~(i + 1 < RING)
  <2>1. i + 1 = RING
    BY <1>1, <1>3
  <2>2. RING % RING = 0
    BY <1>1
  <2>3. QED
    BY <1>1, <1>3, <2>1, <2>2, RingSize DEF Next1
<1>4. QED
  BY <1>2, <1>3

Places1(i) ==
  /\ Full(i) \in Seq(Slots) /\ Len(Full(i)) = RING /\ Distinct(Full(i)) /\ On(Full(i)) = Slots
  /\ Full(i)[1] = i /\ Full(i)[2] = Next1(i) /\ Full(i) # <<>>
  /\ Rest(i) = Tail(Full(i)) /\ Len(Rest(i)) = RING - 1
  /\ Append(Rest(i), i) = Full(Next1(i))

LEMMA Rotated ==
  ASSUME NEW i \in Slots
  PROVE  Places1(i)
<1>1. i \in Nat /\ i < RING /\ RING \in Nat /\ RING >= 2 /\ Slots = 0 .. RING - 1
  BY RingSize
<1>2. PICK n : n = Next1(i)
  OBVIOUS
<1>3. n = (IF i + 1 < RING THEN i + 1 ELSE 0) /\ n \in Slots
  BY <1>2, NextSlot
<1>4. PICK f : f = [k \in 1 .. RING |-> Place(i, k)]
  OBVIOUS
<1>5. \A k \in 1 .. RING : Place(i, k) \in Slots
  BY <1>1 DEF Place
<1>6. f = Full(i)
  BY <1>4 DEF Full, Rot
<1>7. \A k \in 1 .. RING : f[k] = Place(i, k)
  BY <1>4
<1>8. f \in [1 .. RING -> Slots]
  BY <1>4, <1>5
<1>9. f \in Seq(Slots) /\ Len(f) = RING
  <2>1. f \in Seq(Slots)
    BY <1>1, <1>8
  <2>2. DOMAIN f = 1 .. RING
    BY <1>8
  <2>3. QED
    BY <1>1, <2>1, <2>2
<1>10. \A j, k \in 1 .. RING : Place(i, j) = Place(i, k) => j = k
  BY <1>1 DEF Place
<1>11. Distinct(f)
  BY <1>7, <1>9, <1>10 DEF Distinct
<1>12. On(f) = Slots
  <2>1. ASSUME NEW x \in Slots
        PROVE  \E k \in 1 .. RING : f[k] = x
    <3>1. PICK k : k = IF i <= x THEN x - i + 1 ELSE x - i + 1 + RING
      OBVIOUS
    <3>2. k \in 1 .. RING /\ Place(i, k) = x
      BY <1>1, <3>1 DEF Place
    <3>3. QED
      BY <1>7, <3>2
  <2>2. QED
    BY <1>5, <1>7, <1>9, <2>1 DEF On
<1>13. f[1] = i /\ f[2] = n
  <2>1. 1 \in 1 .. RING /\ 2 \in 1 .. RING
    BY <1>1
  <2>2. Place(i, 1) = i /\ Place(i, 2) = n
    BY <1>1, <1>3 DEF Place
  <2>3. QED
    BY <1>7, <2>1, <2>2
<1>14. f # <<>>
  BY <1>1, <1>9
<1>15. \A k \in 1 .. RING - 1 : Place(n, k) = Place(i, k + 1) /\ k + 1 \in 1 .. RING
  BY <1>1, <1>3 DEF Place
<1>16. PICK r : r = [k \in 1 .. RING - 1 |-> Place(n, k)]
  OBVIOUS
<1>17. r = Rest(i)
  BY <1>2, <1>16 DEF Rest, Rot
<1>18. \A k \in 1 .. RING - 1 : r[k] = Place(n, k)
  BY <1>16
<1>19. r \in [1 .. RING - 1 -> Slots] /\ RING - 1 \in Nat
  BY <1>1, <1>5, <1>15, <1>16
<1>20. r \in Seq(Slots) /\ Len(r) = RING - 1
  <2>1. r \in Seq(Slots)
    BY <1>19
  <2>2. DOMAIN r = 1 .. RING - 1
    BY <1>19
  <2>3. QED
    BY <1>19, <2>1, <2>2
<1>21. r = Tail(f)
  <2>1. /\ Tail(f) \in Seq(Slots) /\ Len(Tail(f)) = RING - 1
        /\ \A k \in 1 .. Len(Tail(f)) : Tail(f)[k] = f[k + 1]
    BY <1>9, <1>14, HeadTailProperties
  <2>2. \A k \in 1 .. RING - 1 : r[k] = Tail(f)[k]
    BY <1>7, <1>15, <1>18, <2>1
  <2>3. QED
    BY <1>20, <2>1, <2>2, SeqEqual
<1>22. Append(r, i) = Full(n)
  <2>1. PICK g : g = [k \in 1 .. RING |-> Place(n, k)]
    OBVIOUS
  <2>2. \A k \in 1 .. RING : g[k] = Place(n, k)
    BY <2>1
  <2>3. \A k \in 1 .. RING : Place(n, k) \in Slots
    BY <1>1, <1>3 DEF Place
  <2>4. g \in [1 .. RING -> Slots]
    BY <2>1, <2>3
  <2>5. g \in Seq(Slots) /\ Len(g) = RING
    <3>1. g \in Seq(Slots)
      BY <1>1, <2>4
    <3>2. DOMAIN g = 1 .. RING
      BY <2>4
    <3>3. QED
      BY <1>1, <3>1, <3>2
  <2>6. /\ Append(r, i) \in Seq(Slots) /\ Len(Append(r, i)) = (RING - 1) + 1
        /\ \A k \in 1 .. RING - 1 : Append(r, i)[k] = r[k]
        /\ Append(r, i)[(RING - 1) + 1] = i
    BY <1>20, AppendProperties
  <2>7. Place(n, RING) = i /\ (RING - 1) + 1 = RING
    BY <1>1, <1>3 DEF Place
  <2>8. \A k \in 1 .. RING : k \in 1 .. RING - 1 \/ k = RING
    BY <1>1
  <2>9. \A k \in 1 .. RING : Append(r, i)[k] = g[k]
    <3> TAKE k \in 1 .. RING
    <3>1. CASE k \in 1 .. RING - 1
      BY <1>18, <2>2, <2>6, <3>1
    <3>2. CASE k = RING
      <4>1. g[k] = i
        BY <2>2, <2>7, <3>2
      <4>2. QED
        BY <2>6, <2>7, <3>2, <4>1
    <3>3. QED
      BY <2>8, <3>1, <3>2
  <2>10. Append(r, i) = g
    BY <2>5, <2>6, <2>7, <2>9, SeqEqual
  <2>11. QED
    BY <2>1, <2>10 DEF Full, Rot
<1>23. QED
  BY <1>2, <1>6, <1>9, <1>11, <1>12, <1>13, <1>14, <1>17, <1>20, <1>21, <1>22 DEF Places1

-----------------------------------------------------------------------------
(* The nodes of the two sides of the driver.                               *)
RxNodes == 0 .. Collector
TxNodes == 0 .. BUSY

LEMMA Nodes ==
  /\ IsFiniteSet(RxNodes) /\ IsFiniteSet(TxNodes)
  /\ RxNodes \ {Collector} = Slots /\ Collector \in RxNodes
  /\ Slots \subseteq TxNodes /\ Slots \subseteq RxNodes /\ FREE \in TxNodes /\ BUSY \in TxNodes
  /\ FREE # BUSY /\ FREE \notin Slots /\ BUSY \notin Slots /\ Collector \notin Slots
  /\ 0 \in Slots
<1>1. RING \in Nat /\ RING >= 2 /\ Slots = 0 .. RING - 1
  BY RingSize
<1>2. RxNodes = 0 .. RING /\ TxNodes = 0 .. RING + 1
  BY DEF RxNodes, TxNodes, Collector, BUSY
<1>3. IsFiniteSet(RxNodes) /\ IsFiniteSet(TxNodes)
  BY <1>1, <1>2, FS_Interval
<1>4. QED
  BY <1>1, <1>2, <1>3 DEF Collector, FREE, BUSY

(* A sequence of slots is a list of either head.                           *)
LEMMA SlotLists ==
  ASSUME NEW s \in Seq(Slots), Distinct(s)
  PROVE  Listed(RxNodes, Collector, s) /\ Listed(TxNodes, FREE, s) /\ Listed(TxNodes, BUSY, s)
<1>1. Slots \subseteq RxNodes \ {Collector} /\ Slots \subseteq TxNodes \ {FREE} /\ Slots \subseteq TxNodes \ {BUSY}
  BY Nodes
<1>2. s \in Seq(RxNodes \ {Collector}) /\ s \in Seq(TxNodes \ {FREE}) /\ s \in Seq(TxNodes \ {BUSY})
  BY <1>1, SeqMonotonic
<1>3. QED
  BY <1>2, Nodes DEF Listed

TxLists(i) ==
  /\ Listed(TxNodes, FREE, Full(i)) /\ Listed(TxNodes, FREE, Rest(i))
  /\ Listed(TxNodes, BUSY, <<i>>) /\ Listed(TxNodes, BUSY, <<>>)
  /\ On(Full(i)) = Slots /\ On(Rest(i)) = Slots \ {i} /\ On(<<i>>) = {i} /\ On(<<>>) = {}
  /\ Full(i) # <<>> /\ Node(Full(i), FREE, 1) = i /\ Node(Full(i), FREE, 2) = Next1(i)
  /\ Tail(Full(i)) = Rest(i) /\ Append(Rest(i), i) = Full(Next1(i)) /\ Len(Rest(i)) = RING - 1
  /\ Next1(i) \in Slots /\ i \in Slots
  /\ Node(<<>>, BUSY, Len(<<>>)) = BUSY /\ Node(<<i>>, BUSY, 1) = i /\ Node(<<i>>, BUSY, 2) = BUSY
  /\ Tail(<<i>>) = <<>> /\ Append(<<>>, i) = <<i>>

LEMMA TxListed ==
  ASSUME NEW i \in Slots
  PROVE  TxLists(i)
<1>1. Places1(i)
  BY Rotated
<1>2. Listed(TxNodes, FREE, Full(i))
  BY <1>1, SlotLists DEF Places1
<1>3. TailFacts(TxNodes, FREE, Full(i))
  BY <1>1, <1>2, TailOf DEF Places1
<1>4. Listed(TxNodes, FREE, Rest(i)) /\ On(Rest(i)) = Slots \ {i} /\ Node(Full(i), FREE, 1) = i
  BY <1>1, <1>3 DEF Places1, TailFacts
<1>5. Node(Full(i), FREE, 2) = Next1(i)
  BY <1>1, RingSize DEF Places1, Node
<1>6. <<i>> \in Seq(Slots) /\ Distinct(<<i>>) /\ <<>> \in Seq(Slots) /\ Distinct(<<>>)
  BY DEF Distinct
<1>7. Listed(TxNodes, BUSY, <<i>>) /\ Listed(TxNodes, BUSY, <<>>)
  BY <1>6, SlotLists
<1>8. On(<<i>>) = {i}
  <2>1. Len(<<i>>) = 1 /\ <<i>>[1] = i
    OBVIOUS
  <2>2. \A k \in 1 .. 1 : k = 1
    OBVIOUS
  <2>3. QED
    BY <2>1, <2>2 DEF On
<1>9. On(<<>>) = {}
  BY DEF On
<1>10. Node(<<>>, BUSY, Len(<<>>)) = BUSY /\ Node(<<i>>, BUSY, 1) = i /\ Node(<<i>>, BUSY, 2) = BUSY
  BY DEF Node
<1>11. Tail(<<i>>) = <<>>
  OBVIOUS
<1>12. Append(<<>>, i) = <<i>>
  OBVIOUS
<1>13. Next1(i) \in Slots
  BY NextSlot
<1>14. QED
  BY <1>1, <1>2, <1>4, <1>5, <1>7, <1>8, <1>9, <1>10, <1>11, <1>12, <1>13 DEF Places1, TxLists

-----------------------------------------------------------------------------
(* The invariant: first what the variables hold, and where the threads are.*)
Threads == Drivers \cup Clients

Places ==
  {"none", "dead", "panicked", "open", "loop", "lock", "block", "asleep", "waiting", "test", "refuse", "copy",
   "copying", "release", "decollect", "unlink", "unlinked", "reinit", "give", "handle", "arp",
   "write", "take", "taken", "base", "queue", "queued", "spin"}
RecvPlaces == {"scan", "lock", "block", "asleep", "load", "link", "store", "broadcast", "release"}
SendPlaces == {"poll", "take", "taken", "give", "wait", "free", "freed", "done"}
ShellPlaces == {"prompt", "typing", "exiting", "panicked"}
Frames == {Nothing} \cup [id : 1 .. arrived, kind : Kinds]

PlacesInv ==
  /\ DOMAIN pc = Threads /\ DOMAIN reg = Threads
  /\ pc["shell"] \in ShellPlaces /\ pc["recv"] \in RecvPlaces /\ pc["send"] \in SendPlaces
  /\ \A t \in NetThreads : pc[t] \in Places

DataInv ==
  /\ arrived \in Nat /\ rx_own \subseteq Slots /\ cur_rx \in Slots /\ cur_tx \in Slots
  /\ payload \in [Slots -> Frames] /\ buff.id \in Nat
  /\ wire \in Seq(Nat) /\ asked \in Seq(Nat) /\ out \in [Clients -> Nat] /\ base \in [Slots -> Clients]

(* Of the threads of net_test one is alive, as long as the shell waits for *)
(* it.                                                                     *)
Alive(t) == pc[t] \notin {"none", "dead"}
SessionInv ==
  /\ \A t, u \in NetThreads : Alive(t) /\ Alive(u) => t = u
  /\ \A t \in NetThreads : Alive(t) =>
       pc["shell"] \in {"typing", "exiting"} /\ (pc["shell"] = "exiting" => ~processing_ip)

(* The collector list has the entries s: a reader works on the first of    *)
(* them, and, when it has taken it off, gives it back; the receive loop    *)
(* adds a frame of the host that is not on it.                             *)
Held == {"copy", "copying", "release", "decollect"}
Parting == {"unlink", "unlinked"}
Off == {"reinit", "give"}
Collecting == {"lock", "block", "asleep", "load", "link", "store"}

RxList(s) ==
  Linked(rx, RxNodes) /\ s \in Seq(Slots) /\ Distinct(s) /\ Chain(rx, Collector, s) /\ On(s) \cap rx_own = {}

RxReader(t, s) ==
  /\ pc[t] \in Held \cup Parting => s # <<>> /\ reg[t].node = s[1]
  /\ pc[t] \in Parting => reg[t].prev = Collector /\ reg[t].next = Node(s, Collector, 2)
  /\ pc[t] = "unlinked" => Leaving(rx, Collector, s)
  /\ pc[t] \in Off => reg[t].node \in Slots \ (rx_own \cup On(s))
  /\ pc[t] = "reinit" => rx.next[reg[t].node] # reg[t].node
  /\ pc[t] = "give" => rx.next[reg[t].node] = reg[t].node
  /\ pc[t] \in Off /\ pc["recv"] \in Collecting => reg[t].node # reg["recv"].node

RxLoop(s) ==
  LET n == reg["recv"].node IN
  /\ n \in Slots
  /\ pc["recv"] \in Collecting => n \notin rx_own \cup On(s)
  /\ pc["recv"] \in Collecting \ {"store"} => rx.next[n] = n
  /\ pc["recv"] \in {"link", "store"} => reg["recv"].prev = Node(s, Collector, Len(s))
  /\ pc["recv"] = "store" => Joining(rx, Collector, s, n)

RxWhole(s) ==
  pc["recv"] # "store" /\ (\A t \in NetThreads : pc[t] # "unlinked") => Backs(rx, Collector, s)

RxRest(s) ==
  \A i \in Slots \ On(s) : rx.next[i] # i =>
    \/ pc["recv"] = "store" /\ reg["recv"].node = i
    \/ \E t \in NetThreads : pc[t] = "reinit" /\ reg[t].node = i

RxInv(s) == RxList(s) /\ (\A t \in NetThreads : RxReader(t, s)) /\ RxLoop(s) /\ RxWhole(s) /\ RxRest(s)

(* No frame is in two places: at a slot, in the buffer, among those taken. *)
Long(f) == f.kind = "long"
Keeping == {"copying", "release", "decollect", "unlink", "unlinked", "reinit", "give"}

FramesInv ==
  /\ \A i, j \in Slots : payload[i] = payload[j] /\ payload[i] # Nothing /\ ~Long(payload[i]) => i = j
  /\ taken \in Seq(Frames \ {Nothing})
  /\ \A m, n \in 1 .. Len(taken) : taken[m] = taken[n] /\ ~Long(taken[m]) => m = n
  /\ \A i \in Slots \ rx_own, n \in 1 .. Len(taken) : payload[i] = taken[n] => Long(taken[n])

Buffer(t) ==
  /\ pc[t] \in Keeping => buff \in {Nothing, payload[reg[t].node]}
  /\ pc[t] = "handle" => buff \in Frames
  /\ pc[t] = "handle" /\ buff # Nothing /\ ~Long(buff) =>
       /\ \A n \in 1 .. Len(taken) : taken[n] # buff
       /\ \A i \in Slots \ rx_own : payload[i] # buff

ReadInv == FramesInv /\ \A t \in NetThreads : Buffer(t)

(* The entries of the transmit side, from the card's on, are on the free   *)
(* list, but for one that a writer has taken, that the send loop hands to  *)
(* the card, and that it frees when the card has sent it.                  *)
TwoLists(f, b) == Holds(tx, FREE, f) /\ Holds(tx, BUSY, b)
Reg(n, p, x) == [node |-> n, prev |-> p, next |-> x]
Sending == {"take", "taken", "base", "queue", "queued", "spin"}

Idle ==
  /\ pc["send"] = "poll" /\ \A t \in NetThreads : pc[t] \notin Sending
  /\ TwoLists(Full(cur_tx), <<>>) /\ tx_own = {} /\ coled = {}
  /\ (\A t \in NetThreads : pc[t] # "write") => asked = wire
  /\ \A t \in NetThreads : pc[t] = "write" => asked = Append(wire, out[t])

Taking(t, i) ==
  /\ pc["send"] = "poll" /\ tx_own = {} /\ coled = {}
  /\ \/ pc[t] = "take" /\ TwoLists(Full(i), <<>>) /\ reg[t] = Reg(i, FREE, Next1(i))
     \/ pc[t] = "taken" /\ Leaving(tx, FREE, Full(i)) /\ Holds(tx, BUSY, <<>>) /\ reg[t] = Reg(i, FREE, Next1(i))
     \/ pc[t] = "base" /\ TwoLists(Rest(i), <<>>) /\ reg[t].node = i

Queueing(t, i) ==
  /\ pc["send"] = "poll" /\ tx_own = {} /\ coled = {i} /\ base[i] = t
  /\ \/ pc[t] = "queue" /\ TwoLists(Rest(i), <<>>) /\ reg[t] = Reg(i, BUSY, BUSY)
     \/ pc[t] = "queued" /\ Holds(tx, FREE, Rest(i)) /\ Joining(tx, BUSY, <<>>, i) /\ reg[t] = Reg(i, BUSY, BUSY)
     \/ pc[t] = "spin" /\ TwoLists(Rest(i), <<i>>) /\ reg[t].node = i

Giving(t, i) ==
  /\ pc[t] = "spin" /\ coled = {i} /\ base[i] = t /\ reg[t].node = i /\ reg["send"].node = i
  /\ \/ pc["send"] = "take" /\ TwoLists(Rest(i), <<i>>) /\ reg["send"] = Reg(i, BUSY, BUSY) /\ tx_own = {}
     \/ pc["send"] = "taken" /\ Holds(tx, FREE, Rest(i)) /\ Leaving(tx, BUSY, <<i>>)
          /\ reg["send"] = Reg(i, BUSY, BUSY) /\ tx_own = {}
     \/ pc["send"] = "give" /\ TwoLists(Rest(i), <<>>) /\ tx_own = {}
     \/ pc["send"] = "wait" /\ TwoLists(Rest(i), <<>>) /\ tx_own = {i}

Freeing(t, i) ==
  /\ pc[t] = "spin" /\ coled = {i} /\ reg[t].node = i /\ reg["send"].node = i /\ tx_own = {}
  /\ \/ pc["send"] = "wait" /\ TwoLists(Rest(i), <<>>)
     \/ pc["send"] = "free" /\ TwoLists(Rest(i), <<>>) /\ reg["send"] = Reg(i, Node(Rest(i), FREE, RING - 1), FREE)
     \/ pc["send"] = "freed" /\ Joining(tx, FREE, Rest(i), i) /\ Holds(tx, BUSY, <<>>)
          /\ reg["send"] = Reg(i, Node(Rest(i), FREE, RING - 1), FREE)
     \/ pc["send"] = "done" /\ TwoLists(Full(Next1(i)), <<>>)

Done(t) ==
  /\ pc[t] = "spin" /\ pc["send"] = "poll" /\ coled = {} /\ tx_own = {} /\ TwoLists(Full(cur_tx), <<>>)

Replying(t, i) == asked = Append(wire, out[t]) /\ (Taking(t, i) \/ Queueing(t, i) \/ Giving(t, i))
Replied(t, i) == asked = wire /\ Freeing(t, i)

TxInv ==
  /\ Linked(tx, TxNodes)
  /\ \/ Idle
     \/ \E t \in NetThreads : Replying(t, cur_tx)
     \/ \E t \in NetThreads, i \in Slots : Next1(i) = cur_tx /\ Replied(t, i)
     \/ \E t \in NetThreads : asked = wire /\ Done(t)

TypeInv == PlacesInv /\ DataInv

NetInv ==
  /\ TypeInv /\ SessionInv /\ TxInv
  /\ ~raced => ~Met /\ ReadInv /\ \E s : RxInv(s)

-----------------------------------------------------------------------------
(* A step of the threads A leaves the others where they are, but for those *)
(* that it wakes.                                                          *)
Same(u) == pc'[u] = pc[u] /\ reg'[u] = reg[u]
Woke(u) == pc[u] \in {"asleep", "waiting"} /\ pc'[u] = "lock" /\ reg'[u] = reg[u]
Only(A) ==
  /\ A \subseteq Threads /\ DOMAIN pc' = Threads /\ DOMAIN reg' = Threads
  /\ \A u \in Threads \ A : Same(u) \/ Woke(u)

LEMMA Names ==
  /\ "recv" \in Threads /\ "send" \in Threads /\ "shell" \in Threads /\ NetThreads \subseteq Threads
  /\ "recv" \notin NetThreads /\ "send" \notin NetThreads /\ "shell" \notin NetThreads
  /\ NetThreads \subseteq Clients /\ "shell" \in Clients
  /\ "recv" # "send" /\ "recv" # "shell" /\ "send" # "shell"
  /\ \A t \in Threads : t \in NetThreads \/ t = "recv" \/ t = "send" \/ t = "shell"
<1>1. Clients = NetThreads \cup {"shell"} /\ "shell" \notin NetThreads
  BY NetAssumption
<1>2. Drivers = {"recv", "send"} /\ Drivers \cap Clients = {}
  BY PcnetAssumption DEF Drivers
<1>3. QED
  BY <1>1, <1>2 DEF Threads

(* One thread moves, and may set its registers.                            *)
LEMMA Moving ==
  ASSUME PlacesInv, NEW t \in Threads, NEW p, Goto(t, p),
         NEW r, reg' = reg \/ reg' = [reg EXCEPT ![t] = r]
  PROVE  /\ Only({t}) /\ pc'[t] = p
         /\ reg' = reg => reg'[t] = reg[t]
         /\ reg' = [reg EXCEPT ![t] = r] => reg'[t] = r
<1>1. pc' = [pc EXCEPT ![t] = p] /\ DOMAIN pc = Threads /\ DOMAIN reg = Threads
  BY DEF Goto, PlacesInv
<1>2. pc'[t] = p /\ DOMAIN pc' = Threads /\ \A u \in Threads \ {t} : pc'[u] = pc[u]
  BY <1>1
<1>3. DOMAIN reg' = Threads /\ (\A u \in Threads \ {t} : reg'[u] = reg[u])
  BY <1>1
<1>4. /\ reg' = reg => reg'[t] = reg[t]
      /\ reg' = [reg EXCEPT ![t] = r] => reg'[t] = r
  BY <1>1
<1>5. QED
  BY <1>2, <1>3, <1>4 DEF Only, Same

(* A thread registers without moving.                                      *)
LEMMA Setting ==
  ASSUME PlacesInv, NEW t \in Threads, NEW r, reg' = [reg EXCEPT ![t] = r], pc' = pc
  PROVE  Only({t}) /\ pc'[t] = pc[t] /\ reg'[t] = r
<1>1. DOMAIN pc = Threads /\ DOMAIN reg = Threads
  BY DEF PlacesInv
<1>2. reg'[t] = r /\ DOMAIN reg' = Threads /\ \A u \in Threads \ {t} : reg'[u] = reg[u]
  BY <1>1
<1>3. QED
  BY <1>1, <1>2 DEF Only, Same

LEMMA Waking ==
  ASSUME PlacesInv, NEW t \in Threads, NEW p, Unlocking(t, p), NEW r,
         reg' = reg \/ reg' = [reg EXCEPT ![t] = r]
  PROVE  /\ Only({t}) /\ pc'[t] = p
         /\ reg' = reg => reg'[t] = reg[t]
         /\ reg' = [reg EXCEPT ![t] = r] => reg'[t] = r
<1>1. DOMAIN pc = Threads /\ DOMAIN reg = Threads
  BY DEF PlacesInv
<1>2. pc' = [u \in Threads |-> IF u = t THEN p ELSE IF pc[u] = "asleep" THEN "lock" ELSE pc[u]]
  BY <1>1 DEF Unlocking, At
<1>3. pc'[t] = p /\ DOMAIN pc' = Threads
  BY <1>2
<1>4. \A u \in Threads \ {t} : pc'[u] = IF pc[u] = "asleep" THEN "lock" ELSE pc[u]
  BY <1>2
<1>5. DOMAIN reg' = Threads /\ (\A u \in Threads \ {t} : reg'[u] = reg[u])
  BY <1>1
<1>6. /\ reg' = reg => reg'[t] = reg[t]
      /\ reg' = [reg EXCEPT ![t] = r] => reg'[t] = r
  BY <1>1
<1>7. QED
  BY <1>3, <1>4, <1>5, <1>6 DEF Only, Same, Woke

LEMMA PlacesKept ==
  ASSUME PlacesInv, NEW A, Only(A),
         "recv" \in A => pc'["recv"] \in RecvPlaces,
         "send" \in A => pc'["send"] \in SendPlaces,
         "shell" \in A => pc'["shell"] \in ShellPlaces,
         \A t \in NetThreads : t \in A => pc'[t] \in Places
  PROVE  PlacesInv'
<1>1. \A u \in Threads : u \notin A => pc'[u] = pc[u] \/ (pc[u] \in {"asleep", "waiting"} /\ pc'[u] = "lock")
  BY DEF Only, Same, Woke
<1>2. pc'["recv"] \in RecvPlaces
  BY <1>1, Names DEF PlacesInv, RecvPlaces
<1>3. pc'["send"] \in SendPlaces
  BY <1>1, Names DEF PlacesInv, SendPlaces
<1>4. pc'["shell"] \in ShellPlaces
  BY <1>1, Names DEF PlacesInv, ShellPlaces
<1>5. \A t \in NetThreads : pc'[t] \in Places
  <2> TAKE t \in NetThreads
  <2>1. pc[t] \in Places /\ t \in Threads
    BY Names DEF PlacesInv
  <2>2. QED
    BY <1>1, <2>1 DEF Places
<1>6. DOMAIN pc' = Threads /\ DOMAIN reg' = Threads
  BY DEF Only
<1>7. QED
  BY <1>2, <1>3, <1>4, <1>5, <1>6 DEF PlacesInv

LEMMA SessionKept ==
  ASSUME PlacesInv, SessionInv, NEW A, Only(A), "shell" \notin A, processing_ip' = processing_ip,
         \A t \in NetThreads : t \in A /\ pc'[t] \notin {"none", "dead"} => Alive(t)
  PROVE  SessionInv'
<1>1. \A u \in Threads : u \notin A => pc'[u] = pc[u] \/ (pc[u] \in {"asleep", "waiting"} /\ pc'[u] = "lock")
  BY DEF Only, Same, Woke
<1>2. pc'["shell"] = pc["shell"]
  BY <1>1, Names DEF PlacesInv, ShellPlaces
<1>3. \A t \in NetThreads : pc'[t] \notin {"none", "dead"} => Alive(t)
  BY <1>1, Names DEF Alive
<1>4. QED
  BY <1>2, <1>3 DEF SessionInv, Alive

(* What the lists and the frames see of a net thread.                      *)
TxSame(u) == Same(u) \/ (pc[u] \notin Sending \cup {"write"} /\ pc'[u] \notin Sending \cup {"write"})
RxSame(u) ==
  \/ Same(u)
  \/ pc[u] \notin Parting \cup Off /\ pc'[u] \notin Held \cup Parting \cup Off
  \/ pc[u] \in Held /\ pc'[u] \in Held /\ reg'[u].node = reg[u].node
ReadSame(u) ==
  \/ Same(u)
  \/ pc'[u] \notin Keeping \cup {"handle"}
  \/ pc[u] \in Keeping /\ pc'[u] \in Keeping /\ reg'[u].node = reg[u].node

LEMMA Bystanders ==
  ASSUME NEW A, Only(A), NEW u \in NetThreads \ A
  PROVE  TxSame(u) /\ RxSame(u) /\ ReadSame(u)
<1>1. Same(u) \/ Woke(u)
  BY Names DEF Only
<1>2. CASE Same(u)
  BY <1>2 DEF TxSame, RxSame, ReadSame
<1>3. CASE Woke(u)
  <2>1. pc[u] \in {"asleep", "waiting"} /\ pc'[u] = "lock"
    BY <1>3 DEF Woke
  <2>2. TxSame(u)
    BY <2>1 DEF TxSame, Sending
  <2>3. RxSame(u)
    BY <2>1 DEF RxSame, Parting, Off, Held
  <2>4. ReadSame(u)
    BY <2>1 DEF ReadSame, Keeping
  <2>5. QED
    BY <2>2, <2>3, <2>4
<1>4. QED
  BY <1>1, <1>2, <1>3

LEMMA TxKept ==
  ASSUME PlacesInv, TxInv, NEW A, Only(A), "send" \notin A, \A t \in NetThreads : t \in A => TxSame(t),
         UNCHANGED <<txVars, asked>>
  PROVE  TxInv'
<1>1. \A t \in NetThreads : TxSame(t)
  BY Bystanders
<1>2. Same("send")
  <2>1. Same("send") \/ Woke("send")
    BY Names DEF Only
  <2>2. pc["send"] \notin {"asleep", "waiting"}
    BY DEF PlacesInv, SendPlaces
  <2>3. QED
    BY <2>1, <2>2 DEF Woke
<1>3. pc'["send"] = pc["send"] /\ reg'["send"] = reg["send"]
  BY <1>2 DEF Same
<1>4. /\ tx' = tx /\ tx_own' = tx_own /\ base' = base /\ out' = out /\ coled' = coled
      /\ cur_tx' = cur_tx /\ wire' = wire /\ asked' = asked
  BY DEF txVars
<1>5. Linked(tx, TxNodes)'
  BY <1>4 DEF TxInv
<1>6. CASE Idle
  <2>1. \A t \in NetThreads : pc'[t] \notin Sending
    BY <1>1, <1>6 DEF Idle, TxSame, Same
  <2>2. \A t \in NetThreads : pc'[t] = "write" <=> pc[t] = "write"
    BY <1>1 DEF TxSame, Same
  <2>3. Idle'
    BY <1>3, <1>4, <1>6, <2>1, <2>2 DEF Idle, TwoLists
  <2>4. QED
    BY <1>5, <2>3 DEF TxInv
<1>7. \A t \in NetThreads : pc[t] \in Sending => pc'[t] = pc[t] /\ reg'[t] = reg[t]
  BY <1>1 DEF TxSame, Same
<1>8. CASE \E t \in NetThreads : Replying(t, cur_tx)
  <2>1. PICK t \in NetThreads : Replying(t, cur_tx)
    BY <1>8
  <2>2. pc[t] \in Sending
    BY <2>1 DEF Replying, Taking, Queueing, Giving, Sending
  <2>3. pc'[t] = pc[t] /\ reg'[t] = reg[t]
    BY <1>7, <2>2
  <2>4. Taking(t, cur_tx) => Taking(t, cur_tx)'
    BY <1>3, <1>4, <2>3 DEF Taking, TwoLists
  <2>5. Queueing(t, cur_tx) => Queueing(t, cur_tx)'
    BY <1>3, <1>4, <2>3 DEF Queueing, TwoLists
  <2>6. Giving(t, cur_tx) => Giving(t, cur_tx)'
    BY <1>3, <1>4, <2>3 DEF Giving, TwoLists
  <2>7. Replying(t, cur_tx)'
    BY <1>4, <2>1, <2>4, <2>5, <2>6 DEF Replying
  <2>8. QED
    BY <1>5, <2>7 DEF TxInv
<1>9. CASE \E t \in NetThreads, i \in Slots : Next1(i) = cur_tx /\ Replied(t, i)
  <2>1. PICK t \in NetThreads, i \in Slots : Next1(i) = cur_tx /\ Replied(t, i)
    BY <1>9
  <2>2. pc[t] \in Sending
    BY <2>1 DEF Replied, Freeing, Sending
  <2>3. pc'[t] = pc[t] /\ reg'[t] = reg[t]
    BY <1>7, <2>2
  <2>4. Freeing(t, i) => Freeing(t, i)'
    BY <1>3, <1>4, <2>3 DEF Freeing, TwoLists
  <2>5. (Next1(i) = cur_tx)' /\ Replied(t, i)'
    BY <1>4, <2>1, <2>4 DEF Replied
  <2>6. QED
    BY <1>5, <2>5 DEF TxInv
<1>10. CASE \E t \in NetThreads : asked = wire /\ Done(t)
  <2>1. PICK t \in NetThreads : asked = wire /\ Done(t)
    BY <1>10
  <2>2. pc[t] \in Sending
    BY <2>1 DEF Done, Sending
  <2>3. pc'[t] = pc[t] /\ reg'[t] = reg[t]
    BY <1>7, <2>2
  <2>4. (asked = wire)' /\ Done(t)'
    BY <1>3, <1>4, <2>1, <2>3 DEF Done, TwoLists
  <2>5. QED
    BY <1>5, <2>4 DEF TxInv
<1>11. QED
  BY <1>6, <1>8, <1>9, <1>10 DEF TxInv

RecvSame ==
  \/ Same("recv")
  \/ /\ pc["recv"] \notin {"link", "store"} /\ pc'["recv"] \notin {"link", "store"}
     /\ reg'["recv"].node \in Slots
     /\ pc'["recv"] \in Collecting => pc["recv"] \in Collecting /\ reg'["recv"].node = reg["recv"].node

LEMMA RxKept ==
  ASSUME PlacesInv, NEW s, RxInv(s), NEW A, Only(A), "recv" \in A => RecvSame,
         \A t \in NetThreads : t \in A => RxSame(t), rx' = rx, rx_own' \subseteq rx_own
  PROVE  RxInv(s)'
<1>1. \A t \in NetThreads : RxSame(t)
  BY Bystanders
<1>2. RecvSame
  <2>1. CASE Woke("recv")
    <3>1. pc["recv"] = "asleep" /\ pc'["recv"] = "lock" /\ reg'["recv"] = reg["recv"]
      BY <2>1 DEF Woke, PlacesInv, RecvPlaces
    <3>2. reg["recv"].node \in Slots
      BY DEF RxInv, RxLoop
    <3>3. QED
      BY <3>1, <3>2 DEF RecvSame, Collecting
  <2>2. CASE Same("recv")
    BY <2>2 DEF RecvSame
  <2>3. QED
    BY <2>1, <2>2, Names DEF Only
<1>3. RxList(s)'
  BY DEF RxInv, RxList
<1>4. /\ reg'["recv"].node \in Slots
      /\ pc'["recv"] \in Collecting => pc["recv"] \in Collecting /\ reg'["recv"].node = reg["recv"].node
      /\ pc'["recv"] = "store" => pc["recv"] = "store"
      /\ pc["recv"] \in {"link", "store"} \/ pc'["recv"] \in {"link", "store"} =>
           pc'["recv"] = pc["recv"] /\ reg'["recv"] = reg["recv"]
  BY <1>2 DEF RecvSame, Same, RxInv, RxLoop
<1>5. ASSUME NEW t \in NetThreads
      PROVE  RxReader(t, s)'
  <2>1. RxReader(t, s)
    BY DEF RxInv
  <2>2. CASE Same(t)
    <3>1. pc'[t] = pc[t] /\ reg'[t] = reg[t]
      BY <2>2 DEF Same
    <3>2. QED
      BY <1>4, <2>1, <3>1 DEF RxReader
  <2>3. CASE pc[t] \notin Parting \cup Off /\ pc'[t] \notin Held \cup Parting \cup Off
    BY <2>3 DEF RxReader, Parting, Off
  <2>4. CASE pc[t] \in Held /\ pc'[t] \in Held /\ reg'[t].node = reg[t].node
    BY <2>1, <2>4 DEF RxReader, Parting, Off, Held
  <2>5. QED
    BY <1>1, <2>2, <2>3, <2>4 DEF RxSame
<1>6. RxLoop(s)'
  <2>1. pc'["recv"] = "store" => pc["recv"] = "store"
    BY <1>4
  <2>2. QED
    BY <1>4, <2>1 DEF RxInv, RxLoop
<1>7. RxWhole(s)'
  <2>1. \A t \in NetThreads : pc[t] = "unlinked" => pc'[t] = "unlinked"
    BY <1>1 DEF RxSame, Same, Parting, Held
  <2>2. pc["recv"] = "store" => pc'["recv"] = "store"
    BY <1>4
  <2>3. QED
    BY <2>1, <2>2 DEF RxInv, RxWhole
<1>8. RxRest(s)'
  <2>1. \A t \in NetThreads : pc[t] = "reinit" => pc'[t] = "reinit" /\ reg'[t] = reg[t]
    BY <1>1 DEF RxSame, Same, Off, Held
  <2>2. pc["recv"] = "store" => pc'["recv"] = "store" /\ reg'["recv"] = reg["recv"]
    BY <1>4
  <2>3. QED
    BY <2>1, <2>2 DEF RxInv, RxRest
<1>9. QED
  BY <1>3, <1>5, <1>6, <1>7, <1>8 DEF RxInv

LEMMA ReadKept ==
  ASSUME ReadInv, NEW A, Only(A), \A t \in NetThreads : t \in A => ReadSame(t),
         arrived' = arrived, payload' = payload, rx_own' = rx_own, taken' = taken, buff' = buff
  PROVE  ReadInv'
<1>1. \A t \in NetThreads : ReadSame(t)
  BY Bystanders
<1>2. Frames' = Frames
  BY DEF Frames
<1>3. FramesInv'
  BY <1>2 DEF ReadInv, FramesInv
<1>4. ASSUME NEW t \in NetThreads
      PROVE  Buffer(t)'
  <2>1. Buffer(t)
    BY DEF ReadInv
  <2>2. CASE Same(t)
    <3>1. pc'[t] = pc[t] /\ reg'[t] = reg[t]
      BY <2>2 DEF Same
    <3>2. QED
      BY <1>2, <2>1, <3>1 DEF Buffer
  <2>3. CASE pc'[t] \notin Keeping \cup {"handle"}
    BY <2>3 DEF Buffer
  <2>4. CASE pc[t] \in Keeping /\ pc'[t] \in Keeping /\ reg'[t].node = reg[t].node
    BY <2>1, <2>4 DEF Buffer, Keeping
  <2>5. QED
    BY <1>1, <2>2, <2>3, <2>4 DEF ReadSame
<1>5. QED
  BY <1>3, <1>4 DEF ReadInv

-----------------------------------------------------------------------------
(* The stores on the transmit side: those on one list leave the other.     *)
LEMMA First ==
  ASSUME NEW D, NEW h, NEW s, Listed(D, h, s), s # <<>>, NEW l, Holds(l, h, s)
  PROVE  l.next[h] = s[1] /\ l.prev[s[1]] = h /\ l.next[s[1]] = Node(s, h, 2) /\ s[1] # h
<1>1. PICK m \in Nat : Len(s) = m /\ m >= 1
  <2>1. Len(s) \in Nat /\ Len(s) # 0
    BY LenProperties, EmptySeq DEF Listed
  <2>2. QED
    BY <2>1
<1>2. 0 \in 0 .. m /\ 1 \in 0 .. m /\ 0 + 1 = 1 /\ 1 + 1 = 2
  BY <1>1
<1>3. Node(s, h, 0) = h /\ Node(s, h, 1) = s[1] /\ s[1] # h
  <2>1. 1 \in 1 .. m
    BY <1>1
  <2>2. QED
    BY <1>1, <2>1, NodeOf
<1>4. l.next[Node(s, h, 0)] = Node(s, h, 1) /\ l.next[Node(s, h, 1)] = Node(s, h, 2)
  BY <1>1, <1>2 DEF Holds, Chain
<1>5. l.prev[Node(s, h, 1)] = Node(s, h, 0)
  BY <1>1, <1>2 DEF Holds, Backs
<1>6. QED
  BY <1>3, <1>4, <1>5

(* The nodes of one list are not those of the other.                       *)
LEMMA Sides ==
  ASSUME NEW i \in Slots
  PROVE  /\ \A n \in On(Rest(i)) \cup {FREE} : n \in TxNodes /\ n # i /\ n # BUSY
         /\ \A n \in On(Full(i)) \cup {FREE} : n \in TxNodes /\ n # BUSY
         /\ i \in TxNodes \ (On(Rest(i)) \cup {FREE}) /\ i \in TxNodes \ (On(<<>>) \cup {BUSY})
         /\ i # BUSY /\ i # FREE /\ FREE # BUSY /\ BUSY \in TxNodes
<1>1. On(Rest(i)) = Slots \ {i} /\ On(Full(i)) = Slots /\ On(<<>>) = {}
  BY TxListed DEF TxLists
<1>2. QED
  BY <1>1, Nodes

LEMMA TakeFirst ==
  ASSUME NEW i \in Slots, NEW l, Linked(l, TxNodes), Holds(l, FREE, Full(i)), Holds(l, BUSY, <<>>)
  PROVE  /\ l.next[FREE] = i /\ l.next[FREE] # FREE /\ l.prev[i] = FREE /\ l.next[i] = Next1(i)
         /\ l.next[BUSY] = BUSY /\ l.prev[BUSY] = BUSY
<1>1. TxLists(i) /\ Places1(i)
  BY TxListed, Rotated
<1>2. Full(i)[1] = i /\ Full(i) # <<>> /\ Listed(TxNodes, FREE, Full(i)) /\ Node(Full(i), FREE, 2) = Next1(i)
  BY <1>1 DEF TxLists, Places1
<1>3. /\ l.next[FREE] = Full(i)[1] /\ l.prev[Full(i)[1]] = FREE
      /\ l.next[Full(i)[1]] = Node(Full(i), FREE, 2) /\ Full(i)[1] # FREE
  BY <1>2, First
<1>4. l.next[BUSY] = Node(<<>>, BUSY, 1) /\ l.prev[BUSY] = Node(<<>>, BUSY, Len(<<>>))
  BY <1>1, Ends DEF TxLists, Holds
<1>5. Node(<<>>, BUSY, 1) = BUSY /\ Node(<<>>, BUSY, Len(<<>>)) = BUSY
  BY DEF Node
<1>6. QED
  BY <1>2, <1>3, <1>4, <1>5

LEMMA BusyEmpty ==
  ASSUME NEW l, Chain(l, BUSY, <<>>)
  PROVE  l.next[BUSY] = BUSY /\ (Backs(l, BUSY, <<>>) => l.prev[BUSY] = BUSY)
<1>1. Len(<<>>) = 0 /\ 0 \in 0 .. 0
  OBVIOUS
<1>2. l.next[Node(<<>>, BUSY, 0)] = Node(<<>>, BUSY, 1)
  BY <1>1 DEF Chain
<1>3. Backs(l, BUSY, <<>>) => l.prev[Node(<<>>, BUSY, 1)] = Node(<<>>, BUSY, 0)
  BY <1>1 DEF Backs
<1>4. Node(<<>>, BUSY, 0) = BUSY /\ Node(<<>>, BUSY, 1) = BUSY
  BY DEF Node
<1>5. QED
  BY <1>2, <1>3, <1>4

LEMMA FreeBypassed ==
  ASSUME NEW i \in Slots, NEW l, Linked(l, TxNodes), Holds(l, FREE, Full(i)), Holds(l, BUSY, <<>>),
         NEW r, r = Reg(i, FREE, Next1(i))
  PROVE  /\ Linked(Bypassed(l, r), TxNodes) /\ Leaving(Bypassed(l, r), FREE, Full(i))
         /\ Holds(Bypassed(l, r), BUSY, <<>>)
<1>1. TxLists(i)
  BY TxListed
<1>2. r.prev = FREE /\ r.next = Node(Full(i), FREE, 2)
  BY <1>1 DEF TxLists, Reg
<1>3. PICK k : k = Bypassed(l, r)
  OBVIOUS
<1>4. /\ Linked(k, TxNodes) /\ Leaving(k, FREE, Full(i)) /\ k.next = l.next
      /\ \A n \in TxNodes \ (On(Full(i)) \cup {FREE}) : k.prev[n] = l.prev[n]
  BY <1>1, <1>2, <1>3, Bypasses DEF TxLists
<1>5. SameAlong(l, k, BUSY, <<>>)
  BY <1>1, <1>4, Sides DEF TxLists, SameAlong
<1>6. Holds(k, BUSY, <<>>)
  BY <1>1, <1>5, ListKept DEF TxLists
<1>7. QED
  BY <1>3, <1>4, <1>6

LEMMA FreeRemoved ==
  ASSUME NEW i \in Slots, NEW l, Linked(l, TxNodes), Leaving(l, FREE, Full(i)), Holds(l, BUSY, <<>>),
         NEW r, r = Reg(i, FREE, Next1(i))
  PROVE  /\ Linked(Removed(l, r), TxNodes) /\ Holds(Removed(l, r), FREE, Rest(i))
         /\ Holds(Removed(l, r), BUSY, <<>>)
<1>1. TxLists(i)
  BY TxListed
<1>2. r.prev = FREE /\ r.next = Node(Full(i), FREE, 2)
  BY <1>1 DEF TxLists, Reg
<1>3. PICK k : k = Removed(l, r)
  OBVIOUS
<1>4. /\ Linked(k, TxNodes) /\ Holds(k, FREE, Tail(Full(i))) /\ k.prev = l.prev
      /\ \A n \in TxNodes \ {FREE} : k.next[n] = l.next[n]
  BY <1>1, <1>2, <1>3, Removes DEF TxLists
<1>5. SameAlong(l, k, BUSY, <<>>)
  BY <1>1, <1>4, Sides DEF TxLists, SameAlong
<1>6. Holds(k, BUSY, <<>>)
  BY <1>1, <1>5, ListKept DEF TxLists
<1>7. QED
  BY <1>1, <1>3, <1>4, <1>6 DEF TxLists

LEMMA BusyAttached ==
  ASSUME NEW i \in Slots, NEW l, Linked(l, TxNodes), Holds(l, FREE, Rest(i)), Holds(l, BUSY, <<>>),
         NEW r, r = Reg(i, BUSY, BUSY)
  PROVE  /\ Linked(Attached(l, r, BUSY), TxNodes) /\ Holds(Attached(l, r, BUSY), FREE, Rest(i))
         /\ Joining(Attached(l, r, BUSY), BUSY, <<>>, i)
<1>1. TxLists(i)
  BY TxListed
<1>2. r.prev = Node(<<>>, BUSY, Len(<<>>)) /\ r.node = i
  BY <1>1 DEF TxLists, Reg
<1>3. PICK k : k = Attached(l, r, BUSY)
  OBVIOUS
<1>4. i \in TxNodes \ (On(<<>>) \cup {BUSY})
  BY Sides
<1>5. /\ Linked(k, TxNodes) /\ Joining(k, BUSY, <<>>, i)
      /\ \A x \in TxNodes \ {i} : k.next[x] = l.next[x]
      /\ \A x \in TxNodes \ {i, BUSY} : k.prev[x] = l.prev[x]
  BY <1>1, <1>2, <1>3, <1>4, Attaches DEF TxLists
<1>6. SameAlong(l, k, FREE, Rest(i))
  BY <1>5, Sides DEF SameAlong
<1>7. Holds(k, FREE, Rest(i))
  BY <1>1, <1>6, ListKept DEF TxLists
<1>8. QED
  BY <1>3, <1>5, <1>7

LEMMA BusyAdded ==
  ASSUME NEW i \in Slots, NEW l, Linked(l, TxNodes), Holds(l, FREE, Rest(i)), Joining(l, BUSY, <<>>, i),
         NEW r, r = Reg(i, BUSY, BUSY)
  PROVE  Linked(Added(l, r), TxNodes) /\ Holds(Added(l, r), FREE, Rest(i)) /\ Holds(Added(l, r), BUSY, <<i>>)
<1>1. TxLists(i)
  BY TxListed
<1>2. r.prev = Node(<<>>, BUSY, Len(<<>>)) /\ r.node = i /\ r.prev = BUSY
  BY <1>1 DEF TxLists, Reg
<1>3. PICK k : k = Added(l, r)
  OBVIOUS
<1>4. i \in TxNodes \ (On(<<>>) \cup {BUSY})
  BY Sides
<1>5. /\ Linked(k, TxNodes) /\ Holds(k, BUSY, Append(<<>>, i)) /\ k.prev = l.prev
      /\ \A x \in TxNodes \ {r.prev} : k.next[x] = l.next[x]
  <2>1. PICK s : s = <<>>
    OBVIOUS
  <2>2. /\ Listed(TxNodes, BUSY, s) /\ i \in TxNodes \ (On(s) \cup {BUSY})
        /\ r.prev = Node(s, BUSY, Len(s)) /\ Joining(l, BUSY, s, i)
    BY <1>1, <1>2, <1>4, <2>1 DEF TxLists
  <2>3. /\ Linked(k, TxNodes) /\ Holds(k, BUSY, Append(s, i)) /\ k.prev = l.prev
        /\ \A x \in TxNodes \ {r.prev} : k.next[x] = l.next[x]
    BY <1>2, <1>3, <2>2, Adds
  <2>4. QED
    BY <2>1, <2>3
<1>6. SameAlong(l, k, FREE, Rest(i))
  BY <1>2, <1>5, Sides DEF SameAlong
<1>7. Holds(k, FREE, Rest(i))
  BY <1>1, <1>6, ListKept DEF TxLists
<1>8. QED
  BY <1>1, <1>3, <1>5, <1>7 DEF TxLists

LEMMA BusyFirst ==
  ASSUME NEW i \in Slots, NEW l, Holds(l, BUSY, <<i>>)
  PROVE  l.next[BUSY] = i /\ l.prev[i] = BUSY /\ l.next[i] = BUSY
<1>1. TxLists(i)
  BY TxListed
<1>2. Listed(TxNodes, BUSY, <<i>>) /\ <<i>>[1] = i /\ <<i>> # <<>> /\ Node(<<i>>, BUSY, 2) = BUSY
  BY <1>1 DEF TxLists
<1>3. PICK s : s = <<i>>
  OBVIOUS
<1>4. l.next[BUSY] = s[1] /\ l.prev[s[1]] = BUSY /\ l.next[s[1]] = Node(s, BUSY, 2)
  BY <1>2, <1>3, First
<1>5. QED
  BY <1>2, <1>3, <1>4

LEMMA BusyBypassed ==
  ASSUME NEW i \in Slots, NEW l, Linked(l, TxNodes), Holds(l, FREE, Rest(i)), Holds(l, BUSY, <<i>>),
         NEW r, r = Reg(i, BUSY, BUSY)
  PROVE  /\ Linked(Bypassed(l, r), TxNodes) /\ Holds(Bypassed(l, r), FREE, Rest(i))
         /\ Leaving(Bypassed(l, r), BUSY, <<i>>)
<1>1. TxLists(i)
  BY TxListed
<1>2. r.prev = BUSY /\ r.next = Node(<<i>>, BUSY, 2) /\ <<i>> # <<>>
  BY <1>1 DEF TxLists, Reg
<1>3. PICK k : k = Bypassed(l, r)
  OBVIOUS
<1>4. /\ Linked(k, TxNodes) /\ Leaving(k, BUSY, <<i>>) /\ k.next = l.next
      /\ \A n \in TxNodes \ (On(<<i>>) \cup {BUSY}) : k.prev[n] = l.prev[n]
  <2>1. PICK s : s = <<i>>
    OBVIOUS
  <2>2. Listed(TxNodes, BUSY, s) /\ s # <<>> /\ r.next = Node(s, BUSY, 2) /\ Holds(l, BUSY, s)
    BY <1>1, <1>2, <2>1 DEF TxLists
  <2>3. /\ Linked(k, TxNodes) /\ Leaving(k, BUSY, s) /\ k.next = l.next
        /\ \A n \in TxNodes \ (On(s) \cup {BUSY}) : k.prev[n] = l.prev[n]
    BY <1>2, <1>3, <2>2, Bypasses
  <2>4. QED
    BY <2>1, <2>3
<1>5. SameAlong(l, k, FREE, Rest(i))
  BY <1>1, <1>4, Sides DEF SameAlong, TxLists
<1>6. Holds(k, FREE, Rest(i))
  BY <1>1, <1>5, ListKept DEF TxLists
<1>7. QED
  BY <1>3, <1>4, <1>6

LEMMA BusyRemoved ==
  ASSUME NEW i \in Slots, NEW l, Linked(l, TxNodes), Holds(l, FREE, Rest(i)), Leaving(l, BUSY, <<i>>),
         NEW r, r = Reg(i, BUSY, BUSY)
  PROVE  Linked(Removed(l, r), TxNodes) /\ Holds(Removed(l, r), FREE, Rest(i)) /\ Holds(Removed(l, r), BUSY, <<>>)
<1>1. TxLists(i)
  BY TxListed
<1>2. r.prev = BUSY /\ r.next = Node(<<i>>, BUSY, 2) /\ <<i>> # <<>>
  BY <1>1 DEF TxLists, Reg
<1>3. PICK k : k = Removed(l, r)
  OBVIOUS
<1>4. /\ Linked(k, TxNodes) /\ Holds(k, BUSY, Tail(<<i>>)) /\ k.prev = l.prev
      /\ \A n \in TxNodes \ {BUSY} : k.next[n] = l.next[n]
  <2>1. PICK s : s = <<i>>
    OBVIOUS
  <2>2. Listed(TxNodes, BUSY, s) /\ s # <<>> /\ r.next = Node(s, BUSY, 2) /\ Leaving(l, BUSY, s)
    BY <1>1, <1>2, <2>1 DEF TxLists
  <2>3. /\ Linked(k, TxNodes) /\ Holds(k, BUSY, Tail(s)) /\ k.prev = l.prev
        /\ \A n \in TxNodes \ {BUSY} : k.next[n] = l.next[n]
    BY <1>2, <1>3, <2>2, Removes
  <2>4. QED
    BY <2>1, <2>3
<1>5. SameAlong(l, k, FREE, Rest(i))
  BY <1>4, Sides DEF SameAlong
<1>6. Holds(k, FREE, Rest(i))
  BY <1>1, <1>5, ListKept DEF TxLists
<1>7. QED
  BY <1>1, <1>3, <1>4, <1>6 DEF TxLists

LEMMA FreeLast ==
  ASSUME NEW i \in Slots, NEW l, Holds(l, FREE, Rest(i))
  PROVE  l.prev[FREE] = Node(Rest(i), FREE, RING - 1)
<1>1. TxLists(i)
  BY TxListed
<1>2. l.prev[FREE] = Node(Rest(i), FREE, Len(Rest(i)))
  BY <1>1, Ends DEF TxLists, Holds
<1>3. QED
  BY <1>1, <1>2 DEF TxLists

LEMMA FreeAttached ==
  ASSUME NEW i \in Slots, NEW l, Linked(l, TxNodes), Holds(l, FREE, Rest(i)), Holds(l, BUSY, <<>>),
         NEW r, r = Reg(i, Node(Rest(i), FREE, RING - 1), FREE)
  PROVE  /\ Linked(Attached(l, r, FREE), TxNodes) /\ Joining(Attached(l, r, FREE), FREE, Rest(i), i)
         /\ Holds(Attached(l, r, FREE), BUSY, <<>>)
<1>1. TxLists(i)
  BY TxListed
<1>2. r.prev = Node(Rest(i), FREE, Len(Rest(i))) /\ r.node = i
  BY <1>1 DEF TxLists, Reg
<1>3. PICK k : k = Attached(l, r, FREE)
  OBVIOUS
<1>4. i \in TxNodes \ (On(Rest(i)) \cup {FREE})
  BY Sides
<1>5. /\ Linked(k, TxNodes) /\ Joining(k, FREE, Rest(i), i)
      /\ \A x \in TxNodes \ {i} : k.next[x] = l.next[x]
      /\ \A x \in TxNodes \ {i, FREE} : k.prev[x] = l.prev[x]
  BY <1>1, <1>2, <1>3, <1>4, Attaches DEF TxLists
<1>6. SameAlong(l, k, BUSY, <<>>)
  BY <1>1, <1>5, Sides DEF SameAlong, TxLists
<1>7. Holds(k, BUSY, <<>>)
  BY <1>1, <1>6, ListKept DEF TxLists
<1>8. QED
  BY <1>3, <1>5, <1>7

LEMMA FreeAdded ==
  ASSUME NEW i \in Slots, NEW l, Linked(l, TxNodes), Joining(l, FREE, Rest(i), i), Holds(l, BUSY, <<>>),
         NEW r, r = Reg(i, Node(Rest(i), FREE, RING - 1), FREE)
  PROVE  /\ Linked(Added(l, r), TxNodes) /\ Holds(Added(l, r), FREE, Full(Next1(i)))
         /\ Holds(Added(l, r), BUSY, <<>>)
<1>1. TxLists(i)
  BY TxListed
<1>2. r.prev = Node(Rest(i), FREE, Len(Rest(i))) /\ r.node = i
  BY <1>1 DEF TxLists, Reg
<1>3. PICK k : k = Added(l, r)
  OBVIOUS
<1>4. i \in TxNodes \ (On(Rest(i)) \cup {FREE})
  BY Sides
<1>5. /\ Linked(k, TxNodes) /\ Holds(k, FREE, Append(Rest(i), i)) /\ k.prev = l.prev
      /\ r.prev \in On(Rest(i)) \cup {FREE}
      /\ \A x \in TxNodes \ {r.prev} : k.next[x] = l.next[x]
  <2>1. PICK s : s = Rest(i)
    OBVIOUS
  <2>2. /\ Listed(TxNodes, FREE, s) /\ i \in TxNodes \ (On(s) \cup {FREE})
        /\ r.prev = Node(s, FREE, Len(s)) /\ Joining(l, FREE, s, i)
    BY <1>1, <1>2, <1>4, <2>1 DEF TxLists
  <2>3. QED
    BY <1>2, <1>3, <2>1, <2>2, Adds
<1>6. BUSY \in TxNodes \ {r.prev}
  BY <1>5, Sides
<1>7. SameAlong(l, k, BUSY, <<>>)
  BY <1>1, <1>5, <1>6 DEF SameAlong, TxLists
<1>8. Holds(k, BUSY, <<>>)
  BY <1>1, <1>7, ListKept DEF TxLists
<1>9. QED
  BY <1>1, <1>3, <1>5, <1>8 DEF TxLists

-----------------------------------------------------------------------------
(* Who is where while a net thread is alive.                               *)
LEMMA SendStays ==
  ASSUME PlacesInv, NEW A, Only(A), "send" \notin A
  PROVE  pc'["send"] = pc["send"] /\ reg'["send"] = reg["send"]
<1>1. Same("send") \/ Woke("send")
  BY Names DEF Only
<1>2. pc["send"] \notin {"asleep", "waiting"}
  BY DEF PlacesInv, SendPlaces
<1>3. QED
  BY <1>1, <1>2 DEF Woke, Same

LEMMA OthersAway ==
  ASSUME PlacesInv, SessionInv, NEW t \in NetThreads, Alive(t), NEW A, Only(A),
         \A u \in NetThreads : u \in A => u = t
  PROVE  \A u \in NetThreads \ {t} : pc[u] \in {"none", "dead"} /\ pc'[u] = pc[u]
<1> TAKE u \in NetThreads \ {t}
<1>1. ~Alive(u)
  BY DEF SessionInv
<1>2. pc[u] \in {"none", "dead"}
  BY <1>1 DEF Alive
<1>3. Same(u) \/ Woke(u)
  BY Names DEF Only
<1>4. QED
  BY <1>2, <1>3 DEF Same, Woke

LEMMA TxOfWriter ==
  ASSUME SessionInv, TxInv, NEW t \in NetThreads, pc[t] \in Sending
  PROVE  \/ Replying(t, cur_tx)
         \/ \E i \in Slots : Next1(i) = cur_tx /\ Replied(t, i)
         \/ asked = wire /\ Done(t)
<1>1. Alive(t)
  BY DEF Alive, Sending
<1>2. ASSUME NEW u \in NetThreads, pc[u] \in Sending
      PROVE  u = t
  BY <1>1, <1>2 DEF SessionInv, Alive, Sending
<1>3. ~Idle
  BY DEF Idle
<1>4. ASSUME NEW u \in NetThreads, Replying(u, cur_tx)
      PROVE  Replying(t, cur_tx)
  <2>1. pc[u] \in Sending
    BY <1>4 DEF Replying, Taking, Queueing, Giving, Sending
  <2>2. QED
    BY <1>2, <1>4, <2>1
<1>5. ASSUME NEW u \in NetThreads, NEW i \in Slots, Next1(i) = cur_tx, Replied(u, i)
      PROVE  Next1(i) = cur_tx /\ Replied(t, i)
  <2>1. pc[u] \in Sending
    BY <1>5 DEF Replied, Freeing, Sending
  <2>2. QED
    BY <1>2, <1>5, <2>1
<1>6. ASSUME NEW u \in NetThreads, asked = wire, Done(u)
      PROVE  asked = wire /\ Done(t)
  <2>1. pc[u] \in Sending
    BY <1>6 DEF Done, Sending
  <2>2. QED
    BY <1>2, <1>6, <2>1
<1>7. QED
  BY <1>3, <1>4, <1>5, <1>6 DEF TxInv

LEMMA TxOfOthers ==
  ASSUME SessionInv, TxInv, NEW t \in NetThreads, Alive(t), pc[t] \notin Sending
  PROVE  Idle
<1>1. \A u \in NetThreads : pc[u] \notin Sending
  BY DEF SessionInv, Alive, Sending
<1>2. ASSUME NEW u \in NetThreads, Replying(u, cur_tx)
      PROVE  FALSE
  BY <1>1, <1>2 DEF Replying, Taking, Queueing, Giving, Sending
<1>3. ASSUME NEW u \in NetThreads, NEW i \in Slots, Replied(u, i)
      PROVE  FALSE
  BY <1>1, <1>3 DEF Replied, Freeing, Sending
<1>4. ASSUME NEW u \in NetThreads, Done(u)
      PROVE  FALSE
  BY <1>1, <1>4 DEF Done, Sending
<1>5. QED
  BY <1>2, <1>3, <1>4 DEF TxInv

LEMMA TxOfSender ==
  ASSUME SessionInv, TxInv, pc["send"] # "poll"
  PROVE  \E t \in NetThreads :
           \/ asked = Append(wire, out[t]) /\ Giving(t, cur_tx)
           \/ asked = wire /\ \E i \in Slots : Next1(i) = cur_tx /\ Freeing(t, i)
<1>1. ~Idle /\ \A t \in NetThreads, i \in Slots : ~Taking(t, i) /\ ~Queueing(t, i) /\ ~Done(t)
  BY DEF Idle, Taking, Queueing, Done
<1>2. CASE \E t \in NetThreads : Replying(t, cur_tx)
  <2>1. PICK t \in NetThreads : Replying(t, cur_tx)
    BY <1>2
  <2>2. asked = Append(wire, out[t]) /\ Giving(t, cur_tx)
    BY <2>1 DEF Replying, Taking, Queueing
  <2>3. QED
    BY <2>2
<1>3. CASE \E t \in NetThreads, i \in Slots : Next1(i) = cur_tx /\ Replied(t, i)
  BY <1>3 DEF Replied
<1>4. QED
  BY <1>1, <1>2, <1>3 DEF TxInv, Done

-----------------------------------------------------------------------------
(* The writer.                                                             *)
LEMMA TakeTx ==
  ASSUME TypeInv, SessionInv, TxInv, NEW t \in NetThreads, NEW full, Take(t, full), asked' = asked
  PROVE  TxInv' /\ Only({t}) /\ pc'[t] = "take"
<1>1. pc[t] = "write" /\ t \in Threads /\ Alive(t) /\ pc[t] \notin Sending
  BY Names DEF Take, At, Alive, Sending
<1>2. Idle
  BY <1>1, TxOfOthers
<1>3. PICK i \in Slots : i = cur_tx
  BY DEF TypeInv, DataInv
<1>4. Linked(tx, TxNodes) /\ Holds(tx, FREE, Full(i)) /\ Holds(tx, BUSY, <<>>)
  BY <1>2, <1>3 DEF Idle, TwoLists, TxInv
<1>5. tx.next[FREE] = i /\ tx.next[FREE] # FREE /\ tx.prev[i] = FREE /\ tx.next[i] = Next1(i)
  BY <1>4, TakeFirst
<1>6. Goto(t, "take") /\ reg' = [reg EXCEPT ![t] = Reg(i, FREE, Next1(i))]
  BY <1>5 DEF Take, list_empty, Load, SetReg, Reg
<1>7. Only({t}) /\ pc'[t] = "take" /\ reg'[t] = Reg(i, FREE, Next1(i))
  BY <1>1, <1>6, Moving DEF TypeInv
<1>8. pc'["send"] = pc["send"]
  BY <1>7, SendStays, Names DEF TypeInv
<1>9. UNCHANGED txVars
  BY DEF Take
<1>10. tx' = tx /\ tx_own' = tx_own /\ coled' = coled /\ out' = out /\ wire' = wire /\ cur_tx' = cur_tx
  BY <1>9 DEF txVars
<1>11. asked = Append(wire, out[t])
  BY <1>1, <1>2 DEF Idle
<1>12. Taking(t, cur_tx)'
  BY <1>2, <1>3, <1>4, <1>7, <1>8, <1>10 DEF Idle, Taking, TwoLists
<1>13. Replying(t, cur_tx)'
  BY <1>10, <1>11, <1>12 DEF Replying
<1>14. Linked(tx, TxNodes)'
  BY <1>4, <1>10
<1>15. QED
  BY <1>7, <1>13, <1>14 DEF TxInv

LEMMA CollectTxTx ==
  ASSUME TypeInv, SessionInv, TxInv, NEW t \in NetThreads, CollectTx(t), asked' = asked
  PROVE  TxInv' /\ Only({t}) /\ pc[t] \in Sending /\ pc'[t] \in Sending
<1>1. pc[t] \in {"take", "taken", "base", "queue", "queued"} /\ pc[t] \in Sending /\ t \in Threads
  BY Names DEF CollectTx, At, Sending
<1>2. Replying(t, cur_tx)
  <2>1. \A i \in Slots : ~Freeing(t, i)
    BY <1>1 DEF Freeing
  <2>2. ~Done(t)
    BY <1>1 DEF Done
  <2>3. QED
    BY <1>1, <2>1, <2>2, TxOfWriter DEF Replied
<1>3. asked = Append(wire, out[t]) /\ (Taking(t, cur_tx) \/ Queueing(t, cur_tx))
  BY <1>1, <1>2 DEF Replying, Giving
<1>4. PICK i \in Slots : i = cur_tx
  BY DEF TypeInv, DataInv
<1>5. Linked(tx, TxNodes)
  BY DEF TxInv
<1>6. out' = out /\ wire' = wire /\ cur_tx' = cur_tx /\ tx_own' = tx_own
  BY DEF CollectTx
<1>7. asked' = Append(wire', out'[t])
  BY <1>3, <1>6
<1>8. ASSUME At(t, "take"), tx' = Bypassed(tx, reg[t]), Goto(t, "taken"),
             UNCHANGED <<rxVars, reg, tx_own, base, out, coled, cur_tx, wire, locked>>
      PROVE  TxInv' /\ Only({t}) /\ pc'[t] = "taken"
  <2>1. Only({t}) /\ pc'[t] = "taken" /\ reg'[t] = reg[t]
    BY <1>1, <1>8, Moving DEF TypeInv
  <2>2. pc'["send"] = pc["send"]
    BY <2>1, SendStays, Names DEF TypeInv
  <2>3. /\ pc["send"] = "poll" /\ tx_own = {} /\ coled = {}
        /\ Holds(tx, FREE, Full(i)) /\ Holds(tx, BUSY, <<>>) /\ reg[t] = Reg(i, FREE, Next1(i))
    BY <1>3, <1>4, <1>8 DEF At, Taking, Queueing, TwoLists
  <2>4. Linked(tx', TxNodes) /\ Leaving(tx', FREE, Full(i)) /\ Holds(tx', BUSY, <<>>)
    BY <1>5, <1>8, <2>3, FreeBypassed
  <2>5. Taking(t, cur_tx)'
    BY <1>4, <1>6, <1>8, <2>1, <2>2, <2>3, <2>4 DEF Taking
  <2>6. QED
    BY <1>7, <2>1, <2>4, <2>5 DEF TxInv, Replying
<1>9. ASSUME At(t, "taken"), tx' = Removed(tx, reg[t]), Goto(t, "base"),
             UNCHANGED <<rxVars, reg, tx_own, base, out, coled, cur_tx, wire, locked>>
      PROVE  TxInv' /\ Only({t}) /\ pc'[t] = "base"
  <2>1. Only({t}) /\ pc'[t] = "base" /\ reg'[t] = reg[t]
    BY <1>1, <1>9, Moving DEF TypeInv
  <2>2. pc'["send"] = pc["send"]
    BY <2>1, SendStays, Names DEF TypeInv
  <2>3. /\ pc["send"] = "poll" /\ tx_own = {} /\ coled = {}
        /\ Leaving(tx, FREE, Full(i)) /\ Holds(tx, BUSY, <<>>) /\ reg[t] = Reg(i, FREE, Next1(i))
    BY <1>3, <1>4, <1>9 DEF At, Taking, Queueing
  <2>4. Linked(tx', TxNodes) /\ Holds(tx', FREE, Rest(i)) /\ Holds(tx', BUSY, <<>>)
    BY <1>5, <1>9, <2>3, FreeRemoved
  <2>5. reg'[t].node = i
    BY <2>1, <2>3 DEF Reg
  <2>6. Taking(t, cur_tx)'
    BY <1>4, <1>6, <1>9, <2>1, <2>2, <2>3, <2>4, <2>5 DEF Taking, TwoLists
  <2>7. QED
    BY <1>7, <2>1, <2>4, <2>6 DEF TxInv, Replying
<1>10. ASSUME At(t, "base"), base' = [base EXCEPT ![reg[t].node] = t],
              coled' = coled \cup {reg[t].node}, LoadTail(t, tx, BUSY), Goto(t, "queue"),
              UNCHANGED <<rxVars, tx, tx_own, out, cur_tx, wire, locked>>
       PROVE  TxInv' /\ Only({t}) /\ pc'[t] = "queue"
  <2>1. /\ pc["send"] = "poll" /\ tx_own = {} /\ coled = {}
        /\ Holds(tx, FREE, Rest(i)) /\ Holds(tx, BUSY, <<>>) /\ reg[t].node = i
    BY <1>3, <1>4, <1>10 DEF At, Taking, Queueing, TwoLists
  <2>2. tx.prev[BUSY] = BUSY
    BY <2>1, BusyEmpty DEF Holds
  <2>3. reg' = [reg EXCEPT ![t] = Reg(i, BUSY, BUSY)]
    BY <1>10, <2>1, <2>2 DEF LoadTail, SetReg, Reg
  <2>4. Only({t}) /\ pc'[t] = "queue" /\ reg'[t] = Reg(i, BUSY, BUSY)
    BY <1>1, <1>10, <2>3, Moving DEF TypeInv
  <2>5. pc'["send"] = pc["send"]
    BY <2>4, SendStays, Names DEF TypeInv
  <2>6. base'[i] = t /\ coled' = {i}
    BY <1>10, <2>1 DEF TypeInv, DataInv
  <2>7. tx' = tx
    BY <1>10
  <2>8. Queueing(t, cur_tx)'
    BY <1>4, <1>6, <2>1, <2>4, <2>5, <2>6, <2>7 DEF Queueing, TwoLists
  <2>9. QED
    BY <1>5, <1>7, <2>4, <2>7, <2>8 DEF TxInv, Replying
<1>11. ASSUME At(t, "queue"), tx' = Attached(tx, reg[t], BUSY), Goto(t, "queued"),
              UNCHANGED <<rxVars, reg, tx_own, base, out, coled, cur_tx, wire, locked>>
       PROVE  TxInv' /\ Only({t}) /\ pc'[t] = "queued"
  <2>1. Only({t}) /\ pc'[t] = "queued" /\ reg'[t] = reg[t]
    BY <1>1, <1>11, Moving DEF TypeInv
  <2>2. pc'["send"] = pc["send"]
    BY <2>1, SendStays, Names DEF TypeInv
  <2>3. /\ pc["send"] = "poll" /\ tx_own = {} /\ coled = {i} /\ base[i] = t
        /\ Holds(tx, FREE, Rest(i)) /\ Holds(tx, BUSY, <<>>) /\ reg[t] = Reg(i, BUSY, BUSY)
    BY <1>3, <1>4, <1>11 DEF At, Taking, Queueing, TwoLists
  <2>4. Linked(tx', TxNodes) /\ Holds(tx', FREE, Rest(i)) /\ Joining(tx', BUSY, <<>>, i)
    BY <1>5, <1>11, <2>3, BusyAttached
  <2>5. Queueing(t, cur_tx)'
    BY <1>4, <1>6, <1>11, <2>1, <2>2, <2>3, <2>4 DEF Queueing
  <2>6. QED
    BY <1>7, <2>1, <2>4, <2>5 DEF TxInv, Replying
<1>12. ASSUME At(t, "queued"), tx' = Added(tx, reg[t]), Goto(t, "spin"),
              UNCHANGED <<rxVars, reg, tx_own, base, out, coled, cur_tx, wire, locked>>
       PROVE  TxInv' /\ Only({t}) /\ pc'[t] = "spin"
  <2>1. Only({t}) /\ pc'[t] = "spin" /\ reg'[t] = reg[t]
    BY <1>1, <1>12, Moving DEF TypeInv
  <2>2. pc'["send"] = pc["send"]
    BY <2>1, SendStays, Names DEF TypeInv
  <2>3. /\ pc["send"] = "poll" /\ tx_own = {} /\ coled = {i} /\ base[i] = t
        /\ Holds(tx, FREE, Rest(i)) /\ Joining(tx, BUSY, <<>>, i) /\ reg[t] = Reg(i, BUSY, BUSY)
    BY <1>3, <1>4, <1>12 DEF At, Taking, Queueing
  <2>4. Linked(tx', TxNodes) /\ Holds(tx', FREE, Rest(i)) /\ Holds(tx', BUSY, <<i>>)
    BY <1>5, <1>12, <2>3, BusyAdded
  <2>5. reg'[t].node = i
    BY <2>1, <2>3 DEF Reg
  <2>6. Queueing(t, cur_tx)'
    BY <1>4, <1>6, <1>12, <2>1, <2>2, <2>3, <2>4, <2>5 DEF Queueing, TwoLists
  <2>7. QED
    BY <1>7, <2>1, <2>4, <2>6 DEF TxInv, Replying
<1>13. QED
  BY <1>1, <1>8, <1>9, <1>10, <1>11, <1>12 DEF CollectTx, Sending

LEMMA SentTx ==
  ASSUME TypeInv, SessionInv, TxInv, NEW t \in NetThreads, Sent(t, "loop"), asked' = asked
  PROVE  TxInv' /\ Only({t}) /\ pc'[t] = "loop" /\ pc[t] = "spin"
<1>1. pc[t] = "spin" /\ pc[t] \in Sending /\ reg[t].node \notin coled /\ t \in Threads /\ Alive(t)
  BY Names DEF Sent, At, Sending, Alive
<1>2. asked = wire /\ Done(t)
  <2>1. ~Replying(t, cur_tx)
    BY <1>1 DEF Replying, Taking, Queueing, Giving
  <2>2. \A i \in Slots : ~Replied(t, i)
    BY <1>1 DEF Replied, Freeing
  <2>3. QED
    BY <1>1, <2>1, <2>2, TxOfWriter
<1>3. Only({t}) /\ pc'[t] = "loop"
  <2>1. Goto(t, "loop") /\ reg' = [reg EXCEPT ![t] = Reg(0, 0, 0)]
    BY DEF Sent, SetReg, Reg
  <2>2. QED
    BY <1>1, <2>1, Moving DEF TypeInv
<1>4. pc'["send"] = pc["send"]
  BY <1>3, SendStays, Names DEF TypeInv
<1>5. \A u \in NetThreads \ {t} : pc'[u] \in {"none", "dead"}
  BY <1>1, <1>3, OthersAway DEF TypeInv
<1>6. \A u \in NetThreads : pc'[u] \notin Sending /\ pc'[u] # "write"
  BY <1>3, <1>5 DEF Sending
<1>7. tx' = tx /\ tx_own' = tx_own /\ coled' = coled /\ cur_tx' = cur_tx /\ wire' = wire
  BY DEF Sent
<1>8. Idle'
  BY <1>2, <1>4, <1>6, <1>7 DEF Done, Idle, TwoLists
<1>9. Linked(tx, TxNodes)'
  BY <1>7 DEF TxInv
<1>10. QED
  BY <1>1, <1>3, <1>8, <1>9 DEF TxInv

-----------------------------------------------------------------------------
(* The send loop.                                                          *)
LEMMA SenderStays ==
  ASSUME PlacesInv, NEW A, Only(A), NEW t \in NetThreads \ A, pc[t] \in Sending
  PROVE  pc'[t] = pc[t] /\ reg'[t] = reg[t]
<1>1. Same(t) \/ Woke(t)
  BY Names DEF Only
<1>2. QED
  BY <1>1 DEF Woke, Same, Sending

(* Only a writer that waits has put an entry on the busy list.             *)
LEMMA BusyWaits ==
  ASSUME TypeInv, TxInv, pc["send"] = "poll", ~list_empty(tx, BUSY)
  PROVE  \E t \in NetThreads :
           /\ asked = Append(wire, out[t]) /\ pc[t] = "spin"
           /\ tx_own = {} /\ coled = {cur_tx} /\ base[cur_tx] = t /\ reg[t].node = cur_tx
           /\ TwoLists(Rest(cur_tx), <<cur_tx>>)
<1>1. tx.next[BUSY] # BUSY
  BY DEF list_empty
<1>2. ~Chain(tx, BUSY, <<>>)
  BY <1>1, BusyEmpty
<1>3. \A f : ~TwoLists(f, <<>>) /\ ~Holds(tx, BUSY, <<>>)
  BY <1>2 DEF TwoLists, Holds
<1>4. \A i : ~Joining(tx, BUSY, <<>>, i)
  BY <1>2 DEF Joining
<1>5. ~Idle
  BY <1>3 DEF Idle
<1>6. \A t \in NetThreads : ~Taking(t, cur_tx) /\ ~Giving(t, cur_tx) /\ ~Done(t)
  BY <1>3 DEF Taking, Giving, Done
<1>7. \A t \in NetThreads, i \in Slots : ~Replied(t, i)
  BY DEF Replied, Freeing
<1>8. PICK t \in NetThreads : Replying(t, cur_tx)
  BY <1>5, <1>6, <1>7 DEF TxInv
<1>9. asked = Append(wire, out[t]) /\ Queueing(t, cur_tx)
  BY <1>6, <1>8 DEF Replying
<1>10. /\ pc[t] = "spin" /\ tx_own = {} /\ coled = {cur_tx} /\ base[cur_tx] = t
       /\ reg[t].node = cur_tx /\ TwoLists(Rest(cur_tx), <<cur_tx>>)
  BY <1>3, <1>4, <1>9 DEF Queueing
<1>11. QED
  BY <1>9, <1>10

LEMMA PollTx ==
  ASSUME TypeInv, SessionInv, TxInv, Poll, asked' = asked
  PROVE  TxInv' /\ Only({"send"}) /\ pc'["send"] = "take"
<1>1. pc["send"] = "poll" /\ ~list_empty(tx, BUSY)
  BY DEF Poll, At
<1>2. PICK t \in NetThreads :
         /\ asked = Append(wire, out[t]) /\ pc[t] = "spin"
         /\ tx_own = {} /\ coled = {cur_tx} /\ base[cur_tx] = t /\ reg[t].node = cur_tx
         /\ TwoLists(Rest(cur_tx), <<cur_tx>>)
  BY <1>1, BusyWaits
<1>3. PICK i \in Slots : i = cur_tx
  BY DEF TypeInv, DataInv
<1>4. Holds(tx, BUSY, <<i>>)
  BY <1>2, <1>3 DEF TwoLists
<1>5. tx.next[BUSY] = i /\ tx.prev[i] = BUSY /\ tx.next[i] = BUSY
  BY <1>4, BusyFirst
<1>6. Goto("send", "take") /\ reg' = [reg EXCEPT !["send"] = Reg(i, BUSY, BUSY)]
  BY <1>5 DEF Poll, Load, SetReg, Reg
<1>7. Only({"send"}) /\ pc'["send"] = "take" /\ reg'["send"] = Reg(i, BUSY, BUSY)
  BY <1>6, Moving, Names DEF TypeInv
<1>8. pc'[t] = "spin" /\ reg'[t] = reg[t]
  BY <1>2, <1>7, SenderStays, Names DEF TypeInv, Sending
<1>9. UNCHANGED txVars
  BY DEF Poll
<1>10. /\ tx' = tx /\ tx_own' = tx_own /\ coled' = coled /\ out' = out /\ wire' = wire
       /\ cur_tx' = cur_tx /\ base' = base
  BY <1>9 DEF txVars
<1>11. reg'["send"].node = i
  BY <1>7 DEF Reg
<1>12. Giving(t, cur_tx)'
  BY <1>2, <1>3, <1>7, <1>8, <1>10, <1>11 DEF Giving, TwoLists
<1>13. Linked(tx, TxNodes)'
  BY <1>10 DEF TxInv
<1>14. QED
  BY <1>2, <1>7, <1>10, <1>12, <1>13 DEF TxInv, Replying

LEMMA DecollectTxTx ==
  ASSUME TypeInv, SessionInv, TxInv, DecollectTx, asked' = asked
  PROVE  TxInv' /\ Only({"send"}) /\ pc'["send"] \in SendPlaces
<1>0. PICK j : j = reg["send"].node
  OBVIOUS
<1>1. pc["send"] \in {"take", "taken", "give", "wait", "free", "freed", "done"}
  BY DEF DecollectTx, At
<1>2. PICK t \in NetThreads :
           \/ asked = Append(wire, out[t]) /\ Giving(t, cur_tx)
           \/ asked = wire /\ \E i \in Slots : Next1(i) = cur_tx /\ Freeing(t, i)
  BY <1>1, TxOfSender
<1>3. Linked(tx, TxNodes)
  BY DEF TxInv
<1>4. pc[t] = "spin"
  BY <1>2 DEF Giving, Freeing
<1>5. out' = out /\ wire' = wire /\ cur_tx' = cur_tx /\ base' = base
  BY DEF DecollectTx, txVars
<1>6. ASSUME Only({"send"})
      PROVE  pc'[t] = "spin" /\ reg'[t] = reg[t]
  BY <1>4, <1>6, SenderStays, Names DEF TypeInv, Sending
<1>7. cur_tx \in Slots
  BY DEF TypeInv, DataInv
<1>8. ASSUME At("send", "take"), tx' = Bypassed(tx, reg["send"]), Goto("send", "taken"),
             UNCHANGED <<rxVars, reg, tx_own, base, out, coled, cur_tx, wire, locked>>
      PROVE  TxInv' /\ Only({"send"}) /\ pc'["send"] = "taken"
  <2>1. Only({"send"}) /\ pc'["send"] = "taken" /\ reg'["send"] = reg["send"]
    BY <1>8, Moving, Names DEF TypeInv
  <2>2. PICK i \in Slots : i = cur_tx
    BY <1>7
  <2>3. /\ asked = Append(wire, out[t]) /\ coled = {i} /\ base[i] = t /\ reg[t].node = i
        /\ reg["send"].node = i /\ reg["send"] = Reg(i, BUSY, BUSY) /\ tx_own = {}
        /\ Holds(tx, FREE, Rest(i)) /\ Holds(tx, BUSY, <<i>>)
    BY <1>2, <1>8, <2>2 DEF At, Giving, Freeing, TwoLists
  <2>4. Linked(tx', TxNodes) /\ Holds(tx', FREE, Rest(i)) /\ Leaving(tx', BUSY, <<i>>)
    BY <1>3, <1>8, <2>3, BusyBypassed
  <2>5. Giving(t, cur_tx)'
    BY <1>5, <1>6, <1>8, <2>1, <2>2, <2>3, <2>4 DEF Giving
  <2>6. QED
    BY <1>5, <2>1, <2>3, <2>4, <2>5 DEF TxInv, Replying
<1>9. ASSUME At("send", "taken"), tx' = Removed(tx, reg["send"]), Goto("send", "give"),
             UNCHANGED <<rxVars, reg, tx_own, base, out, coled, cur_tx, wire, locked>>
      PROVE  TxInv' /\ Only({"send"}) /\ pc'["send"] = "give"
  <2>1. Only({"send"}) /\ pc'["send"] = "give" /\ reg'["send"] = reg["send"]
    BY <1>9, Moving, Names DEF TypeInv
  <2>2. PICK i \in Slots : i = cur_tx
    BY <1>7
  <2>3. /\ asked = Append(wire, out[t]) /\ coled = {i} /\ base[i] = t /\ reg[t].node = i
        /\ reg["send"].node = i /\ reg["send"] = Reg(i, BUSY, BUSY) /\ tx_own = {}
        /\ Holds(tx, FREE, Rest(i)) /\ Leaving(tx, BUSY, <<i>>)
    BY <1>2, <1>9, <2>2 DEF At, Giving, Freeing
  <2>4. Linked(tx', TxNodes) /\ Holds(tx', FREE, Rest(i)) /\ Holds(tx', BUSY, <<>>)
    BY <1>3, <1>9, <2>3, BusyRemoved
  <2>5. Giving(t, cur_tx)'
    BY <1>5, <1>6, <1>9, <2>1, <2>2, <2>3, <2>4 DEF Giving, TwoLists
  <2>6. QED
    BY <1>5, <2>1, <2>3, <2>4, <2>5 DEF TxInv, Replying
<1>10. ASSUME At("send", "give"), tx_own' = tx_own \cup {j}, Goto("send", "wait"),
              UNCHANGED <<rxVars, reg, tx, base, out, coled, cur_tx, wire, locked>>
       PROVE  TxInv' /\ Only({"send"}) /\ pc'["send"] = "wait"
  <2>1. Only({"send"}) /\ pc'["send"] = "wait" /\ reg'["send"] = reg["send"]
    BY <1>10, Moving, Names DEF TypeInv
  <2>2. PICK i \in Slots : i = cur_tx
    BY <1>7
  <2>3. /\ asked = Append(wire, out[t]) /\ coled = {i} /\ base[i] = t /\ reg[t].node = i
        /\ reg["send"].node = i /\ tx_own = {} /\ TwoLists(Rest(i), <<>>)
    BY <1>2, <1>10, <2>2 DEF At, Giving, Freeing
  <2>4. tx_own' = {i} /\ tx' = tx
    BY <1>0, <1>10, <2>3
  <2>5. Giving(t, cur_tx)'
    BY <1>5, <1>6, <1>10, <2>1, <2>2, <2>3, <2>4 DEF Giving, TwoLists
  <2>6. QED
    BY <1>3, <1>5, <2>1, <2>3, <2>4, <2>5 DEF TxInv, Replying
<1>11. ASSUME At("send", "wait"), j \notin tx_own, LoadTail("send", tx, FREE), Goto("send", "free"),
              UNCHANGED <<rxVars, txVars, locked>>
       PROVE  TxInv' /\ Only({"send"}) /\ pc'["send"] = "free"
  <2>1. PICK i \in Slots : asked = wire /\ Next1(i) = cur_tx /\ Freeing(t, i)
    <3>1. ~Giving(t, cur_tx)
      BY <1>0, <1>11 DEF At, Giving
    <3>2. QED
      BY <1>2, <3>1
  <2>2. /\ coled = {i} /\ reg[t].node = i /\ reg["send"].node = i /\ tx_own = {}
        /\ Holds(tx, FREE, Rest(i)) /\ Holds(tx, BUSY, <<>>)
    BY <1>11, <2>1 DEF At, Freeing, TwoLists
  <2>3. tx.prev[FREE] = Node(Rest(i), FREE, RING - 1)
    BY <2>2, FreeLast
  <2>4. reg' = [reg EXCEPT !["send"] = Reg(i, Node(Rest(i), FREE, RING - 1), FREE)]
    BY <1>11, <2>2, <2>3 DEF LoadTail, SetReg, Reg
  <2>5. /\ Only({"send"}) /\ pc'["send"] = "free"
        /\ reg'["send"] = Reg(i, Node(Rest(i), FREE, RING - 1), FREE)
    BY <1>11, <2>4, Moving, Names DEF TypeInv
  <2>6. reg'["send"].node = i
    BY <2>5 DEF Reg
  <2>7. tx' = tx /\ coled' = coled /\ tx_own' = tx_own
    BY <1>11 DEF txVars
  <2>8. Freeing(t, i)'
    BY <1>6, <2>2, <2>5, <2>6, <2>7 DEF Freeing, TwoLists
  <2>9. (Next1(i) = cur_tx)' /\ Replied(t, i)'
    BY <1>5, <2>1, <2>8 DEF Replied
  <2>10. QED
    BY <1>3, <2>5, <2>7, <2>9 DEF TxInv
<1>12. ASSUME At("send", "free"), tx' = Attached(tx, reg["send"], FREE), Goto("send", "freed"),
              UNCHANGED <<rxVars, reg, tx_own, base, out, coled, cur_tx, wire, locked>>
       PROVE  TxInv' /\ Only({"send"}) /\ pc'["send"] = "freed"
  <2>1. Only({"send"}) /\ pc'["send"] = "freed" /\ reg'["send"] = reg["send"]
    BY <1>12, Moving, Names DEF TypeInv
  <2>2. PICK i \in Slots : asked = wire /\ Next1(i) = cur_tx /\ Freeing(t, i)
    <3>1. ~Giving(t, cur_tx)
      BY <1>12 DEF At, Giving
    <3>2. QED
      BY <1>2, <3>1
  <2>3. /\ coled = {i} /\ reg[t].node = i /\ reg["send"].node = i /\ tx_own = {}
        /\ Holds(tx, FREE, Rest(i)) /\ Holds(tx, BUSY, <<>>)
        /\ reg["send"] = Reg(i, Node(Rest(i), FREE, RING - 1), FREE)
    BY <1>12, <2>2 DEF At, Freeing, TwoLists
  <2>4. Linked(tx', TxNodes) /\ Joining(tx', FREE, Rest(i), i) /\ Holds(tx', BUSY, <<>>)
    BY <1>3, <1>12, <2>3, FreeAttached
  <2>5. Freeing(t, i)'
    BY <1>6, <1>12, <2>1, <2>3, <2>4 DEF Freeing
  <2>6. (Next1(i) = cur_tx)' /\ Replied(t, i)'
    BY <1>5, <2>2, <2>5 DEF Replied
  <2>7. QED
    BY <2>1, <2>4, <2>6 DEF TxInv
<1>13. ASSUME At("send", "freed"), tx' = Added(tx, reg["send"]), Goto("send", "done"),
              UNCHANGED <<rxVars, reg, tx_own, base, out, coled, cur_tx, wire, locked>>
       PROVE  TxInv' /\ Only({"send"}) /\ pc'["send"] = "done"
  <2>1. Only({"send"}) /\ pc'["send"] = "done" /\ reg'["send"] = reg["send"]
    BY <1>13, Moving, Names DEF TypeInv
  <2>2. PICK i \in Slots : asked = wire /\ Next1(i) = cur_tx /\ Freeing(t, i)
    <3>1. ~Giving(t, cur_tx)
      BY <1>13 DEF At, Giving
    <3>2. QED
      BY <1>2, <3>1
  <2>3. /\ coled = {i} /\ reg[t].node = i /\ reg["send"].node = i /\ tx_own = {}
        /\ Joining(tx, FREE, Rest(i), i) /\ Holds(tx, BUSY, <<>>)
        /\ reg["send"] = Reg(i, Node(Rest(i), FREE, RING - 1), FREE)
    BY <1>13, <2>2 DEF At, Freeing
  <2>4. Linked(tx', TxNodes) /\ Holds(tx', FREE, Full(Next1(i))) /\ Holds(tx', BUSY, <<>>)
    BY <1>3, <1>13, <2>3, FreeAdded
  <2>5. Freeing(t, i)'
    BY <1>6, <1>13, <2>1, <2>3, <2>4 DEF Freeing, TwoLists
  <2>6. (Next1(i) = cur_tx)' /\ Replied(t, i)'
    BY <1>5, <2>2, <2>5 DEF Replied
  <2>7. QED
    BY <2>1, <2>4, <2>6 DEF TxInv
<1>14. ASSUME At("send", "done"), coled' = coled \ {j}, Goto("send", "poll"), SetReg("send", 0, 0, 0),
              UNCHANGED <<rxVars, tx, tx_own, base, out, cur_tx, wire, locked>>
       PROVE  TxInv' /\ Only({"send"}) /\ pc'["send"] = "poll"
  <2>1. Only({"send"}) /\ pc'["send"] = "poll"
    <3>1. reg' = [reg EXCEPT !["send"] = Reg(0, 0, 0)]
      BY <1>14 DEF SetReg, Reg
    <3>2. QED
      BY <1>14, <3>1, Moving, Names DEF TypeInv
  <2>2. PICK i \in Slots : asked = wire /\ Next1(i) = cur_tx /\ Freeing(t, i)
    <3>1. ~Giving(t, cur_tx)
      BY <1>14 DEF At, Giving
    <3>2. QED
      BY <1>2, <3>1
  <2>3. coled = {i} /\ reg["send"].node = i /\ tx_own = {} /\ TwoLists(Full(Next1(i)), <<>>)
    BY <1>14, <2>2 DEF At, Freeing
  <2>4. coled' = {} /\ tx' = tx /\ tx_own' = {}
    BY <1>0, <1>14, <2>3
  <2>5. TwoLists(Full(cur_tx), <<>>)
    BY <2>2, <2>3
  <2>6. Done(t)'
    BY <1>5, <1>6, <2>1, <2>4, <2>5 DEF Done, TwoLists
  <2>7. (asked = wire)'
    BY <1>5, <2>2
  <2>8. QED
    BY <1>3, <2>1, <2>4, <2>6, <2>7 DEF TxInv
<1>15. QED
  BY <1>0, <1>8, <1>9, <1>10, <1>11, <1>12, <1>13, <1>14 DEF DecollectTx, SendPlaces

(* The card sends the reply of the writer that waits.                      *)
LEMMA CardSendTx ==
  ASSUME TypeInv, SessionInv, TxInv, CardSend, asked' = asked
  PROVE  TxInv' /\ wire' \in Seq(Nat) /\ cur_tx' \in Slots
<1>1. cur_tx \in tx_own /\ wire' = Append(wire, out[base[cur_tx]]) /\ tx_own' = tx_own \ {cur_tx}
  BY DEF CardSend
<1>2. cur_tx' = Next1(cur_tx) /\ pc' = pc /\ reg' = reg /\ tx' = tx /\ base' = base /\ out' = out /\ coled' = coled
  BY DEF CardSend
<1>3. PICK i \in Slots : i = cur_tx
  BY DEF TypeInv, DataInv
<1>4. PICK t \in NetThreads : Replying(t, cur_tx)
  <2>1. ~Idle
    BY <1>1 DEF Idle
  <2>2. \A t \in NetThreads, k \in Slots : ~Replied(t, k)
    BY <1>1 DEF Replied, Freeing
  <2>3. \A t \in NetThreads : ~Done(t)
    BY <1>1 DEF Done
  <2>4. QED
    BY <2>1, <2>2, <2>3 DEF TxInv
<1>5. asked = Append(wire, out[t]) /\ Giving(t, cur_tx)
  BY <1>1, <1>4 DEF Replying, Taking, Queueing
<1>6. /\ pc[t] = "spin" /\ coled = {i} /\ base[i] = t /\ reg[t].node = i /\ reg["send"].node = i
      /\ pc["send"] = "wait" /\ TwoLists(Rest(i), <<>>) /\ tx_own = {i}
  BY <1>1, <1>3, <1>5 DEF Giving
<1>7. wire' = Append(wire, out[t]) /\ tx_own' = {}
  BY <1>1, <1>3, <1>6
<1>8. Freeing(t, i)'
  BY <1>2, <1>6, <1>7 DEF Freeing, TwoLists
<1>9. (Next1(i) = cur_tx)' /\ Replied(t, i)'
  BY <1>2, <1>3, <1>5, <1>7, <1>8 DEF Replied
<1>10. Linked(tx, TxNodes)'
  BY <1>2 DEF TxInv
<1>11. TxInv'
  BY <1>9, <1>10 DEF TxInv
<1>12. wire' \in Seq(Nat)
  <2>1. wire \in Seq(Nat) /\ out[t] \in Nat
    BY Names DEF TypeInv, DataInv
  <2>2. QED
    BY <1>7, <2>1, AppendProperties
<1>13. cur_tx' \in Slots
  BY <1>2, <1>3, NextSlot
<1>14. QED
  BY <1>11, <1>12, <1>13

(* A request for us is answered when nothing is on its way.                *)
LEMMA ReplyTx ==
  ASSUME TypeInv, SessionInv, TxInv, NEW t \in NetThreads, pc[t] = "arp", Goto(t, "write"), reg' = reg,
         out' = [out EXCEPT ![t] = buff.id], asked' = Append(asked, buff.id),
         UNCHANGED <<tx, tx_own, base, coled, cur_tx, wire>>
  PROVE  TxInv' /\ Only({t}) /\ pc'[t] = "write" /\ out' \in [Clients -> Nat] /\ asked' \in Seq(Nat)
<1>1. Alive(t) /\ pc[t] \notin Sending /\ t \in Threads
  BY Names DEF Alive, Sending
<1>2. Idle
  BY <1>1, TxOfOthers
<1>3. Only({t}) /\ pc'[t] = "write"
  BY <1>1, Moving DEF TypeInv
<1>4. pc'["send"] = pc["send"]
  BY <1>3, SendStays, Names DEF TypeInv
<1>5. \A u \in NetThreads \ {t} : pc[u] \in {"none", "dead"} /\ pc'[u] \in {"none", "dead"}
  BY <1>1, <1>3, OthersAway DEF TypeInv
<1>6. asked = wire
  <2>1. \A u \in NetThreads : pc[u] # "write"
    BY <1>5
  <2>2. QED
    BY <1>2, <2>1 DEF Idle
<1>7. buff.id \in Nat /\ out \in [Clients -> Nat] /\ asked \in Seq(Nat) /\ t \in Clients
  BY Names DEF TypeInv, DataInv
<1>8. out'[t] = buff.id /\ asked' = Append(wire', out'[t])
  BY <1>6, <1>7
<1>9. Idle'
  <2>1. \A u \in NetThreads : pc'[u] \notin Sending
    BY <1>3, <1>5 DEF Sending
  <2>2. \A u \in NetThreads : pc'[u] = "write" => u = t
    BY <1>5
  <2>3. QED
    BY <1>2, <1>3, <1>4, <1>8, <2>1, <2>2 DEF Idle, TwoLists
<1>10. Linked(tx, TxNodes)'
  BY DEF TxInv
<1>11. out' \in [Clients -> Nat] /\ asked' \in Seq(Nat)
  BY <1>7, AppendProperties
<1>12. QED
  BY <1>3, <1>9, <1>10, <1>11 DEF TxInv

-----------------------------------------------------------------------------
(* The collector list: the receive loop.                                   *)
LEMMA OnAList ==
  ASSUME NEW D, NEW h, NEW s, Listed(D, h, s), NEW l, Chain(l, h, s), NEW n \in On(s)
  PROVE  l.next[n] # n
<1>1. PICK m \in Nat : Len(s) = m
  BY LenOf
<1>2. PICK k \in 1 .. m : n = s[k]
  BY <1>1 DEF On
<1>3. n = Node(s, h, k) /\ n # h /\ k \in 0 .. m
  BY <1>1, <1>2, NodeOf
<1>4. l.next[n] = Node(s, h, k + 1)
  BY <1>1, <1>3 DEF Chain
<1>5. CASE k = m
  BY <1>1, <1>3, <1>4, <1>5, NodeOf
<1>6. CASE k # m
  <2>1. k + 1 \in 0 .. m /\ k + 1 # k
    BY <1>6
  <2>2. Node(s, h, k + 1) # Node(s, h, k)
    BY <1>1, <1>3, <2>1, NodeOf
  <2>3. QED
    BY <1>3, <1>4, <2>2
<1>7. QED
  BY <1>5, <1>6

LEMMA RxFacts ==
  ASSUME NEW s, RxList(s)
  PROVE  /\ Listed(RxNodes, Collector, s) /\ On(s) \subseteq Slots /\ Collector \notin On(s)
         /\ \A n \in On(s) : rx.next[n] # n
         /\ Slots \subseteq RxNodes \ {Collector} /\ Collector \in RxNodes
         /\ s # <<>> => s[1] \in On(s)
<1>1. s \in Seq(Slots) /\ Distinct(s) /\ Chain(rx, Collector, s)
  BY DEF RxList
<1>2. Listed(RxNodes, Collector, s)
  BY <1>1, SlotLists
<1>3. On(s) \subseteq Slots
  <2>1. \A k \in 1 .. Len(s) : s[k] \in Slots
    BY <1>1, ElementOfSeq
  <2>2. QED
    BY <2>1 DEF On
<1>4. \A n \in On(s) : rx.next[n] # n
  BY <1>1, <1>2, OnAList
<1>5. s # <<>> => s[1] \in On(s)
  BY <1>2, Ends
<1>6. QED
  BY <1>2, <1>3, <1>4, <1>5, Nodes

Near == Held \cup Parting \cup Off

LEMMA ReaderStays ==
  ASSUME NEW A, Only(A), NEW t \in NetThreads \ A, pc[t] \in Near \/ pc'[t] \in Near
  PROVE  pc'[t] = pc[t] /\ reg'[t] = reg[t]
<1>1. Same(t) \/ Woke(t)
  BY Names DEF Only
<1>2. "asleep" \notin Near /\ "waiting" \notin Near /\ "lock" \notin Near
  BY DEF Near, Held, Parting, Off
<1>3. QED
  BY <1>1, <1>2 DEF Same, Woke

LEMMA LoopStays ==
  ASSUME PlacesInv, NEW A, Only(A), "recv" \notin A
  PROVE  /\ reg'["recv"] = reg["recv"]
         /\ pc'["recv"] \in Collecting <=> pc["recv"] \in Collecting
         /\ pc'["recv"] = "link" <=> pc["recv"] = "link"
         /\ pc'["recv"] = "store" <=> pc["recv"] = "store"
<1>1. Same("recv") \/ Woke("recv")
  BY Names DEF Only
<1>2. CASE Same("recv")
  BY <1>2 DEF Same
<1>3. CASE Woke("recv")
  <2>1. pc["recv"] = "asleep" /\ pc'["recv"] = "lock" /\ reg'["recv"] = reg["recv"]
    BY <1>3 DEF Woke, PlacesInv, RecvPlaces
  <2>2. QED
    BY <2>1 DEF Collecting
<1>4. QED
  BY <1>1, <1>2, <1>3

LEMMA RxElsewhere ==
  ASSUME NEW t, NEW s, pc[t] \notin Near
  PROVE  RxReader(t, s)
BY DEF RxReader, Near, Held, Parting, Off

(* The frame of the host that Scan finds is not on the list, nor on its    *)
(* way from it.                                                            *)
LEMMA ScanRx ==
  ASSUME PlacesInv, NEW s, RxInv(s), Only({"recv"}), pc["recv"] = "scan", pc'["recv"] = "lock",
         reg'["recv"] = reg["recv"], list_empty(rx, reg["recv"].node), reg["recv"].node \notin rx_own,
         rx' = rx, rx_own' = rx_own, ~Met'
  PROVE  RxInv(s)'
<1>1. PICK n \in Slots : n = reg["recv"].node
  BY DEF RxInv, RxLoop
<1>2. RxList(s) /\ rx.next[n] = n
  BY <1>1 DEF RxInv, list_empty
<1>3. n \notin On(s)
  BY <1>2, RxFacts
<1>4. RxList(s)'
  BY <1>2 DEF RxList
<1>5. \A t \in NetThreads : pc[t] \in Near \/ pc'[t] \in Near => pc'[t] = pc[t] /\ reg'[t] = reg[t]
  BY ReaderStays, Names
<1>6. ASSUME NEW t \in NetThreads
      PROVE  RxReader(t, s)'
  <2>1. CASE pc'[t] \in Near
    <3>1. pc'[t] = pc[t] /\ reg'[t] = reg[t] /\ RxReader(t, s)
      BY <1>5, <2>1 DEF RxInv
    <3>2. pc[t] = "give" => reg[t].node # n
      <4>1. ~(pc'[t] = "give" /\ pc'["recv"] # "scan" /\ reg'["recv"].node = reg'[t].node)
        BY DEF Met
      <4>2. QED
        BY <1>1, <3>1, <4>1
    <3>3. pc[t] = "reinit" => reg[t].node # n
      BY <1>2, <3>1 DEF RxReader
    <3>4. pc'[t] \in Off => reg'[t].node # reg'["recv"].node
      BY <1>1, <3>1, <3>2, <3>3 DEF Off
    <3>5. QED
      BY <3>1, <3>4 DEF RxReader
  <2>2. CASE pc'[t] \notin Near
    BY <2>2 DEF RxReader, Near, Held, Parting, Off
  <2>3. QED
    BY <2>1, <2>2
<1>7. RxLoop(s)'
  <2>1. reg'["recv"].node = n /\ n \notin rx_own' \cup On(s) /\ rx'.next[n] = n
    BY <1>1, <1>2, <1>3
  <2>2. QED
    BY <2>1 DEF RxLoop
<1>8. \A t \in NetThreads : pc'[t] = pc[t] \/ (pc[t] \notin Off \cup Parting /\ pc'[t] \notin Off \cup Parting)
  BY <1>5 DEF Near
<1>9. RxWhole(s)'
  <2>1. \A t \in NetThreads : pc[t] = "unlinked" => pc'[t] = "unlinked"
    BY <1>8 DEF Parting
  <2>2. QED
    BY <2>1 DEF RxInv, RxWhole
<1>10. RxRest(s)'
  <2>1. \A t \in NetThreads : pc[t] = "reinit" => pc'[t] = "reinit" /\ reg'[t] = reg[t]
    BY <1>5 DEF Near, Off
  <2>2. QED
    BY <2>1 DEF RxInv, RxRest
<1>11. QED
  BY <1>4, <1>6, <1>7, <1>9, <1>10 DEF RxInv

(* What the loop does leaves a reader with what it works on.               *)
LEMMA CollectLoadRx ==
  ASSUME PlacesInv, NEW s, RxInv(s), Only({"recv"}), pc["recv"] = "load", pc'["recv"] = "link",
         reg'["recv"] = [node |-> reg["recv"].node, prev |-> rx.prev[Collector], next |-> Collector],
         rx' = rx, rx_own' = rx_own, ~Met'
  PROVE  RxInv(s)'
<1>1. PICK n \in Slots : n = reg["recv"].node
  BY DEF RxInv, RxLoop
<1>2. /\ reg'["recv"].node = n /\ reg'["recv"].prev = rx.prev[Collector]
  BY <1>1
<1>3. RxList(s) /\ RxList(s)'
  BY DEF RxInv, RxList
<1>4. \A t \in NetThreads : pc[t] \in Near \/ pc'[t] \in Near => pc'[t] = pc[t] /\ reg'[t] = reg[t]
  BY ReaderStays, Names
<1>5. \A t \in NetThreads : pc'[t] \notin Parting
  BY DEF Met, Parting
<1>6. \A t \in NetThreads : pc[t] # "unlinked"
  BY <1>4, <1>5 DEF Near, Parting
<1>7. Backs(rx, Collector, s)
  BY <1>6 DEF RxInv, RxWhole
<1>8. rx.prev[Collector] = Node(s, Collector, Len(s))
  BY <1>3, <1>7, RxFacts, Ends
<1>9. ASSUME NEW t \in NetThreads
      PROVE  RxReader(t, s)'
  <2>1. CASE pc'[t] \in Near
    <3>1. pc'[t] = pc[t] /\ reg'[t] = reg[t] /\ RxReader(t, s)
      BY <1>4, <2>1 DEF RxInv
    <3>2. pc["recv"] \in Collecting
      BY DEF Collecting
    <3>3. QED
      BY <1>1, <1>2, <3>1, <3>2 DEF RxReader
  <2>2. CASE pc'[t] \notin Near
    BY <2>2 DEF RxReader, Near, Held, Parting, Off
  <2>3. QED
    BY <2>1, <2>2
<1>10. RxLoop(s)'
  <2>1. n \notin rx_own \cup On(s) /\ rx.next[n] = n
    BY <1>1 DEF RxInv, RxLoop, Collecting
  <2>2. QED
    BY <1>2, <1>8, <2>1 DEF RxLoop
<1>11. RxWhole(s)'
  BY <1>7 DEF RxWhole
<1>12. RxRest(s)'
  <2>1. \A t \in NetThreads : pc[t] = "reinit" => pc'[t] = "reinit" /\ reg'[t] = reg[t]
    BY <1>4 DEF Near, Off
  <2>2. QED
    BY <2>1 DEF RxInv, RxRest
<1>13. QED
  BY <1>3, <1>9, <1>10, <1>11, <1>12 DEF RxInv

LEMMA CollectLinkRx ==
  ASSUME PlacesInv, NEW s, RxInv(s), Only({"recv"}), pc["recv"] = "link", pc'["recv"] = "store",
         reg'["recv"] = reg["recv"], rx' = Attached(rx, reg["recv"], Collector), rx_own' = rx_own, ~Met
  PROVE  RxInv(s)'
<1>1. PICK n \in Slots : n = reg["recv"].node
  BY DEF RxInv, RxLoop
<1>2. /\ n \notin rx_own \cup On(s) /\ reg["recv"].prev = Node(s, Collector, Len(s))
  BY <1>1 DEF RxInv, RxLoop, Collecting
<1>3. RxList(s)
  BY DEF RxInv
<1>4. \A t \in NetThreads : pc[t] \in Near \/ pc'[t] \in Near => pc'[t] = pc[t] /\ reg'[t] = reg[t]
  BY ReaderStays, Names
<1>5. \A t \in NetThreads : pc[t] \notin Parting
  BY DEF Met, Parting
<1>6. Holds(rx, Collector, s)
  BY <1>5 DEF RxInv, RxWhole, RxList, Parting, Holds
<1>7. Listed(RxNodes, Collector, s) /\ Linked(rx, RxNodes) /\ n \in RxNodes \ (On(s) \cup {Collector})
  BY <1>2, <1>3, RxFacts DEF RxList
<1>8. /\ Linked(rx', RxNodes) /\ Joining(rx', Collector, s, n)
      /\ \A x \in RxNodes \ {n} : rx'.next[x] = rx.next[x]
  BY <1>1, <1>2, <1>6, <1>7, Attaches
<1>9. RxList(s)'
  BY <1>3, <1>8 DEF RxList, Joining
<1>10. ASSUME NEW t \in NetThreads
       PROVE  RxReader(t, s)'
  <2>1. CASE pc'[t] \in Near
    <3>1. pc'[t] = pc[t] /\ reg'[t] = reg[t] /\ RxReader(t, s)
      BY <1>4, <2>1 DEF RxInv
    <3>2. pc["recv"] \in Collecting
      BY DEF Collecting
    <3>3. pc[t] \in Off => reg[t].node \in RxNodes \ {n} /\ reg[t].node # n
      BY <1>1, <3>1, <3>2, Nodes DEF RxReader
    <3>4. pc[t] \in Off => rx'.next[reg[t].node] = rx.next[reg[t].node]
      BY <1>8, <3>3
    <3>5. pc[t] \notin Parting
      BY <1>5
    <3>6. QED
      BY <1>1, <3>1, <3>3, <3>4, <3>5 DEF RxReader, Off, Parting
  <2>2. CASE pc'[t] \notin Near
    BY <2>2 DEF RxReader, Near, Held, Parting, Off
  <2>3. QED
    BY <2>1, <2>2
<1>11. RxLoop(s)'
  BY <1>1, <1>2, <1>8 DEF RxLoop
<1>12. RxWhole(s)'
  BY DEF RxWhole
<1>13. RxRest(s)'
  <2>1. \A t \in NetThreads : pc[t] = "reinit" => pc'[t] = "reinit" /\ reg'[t] = reg[t]
    BY <1>4 DEF Near, Off
  <2>2. \A i \in Slots : i # n => rx'.next[i] = rx.next[i]
    BY <1>8, Nodes
  <2>3. QED
    BY <1>1, <2>1, <2>2 DEF RxInv, RxRest
<1>14. QED
  BY <1>9, <1>10, <1>11, <1>12, <1>13 DEF RxInv

LEMMA CollectStoreRx ==
  ASSUME PlacesInv, NEW s, RxInv(s), Only({"recv"}), pc["recv"] = "store", pc'["recv"] = "broadcast",
         reg'["recv"] = reg["recv"], rx' = Added(rx, reg["recv"]), rx_own' = rx_own, ~Met
  PROVE  (\E r : RxInv(r))'
<1>1. PICK n \in Slots : n = reg["recv"].node
  BY DEF RxInv, RxLoop
<1>2. /\ n \notin rx_own \cup On(s) /\ reg["recv"].prev = Node(s, Collector, Len(s))
      /\ Joining(rx, Collector, s, n)
  BY <1>1 DEF RxInv, RxLoop, Collecting
<1>3. RxList(s)
  BY DEF RxInv
<1>4. \A t \in NetThreads : pc[t] \in Near \/ pc'[t] \in Near => pc'[t] = pc[t] /\ reg'[t] = reg[t]
  BY ReaderStays, Names
<1>5. \A t \in NetThreads : pc[t] \notin Parting
  BY DEF Met, Parting
<1>6. Listed(RxNodes, Collector, s) /\ Linked(rx, RxNodes) /\ n \in RxNodes \ (On(s) \cup {Collector})
  BY <1>2, <1>3, RxFacts DEF RxList
<1>7. PICK r : r = Append(s, n)
  OBVIOUS
<1>8. /\ Linked(rx', RxNodes) /\ Holds(rx', Collector, r)
      /\ reg["recv"].prev \in On(s) \cup {Collector}
      /\ \A x \in RxNodes \ {reg["recv"].prev} : rx'.next[x] = rx.next[x]
  BY <1>1, <1>2, <1>6, <1>7, Adds
<1>9. /\ Listed(RxNodes, Collector, r) /\ On(r) = On(s) \cup {n} /\ r # <<>>
      /\ s # <<>> => r[1] = s[1]
  BY <1>6, <1>7, AppendOf
<1>10. r \in Seq(Slots)
  BY <1>3, <1>7, AppendProperties DEF RxList
<1>11. RxList(r)'
  BY <1>2, <1>3, <1>8, <1>9, <1>10 DEF RxList, Listed, Holds
<1>12. \A i \in Slots \ On(s) : rx'.next[i] = rx.next[i]
  BY <1>8, Nodes
<1>13. ASSUME NEW t \in NetThreads
       PROVE  RxReader(t, r)'
  <2>1. CASE pc'[t] \in Near
    <3>1. pc'[t] = pc[t] /\ reg'[t] = reg[t] /\ RxReader(t, s)
      BY <1>4, <2>1 DEF RxInv
    <3>2. pc["recv"] \in Collecting
      BY DEF Collecting
    <3>3. pc[t] \in Off => reg[t].node \in Slots \ (rx_own \cup On(s)) /\ reg[t].node # n
      BY <1>1, <3>1, <3>2 DEF RxReader
    <3>4. pc[t] \in Off => rx'.next[reg[t].node] = rx.next[reg[t].node]
      BY <1>12, <3>3
    <3>5. pc[t] \notin Parting
      BY <1>5
    <3>6. "broadcast" \notin Collecting
      BY DEF Collecting
    <3>7. pc[t] \in Held => s # <<>> /\ reg[t].node = s[1]
      BY <3>1 DEF RxReader
    <3>8. QED
      BY <1>9, <3>1, <3>3, <3>4, <3>5, <3>6, <3>7 DEF RxReader, Off, Parting
  <2>2. CASE pc'[t] \notin Near
    BY <2>2 DEF RxReader, Near, Held, Parting, Off
  <2>3. QED
    BY <2>1, <2>2
<1>14. RxLoop(r)'
  BY <1>1 DEF RxLoop, Collecting
<1>15. RxWhole(r)'
  BY <1>8 DEF RxWhole, Holds
<1>16. RxRest(r)'
  <2>1. \A t \in NetThreads : pc[t] = "reinit" => pc'[t] = "reinit" /\ reg'[t] = reg[t]
    BY <1>4 DEF Near, Off
  <2>2. \A i \in Slots \ On(r) : i # n /\ i \notin On(s) /\ rx'.next[i] = rx.next[i]
    BY <1>9, <1>12
  <2>3. RxRest(s)
    BY DEF RxInv
  <2>4. ASSUME NEW i \in Slots \ On(r), rx'.next[i] # i
        PROVE  \E t \in NetThreads : pc'[t] = "reinit" /\ reg'[t].node = i
    <3>1. \E t \in NetThreads : pc[t] = "reinit" /\ reg[t].node = i
      BY <1>1, <2>2, <2>3, <2>4 DEF RxRest
    <3>2. QED
      BY <2>1, <3>1
  <2>5. QED
    BY <2>4 DEF RxRest
<1>17. RxInv(r)'
  BY <1>11, <1>13, <1>14, <1>15, <1>16 DEF RxInv
<1>18. QED
  BY <1>17

-----------------------------------------------------------------------------
(* The collector list: the reader t.  The other net threads are not alive. *)
Alone(t) ==
  /\ Only({t}) /\ \A u \in NetThreads \ {t} : pc[u] \in {"none", "dead"} /\ pc'[u] \in {"none", "dead"}

LEMMA OthersReadNot ==
  ASSUME NEW t, Alone(t), NEW u \in NetThreads \ {t}, NEW s
  PROVE  RxReader(u, s)'
BY DEF Alone, RxReader, Held, Parting, Off

LEMMA ReadFirstRx ==
  ASSUME PlacesInv, NEW s, RxInv(s), NEW t \in NetThreads, Alone(t), pc[t] = "test", pc'[t] = "copy",
         reg'[t].node = rx.next[Collector], ~list_empty(rx, Collector), rx' = rx, rx_own' = rx_own
  PROVE  RxInv(s)'
<1>1. Listed(RxNodes, Collector, s) /\ Chain(rx, Collector, s) /\ Linked(rx, RxNodes)
  BY RxFacts DEF RxInv, RxList
<1>2. rx.next[Collector] = Node(s, Collector, 1) /\ rx.next[Collector] # Collector
  BY <1>1, Ends DEF list_empty
<1>3. s # <<>>
  BY <1>1, <1>2, Ends
<1>4. reg'[t].node = s[1]
  BY <1>1, <1>2, <1>3, Ends
<1>5. RxReader(t, s)'
  BY <1>3, <1>4 DEF RxReader, Held, Parting, Off
<1>6. /\ reg'["recv"] = reg["recv"]
      /\ pc'["recv"] \in Collecting <=> pc["recv"] \in Collecting
      /\ pc'["recv"] = "link" <=> pc["recv"] = "link"
      /\ pc'["recv"] = "store" <=> pc["recv"] = "store"
  BY LoopStays, Names DEF Alone
<1>7. RxList(s)'
  BY DEF RxInv, RxList
<1>8. RxLoop(s)'
  BY <1>6 DEF RxInv, RxLoop
<1>9. RxWhole(s)'
  <2>1. \A u \in NetThreads : pc[u] # "unlinked"
    BY DEF Alone
  <2>2. QED
    BY <1>6, <2>1 DEF RxInv, RxWhole
<1>10. RxRest(s)'
  <2>1. \A u \in NetThreads : pc[u] # "reinit"
    BY DEF Alone
  <2>2. QED
    BY <1>6, <2>1 DEF RxInv, RxRest
<1>11. QED
  BY <1>5, <1>7, <1>8, <1>9, <1>10, OthersReadNot DEF RxInv

LEMMA DecollectLoadRx ==
  ASSUME PlacesInv, NEW s, RxInv(s), NEW t \in NetThreads, Alone(t), pc[t] = "decollect", pc'[t] = "unlink",
         reg'[t] = [node |-> reg[t].node, prev |-> rx.prev[reg[t].node], next |-> rx.next[reg[t].node]],
         rx' = rx, rx_own' = rx_own, ~Met'
  PROVE  RxInv(s)'
<1>1. Listed(RxNodes, Collector, s) /\ Chain(rx, Collector, s)
  BY RxFacts DEF RxInv, RxList
<1>2. s # <<>> /\ reg[t].node = s[1]
  BY DEF RxInv, RxReader, Held
<1>3. /\ reg'["recv"] = reg["recv"]
      /\ pc'["recv"] \in Collecting <=> pc["recv"] \in Collecting
      /\ pc'["recv"] = "link" <=> pc["recv"] = "link"
      /\ pc'["recv"] = "store" <=> pc["recv"] = "store"
  BY LoopStays, Names DEF Alone
<1>4. pc["recv"] # "store" /\ pc["recv"] # "link"
  BY <1>3 DEF Met
<1>5. \A u \in NetThreads : pc[u] # "unlinked" /\ pc[u] # "reinit"
  BY DEF Alone
<1>6. Holds(rx, Collector, s)
  BY <1>1, <1>4, <1>5 DEF RxInv, RxWhole, Holds
<1>7. rx.prev[s[1]] = Collector /\ rx.next[s[1]] = Node(s, Collector, 2)
  BY <1>1, <1>2, <1>6, First
<1>8. reg'[t].node = s[1] /\ reg'[t].prev = Collector /\ reg'[t].next = Node(s, Collector, 2)
  BY <1>2, <1>7
<1>9. RxReader(t, s)'
  BY <1>2, <1>8 DEF RxReader, Held, Parting, Off
<1>10. RxList(s)'
  BY DEF RxInv, RxList
<1>11. RxLoop(s)'
  BY <1>3 DEF RxInv, RxLoop
<1>12. RxWhole(s)'
  BY <1>6 DEF RxWhole, Holds
<1>13. RxRest(s)'
  BY <1>3, <1>5 DEF RxInv, RxRest
<1>14. QED
  BY <1>9, <1>10, <1>11, <1>12, <1>13, OthersReadNot DEF RxInv

LEMMA DecollectUnlinkRx ==
  ASSUME PlacesInv, NEW s, RxInv(s), NEW t \in NetThreads, Alone(t), pc[t] = "unlink", pc'[t] = "unlinked",
         reg'[t] = reg[t], rx' = Bypassed(rx, reg[t]), rx_own' = rx_own, ~Met
  PROVE  RxInv(s)'
<1>1. Listed(RxNodes, Collector, s) /\ Chain(rx, Collector, s) /\ Linked(rx, RxNodes) /\ RxList(s)
  BY RxFacts DEF RxInv, RxList
<1>2. /\ s # <<>> /\ reg[t].node = s[1]
      /\ reg[t].prev = Collector /\ reg[t].next = Node(s, Collector, 2)
  BY DEF RxInv, RxReader, Parting
<1>3. /\ reg'["recv"] = reg["recv"]
      /\ pc'["recv"] \in Collecting <=> pc["recv"] \in Collecting
      /\ pc'["recv"] = "link" <=> pc["recv"] = "link"
      /\ pc'["recv"] = "store" <=> pc["recv"] = "store"
  BY LoopStays, Names DEF Alone
<1>4. pc["recv"] # "store" /\ pc["recv"] # "link"
  BY DEF Met
<1>5. \A u \in NetThreads : pc[u] # "unlinked" /\ pc[u] # "reinit"
  BY DEF Alone
<1>6. Holds(rx, Collector, s)
  BY <1>1, <1>4, <1>5 DEF RxInv, RxWhole, Holds
<1>7. Linked(rx', RxNodes) /\ Leaving(rx', Collector, s) /\ rx'.next = rx.next
  BY <1>1, <1>2, <1>6, Bypasses
<1>8. RxReader(t, s)'
  BY <1>2, <1>7 DEF RxReader, Held, Parting, Off
<1>9. RxList(s)'
  BY <1>1, <1>7 DEF RxList, Leaving
<1>10. RxLoop(s)'
  BY <1>3, <1>4, <1>7 DEF RxInv, RxLoop
<1>11. RxWhole(s)'
  BY DEF RxWhole
<1>12. RxRest(s)'
  BY <1>3, <1>5, <1>7 DEF RxInv, RxRest
<1>13. QED
  BY <1>8, <1>9, <1>10, <1>11, <1>12, OthersReadNot DEF RxInv

LEMMA DecollectRemoveRx ==
  ASSUME PlacesInv, NEW s, RxInv(s), NEW t \in NetThreads, Alone(t), pc[t] = "unlinked", pc'[t] = "reinit",
         reg'[t] = reg[t], rx' = Removed(rx, reg[t]), rx_own' = rx_own, ~Met
  PROVE  (\E r : RxInv(r))'
<1>1. Listed(RxNodes, Collector, s) /\ Linked(rx, RxNodes) /\ RxList(s)
  BY RxFacts DEF RxInv, RxList
<1>2. /\ s # <<>> /\ reg[t].node = s[1] /\ Leaving(rx, Collector, s)
      /\ reg[t].prev = Collector /\ reg[t].next = Node(s, Collector, 2)
  BY DEF RxInv, RxReader, Parting
<1>3. /\ reg'["recv"] = reg["recv"]
      /\ pc'["recv"] \in Collecting <=> pc["recv"] \in Collecting
      /\ pc'["recv"] = "link" <=> pc["recv"] = "link"
      /\ pc'["recv"] = "store" <=> pc["recv"] = "store"
  BY LoopStays, Names DEF Alone
<1>4. pc["recv"] # "store" /\ pc["recv"] # "link"
  BY DEF Met
<1>5. \A u \in NetThreads : pc[u] # "reinit"
  BY DEF Alone
<1>6. PICK r : r = Tail(s)
  OBVIOUS
<1>7. /\ Linked(rx', RxNodes) /\ Holds(rx', Collector, r)
      /\ \A n \in RxNodes \ {Collector} : rx'.next[n] = rx.next[n]
      /\ rx.next[s[1]] # s[1]
  BY <1>1, <1>2, <1>6, Removes
<1>8. TailFacts(RxNodes, Collector, s)
  BY <1>1, <1>2, TailOf
<1>9. Listed(RxNodes, Collector, r) /\ On(r) = On(s) \ {s[1]} /\ s[1] \in On(s)
  BY <1>6, <1>8 DEF TailFacts
<1>10. s[1] \in Slots /\ s[1] \notin rx_own /\ On(s) \subseteq Slots
  BY <1>1, <1>9, RxFacts DEF RxList
<1>11. \A n \in Slots : rx'.next[n] = rx.next[n]
  BY <1>7, Nodes
<1>12. RxList(r)'
  <2>1. r \in Seq(Slots)
    <3>1. r \in Seq(RxNodes \ {Collector})
      BY <1>9 DEF Listed
    <3>2. QED
      BY <3>1, Nodes
  <2>2. QED
    BY <1>1, <1>7, <1>9, <2>1 DEF RxList, Listed, Holds
<1>13. RxLoop(r)'
  BY <1>3, <1>4, <1>9, <1>11 DEF RxInv, RxLoop
<1>14. RxReader(t, r)'
  <2>1. pc["recv"] \in Collecting => reg["recv"].node \notin On(s)
    BY DEF RxInv, RxLoop
  <2>2. reg'[t].node = s[1] /\ rx'.next[s[1]] # s[1] /\ s[1] \notin On(r)
    BY <1>2, <1>7, <1>9, <1>10, <1>11
  <2>3. pc'["recv"] \in Collecting => reg'[t].node # reg'["recv"].node
    BY <1>3, <1>9, <2>1, <2>2
  <2>4. QED
    BY <1>10, <2>2, <2>3 DEF RxReader, Held, Parting, Off
<1>15. RxWhole(r)'
  BY <1>7 DEF RxWhole, Holds
<1>16. RxRest(r)'
  <2>1. ASSUME NEW i \in Slots \ On(r), rx'.next[i] # i
        PROVE  pc'[t] = "reinit" /\ reg'[t].node = i
    <3>1. CASE i = s[1]
      BY <1>2, <3>1
    <3>2. CASE i # s[1]
      <4>1. i \in Slots \ On(s) /\ rx.next[i] # i
        BY <1>9, <1>11, <2>1, <3>2
      <4>2. QED
        BY <1>4, <1>5, <4>1 DEF RxInv, RxRest
    <3>3. QED
      BY <3>1, <3>2
  <2>2. QED
    BY <2>1 DEF RxRest
<1>17. RxInv(r)'
  BY <1>12, <1>13, <1>14, <1>15, <1>16, OthersReadNot DEF RxInv
<1>18. QED
  BY <1>6, <1>17

LEMMA JoiningKept ==
  ASSUME NEW D, NEW h, NEW s, Listed(D, h, s), NEW l, NEW k, SameAlong(l, k, h, s), NEW n,
         k.next[n] = l.next[n], k.prev[n] = l.prev[n], Joining(l, h, s, n)
  PROVE  Joining(k, h, s, n)
<1>1. PICK m \in Nat : Len(s) = m
  BY LenOf
<1>2. \A i \in Nat : /\ k.next[Node(s, h, i)] = l.next[Node(s, h, i)]
                     /\ k.prev[Node(s, h, i)] = l.prev[Node(s, h, i)]
  BY NodeOf DEF SameAlong
<1>3. k.prev[h] = l.prev[h]
  BY DEF SameAlong
<1>4. QED
  BY <1>1, <1>2, <1>3 DEF Joining, Chain

LEMMA DecollectReinitRx ==
  ASSUME PlacesInv, NEW s, RxInv(s), NEW t \in NetThreads, Alone(t), pc[t] = "reinit", pc'[t] = "give",
         reg'[t] = reg[t], rx' = INIT_LIST_HEAD(rx, reg[t].node), rx_own' = rx_own
  PROVE  RxInv(s)'
<1>1. Listed(RxNodes, Collector, s) /\ Linked(rx, RxNodes) /\ RxList(s)
  BY RxFacts DEF RxInv, RxList
<1>2. PICK i \in Slots : i = reg[t].node /\ i \notin rx_own \cup On(s)
  BY DEF RxInv, RxReader, Off
<1>3. /\ reg'["recv"] = reg["recv"]
      /\ pc'["recv"] \in Collecting <=> pc["recv"] \in Collecting
      /\ pc'["recv"] = "link" <=> pc["recv"] = "link"
      /\ pc'["recv"] = "store" <=> pc["recv"] = "store"
  BY LoopStays, Names DEF Alone
<1>4. pc["recv"] \in Collecting => i # reg["recv"].node
  BY <1>2 DEF RxInv, RxReader, Off
<1>5. /\ rx' = [next |-> [rx.next EXCEPT ![i] = i], prev |-> [rx.prev EXCEPT ![i] = i]]
      /\ i \in RxNodes /\ i # Collector
  BY <1>2, Nodes DEF INIT_LIST_HEAD
<1>6. /\ Linked(rx', RxNodes)
      /\ \A n \in RxNodes : rx'.next[n] = IF n = i THEN i ELSE rx.next[n]
      /\ \A n \in RxNodes : rx'.prev[n] = IF n = i THEN i ELSE rx.prev[n]
  BY <1>1, <1>5 DEF Linked
<1>7. SameAlong(rx, rx', Collector, s)
  <2>1. \A n \in On(s) \cup {Collector} : n \in RxNodes /\ n # i
    BY <1>1, <1>2, <1>5, RxFacts
  <2>2. QED
    BY <1>6, <2>1 DEF SameAlong
<1>8. /\ Chain(rx, Collector, s) => Chain(rx', Collector, s)
      /\ Backs(rx, Collector, s) => Backs(rx', Collector, s)
  BY <1>1, <1>7, ListKept
<1>9. RxList(s)'
  BY <1>1, <1>6, <1>8 DEF RxList
<1>10. RxReader(t, s)'
  <2>1. rx'.next[i] = i
    BY <1>5, <1>6
  <2>2. QED
    BY <1>2, <1>3, <1>4, <2>1 DEF RxReader, Held, Parting, Off
<1>11. RxLoop(s)'
  <2>1. PICK n \in Slots : n = reg["recv"].node
    BY DEF RxInv, RxLoop
  <2>2. n # i => rx'.next[n] = rx.next[n] /\ rx'.prev[n] = rx.prev[n]
    BY <1>6, Nodes
  <2>3. n # i /\ Joining(rx, Collector, s, n) => Joining(rx', Collector, s, n)
    BY <1>1, <1>7, <2>2, JoiningKept
  <2>4. pc["recv"] = "store" => pc["recv"] \in Collecting
    BY DEF Collecting
  <2>5. QED
    BY <1>3, <1>4, <2>1, <2>2, <2>3, <2>4 DEF RxInv, RxLoop
<1>12. RxWhole(s)'
  <2>1. \A u \in NetThreads : pc[u] # "unlinked"
    BY DEF Alone
  <2>2. QED
    BY <1>3, <1>8, <2>1 DEF RxInv, RxWhole
<1>13. RxRest(s)'
  <2>1. ASSUME NEW k \in Slots \ On(s), rx'.next[k] # k
        PROVE  pc'["recv"] = "store" /\ reg'["recv"].node = k
    <3>1. k # i /\ rx.next[k] # k
      BY <1>6, <2>1, Nodes
    <3>2. ~\E u \in NetThreads : pc[u] = "reinit" /\ reg[u].node = k
      BY <1>2, <3>1 DEF Alone
    <3>3. QED
      BY <1>3, <3>1, <3>2 DEF RxInv, RxRest
  <2>2. QED
    BY <2>1 DEF RxRest
<1>14. QED
  BY <1>9, <1>10, <1>11, <1>12, <1>13, OthersReadNot DEF RxInv

LEMMA DecollectGiveRx ==
  ASSUME PlacesInv, NEW s, RxInv(s), NEW t \in NetThreads, Alone(t), pc[t] = "give", pc'[t] = "handle",
         rx' = rx, rx_own' = rx_own \cup {reg[t].node}
  PROVE  RxInv(s)'
<1>1. PICK i \in Slots : i = reg[t].node /\ i \notin rx_own \cup On(s)
  BY DEF RxInv, RxReader, Off
<1>2. /\ reg'["recv"] = reg["recv"]
      /\ pc'["recv"] \in Collecting <=> pc["recv"] \in Collecting
      /\ pc'["recv"] = "link" <=> pc["recv"] = "link"
      /\ pc'["recv"] = "store" <=> pc["recv"] = "store"
  BY LoopStays, Names DEF Alone
<1>3. pc["recv"] \in Collecting => i # reg["recv"].node
  BY <1>1 DEF RxInv, RxReader, Off
<1>4. RxList(s)'
  BY <1>1 DEF RxInv, RxList
<1>5. RxReader(t, s)'
  BY DEF RxReader, Held, Parting, Off
<1>6. RxLoop(s)'
  BY <1>1, <1>2, <1>3 DEF RxInv, RxLoop
<1>7. \A u \in NetThreads : pc[u] # "unlinked" /\ pc[u] # "reinit"
  BY DEF Alone
<1>8. RxWhole(s)'
  BY <1>2, <1>7 DEF RxInv, RxWhole
<1>9. RxRest(s)'
  BY <1>2, <1>7 DEF RxInv, RxRest
<1>10. QED
  BY <1>4, <1>5, <1>6, <1>8, <1>9, OthersReadNot DEF RxInv

-----------------------------------------------------------------------------
(* The frames.                                                             *)
LEMMA FrameIs ==
  ASSUME DataInv, NEW f \in Frames
  PROVE  f.id \in Nat /\ f.id <= arrived /\ f.kind # "torn"
<1>1. CASE f = Nothing
  BY <1>1 DEF Nothing, DataInv
<1>2. CASE f \in [id : 1 .. arrived, kind : Kinds]
  BY <1>2, PcnetAssumption DEF DataInv
<1>3. QED
  BY <1>1, <1>2 DEF Frames

LEMMA OthersBufferNot ==
  ASSUME NEW t, Alone(t), NEW u \in NetThreads \ {t}
  PROVE  Buffer(u)'
BY DEF Alone, Buffer, Keeping

(* A reader holds a frame that is the host's.                              *)
LEMMA KeptFrame ==
  ASSUME NEW s, RxInv(s), NEW t \in NetThreads, pc[t] \in Keeping \cup {"copy"}
  PROVE  reg[t].node \in Slots \ rx_own
<1>1. RxReader(t, s) /\ RxList(s)
  BY DEF RxInv
<1>2. CASE pc[t] \in Held \cup Parting
  <2>1. s # <<>> /\ reg[t].node = s[1]
    BY <1>1, <1>2 DEF RxReader
  <2>2. s[1] \in On(s) /\ On(s) \subseteq Slots
    BY <1>1, <2>1, RxFacts
  <2>3. QED
    BY <1>1, <2>1, <2>2 DEF RxList
<1>3. CASE pc[t] \in Off
  BY <1>1, <1>3 DEF RxReader
<1>4. QED
  BY <1>2, <1>3 DEF Keeping, Held, Parting, Off

LEMMA CardReceiveRead ==
  ASSUME PlacesInv, DataInv, ReadInv, NEW s, RxInv(s), NEW kind \in Kinds, CardReceive(kind),
         UNCHANGED <<buff, wire, asked, taken>>
  PROVE  DataInv' /\ ReadInv' /\ rx_own' \subseteq rx_own
<1>1. PICK f : f = [id |-> arrived + 1, kind |-> kind]
  OBVIOUS
<1>2. PICK last \in Slots : last = IF kind = "long" THEN Next1(cur_rx) ELSE cur_rx
  BY NextSlot DEF DataInv
<1>3. arrived \in Nat /\ arrived' = arrived + 1 /\ pc' = pc /\ reg' = reg /\ rx' = rx
  BY DEF CardReceive, DataInv
<1>4. Frames \subseteq Frames'
  BY <1>3 DEF Frames
<1>5. f \in Frames' /\ f \notin Frames /\ f # Nothing
  <2>1. f \in [id : 1 .. arrived + 1, kind : Kinds] /\ f.id = arrived + 1
    BY <1>1, <1>3
  <2>2. f \notin Frames
    BY <1>3, <2>1, FrameIs
  <2>3. QED
    BY <1>3, <2>1, <2>2 DEF Frames
<1>6. UNCHANGED txVars
  BY DEF CardReceive
<1>7. /\ cur_tx' = cur_tx /\ out' = out /\ base' = base /\ wire' = wire /\ asked' = asked /\ buff' = buff
      /\ taken' = taken
  BY <1>6 DEF txVars
<1>8. /\ \A i, j \in Slots : payload[i] = payload[j] /\ payload[i] # Nothing /\ ~Long(payload[i]) => i = j
      /\ taken \in Seq(Frames \ {Nothing})
      /\ \A m, n \in 1 .. Len(taken) : taken[m] = taken[n] /\ ~Long(taken[m]) => m = n
      /\ \A i \in Slots \ rx_own, n \in 1 .. Len(taken) : payload[i] = taken[n] => Long(taken[n])
  BY DEF ReadInv, FramesInv
<1>9. taken \in Seq(Frames' \ {Nothing})
  <2>1. Frames \ {Nothing} \subseteq Frames' \ {Nothing}
    BY <1>4
  <2>2. QED
    BY <1>8, <2>1, SeqMonotonic
<1>10. \A n \in 1 .. Len(taken) : taken[n] \in Frames
  BY <1>8, ElementOfSeq
<1>11. payload \in [Slots -> Frames] /\ rx_own \subseteq Slots /\ cur_rx \in Slots
  BY DEF DataInv
<1>12. CASE ~({cur_rx, last} \subseteq rx_own)
  <2>1. payload' = payload /\ rx_own' = rx_own /\ cur_rx' = cur_rx
    BY <1>2, <1>12 DEF CardReceive
  <2>2. DataInv'
    BY <1>3, <1>4, <1>7, <2>1 DEF DataInv
  <2>3. FramesInv'
    BY <1>7, <1>8, <1>9, <2>1 DEF FramesInv
  <2>4. \A t \in NetThreads : Buffer(t)'
    BY <1>3, <1>4, <1>7, <2>1 DEF ReadInv, Buffer
  <2>5. QED
    BY <2>1, <2>2, <2>3, <2>4 DEF ReadInv
<1>13. CASE {cur_rx, last} \subseteq rx_own
  <2>1. /\ payload' = [payload EXCEPT ![cur_rx] = f, ![last] = f]
        /\ rx_own' = rx_own \ {cur_rx, last} /\ cur_rx' = Next1(last)
    BY <1>1, <1>2, <1>13 DEF CardReceive
  <2>2. \A i \in Slots : payload'[i] = IF i \in {cur_rx, last} THEN f ELSE payload[i]
    BY <1>2, <1>11, <2>1
  <2>3. payload' \in [Slots -> Frames']
    BY <1>4, <1>5, <1>11, <2>1
  <2>4. DataInv'
    BY <1>2, <1>3, <1>7, <1>11, <2>1, <2>3, NextSlot DEF DataInv
  <2>5. \A i \in Slots : payload[i] # f
    BY <1>5, <1>11
  <2>6. ~Long(f) => cur_rx = last
    BY <1>1, <1>2 DEF Long
  <2>7. \A i, j \in Slots : payload'[i] = payload'[j] /\ payload'[i] # Nothing /\ ~Long(payload'[i]) => i = j
    <3> TAKE i, j \in Slots
    <3>1. CASE i \in {cur_rx, last}
      BY <2>2, <2>5, <2>6, <3>1
    <3>2. CASE i \notin {cur_rx, last}
      BY <1>8, <2>2, <2>5, <3>2
    <3>3. QED
      BY <3>1, <3>2
  <2>8. \A i \in Slots \ rx_own', n \in 1 .. Len(taken) : payload'[i] = taken[n] => Long(taken[n])
    <3> TAKE i \in Slots \ rx_own', n \in 1 .. Len(taken)
    <3>1. CASE i \in {cur_rx, last}
      BY <1>5, <1>10, <2>2, <3>1
    <3>2. CASE i \notin {cur_rx, last}
      <4>1. i \in Slots \ rx_own
        BY <2>1, <3>2
      <4>2. QED
        BY <1>8, <2>2, <3>2, <4>1
    <3>3. QED
      BY <3>1, <3>2
  <2>9. FramesInv'
    BY <1>7, <1>8, <1>9, <2>7, <2>8 DEF FramesInv
  <2>10. ASSUME NEW t \in NetThreads
         PROVE  Buffer(t)'
    <3>1. Buffer(t)
      BY DEF ReadInv
    <3>2. pc[t] \in Keeping => payload'[reg[t].node] = payload[reg[t].node]
      <4>1. ASSUME pc[t] \in Keeping
            PROVE  payload'[reg[t].node] = payload[reg[t].node]
        <5>1. reg[t].node \in Slots \ rx_own
          BY <4>1, KeptFrame
        <5>2. QED
          BY <1>13, <2>2, <5>1
      <4>2. QED
        BY <4>1
    <3>3. pc[t] = "handle" => buff \in Frames /\ buff # f
      BY <1>5, <3>1 DEF Buffer
    <3>4. ASSUME pc[t] = "handle", buff # Nothing, ~Long(buff), NEW i \in Slots \ rx_own'
          PROVE  payload'[i] # buff
      <4>1. CASE i \in {cur_rx, last}
        BY <2>2, <3>3, <3>4, <4>1
      <4>2. CASE i \notin {cur_rx, last}
        <5>1. i \in Slots \ rx_own
          BY <2>1, <4>2
        <5>2. QED
          BY <2>2, <3>1, <3>4, <4>2, <5>1 DEF Buffer
      <4>3. QED
        BY <4>1, <4>2
    <3>5. QED
      BY <1>3, <1>4, <1>7, <3>1, <3>2, <3>3, <3>4 DEF Buffer
  <2>11. QED
    BY <2>1, <2>4, <2>9, <2>10 DEF ReadInv
<1>14. QED
  BY <1>12, <1>13

LEMMA CopyRead ==
  ASSUME PlacesInv, DataInv, ReadInv, NEW s, RxInv(s), NEW t \in NetThreads, Alone(t), Copy(t)
  PROVE  /\ buff'.id \in Nat /\ ReadInv'
         /\ pc[t] \in {"copy", "copying"} /\ pc'[t] \in {"refuse", "copying", "release"}
         /\ reg' = reg
<1>1. pc'[t] = "refuse" \/ pc'[t] = "copying" \/ pc'[t] = "release"
  <2>1. t \in DOMAIN pc
    BY Names DEF PlacesInv
  <2>2. QED
    BY <2>1 DEF Copy, Goto
<1>2. /\ pc[t] \in {"copy", "copying"} /\ reg' = reg /\ payload' = payload /\ rx_own' = rx_own
      /\ taken' = taken /\ arrived' = arrived
  BY DEF Copy, At, rxVars
<1>3. PICK i \in Slots : i = reg[t].node
  BY <1>2, KeptFrame DEF Keeping
<1>4. payload[i] \in Frames /\ payload[i].id \in Nat /\ buff.id \in Nat
  BY FrameIs DEF DataInv
<1>5. FramesInv'
  BY <1>2 DEF ReadInv, FramesInv, Frames
<1>6. t \in DOMAIN pc /\ Buffer(t)
  BY Names DEF PlacesInv, ReadInv
<1>7. CASE At(t, "copy") /\ Goto(t, "refuse") /\ UNCHANGED buff
  <2>1. Buffer(t)'
    BY <1>6, <1>7 DEF Goto, Buffer, Keeping
  <2>2. QED
    BY <1>1, <1>2, <1>4, <1>5, <1>7, <2>1, OthersBufferNot DEF ReadInv
<1>8. CASE /\ At(t, "copy") /\ Goto(t, "copying")
           /\ buff' = IF len[i] = "none" THEN Nothing ELSE payload[i]
  <2>1. pc'[t] = "copying"
    BY <1>6, <1>8 DEF Goto
  <2>2. buff' \in {Nothing, payload[i]}
    BY <1>8
  <2>3. buff'.id \in Nat
    BY <1>4, <2>2 DEF Nothing
  <2>4. Buffer(t)'
    BY <1>2, <1>3, <2>1, <2>2 DEF Buffer
  <2>5. QED
    BY <1>1, <1>2, <1>5, <2>3, <2>4, OthersBufferNot DEF ReadInv
<1>9. CASE /\ At(t, "copying") /\ Goto(t, "release")
           /\ buff' = IF buff \in {Nothing, payload[i]} THEN buff ELSE [id |-> payload[i].id, kind |-> "torn"]
  <2>1. pc[t] = "copying" /\ pc'[t] = "release"
    BY <1>6, <1>9 DEF Goto, At
  <2>2. buff \in {Nothing, payload[i]}
    BY <1>3, <1>6, <2>1 DEF Buffer, Keeping
  <2>3. buff' = buff
    BY <1>9, <2>2
  <2>4. Buffer(t)'
    BY <1>2, <1>3, <2>1, <2>2, <2>3 DEF Buffer
  <2>5. QED
    BY <1>1, <1>2, <1>4, <1>5, <2>3, <2>4, OthersBufferNot DEF ReadInv
<1>10. QED
  BY <1>3, <1>7, <1>8, <1>9 DEF Copy

(* The descriptor goes back to the card, and the frame to its protocol.    *)
LEMMA GiveRead ==
  ASSUME PlacesInv, DataInv, ReadInv, NEW s, RxInv(s), NEW t \in NetThreads, Alone(t),
         pc[t] = "give", pc'[t] = "handle", rx_own' = rx_own \cup {reg[t].node},
         UNCHANGED <<payload, arrived, buff, taken>>
  PROVE  ReadInv' /\ rx_own' \subseteq Slots
<1>1. PICK i \in Slots \ rx_own : i = reg[t].node
  BY KeptFrame DEF Keeping
<1>2. /\ \A j, k \in Slots : payload[j] = payload[k] /\ payload[j] # Nothing /\ ~Long(payload[j]) => j = k
      /\ \A j \in Slots \ rx_own, n \in 1 .. Len(taken) : payload[j] = taken[n] => Long(taken[n])
  BY DEF ReadInv, FramesInv
<1>3. FramesInv'
  BY DEF ReadInv, FramesInv, Frames
<1>4. buff \in {Nothing, payload[i]}
  BY <1>1 DEF ReadInv, Buffer, Keeping
<1>5. buff' \in Frames'
  BY <1>1, <1>4 DEF DataInv, Frames
<1>6. ASSUME buff # Nothing, ~Long(buff)
      PROVE  /\ \A n \in 1 .. Len(taken) : taken[n] # buff
             /\ \A k \in Slots \ rx_own' : payload[k] # buff
  <2>1. buff = payload[i]
    BY <1>4, <1>6
  <2>2. \A n \in 1 .. Len(taken) : taken[n] # buff
    BY <1>1, <1>2, <1>6, <2>1
  <2>3. \A k \in Slots \ rx_own' : k # i /\ k \in Slots
    BY <1>1
  <2>4. QED
    BY <1>1, <1>2, <1>6, <2>1, <2>2, <2>3
<1>7. Buffer(t)'
  BY <1>5, <1>6 DEF Buffer, Keeping
<1>8. rx_own' \subseteq Slots
  BY <1>1 DEF DataInv
<1>9. QED
  BY <1>3, <1>7, <1>8, OthersBufferNot DEF ReadInv

LEMMA HandleRead ==
  ASSUME DataInv, ReadInv, NEW t \in NetThreads, Alone(t), pc[t] = "handle", pc'[t] \in {"arp", "loop"},
         taken' = IF buff = Nothing THEN taken ELSE Append(taken, buff),
         UNCHANGED <<payload, rx_own, arrived, buff>>
  PROVE  ReadInv'
<1>1. Buffer(t)'
  BY DEF Buffer, Keeping
<1>2. /\ \A i, j \in Slots : payload[i] = payload[j] /\ payload[i] # Nothing /\ ~Long(payload[i]) => i = j
      /\ taken \in Seq(Frames \ {Nothing})
      /\ \A m, n \in 1 .. Len(taken) : taken[m] = taken[n] /\ ~Long(taken[m]) => m = n
      /\ \A i \in Slots \ rx_own, n \in 1 .. Len(taken) : payload[i] = taken[n] => Long(taken[n])
  BY DEF ReadInv, FramesInv
<1>3. CASE buff = Nothing
  <2>1. FramesInv'
    BY <1>3 DEF ReadInv, FramesInv, Frames
  <2>2. QED
    BY <1>1, <2>1, OthersBufferNot DEF ReadInv
<1>4. CASE buff # Nothing
  <2>1. PICK k \in Nat : k = Len(taken)
    BY <1>2, LenProperties
  <2>2. buff \in Frames \ {Nothing}
    BY <1>4 DEF ReadInv, Buffer
  <2>3. /\ taken' \in Seq(Frames \ {Nothing}) /\ Len(taken') = k + 1
        /\ \A n \in 1 .. k : taken'[n] = taken[n]
        /\ taken'[k + 1] = buff
    <3>1. taken' = Append(taken, buff)
      BY <1>4
    <3>2. QED
      BY <1>2, <2>1, <2>2, <3>1, AppendProperties
  <2>4. ~Long(buff) => /\ \A n \in 1 .. k : taken[n] # buff
                       /\ \A i \in Slots \ rx_own : payload[i] # buff
    BY <1>4, <2>1 DEF ReadInv, Buffer
  <2>5. \A n \in 1 .. k + 1 : n = k + 1 \/ n \in 1 .. k
    BY <2>1
  <2>6. \A m, n \in 1 .. k + 1 : taken'[m] = taken'[n] /\ ~Long(taken'[m]) => m = n
    <3> TAKE m, n \in 1 .. k + 1
    <3> HAVE taken'[m] = taken'[n] /\ ~Long(taken'[m])
    <3>1. CASE m \in 1 .. k /\ n \in 1 .. k
      BY <1>2, <2>1, <2>3, <3>1
    <3>2. CASE m = k + 1 /\ n \in 1 .. k
      BY <2>3, <2>4, <3>2
    <3>3. CASE m \in 1 .. k /\ n = k + 1
      BY <2>3, <2>4, <3>3
    <3>4. QED
      BY <2>5, <3>1, <3>2, <3>3
  <2>7. \A i \in Slots \ rx_own, n \in 1 .. k + 1 : payload[i] = taken'[n] => Long(taken'[n])
    <3> TAKE i \in Slots \ rx_own, n \in 1 .. k + 1
    <3>1. CASE n = k + 1
      BY <2>3, <2>4, <3>1
    <3>2. CASE n \in 1 .. k
      BY <1>2, <2>1, <2>3, <3>2
    <3>3. QED
      BY <2>5, <3>1, <3>2
  <2>8. FramesInv'
    BY <1>2, <2>3, <2>6, <2>7 DEF FramesInv, Frames
  <2>9. QED
    BY <1>1, <2>8, OthersBufferNot DEF ReadInv
<1>5. QED
  BY <1>3, <1>4

LEMMA LoopRead ==
  ASSUME ReadInv, NEW t \in NetThreads, Alone(t), pc'[t] \in {"lock", "dead"},
         UNCHANGED <<payload, rx_own, arrived, taken>>
  PROVE  ReadInv'
<1>1. FramesInv'
  BY DEF ReadInv, FramesInv, Frames
<1>2. Buffer(t)'
  BY DEF Buffer, Keeping
<1>3. QED
  BY <1>1, <1>2, OthersBufferNot DEF ReadInv

-----------------------------------------------------------------------------
(* The steps of the shell, the card, the loops and the net threads keep    *)
(* the invariant.                                                          *)
Steady == TypeInv /\ SessionInv /\ TxInv
Clear == ReadInv /\ \E s : RxInv(s)
Onward == Steady' /\ (~Met' => Clear')

LEMMA DataKept ==
  ASSUME DataInv, UNCHANGED <<rxVars, txVars, buff, asked>>
  PROVE  DataInv'
BY DEF DataInv, Frames, rxVars, txVars

(* A step that neither the lists nor the frames see.                       *)
Unseen(t) == pc'[t] \in Places /\ TxSame(t) /\ RxSame(t) /\ ReadSame(t)

LEMMA Quiet ==
  ASSUME Steady, Clear, NEW A, Only(A), "send" \notin A, SessionInv', DataInv',
         "recv" \in A => RecvSame /\ pc'["recv"] \in RecvPlaces,
         "shell" \in A => pc'["shell"] \in ShellPlaces,
         \A t \in NetThreads : t \in A => Unseen(t),
         UNCHANGED <<txVars, rx, rx_own, payload, arrived, buff, asked, taken>>
  PROVE  Onward
<1>1. PlacesInv'
  BY PlacesKept DEF Steady, TypeInv, Unseen
<1>2. TxInv'
  BY TxKept DEF Steady, TypeInv, Unseen
<1>3. ReadInv'
  BY ReadKept DEF Clear, Unseen
<1>4. PICK s : RxInv(s)
  BY DEF Clear
<1>5. RxInv(s)'
  BY <1>4, RxKept DEF Steady, TypeInv, Unseen
<1>6. \E r : RxInv(r)'
  BY <1>5
<1>7. QED
  BY <1>1, <1>2, <1>3, <1>6 DEF Onward, Steady, TypeInv, Clear

(* A step of a net thread that is alive, and stays so.                     *)
LEMMA Reader ==
  ASSUME Steady, NEW t \in NetThreads, Alive(t), Only({t}), pc'[t] \in Places, TxSame(t),
         processing_ip' = processing_ip, UNCHANGED <<txVars, asked>>, DataInv'
  PROVE  Steady' /\ Alone(t)
<1>1. PlacesInv /\ SessionInv /\ TxInv /\ "recv" # t /\ "send" # t /\ "shell" # t
  BY Names DEF Steady, TypeInv
<1>2. PlacesInv'
  BY <1>1, PlacesKept
<1>3. SessionInv'
  BY <1>1, SessionKept
<1>4. TxInv'
  BY <1>1, TxKept
<1>5. \A u \in NetThreads \ {t} : pc[u] \in {"none", "dead"} /\ pc'[u] = pc[u]
  BY <1>1, OthersAway
<1>6. QED
  BY <1>2, <1>3, <1>4, <1>5 DEF Steady, TypeInv, Alone

(* A step of the receive loop.                                             *)
LEMMA Receiver ==
  ASSUME Steady, ReadInv, Only({"recv"}), pc'["recv"] \in RecvPlaces, processing_ip' = processing_ip,
         UNCHANGED <<txVars, rx_own, payload, arrived, cur_rx, buff, asked, taken>>
  PROVE  Steady' /\ ReadInv'
<1>1. PlacesInv /\ SessionInv /\ TxInv /\ DataInv /\ "recv" \notin NetThreads /\ "recv" # "send" /\ "recv" # "shell"
  BY Names DEF Steady, TypeInv
<1>2. PlacesInv'
  BY <1>1, PlacesKept
<1>3. SessionInv'
  BY <1>1, SessionKept
<1>4. TxInv'
  BY <1>1, TxKept
<1>5. ReadInv'
  BY <1>1, ReadKept
<1>6. DataInv'
  BY <1>1 DEF DataInv, Frames, txVars
<1>7. QED
  BY <1>2, <1>3, <1>4, <1>5, <1>6 DEF Steady, TypeInv

(* The shell.                                                              *)
LEMMA RefreshStep ==
  ASSUME Steady, Clear, Refresh
  PROVE  Onward
<1>1. /\ pc["shell"] = "prompt" /\ reg' = reg /\ UNCHANGED <<rxVars, txVars, buff, asked, taken>>
      /\ Goto("shell", "panicked") \/ pc' = pc
  BY DEF Refresh, At
<1>2. Only({"shell"}) /\ pc'["shell"] \in ShellPlaces
  <2>1. CASE Goto("shell", "panicked")
    BY <1>1, <2>1, Moving, Names DEF Steady, TypeInv, ShellPlaces
  <2>2. CASE pc' = pc
    <3>1. Only({"shell"})
      BY <1>1, <2>2, Names DEF Only, Same, Steady, TypeInv, PlacesInv
    <3>2. pc'["shell"] = "prompt"
      BY <1>1, <2>2
    <3>3. QED
      BY <3>1, <3>2 DEF ShellPlaces
  <2>3. QED
    BY <1>1, <2>1, <2>2
<1>3. SessionInv'
  <2>1. \A u \in NetThreads : ~Alive(u)
    BY <1>1 DEF Steady, SessionInv
  <2>2. \A u \in NetThreads : Alive(u)' => Alive(u)
    BY <1>2, Names DEF Only, Same, Woke, Alive
  <2>3. QED
    BY <2>1, <2>2 DEF SessionInv
<1>4. DataInv'
  BY <1>1, DataKept DEF Steady, TypeInv
<1>5. QED
  BY <1>1, <1>2, <1>3, <1>4, Quiet, Names DEF rxVars

LEMMA StartSessionStep ==
  ASSUME Steady, Clear, StartSession
  PROVE  Onward
<1>1. PICK k \in DOMAIN Sessions :
        At(Sessions[k], "none") /\ pc' = [pc EXCEPT !["shell"] = "typing", ![Sessions[k]] = "open"]
  BY DEF StartSession
<1>2. PICK t \in NetThreads : t = Sessions[k]
  BY DEF NetThreads
<1>3. /\ pc["shell"] = "prompt" /\ pc[t] = "none" /\ pc' = [pc EXCEPT !["shell"] = "typing", ![t] = "open"]
      /\ reg' = reg /\ UNCHANGED <<rxVars, txVars, buff, asked, taken>>
  BY <1>1, <1>2 DEF StartSession, At
<1>4. DOMAIN pc = Threads /\ DOMAIN reg = Threads /\ "shell" \in Threads /\ t \in Threads /\ t # "shell"
      /\ t # "send" /\ t # "recv" /\ "shell" \notin NetThreads /\ "shell" # "send" /\ "shell" # "recv"
  BY Names DEF Steady, TypeInv, PlacesInv
<1>5. pc'["shell"] = "typing" /\ pc'[t] = "open" /\ DOMAIN pc' = Threads
      /\ \A u \in Threads \ {"shell", t} : pc'[u] = pc[u]
  BY <1>3, <1>4
<1>6. Only({"shell", t})
  BY <1>3, <1>4, <1>5 DEF Only, Same
<1>7. \A u \in NetThreads : ~Alive(u)
  BY <1>3 DEF Steady, SessionInv
<1>8. \A u \in NetThreads \ {t} : ~Alive(u)'
  BY <1>4, <1>5, <1>7, Names DEF Alive
<1>9. SessionInv'
  BY <1>5, <1>8 DEF SessionInv
<1>10. DataInv'
  BY <1>3, DataKept DEF Steady, TypeInv
<1>11. \A u \in NetThreads : u \in {"shell", t} => Unseen(u)
  <2>1. Unseen(t)
    BY <1>3, <1>5 DEF Unseen, Places, TxSame, RxSame, ReadSame, Sending, Parting, Off, Held, Keeping
  <2>2. QED
    BY <2>1, <1>4
<1>12. QED
  BY <1>3, <1>4, <1>5, <1>6, <1>9, <1>10, <1>11, Quiet DEF rxVars, ShellPlaces

LEMMA TypeExitStep ==
  ASSUME Steady, Clear, TypeExit
  PROVE  Onward
<1>1. /\ pc["shell"] = "typing" /\ Goto("shell", "exiting") /\ ~processing_ip' /\ reg' = reg
      /\ UNCHANGED <<rxVars, txVars, buff, asked, taken>>
  BY DEF TypeExit, At
<1>2. Only({"shell"}) /\ pc'["shell"] = "exiting"
  BY <1>1, Moving, Names DEF Steady, TypeInv
<1>3. SessionInv'
  <2>1. \A u \in NetThreads : Alive(u)' => Alive(u)
    BY <1>2, Names DEF Only, Same, Woke, Alive
  <2>2. QED
    BY <2>1, <1>1, <1>2 DEF Steady, SessionInv
<1>4. DataInv'
  BY <1>1, DataKept DEF Steady, TypeInv
<1>5. QED
  BY <1>1, <1>2, <1>3, <1>4, Quiet, Names DEF rxVars, ShellPlaces

LEMMA ExitedStep ==
  ASSUME Steady, Clear, Exited
  PROVE  Onward
<1>1. /\ pc["shell"] = "exiting" /\ processing_ip /\ Goto("shell", "prompt") /\ reg' = reg
      /\ UNCHANGED <<rxVars, txVars, buff, asked, taken>>
  BY DEF Exited, At, netVars
<1>2. Only({"shell"}) /\ pc'["shell"] = "prompt"
  BY <1>1, Moving, Names DEF Steady, TypeInv
<1>3. SessionInv'
  <2>1. \A u \in NetThreads : Alive(u)' => Alive(u)
    BY <1>2, Names DEF Only, Same, Woke, Alive
  <2>2. QED
    BY <2>1, <1>1 DEF Steady, SessionInv
<1>4. DataInv'
  BY <1>1, DataKept DEF Steady, TypeInv
<1>5. QED
  BY <1>1, <1>2, <1>3, <1>4, Quiet, Names DEF rxVars, ShellPlaces

-----------------------------------------------------------------------------
(* The card, the receive loop and the send loop.                           *)
LEMMA CardReceiveStep ==
  ASSUME Steady, Clear, NEW kind \in Kinds, CardReceive(kind), UNCHANGED netVars
  PROVE  Onward
<1>1. PICK s : RxInv(s)
  BY DEF Clear
<1>2. UNCHANGED <<pc, reg, rx, txVars, processing_ip, buff, asked, taken>>
  BY DEF CardReceive, netVars
<1>3. DataInv' /\ ReadInv' /\ rx_own' \subseteq rx_own
  BY <1>1, <1>2, CardReceiveRead DEF Steady, TypeInv, Clear, txVars
<1>4. Only({})
  BY <1>2 DEF Only, Same, Steady, TypeInv, PlacesInv
<1>5. PlacesInv' /\ SessionInv' /\ TxInv'
  BY <1>2, <1>4, PlacesKept, SessionKept, TxKept DEF Steady, TypeInv
<1>6. RxInv(s)'
  BY <1>1, <1>2, <1>3, <1>4, RxKept DEF Steady, TypeInv
<1>7. QED
  BY <1>3, <1>5, <1>6 DEF Onward, Steady, TypeInv, Clear

LEMMA CardSendStep ==
  ASSUME Steady, Clear, CardSend, UNCHANGED netVars
  PROVE  Onward
<1>1. PICK s : RxInv(s)
  BY DEF Clear
<1>2. UNCHANGED <<pc, reg, rxVars, base, out, processing_ip, buff, asked, taken>>
  BY DEF CardSend, netVars
<1>3. TxInv' /\ wire' \in Seq(Nat) /\ cur_tx' \in Slots
  BY <1>2, CardSendTx DEF Steady
<1>4. DataInv'
  BY <1>2, <1>3 DEF Steady, TypeInv, DataInv, Frames, rxVars
<1>5. Only({})
  BY <1>2 DEF Only, Same, Steady, TypeInv, PlacesInv
<1>6. PlacesInv' /\ SessionInv'
  BY <1>2, <1>5, PlacesKept, SessionKept DEF Steady, TypeInv
<1>7. RxInv(s)' /\ ReadInv'
  BY <1>1, <1>2, <1>5, RxKept, ReadKept DEF Steady, TypeInv, Clear, rxVars
<1>8. QED
  BY <1>3, <1>4, <1>6, <1>7 DEF Onward, Steady, TypeInv, Clear

LEMMA ScanStep ==
  ASSUME Steady, Clear, Scan, UNCHANGED netVars
  PROVE  Onward
<1>1. PICK s : RxInv(s)
  BY DEF Clear
<1>2. PICK i : i = reg["recv"].node
  OBVIOUS
<1>3. /\ pc["recv"] = "scan" /\ i \in Slots
      /\ UNCHANGED <<rx, rx_own, payload, arrived, cur_rx, txVars, processing_ip, buff, asked, taken>>
  BY <1>1, <1>2 DEF Scan, At, RxInv, RxLoop, netVars
<1>4. CASE list_empty(rx, i) /\ i \notin rx_own
  <2>1. Goto("recv", "lock") /\ reg' = reg
    BY <1>2, <1>4 DEF Scan
  <2>2. Only({"recv"}) /\ pc'["recv"] = "lock" /\ reg'["recv"] = reg["recv"]
    BY <2>1, Moving, Names DEF Steady, TypeInv
  <2>3. Steady' /\ ReadInv'
    BY <1>3, <2>2, Receiver DEF Clear, RecvPlaces
  <2>4. ~Met' => RxInv(s)'
    BY <1>1, <1>2, <1>3, <1>4, <2>2, ScanRx DEF Steady, TypeInv
  <2>5. QED
    BY <2>3, <2>4 DEF Onward, Clear
<1>5. CASE ~(list_empty(rx, i) /\ i \notin rx_own)
  <2>1. PICK r : r = [node |-> Next1(i), prev |-> 0, next |-> 0]
    OBVIOUS
  <2>2. pc' = pc /\ reg' = [reg EXCEPT !["recv"] = r]
    BY <1>2, <1>5, <2>1 DEF Scan, SetReg
  <2>3. Only({"recv"}) /\ pc'["recv"] = "scan" /\ reg'["recv"] = r
    BY <1>3, <2>2, Setting, Names DEF Steady, TypeInv
  <2>4. Next1(i) \in Slots
    BY <1>3, PcnetAssumption DEF Next1, Slots
  <2>5. Steady' /\ ReadInv'
    BY <1>3, <2>3, Receiver DEF Clear, RecvPlaces
  <2>6. RecvSame
    BY <1>3, <2>1, <2>3, <2>4 DEF RecvSame, Collecting
  <2>7. RxInv(s)'
    BY <1>1, <1>3, <2>3, <2>6, RxKept, Names DEF Steady, TypeInv
  <2>8. QED
    BY <2>5, <2>7 DEF Onward, Clear
<1>6. QED
  BY <1>4, <1>5

LEMMA CollectStep ==
  ASSUME Steady, Clear, ~Met, Collect, UNCHANGED netVars
  PROVE  Onward
<1>1. PICK s : RxInv(s)
  BY DEF Clear
<1>2. UNCHANGED <<rx_own, payload, arrived, cur_rx, txVars, processing_ip, buff, asked, taken>>
  BY DEF Collect, netVars, rxVars
<1>3. CASE At("recv", "load")
  <2>1. PICK r : r = [node |-> reg["recv"].node, prev |-> rx.prev[Collector], next |-> Collector]
    OBVIOUS
  <2>2. pc["recv"] = "load" /\ Goto("recv", "link") /\ reg' = [reg EXCEPT !["recv"] = r] /\ rx' = rx
    BY <1>3, <2>1 DEF Collect, At, LoadTail, SetReg, rxVars
  <2>3. Only({"recv"}) /\ pc'["recv"] = "link" /\ reg'["recv"] = r
    BY <2>2, Moving, Names DEF Steady, TypeInv
  <2>4. Steady' /\ ReadInv'
    BY <1>2, <2>3, Receiver DEF Clear, RecvPlaces
  <2>5. ~Met' => RxInv(s)'
    BY <1>1, <1>2, <2>1, <2>2, <2>3, CollectLoadRx DEF Steady, TypeInv
  <2>6. QED
    BY <2>4, <2>5 DEF Onward, Clear
<1>4. CASE At("recv", "link")
  <2>1. pc["recv"] = "link" /\ Goto("recv", "store") /\ reg' = reg /\ rx' = Attached(rx, reg["recv"], Collector)
    BY <1>4 DEF Collect, At
  <2>2. Only({"recv"}) /\ pc'["recv"] = "store" /\ reg'["recv"] = reg["recv"]
    BY <2>1, Moving, Names DEF Steady, TypeInv
  <2>3. Steady' /\ ReadInv'
    BY <1>2, <2>2, Receiver DEF Clear, RecvPlaces
  <2>4. RxInv(s)'
    BY <1>1, <1>2, <2>1, <2>2, CollectLinkRx DEF Steady, TypeInv
  <2>5. QED
    BY <2>3, <2>4 DEF Onward, Clear
<1>5. CASE At("recv", "store")
  <2>1. pc["recv"] = "store" /\ Goto("recv", "broadcast") /\ reg' = reg /\ rx' = Added(rx, reg["recv"])
    BY <1>5 DEF Collect, At
  <2>2. Only({"recv"}) /\ pc'["recv"] = "broadcast" /\ reg'["recv"] = reg["recv"]
    BY <2>1, Moving, Names DEF Steady, TypeInv
  <2>3. Steady' /\ ReadInv'
    BY <1>2, <2>2, Receiver DEF Clear, RecvPlaces
  <2>4. (\E r : RxInv(r))'
    BY <1>1, <1>2, <2>1, <2>2, CollectStoreRx DEF Steady, TypeInv
  <2>5. QED
    BY <2>3, <2>4 DEF Onward, Clear
<1>6. QED
  BY <1>3, <1>4, <1>5 DEF Collect

(* A step of the loop that collects nothing.                               *)
LEMMA RecvQuiet ==
  ASSUME Steady, Clear, Only({"recv"}), UNCHANGED <<rxVars, txVars, netVars>>,
         pc'["recv"] \in RecvPlaces, RecvSame
  PROVE  Onward
<1>1. "recv" \notin NetThreads /\ "recv" # "send" /\ "recv" # "shell"
  BY Names
<1>2. SessionInv'
  BY <1>1, SessionKept DEF Steady, TypeInv, netVars
<1>3. DataInv'
  BY DataKept DEF Steady, TypeInv, netVars
<1>4. QED
  BY <1>1, <1>2, <1>3, Quiet DEF rxVars, netVars

LEMMA RecvMutexStep ==
  ASSUME Steady, Clear, MutexLock("recv", "load") \/ Block("recv"), UNCHANGED netVars
  PROVE  Onward
<1>1. PICK p : Goto("recv", p) /\ p \in {"block", "load", "asleep"}
  BY DEF MutexLock, Block
<1>2. reg' = reg /\ pc["recv"] \in {"lock", "block"} /\ UNCHANGED <<rxVars, txVars>>
  BY DEF MutexLock, Block, At
<1>3. Only({"recv"}) /\ pc'["recv"] = p /\ reg'["recv"] = reg["recv"]
  BY <1>1, <1>2, Moving, Names DEF Steady, TypeInv
<1>4. RecvSame
  BY <1>1, <1>2, <1>3 DEF RecvSame, Collecting, Clear, RxInv, RxLoop
<1>5. QED
  BY <1>1, <1>2, <1>3, <1>4, RecvQuiet DEF RecvPlaces

LEMMA BroadcastStep ==
  ASSUME Steady, Clear, Broadcast, UNCHANGED netVars
  PROVE  Onward
<1>1. /\ pc["recv"] = "broadcast" /\ reg' = reg /\ UNCHANGED <<rxVars, txVars>>
      /\ DOMAIN pc = Threads /\ DOMAIN reg = Threads
  BY DEF Broadcast, At, Steady, TypeInv, PlacesInv
<1>2. pc' = [t \in Threads |-> IF t = "recv" THEN "release" ELSE IF pc[t] = "waiting" THEN "lock" ELSE pc[t]]
  BY <1>1 DEF Broadcast, At
<1>3. pc'["recv"] = "release" /\ DOMAIN pc' = Threads
  BY <1>2, Names
<1>4. \A u \in Threads \ {"recv"} : pc'[u] = IF pc[u] = "waiting" THEN "lock" ELSE pc[u]
  BY <1>2
<1>5. Only({"recv"})
  BY <1>1, <1>3, <1>4, Names DEF Only, Same, Woke
<1>6. RecvSame
  BY <1>1, <1>3 DEF RecvSame, Collecting, Clear, RxInv, RxLoop
<1>7. QED
  BY <1>1, <1>3, <1>5, <1>6, RecvQuiet DEF RecvPlaces

LEMMA RecvUnlockStep ==
  ASSUME Steady, Clear, MutexUnlock("recv", "release", "scan"), UNCHANGED netVars
  PROVE  Onward
<1>1. PICK r : r = [node |-> reg["recv"].node, prev |-> 0, next |-> 0]
  OBVIOUS
<1>2. /\ pc["recv"] = "release" /\ Unlocking("recv", "scan") /\ UNCHANGED <<rxVars, txVars>>
      /\ reg' = [reg EXCEPT !["recv"] = r]
  BY <1>1 DEF MutexUnlock, At, SetReg
<1>3. Only({"recv"}) /\ pc'["recv"] = "scan" /\ reg'["recv"] = r
  BY <1>2, Waking, Names DEF Steady, TypeInv
<1>4. RecvSame
  BY <1>1, <1>2, <1>3 DEF RecvSame, Collecting, Clear, RxInv, RxLoop
<1>5. QED
  BY <1>2, <1>3, <1>4, RecvQuiet DEF RecvPlaces

LEMMA SendStep ==
  ASSUME Steady, Clear, SendLoop, UNCHANGED netVars
  PROVE  Onward
<1>1. UNCHANGED <<rxVars, base, out, cur_tx, wire, processing_ip, buff, asked, taken>>
  BY DEF SendLoop, Poll, DecollectTx, txVars, netVars
<1>2. TxInv' /\ Only({"send"}) /\ pc'["send"] \in SendPlaces
  BY <1>1, PollTx, DecollectTxTx DEF Steady, SendLoop, SendPlaces
<1>3. "send" \notin NetThreads /\ "recv" # "send" /\ "send" # "shell"
  BY Names
<1>4. PlacesInv' /\ SessionInv'
  BY <1>1, <1>2, <1>3, PlacesKept, SessionKept DEF Steady, TypeInv
<1>5. DataInv'
  BY <1>1 DEF Steady, TypeInv, DataInv, Frames, rxVars
<1>6. PICK s : RxInv(s)
  BY DEF Clear
<1>7. RxInv(s)' /\ ReadInv'
  BY <1>1, <1>2, <1>3, <1>6, RxKept, ReadKept DEF Steady, TypeInv, Clear, rxVars
<1>8. QED
  BY <1>2, <1>4, <1>5, <1>7 DEF Onward, Steady, TypeInv, Clear

-----------------------------------------------------------------------------
(* The net threads.                                                        *)
LEMMA NetQuiet ==
  ASSUME Steady, Clear, NEW t \in NetThreads, Alive(t), Only({t}), Unseen(t),
         UNCHANGED <<rxVars, txVars, processing_ip, buff, asked, taken>>
  PROVE  Onward
<1>1. t # "recv" /\ t # "send" /\ t # "shell"
  BY Names
<1>2. SessionInv'
  BY <1>1, SessionKept DEF Steady, TypeInv
<1>3. DataInv'
  BY DataKept DEF Steady, TypeInv
<1>4. QED
  BY <1>1, <1>2, <1>3, Quiet DEF rxVars

LEMMA OpenStep ==
  ASSUME Steady, Clear, NEW t \in NetThreads, Open(t)
  PROVE  Onward
<1>1. PICK p \in {"panicked", "loop", "open"} : Goto(t, p)
  BY DEF Open
<1>2. PICK r : r = [node |-> reg[t].node + 1, prev |-> 0, next |-> 0]
  OBVIOUS
<1>3. /\ pc[t] = "open" /\ (reg' = reg \/ reg' = [reg EXCEPT ![t] = r])
      /\ UNCHANGED <<rxVars, txVars, processing_ip, buff, asked, taken>>
  BY <1>2 DEF Open, At, SetReg
<1>4. Only({t}) /\ pc'[t] = p
  BY <1>1, <1>3, Moving, Names DEF Steady, TypeInv
<1>5. Unseen(t)
  BY <1>3, <1>4 DEF Unseen, Places, TxSame, RxSame, ReadSame, Sending, Parting, Off, Held, Keeping
<1>6. QED
  BY <1>3, <1>4, <1>5, NetQuiet DEF Alive

LEMMA LoopStep ==
  ASSUME Steady, Clear, NEW t \in NetThreads, Loop(t)
  PROVE  Onward
<1>1. PICK s : RxInv(s)
  BY DEF Clear
<1>2. /\ pc[t] = "loop" /\ reg' = reg /\ UNCHANGED <<rxVars, txVars, asked, taken>>
      /\ t # "recv" /\ t # "send" /\ t # "shell"
  BY Names DEF Loop, At
<1>3. PICK p \in {"lock", "dead"} : Goto(t, p)
  BY DEF Loop
<1>4. Only({t}) /\ pc'[t] = p
  BY <1>2, <1>3, Moving, Names DEF Steady, TypeInv
<1>5. PlacesInv'
  BY <1>2, <1>4, PlacesKept DEF Steady, TypeInv, Places
<1>6. TxInv'
  <2>1. TxSame(t)
    BY <1>2, <1>4 DEF TxSame, Sending
  <2>2. QED
    BY <1>2, <1>4, <2>1, TxKept DEF Steady, TypeInv
<1>7. RxInv(s)'
  <2>1. RxSame(t)
    BY <1>2, <1>4 DEF RxSame, Parting, Off, Held
  <2>2. QED
    BY <1>1, <1>2, <1>4, <2>1, RxKept DEF Steady, TypeInv, rxVars
<1>8. \A u \in NetThreads \ {t} : pc[u] \in {"none", "dead"} /\ pc'[u] = pc[u]
  BY <1>2, <1>4, OthersAway DEF Steady, TypeInv, Alive
<1>9. ReadInv'
  <2>1. Alone(t)
    BY <1>4, <1>8 DEF Alone
  <2>2. QED
    BY <1>2, <1>4, <2>1, LoopRead DEF Clear, rxVars
<1>10. DataInv'
  BY <1>2 DEF Loop, Steady, TypeInv, DataInv, Frames, rxVars, txVars, Nothing
<1>11. SessionInv'
  <2>1. CASE processing_ip
    <3>1. p = "lock" /\ processing_ip' = processing_ip
      <4>1. Goto(t, "lock") /\ processing_ip' = processing_ip
        BY <2>1 DEF Loop
      <4>2. pc'[t] = "lock"
        BY <1>2, <4>1, Moving, Names DEF Steady, TypeInv
      <4>3. QED
        BY <4>1, <4>2, <1>4
    <3>2. QED
      BY <1>2, <1>4, <3>1, SessionKept DEF Steady, TypeInv, Alive
  <2>2. CASE ~processing_ip
    <3>1. Goto(t, "dead")
      BY <2>2 DEF Loop
    <3>2. pc'[t] = "dead"
      BY <1>2, <3>1, Moving, Names DEF Steady, TypeInv
    <3>3. \A u \in NetThreads : ~Alive(u)'
      BY <1>8, <3>2 DEF Alive
    <3>4. QED
      BY <3>3 DEF SessionInv
  <2>3. QED
    BY <2>1, <2>2
<1>12. QED
  BY <1>5, <1>6, <1>7, <1>9, <1>10, <1>11 DEF Onward, Steady, TypeInv, Clear

LEMMA MutexStep ==
  ASSUME Steady, Clear, NEW t \in NetThreads, UNCHANGED netVars,
         \/ MutexLock(t, "test") \/ Block(t)
         \/ MutexUnlock(t, "refuse", "loop") \/ MutexUnlock(t, "release", "decollect")
  PROVE  Onward
<1>1. UNCHANGED <<rxVars, txVars, processing_ip, buff, asked, taken>>
  BY DEF MutexLock, Block, MutexUnlock, netVars
<1>2. CASE MutexLock(t, "test") \/ Block(t)
  <2>1. PICK p \in {"block", "test", "asleep"} : Goto(t, p)
    BY <1>2 DEF MutexLock, Block
  <2>2. reg' = reg /\ pc[t] \in {"lock", "block"}
    BY <1>2 DEF MutexLock, Block, At
  <2>3. Only({t}) /\ pc'[t] = p
    BY <2>1, <2>2, Moving, Names DEF Steady, TypeInv
  <2>4. Unseen(t)
    BY <2>2, <2>3 DEF Unseen, Places, TxSame, RxSame, ReadSame, Sending, Parting, Off, Held, Keeping
  <2>5. QED
    BY <1>1, <2>2, <2>3, <2>4, NetQuiet DEF Alive
<1>3. CASE MutexUnlock(t, "refuse", "loop") \/ MutexUnlock(t, "release", "decollect")
  <2>1. PICK r : r = [node |-> reg[t].node, prev |-> 0, next |-> 0]
    OBVIOUS
  <2>2. PICK p \in {"loop", "decollect"} :
          Unlocking(t, p) /\ pc[t] = IF p = "loop" THEN "refuse" ELSE "release"
    BY <1>3 DEF MutexUnlock, At
  <2>3. reg' = [reg EXCEPT ![t] = r]
    BY <1>3, <2>1 DEF MutexUnlock, SetReg
  <2>4. Only({t}) /\ pc'[t] = p /\ reg'[t] = r
    BY <2>2, <2>3, Waking, Names DEF Steady, TypeInv
  <2>5. Unseen(t)
    BY <2>1, <2>2, <2>4 DEF Unseen, Places, TxSame, RxSame, ReadSame, Sending, Parting, Off, Held, Keeping
  <2>6. QED
    BY <1>1, <2>2, <2>4, <2>5, NetQuiet DEF Alive
<1>4. QED
  BY <1>2, <1>3

LEMMA ReadFirstStep ==
  ASSUME Steady, Clear, NEW t \in NetThreads, ReadFirst(t), UNCHANGED netVars
  PROVE  Onward
<1>1. /\ pc[t] = "test" /\ UNCHANGED <<rxVars, txVars, processing_ip, buff, asked, taken>>
      /\ Alive(t)
  BY DEF ReadFirst, At, netVars, Alive
<1>2. CASE list_empty(rx, Collector)
  <2>1. Unlocking(t, "waiting") /\ reg' = reg
    BY <1>2 DEF ReadFirst
  <2>2. Only({t}) /\ pc'[t] = "waiting"
    BY <2>1, Waking, Names DEF Steady, TypeInv
  <2>3. Unseen(t)
    BY <1>1, <2>2 DEF Unseen, Places, TxSame, RxSame, ReadSame, Sending, Parting, Off, Held, Keeping
  <2>4. QED
    BY <1>1, <2>2, <2>3, NetQuiet
<1>3. CASE ~list_empty(rx, Collector)
  <2>1. PICK r : r = [node |-> rx.next[Collector], prev |-> 0, next |-> 0]
    OBVIOUS
  <2>2. Goto(t, "copy") /\ reg' = [reg EXCEPT ![t] = r]
    BY <1>3, <2>1 DEF ReadFirst, SetReg
  <2>3. Only({t}) /\ pc'[t] = "copy" /\ reg'[t] = r
    BY <2>2, Moving, Names DEF Steady, TypeInv
  <2>4. TxSame(t) /\ ReadSame(t) /\ pc'[t] \in Places
    BY <1>1, <2>3 DEF Places, TxSame, ReadSame, Sending, Keeping
  <2>5. DataInv'
    BY <1>1, DataKept DEF Steady, TypeInv
  <2>6. Steady' /\ Alone(t)
    BY <1>1, <2>3, <2>4, <2>5, Reader
  <2>7. ReadInv'
    BY <1>1, <2>3, <2>4, ReadKept DEF Clear, rxVars
  <2>8. PICK s : RxInv(s)
    BY DEF Clear
  <2>9. reg'[t].node = rx.next[Collector] /\ rx' = rx /\ rx_own' = rx_own
    BY <1>1, <2>1, <2>3 DEF rxVars
  <2>10. RxInv(s)'
    BY <1>1, <1>3, <2>3, <2>6, <2>8, <2>9, ReadFirstRx DEF Steady, TypeInv
  <2>11. QED
    BY <2>6, <2>7, <2>10 DEF Onward, Clear
<1>4. QED
  BY <1>2, <1>3

(* A reader inside decollect, before the descriptor is the card's.         *)
LEMMA Decollecting ==
  ASSUME Steady, ReadInv, NEW t \in NetThreads, Only({t}),
         {pc[t], pc'[t]} \subseteq {"decollect", "unlink", "unlinked", "reinit", "give"},
         reg'[t].node = reg[t].node,
         UNCHANGED <<rx_own, payload, arrived, cur_rx, txVars, processing_ip, buff, asked, taken>>
  PROVE  Steady' /\ ReadInv' /\ Alone(t)
<1>1. TxSame(t) /\ ReadSame(t) /\ pc'[t] \in Places /\ Alive(t)
  BY DEF Places, TxSame, ReadSame, Sending, Keeping, Alive
<1>2. DataInv'
  BY DEF DataInv, Frames, txVars, Steady, TypeInv
<1>3. Steady' /\ Alone(t)
  BY <1>1, <1>2, Reader
<1>4. ReadInv'
  BY <1>1, ReadKept
<1>5. QED
  BY <1>3, <1>4

LEMMA DecollectStep ==
  ASSUME Steady, Clear, ~Met, NEW t \in NetThreads, Decollect(t, "handle"), UNCHANGED netVars
  PROVE  Onward
<1>1. PICK s : RxInv(s)
  BY DEF Clear
<1>2. UNCHANGED <<payload, arrived, cur_rx, txVars, processing_ip, buff, asked, taken>>
  BY DEF Decollect, netVars, rxVars
<1>3. PICK i : i = reg[t].node
  OBVIOUS
<1>4. PlacesInv /\ t \in Threads
  BY Names DEF Steady, TypeInv
<1>5. CASE At(t, "decollect")
  <2>1. PICK r : r = [node |-> i, prev |-> rx.prev[i], next |-> rx.next[i]]
    OBVIOUS
  <2>2. pc[t] = "decollect" /\ Goto(t, "unlink") /\ reg' = [reg EXCEPT ![t] = r] /\ rx' = rx /\ rx_own' = rx_own
    BY <1>3, <1>5, <2>1 DEF Decollect, At, Load, SetReg, rxVars
  <2>3. Only({t}) /\ pc'[t] = "unlink" /\ reg'[t] = r
    BY <1>4, <2>2, Moving
  <2>4. Steady' /\ ReadInv' /\ Alone(t)
    BY <1>2, <1>3, <2>1, <2>2, <2>3, Decollecting DEF Clear
  <2>5. ~Met' => RxInv(s)'
    BY <1>1, <1>3, <1>4, <2>1, <2>2, <2>3, <2>4, DecollectLoadRx
  <2>6. QED
    BY <2>4, <2>5 DEF Onward, Clear
<1>6. CASE At(t, "unlink")
  <2>1. pc[t] = "unlink" /\ Goto(t, "unlinked") /\ reg' = reg /\ rx' = Bypassed(rx, reg[t]) /\ rx_own' = rx_own
    BY <1>6 DEF Decollect, At
  <2>2. Only({t}) /\ pc'[t] = "unlinked" /\ reg'[t] = reg[t]
    BY <1>4, <2>1, Moving
  <2>3. Steady' /\ ReadInv' /\ Alone(t)
    BY <1>2, <2>1, <2>2, Decollecting DEF Clear
  <2>4. RxInv(s)'
    BY <1>1, <1>4, <2>1, <2>2, <2>3, DecollectUnlinkRx
  <2>5. QED
    BY <2>3, <2>4 DEF Onward, Clear
<1>7. CASE At(t, "unlinked")
  <2>1. pc[t] = "unlinked" /\ Goto(t, "reinit") /\ reg' = reg /\ rx' = Removed(rx, reg[t]) /\ rx_own' = rx_own
    BY <1>7 DEF Decollect, At
  <2>2. Only({t}) /\ pc'[t] = "reinit" /\ reg'[t] = reg[t]
    BY <1>4, <2>1, Moving
  <2>3. Steady' /\ ReadInv' /\ Alone(t)
    BY <1>2, <2>1, <2>2, Decollecting DEF Clear
  <2>4. (\E r : RxInv(r))'
    BY <1>1, <1>4, <2>1, <2>2, <2>3, DecollectRemoveRx
  <2>5. QED
    BY <2>3, <2>4 DEF Onward, Clear
<1>8. CASE At(t, "reinit")
  <2>1. pc[t] = "reinit" /\ Goto(t, "give") /\ reg' = reg /\ rx' = INIT_LIST_HEAD(rx, reg[t].node) /\ rx_own' = rx_own
    BY <1>8 DEF Decollect, At
  <2>2. Only({t}) /\ pc'[t] = "give" /\ reg'[t] = reg[t]
    BY <1>4, <2>1, Moving
  <2>3. Steady' /\ ReadInv' /\ Alone(t)
    BY <1>2, <2>1, <2>2, Decollecting DEF Clear
  <2>4. RxInv(s)'
    BY <1>1, <1>4, <2>1, <2>2, <2>3, DecollectReinitRx
  <2>5. QED
    BY <2>3, <2>4 DEF Onward, Clear
<1>9. CASE At(t, "give")
  <2>1. PICK r : r = [node |-> i, prev |-> 0, next |-> 0]
    OBVIOUS
  <2>2. /\ pc[t] = "give" /\ Goto(t, "handle") /\ reg' = [reg EXCEPT ![t] = r]
        /\ rx' = rx /\ rx_own' = rx_own \cup {reg[t].node}
    BY <1>3, <1>9, <2>1 DEF Decollect, At, SetReg
  <2>3. Only({t}) /\ pc'[t] = "handle"
    BY <1>4, <2>2, Moving
  <2>4. Alone(t)
    BY <1>4, <2>2, <2>3, OthersAway DEF Alone, Alive, Steady
  <2>5. ReadInv' /\ rx_own' \subseteq Slots
    BY <1>1, <1>2, <1>4, <2>2, <2>3, <2>4, GiveRead DEF Steady, TypeInv, Clear
  <2>6. DataInv'
    BY <1>2, <2>5 DEF DataInv, Frames, txVars, Steady, TypeInv
  <2>7. TxSame(t) /\ Alive(t) /\ pc'[t] \in Places
    BY <2>2, <2>3 DEF TxSame, Sending, Alive, Places
  <2>8. Steady'
    BY <1>2, <2>3, <2>6, <2>7, Reader
  <2>9. RxInv(s)'
    BY <1>1, <1>4, <2>2, <2>3, <2>4, DecollectGiveRx
  <2>10. QED
    BY <2>5, <2>8, <2>9 DEF Onward, Clear
<1>10. QED
  BY <1>5, <1>6, <1>7, <1>8, <1>9 DEF Decollect

LEMMA CopyStep ==
  ASSUME Steady, Clear, NEW t \in NetThreads, Copy(t)
  PROVE  Onward
<1>1. PICK s : RxInv(s)
  BY DEF Clear
<1>2. PICK p \in {"refuse", "copying", "release"} : Goto(t, p)
  BY DEF Copy
<1>3. /\ pc[t] \in {"copy", "copying"} /\ reg' = reg
      /\ UNCHANGED <<rxVars, txVars, processing_ip, asked, taken>>
  BY DEF Copy, At
<1>4. Only({t}) /\ pc'[t] = p
  BY <1>2, <1>3, Moving, Names DEF Steady, TypeInv
<1>5. Alone(t) /\ Alive(t)
  BY <1>3, <1>4, OthersAway DEF Alone, Alive, Steady, TypeInv
<1>6. ReadInv' /\ buff'.id \in Nat
  BY <1>1, <1>5, CopyRead DEF Steady, TypeInv, Clear
<1>7. DataInv'
  BY <1>3, <1>6 DEF DataInv, Frames, txVars, rxVars, Steady, TypeInv
<1>8. TxSame(t) /\ RxSame(t) /\ pc'[t] \in Places
  BY <1>3, <1>4 DEF TxSame, RxSame, Sending, Places, Held, Parting, Off
<1>9. Steady'
  BY <1>3, <1>4, <1>5, <1>7, <1>8, Reader
<1>10. RxInv(s)'
  BY <1>1, <1>3, <1>4, <1>8, RxKept, Names DEF Steady, TypeInv, rxVars
<1>11. QED
  BY <1>6, <1>9, <1>10 DEF Onward, Clear

LEMMA HandleStep ==
  ASSUME Steady, Clear, NEW t \in NetThreads, Handle(t)
  PROVE  Onward
<1>1. PICK s : RxInv(s)
  BY DEF Clear
<1>2. PICK p \in {"arp", "loop"} : Goto(t, p)
  BY DEF Handle
<1>3. PICK r : r = [node |-> interfaces.next[Head0], prev |-> 0, next |-> 0]
  OBVIOUS
<1>4. /\ pc[t] = "handle" /\ (reg' = reg \/ reg' = [reg EXCEPT ![t] = r])
      /\ UNCHANGED <<rxVars, txVars, processing_ip, asked, buff>>
  BY <1>3 DEF Handle, At, SetReg
<1>5. Only({t}) /\ pc'[t] = p
  BY <1>2, <1>4, Moving, Names DEF Steady, TypeInv
<1>6. Alone(t) /\ Alive(t)
  BY <1>4, <1>5, OthersAway DEF Alone, Alive, Steady, TypeInv
<1>7. ReadInv'
  <2>1. taken' = IF buff = Nothing THEN taken ELSE Append(taken, buff)
    BY DEF Handle
  <2>2. QED
    BY <1>4, <1>5, <1>6, <2>1, HandleRead DEF Steady, TypeInv, Clear, rxVars
<1>8. DataInv'
  BY <1>4, DataKept DEF Steady, TypeInv
<1>9. TxSame(t) /\ RxSame(t) /\ pc'[t] \in Places
  BY <1>4, <1>5 DEF TxSame, RxSame, Sending, Places, Held, Parting, Off
<1>10. Steady'
  BY <1>4, <1>5, <1>6, <1>8, <1>9, Reader
<1>11. RxInv(s)'
  BY <1>1, <1>4, <1>5, <1>9, RxKept, Names DEF Steady, TypeInv, rxVars
<1>12. QED
  BY <1>7, <1>10, <1>11 DEF Onward, Clear

(* A step on the transmit side, by a net thread.                           *)
LEMMA Writer ==
  ASSUME Steady, Clear, NEW t \in NetThreads, Alive(t), Only({t}), TxInv', DataInv',
         pc'[t] \in Places, RxSame(t), ReadSame(t), UNCHANGED <<rxVars, processing_ip, buff, taken>>
  PROVE  Onward
<1>1. t # "recv" /\ t # "send" /\ t # "shell" /\ PlacesInv
  BY Names DEF Steady, TypeInv
<1>2. PlacesInv' /\ SessionInv'
  BY <1>1, PlacesKept, SessionKept DEF Steady
<1>3. PICK s : RxInv(s)
  BY DEF Clear
<1>4. RxInv(s)' /\ ReadInv'
  BY <1>1, <1>3, RxKept, ReadKept DEF Clear, rxVars
<1>5. QED
  BY <1>2, <1>4 DEF Onward, Steady, TypeInv, Clear

LEMMA ArpStep ==
  ASSUME Steady, Clear, NEW t \in NetThreads, Arp(t)
  PROVE  Onward
<1>1. PICK pos : pos = reg[t].node
  OBVIOUS
<1>2. /\ pc[t] = "arp" /\ Alive(t)
      /\ UNCHANGED <<rxVars, tx, tx_own, base, coled, cur_tx, wire, processing_ip, buff, taken>>
  BY DEF Arp, At, Alive
<1>3. CASE pos # Head0 /\ buff.kind = "us"
  <2>1. /\ out' = [out EXCEPT ![t] = buff.id] /\ asked' = Append(asked, buff.id)
        /\ Goto(t, "write") /\ reg' = reg
    BY <1>1, <1>3 DEF Arp
  <2>2. TxInv' /\ Only({t}) /\ pc'[t] = "write" /\ out' \in [Clients -> Nat] /\ asked' \in Seq(Nat)
    BY <1>2, <2>1, ReplyTx DEF Steady
  <2>3. DataInv'
    BY <1>2, <2>2 DEF Steady, TypeInv, DataInv, Frames, rxVars
  <2>4. pc'[t] \in Places /\ RxSame(t) /\ ReadSame(t)
    BY <1>2, <2>2 DEF RxSame, ReadSame, Places, Held, Parting, Off, Keeping
  <2>5. QED
    BY <1>2, <2>2, <2>3, <2>4, Writer
<1>4. CASE ~(pos # Head0 /\ buff.kind = "us")
  <2>1. PICK r : r = [node |-> interfaces.next[pos], prev |-> 0, next |-> 0]
    OBVIOUS
  <2>2. PICK p \in {"loop", "arp"} : Goto(t, p) /\ reg' = [reg EXCEPT ![t] = r] /\ UNCHANGED <<out, asked>>
    BY <1>1, <1>4, <2>1 DEF Arp, SetReg
  <2>3. Only({t}) /\ pc'[t] = p
    BY <2>2, Moving, Names DEF Steady, TypeInv
  <2>4. Unseen(t)
    BY <1>2, <2>3 DEF Unseen, Places, TxSame, RxSame, ReadSame, Sending, Parting, Off, Held, Keeping
  <2>5. QED
    BY <1>2, <2>2, <2>3, <2>4, NetQuiet DEF txVars
<1>5. QED
  BY <1>3, <1>4

LEMMA WriteStep ==
  ASSUME Steady, Clear, NEW t \in NetThreads, pcnet32_write(t)
  PROVE  Onward
<1>1. UNCHANGED <<rxVars, processing_ip, asked, buff, taken>>
  BY DEF pcnet32_write, Take, CollectTx, Sent, netVars
<1>2. TxInv' /\ Only({t}) /\ pc[t] \in Sending \cup {"write"} /\ pc'[t] \in Sending \cup {"loop"}
  <2>1. CASE Take(t, "loop")
    BY <1>1, <2>1, TakeTx DEF Steady, Take, At, Sending
  <2>2. CASE CollectTx(t)
    BY <1>1, <2>2, CollectTxTx DEF Steady
  <2>3. CASE Sent(t, "loop")
    BY <1>1, <2>3, SentTx DEF Steady, Sending
  <2>4. QED
    BY <2>1, <2>2, <2>3 DEF pcnet32_write
<1>3. out' \in [Clients -> Nat] /\ base' \in [Slots -> Clients] /\ cur_tx' = cur_tx /\ wire' = wire
  <2>1. out \in [Clients -> Nat] /\ base \in [Slots -> Clients] /\ t \in Clients
    BY Names DEF Steady, TypeInv, DataInv
  <2>2. CASE Take(t, "loop")
    BY <2>1, <2>2 DEF Take, txVars
  <2>3. CASE CollectTx(t)
    <3>1. out' = out /\ cur_tx' = cur_tx /\ wire' = wire
      BY <2>3 DEF CollectTx
    <3>2. base' = base \/ base' = [base EXCEPT ![reg[t].node] = t]
      BY <2>3 DEF CollectTx
    <3>3. QED
      BY <2>1, <3>1, <3>2
  <2>4. CASE Sent(t, "loop")
    BY <2>1, <2>4 DEF Sent
  <2>5. QED
    BY <2>2, <2>3, <2>4 DEF pcnet32_write
<1>4. DataInv'
  BY <1>1, <1>3 DEF Steady, TypeInv, DataInv, Frames, rxVars
<1>5. Alive(t) /\ pc'[t] \in Places /\ RxSame(t) /\ ReadSame(t)
  BY <1>2 DEF Alive, RxSame, ReadSame, Places, Held, Parting, Off, Keeping, Sending
<1>6. QED
  BY <1>1, <1>2, <1>4, <1>5, Writer

LEMMA NetThreadStep ==
  ASSUME Steady, Clear, ~Met, NEW t \in NetThreads, process_ip_thread(t)
  PROVE  Onward
<1>1. CASE pcnet32_read(t)
  <2>1. CASE Copy(t)
    BY <2>1, CopyStep
  <2>2. CASE ~Copy(t)
    BY <1>1, <2>2, MutexStep, ReadFirstStep, DecollectStep DEF pcnet32_read
  <2>3. QED
    BY <2>1, <2>2
<1>2. QED
  BY <1>1, OpenStep, LoopStep, HandleStep, ArpStep, WriteStep DEF process_ip_thread

-----------------------------------------------------------------------------
(* The initial state: pcnet32_device_init has put every entry on the free  *)
(* list, in order.                                                         *)
Ready(l, n) ==
  /\ Linked(l, TxNodes) /\ Holds(l, FREE, Rot(0, n))
  /\ l.next[BUSY] = BUSY /\ l.prev[BUSY] = BUSY

Firsts(n) ==
  /\ Listed(TxNodes, FREE, Rot(0, n)) /\ Len(Rot(0, n)) = n
  /\ \A x \in On(Rot(0, n)) : x \in 0 .. n - 1

LEMMA FirstSlots ==
  ASSUME NEW n \in 0 .. RING
  PROVE  Firsts(n)
<1>1. n \in Nat /\ RING \in Nat /\ n <= RING /\ Slots = 0 .. RING - 1 /\ RING >= 2
  BY RingSize
<1>2. PICK r : r = [k \in 1 .. n |-> Place(0, k)]
  OBVIOUS
<1>3. \A k \in 1 .. n : Place(0, k) = k - 1 /\ k - 1 \in Slots
  BY <1>1 DEF Place
<1>4. r \in [1 .. n -> Slots] /\ \A k \in 1 .. n : r[k] = k - 1
  BY <1>2, <1>3
<1>5. r \in Seq(Slots) /\ Len(r) = n
  <2>1. r \in Seq(Slots)
    BY <1>1, <1>4
  <2>2. DOMAIN r = 1 .. n
    BY <1>4
  <2>3. QED
    BY <1>1, <2>1, <2>2
<1>6. Distinct(r)
  BY <1>4, <1>5 DEF Distinct
<1>7. \A x \in On(r) : x \in 0 .. n - 1
  BY <1>1, <1>4, <1>5 DEF On
<1>8. r = Rot(0, n)
  BY <1>2 DEF Rot
<1>9. Listed(TxNodes, FREE, r)
  BY <1>5, <1>6, SlotLists
<1>10. QED
  BY <1>5, <1>7, <1>8, <1>9 DEF Firsts

LEMMA FirstsAppend ==
  ASSUME NEW n \in Slots
  PROVE  Append(Rot(0, n), n) = Rot(0, n + 1)
<1>1. n \in Nat /\ RING \in Nat /\ n < RING /\ n \in 0 .. RING /\ n + 1 \in 0 .. RING
  BY RingSize
<1>2. Firsts(n) /\ Firsts(n + 1)
  BY <1>1, FirstSlots
<1>3. PICK r : r = Rot(0, n)
  OBVIOUS
<1>4. PICK q : q = Rot(0, n + 1)
  OBVIOUS
<1>5. r \in Seq(TxNodes \ {FREE}) /\ Len(r) = n /\ q \in Seq(TxNodes \ {FREE}) /\ Len(q) = n + 1
  BY <1>2, <1>3, <1>4 DEF Firsts, Listed
<1>6. \A k \in 1 .. n : r[k] = Place(0, k)
  BY <1>3 DEF Rot
<1>7. \A k \in 1 .. n + 1 : q[k] = Place(0, k)
  BY <1>4 DEF Rot
<1>8. n \in TxNodes \ {FREE}
  BY Nodes
<1>9. /\ Append(r, n) \in Seq(TxNodes \ {FREE}) /\ Len(Append(r, n)) = n + 1
      /\ \A k \in 1 .. n : Append(r, n)[k] = r[k]
      /\ Append(r, n)[n + 1] = n
  BY <1>5, <1>8, AppendProperties
<1>10. Place(0, n + 1) = n
  BY <1>1 DEF Place
<1>11. \A k \in 1 .. n + 1 : k \in 1 .. n \/ k = n + 1
  BY <1>1
<1>12. \A k \in 1 .. n + 1 : Append(r, n)[k] = q[k]
  <2> TAKE k \in 1 .. n + 1
  <2>1. CASE k \in 1 .. n
    BY <1>6, <1>7, <1>9, <2>1
  <2>2. CASE k = n + 1
    <3>1. q[k] = n
      BY <1>7, <1>10, <2>2
    <3>2. QED
      BY <1>9, <2>2, <3>1
  <2>3. QED
    BY <1>11, <2>1, <2>2
<1>13. Append(r, n) = q
  BY <1>5, <1>9, <1>12, SeqEqual
<1>14. QED
  BY <1>3, <1>4, <1>13

LEMMA FillStep ==
  ASSUME NEW n \in Slots, NEW l, Ready(l, n)
  PROVE  Ready(list_add_tail(l, n, FREE), n + 1)
<1>1. PICK s : s = Rot(0, n)
  OBVIOUS
<1>2. n \in Nat /\ n \in 0 .. RING /\ n \notin 0 .. n - 1
  BY RingSize
<1>3. Listed(TxNodes, FREE, s) /\ n \notin On(s) /\ Len(s) = n /\ On(s) \subseteq 0 .. n - 1
  BY <1>1, <1>2, FirstSlots DEF Firsts
<1>4. n # FREE /\ n # BUSY /\ FREE # BUSY /\ BUSY \notin On(s) /\ n \in TxNodes /\ BUSY \in TxNodes
      /\ FREE \in TxNodes
  BY <1>2, <1>3, Nodes, RingSize DEF BUSY
<1>5. PICK r : r = [node |-> n, prev |-> l.prev[FREE], next |-> FREE]
  OBVIOUS
<1>6. Linked(l, TxNodes) /\ Holds(l, FREE, s)
  BY <1>1 DEF Ready
<1>7. r.prev = Node(s, FREE, Len(s)) /\ r.node = n /\ r.next = FREE
  BY <1>3, <1>5, <1>6, Ends DEF Holds
<1>8. PICK k : k = Attached(l, r, FREE)
  OBVIOUS
<1>9. /\ Linked(k, TxNodes) /\ Joining(k, FREE, s, n)
      /\ k.next[BUSY] = l.next[BUSY] /\ k.prev[BUSY] = l.prev[BUSY]
  BY <1>3, <1>4, <1>6, <1>7, <1>8, Attaches
<1>10. /\ Linked(Added(k, r), TxNodes) /\ Holds(Added(k, r), FREE, Append(s, n))
       /\ Added(k, r).prev = k.prev
       /\ r.prev \in On(s) \cup {FREE}
       /\ \A x \in TxNodes \ {r.prev} : Added(k, r).next[x] = k.next[x]
  BY <1>3, <1>4, <1>7, <1>9, Adds
<1>11. BUSY # r.prev
  BY <1>4, <1>10
<1>12. Append(s, n) = Rot(0, n + 1)
  BY <1>1, FirstsAppend
<1>13. list_add_tail(l, n, FREE) = Added(k, r)
  BY <1>5, <1>8 DEF list_add_tail
<1>14. QED
  BY <1>4, <1>9, <1>10, <1>11, <1>12, <1>13 DEF Ready

(* The recursion of PcnetInit has a solution.                              *)
Fill(f, k) ==
  f = [i \in 0 .. k |-> IF i = 0 THEN Unlinked(0 .. BUSY) ELSE list_add_tail(f[i - 1], i - 1, FREE)]

LEMMA FillExists ==
  ASSUME NEW k \in Nat
  PROVE  \E f : Fill(f, k)
<1> DEFINE S == {n \in Nat : \E f : Fill(f, n)}
<1>1. 0 \in S
  <2>1. Fill([n \in 0 .. 0 |-> Unlinked(0 .. BUSY)], 0)
    BY DEF Fill
  <2>2. QED
    BY <2>1
<1>2. ASSUME NEW j \in Nat, j \in S
      PROVE  j + 1 \in S
  <2>1. PICK f : Fill(f, j)
    BY <1>2
  <2>2. PICK e : e = [n \in 0 .. j + 1 |-> IF n = j + 1 THEN list_add_tail(f[j], j, FREE) ELSE f[n]]
    OBVIOUS
  <2>3. \A n \in 0 .. j + 1 : n = j + 1 \/ (n \in 0 .. j /\ n # j + 1)
    OBVIOUS
  <2>4. \A n \in 0 .. j + 1 : n # 0 => n - 1 \in 0 .. j /\ n - 1 # j + 1 /\ n - 1 \in 0 .. j + 1
    OBVIOUS
  <2>5. \A n \in 0 .. j + 1 :
          e[n] = IF n = 0 THEN Unlinked(0 .. BUSY) ELSE list_add_tail(e[n - 1], n - 1, FREE)
    <3> TAKE n \in 0 .. j + 1
    <3>1. n # 0 => e[n - 1] = f[n - 1]
      BY <2>2, <2>4
    <3>2. CASE n = j + 1
      <4>1. e[n] = list_add_tail(f[j], j, FREE) /\ n - 1 = j /\ n # 0
        BY <2>2, <3>2
      <4>2. QED
        BY <3>1, <3>2, <4>1
    <3>3. CASE n \in 0 .. j /\ n # j + 1
      <4>1. e[n] = f[n]
        BY <2>2, <3>3
      <4>2. f[n] = IF n = 0 THEN Unlinked(0 .. BUSY) ELSE list_add_tail(f[n - 1], n - 1, FREE)
        BY <2>1, <3>3 DEF Fill
      <4>3. QED
        BY <3>1, <4>1, <4>2
    <3>4. QED
      BY <2>3, <3>2, <3>3
  <2>6. Fill(e, j + 1)
    BY <2>2, <2>5 DEF Fill
  <2>7. QED
    BY <2>6
<1>3. \A n \in Nat : n \in S
  <2> HIDE DEF S
  <2>1. QED
    BY <1>1, <1>2, NatInduct
<1>4. QED
  BY <1>3

LEMMA FilledIs ==
  ASSUME NEW f, Fill(f, RING)
  PROVE  Ready(f[RING], RING)
<1>1. RING \in Nat /\ Slots = 0 .. RING - 1
  BY RingSize
<1>2. \A i \in 0 .. RING : f[i] = IF i = 0 THEN Unlinked(0 .. BUSY) ELSE list_add_tail(f[i - 1], i - 1, FREE)
  BY DEF Fill
<1> DEFINE S == {n \in Nat : n <= RING => Ready(f[n], n)}
<1>3. 0 \in S
  <2>1. f[0] = Unlinked(TxNodes)
    BY <1>1, <1>2 DEF TxNodes
  <2>2. PICK l : l = Unlinked(TxNodes)
    OBVIOUS
  <2>3. Linked(l, TxNodes) /\ \A n \in TxNodes : l.next[n] = n /\ l.prev[n] = n
    BY <2>2 DEF Unlinked, Linked
  <2>4. Rot(0, 0) = <<>>
    <3>1. Firsts(0)
      BY <1>1, FirstSlots
    <3>2. QED
      BY <3>1, EmptySeq DEF Firsts, Listed
  <2>5. \A k \in 0 .. 0 : Node(<<>>, FREE, k) = FREE /\ Node(<<>>, FREE, k + 1) = FREE
    BY DEF Node
  <2>6. Len(<<>>) = 0
    OBVIOUS
  <2>7. Holds(l, FREE, <<>>)
    BY <2>3, <2>5, <2>6, Nodes DEF Holds, Chain, Backs
  <2>8. Ready(l, 0)
    BY <2>3, <2>4, <2>7, Nodes DEF Ready
  <2>9. QED
    BY <2>1, <2>2, <2>8
<1>4. ASSUME NEW n \in Nat, n \in S
      PROVE  n + 1 \in S
  <2>1. CASE n + 1 <= RING
    <3>1. n \in Slots /\ n <= RING /\ n + 1 \in 0 .. RING /\ n + 1 # 0 /\ (n + 1) - 1 = n
      BY <1>1, <2>1
    <3>2. Ready(f[n], n)
      BY <1>4, <3>1
    <3>3. f[n + 1] = list_add_tail(f[n], n, FREE)
      BY <1>2, <3>1
    <3>4. Ready(f[n + 1], n + 1)
      BY <3>1, <3>2, <3>3, FillStep
    <3>5. QED
      BY <3>4
  <2>2. QED
    BY <2>1
<1>5. \A n \in Nat : n \in S
  <2> HIDE DEF S
  <2>1. QED
    BY <1>3, <1>4, NatInduct
<1>6. QED
  BY <1>1, <1>5

LEMMA InitHolds ==
  ASSUME Init
  PROVE  NetInv
<1> USE DEF Init
<1>1. /\ pc = [t \in Threads |->
                 CASE t = "recv" -> "scan" [] t = "send" -> "poll" [] t = "shell" -> "prompt" [] OTHER -> "none"]
      /\ reg = [t \in Threads |-> [node |-> 0, prev |-> 0, next |-> 0]]
      /\ rx = Unlinked(RxNodes) /\ rx_own = Slots /\ payload = [i \in Slots |-> Nothing]
      /\ tx_own = {} /\ base = [i \in Slots |-> "shell"] /\ coled = {} /\ out = [t \in Clients |-> 0]
      /\ arrived = 0 /\ cur_rx = 0 /\ cur_tx = 0 /\ wire = <<>>
      /\ buff = Nothing /\ asked = <<>> /\ taken = <<>>
  BY DEF PcnetInit, Threads, RxNodes
<1>2. pc["recv"] = "scan" /\ pc["send"] = "poll" /\ pc["shell"] = "prompt"
      /\ (\A t \in NetThreads : pc[t] = "none") /\ reg["recv"].node = 0
  BY <1>1, Names
<1>3. PlacesInv
  BY <1>1, <1>2 DEF PlacesInv, RecvPlaces, SendPlaces, ShellPlaces, Places
<1>4. DataInv
  <2>1. Nothing \in Frames /\ Nothing.id \in Nat
    BY DEF Frames, Nothing
  <2>2. "shell" \in Clients /\ 0 \in Slots
    BY Names, Nodes
  <2>3. QED
    BY <1>1, <2>1, <2>2 DEF DataInv
<1>5. SessionInv
  BY <1>2 DEF SessionInv, Alive
<1>6. TxInv
  <2>1. tx = (CHOOSE f : Fill(f, RING))[RING]
    BY DEF PcnetInit, Fill
  <2>2. PICK f : f = CHOOSE g : Fill(g, RING)
    OBVIOUS
  <2>3. Fill(f, RING)
    BY <2>2, FillExists, RingSize
  <2>4. Ready(tx, RING)
    BY <2>1, <2>2, <2>3, FilledIs
  <2>5. Holds(tx, BUSY, <<>>)
    <3>1. Len(<<>>) = 0 /\ \A k \in 0 .. 0 : Node(<<>>, BUSY, k) = BUSY /\ Node(<<>>, BUSY, k + 1) = BUSY
      BY DEF Node
    <3>2. QED
      BY <2>4, <3>1 DEF Ready, Holds, Chain, Backs
  <2>6. Idle
    BY <1>1, <1>2, <2>4, <2>5 DEF Idle, Ready, TwoLists, Full, Sending
  <2>7. QED
    BY <2>4, <2>6 DEF TxInv, Ready
<1>7. ~Met
  BY <1>2 DEF Met
<1>8. ReadInv
  <2>1. FramesInv
    BY <1>1 DEF FramesInv, Frames
  <2>2. \A t \in NetThreads : Buffer(t)
    BY <1>2 DEF Buffer, Keeping
  <2>3. QED
    BY <2>1, <2>2 DEF ReadInv
<1>9. RxInv(<<>>)
  <2>1. \A n \in RxNodes : rx.next[n] = n /\ rx.prev[n] = n
    BY <1>1 DEF Unlinked
  <2>2. Linked(rx, RxNodes)
    BY <1>1 DEF Unlinked, Linked
  <2>3. <<>> \in Seq(Slots) /\ Distinct(<<>>) /\ On(<<>>) = {}
    BY DEF Distinct, On
  <2>4. Len(<<>>) = 0 /\ \A k \in 0 .. 0 : Node(<<>>, Collector, k) = Collector
                                            /\ Node(<<>>, Collector, k + 1) = Collector
    BY DEF Node
  <2>5. Chain(rx, Collector, <<>>) /\ Backs(rx, Collector, <<>>)
    BY <2>1, <2>4, Nodes DEF Chain, Backs
  <2>6. RxList(<<>>) /\ RxWhole(<<>>)
    BY <2>2, <2>3, <2>5 DEF RxList, RxWhole
  <2>7. \A t \in NetThreads : RxReader(t, <<>>)
    BY <1>2 DEF RxReader, Held, Parting, Off
  <2>8. RxLoop(<<>>)
    BY <1>2, Nodes DEF RxLoop, Collecting
  <2>9. RxRest(<<>>)
    BY <2>1, Nodes DEF RxRest
  <2>10. QED
    BY <2>6, <2>7, <2>8, <2>9 DEF RxInv
<1>10. QED
  BY <1>3, <1>4, <1>5, <1>6, <1>7, <1>8, <1>9 DEF NetInv, TypeInv

LEMMA NextHolds ==
  ASSUME NetInv, [Next]_vars
  PROVE  NetInv'
<1>1. CASE UNCHANGED vars
  <2>1. UNCHANGED <<pc, reg, rx, rx_own, payload, arrived, cur_rx, tx, tx_own, base, out, coled, cur_tx, wire,
                    processing_ip, buff, asked, taken, raced>>
    BY <1>1 DEF vars, pcnetVars, netVars, rxVars, txVars
  <2>2. TypeInv'
    BY <2>1 DEF NetInv, TypeInv, PlacesInv, DataInv, Frames
  <2>3. SessionInv'
    BY <2>1 DEF NetInv, SessionInv, Alive
  <2>4. Only({})
    BY <2>1 DEF Only, Same, NetInv, TypeInv, PlacesInv
  <2>5. TxInv'
    BY <2>1, <2>4, TxKept DEF NetInv, TypeInv, txVars
  <2>6. CASE ~raced
    <3>1. Clear /\ ~Met
      BY <2>6 DEF NetInv, Clear
    <3>2. PICK s : RxInv(s)
      BY <3>1 DEF Clear
    <3>3. ReadInv' /\ RxInv(s)'
      BY <2>1, <2>4, <3>1, <3>2, ReadKept, RxKept DEF NetInv, TypeInv, Clear
    <3>4. ~Met'
      BY <2>1, <3>1 DEF Met
    <3>5. QED
      BY <2>2, <2>3, <2>5, <3>3, <3>4 DEF NetInv
  <2>7. CASE raced
    BY <2>1, <2>2, <2>3, <2>5, <2>7 DEF NetInv
  <2>8. QED
    BY <2>6, <2>7
<1>2. CASE Next
  <2>1. Steady /\ Clear /\ ~Met /\ raced' = (raced \/ Met')
    BY <1>2 DEF Next, Running, NetInv, Steady, Clear
  <2>2. SUFFICES Onward
    BY <2>1 DEF Onward, Steady, Clear, NetInv
  <2>3. CASE Shell
    BY <2>1, <2>3, RefreshStep, StartSessionStep, TypeExitStep, ExitedStep DEF Shell
  <2>4. CASE Card
    BY <2>1, <2>4, CardSendStep, CardReceiveStep DEF Card
  <2>5. CASE Drive
    BY <2>1, <2>5, ScanStep, CollectStep, RecvMutexStep, BroadcastStep, RecvUnlockStep, SendStep DEF Drive, RecvLoop
  <2>6. CASE \E t \in NetThreads : process_ip_thread(t)
    BY <2>1, <2>6, NetThreadStep
  <2>7. QED
    BY <1>2, <2>3, <2>4, <2>5, <2>6 DEF Next, Running
<1>3. QED
  BY <1>1, <1>2

(* The invariant holds of the network.                                     *)
THEOREM NetHolds == Spec => []NetInv
<1>1. Init => NetInv
  BY InitHolds
<1>2. NetInv /\ [Next]_vars => NetInv'
  BY NextHolds
<1>3. QED
  BY <1>1, <1>2, PTL DEF Spec

(* Unless a reader and the receive loop have met, no frame is read twice,  *)
(* and none changes while it is copied.                                    *)
THEOREM FramesAreReadOnce == Spec => []ReadOnce
<1>1. ASSUME NetInv
      PROVE  ReadOnce
  <2>1. SUFFICES ASSUME ~raced, NEW i \in DOMAIN taken, NEW j \in DOMAIN taken
                 PROVE  /\ taken[i].kind # "torn"
                        /\ taken[i] = taken[j] /\ taken[i].kind # "long" => i = j
    BY DEF ReadOnce
  <2>2. FramesInv /\ DataInv
    BY <1>1, <2>1 DEF NetInv, TypeInv, ReadInv
  <2>3. taken \in Seq(Frames \ {Nothing})
    BY <2>2 DEF FramesInv
  <2>4. i \in 1 .. Len(taken) /\ j \in 1 .. Len(taken) /\ taken[i] \in Frames
    BY <2>1, <2>3, LenProperties, ElementOfSeq
  <2>5. taken[i].kind # "torn"
    BY <2>2, <2>4, FrameIs
  <2>6. QED
    BY <2>2, <2>4, <2>5 DEF FramesInv, Long
<1>2. QED
  BY <1>1, NetHolds, PTL

(* The replies that are sent are those to the requests for us, each once,  *)
(* in the order in which they were read.                                   *)
THEOREM RequestsAreAnswered == Spec => []Answered
<1>1. ASSUME NetInv
      PROVE  Answered
  <2>1. asked = wire \/ \E t \in NetThreads : asked = Append(wire, out[t])
    BY <1>1 DEF NetInv, TxInv, Idle, Replying, Replied
  <2>2. wire \in Seq(Nat) /\ asked \in Seq(Nat) /\ out \in [Clients -> Nat]
    BY <1>1 DEF NetInv, TypeInv, DataInv
  <2>3. PICK n \in Nat : Len(wire) = n
    BY <2>2, LenProperties
  <2>4. CASE asked = wire
    <3>1. wire = SubSeq(wire, 1, Len(wire))
      BY <2>2
    <3>2. QED
      BY <2>3, <2>4, <3>1 DEF Answered
  <2>5. CASE \E t \in NetThreads : asked = Append(wire, out[t])
    <3>1. PICK t \in NetThreads : asked = Append(wire, out[t])
      BY <2>5
    <3>2. PICK x \in Nat : x = out[t]
      BY <2>2, Names
    <3>3. PICK a : a = Append(wire, x)
      OBVIOUS
    <3>4. /\ a \in Seq(Nat) /\ Len(a) = n + 1 /\ a[n + 1] = x
          /\ \A k \in 1 .. n : a[k] = wire[k]
      BY <2>2, <2>3, <3>3, AppendProperties
    <3>5. wire = SubSeq(a, 1, n)
      <4>1. /\ SubSeq(a, 1, n) \in Seq(Nat) /\ Len(SubSeq(a, 1, n)) = n
            /\ \A k \in 1 .. n : SubSeq(a, 1, n)[k] = a[k]
        BY <2>3, <3>4
      <4>2. QED
        BY <2>2, <2>3, <3>4, <4>1, SeqEqual
    <3>6. asked = a
      BY <3>1, <3>2, <3>3
    <3>7. QED
      BY <2>3, <3>1, <3>2, <3>4, <3>5, <3>6 DEF Answered
  <2>6. QED
    BY <2>1, <2>4, <2>5
<1>2. QED
  BY <1>1, NetHolds, PTL

(* The lists of the driver are sound: the transmit side always, which has  *)
(* no lock, and the collector list unless a reader and the receive loop    *)
(* have met.                                                               *)
LEMMA CollectorIsSound ==
  ASSUME NetInv
  PROVE  CollectorSound
<1>1. SUFFICES ASSUME ~raced
               PROVE  CollectorSound
  BY DEF CollectorSound
<1>2. PICK s : RxInv(s)
  BY <1>1 DEF NetInv
<1>3. Listed(RxNodes, Collector, s) /\ IsFiniteSet(RxNodes) /\ Linked(rx, RxNodes) /\ Chain(rx, Collector, s)
  BY <1>2, RxFacts, Nodes DEF RxInv, RxList
<1>4. DOMAIN rx.next = RxNodes
  BY <1>3 DEF Linked
<1>5. Entries(rx, Collector) = s
  BY <1>3, <1>4, EntriesAre
<1>6. Among(rx, Collector) = On(s)
  <2>1. DOMAIN s = 1 .. Len(s)
    BY <1>3, LenProperties DEF Listed
  <2>2. QED
    BY <1>5, <2>1 DEF Among, On
<1>7. ASSUME \A t \in NetThreads : pc[t] \notin {"unlink", "unlinked"}, pc["recv"] \notin {"link", "store"}
      PROVE  IsRing(rx, Collector)
  <2>1. Backs(rx, Collector, s)
    BY <1>2, <1>7 DEF RxInv, RxWhole
  <2>2. QED
    BY <1>3, <1>4, <2>1, RingIs DEF Holds
<1>8. On(s) \cap rx_own = {}
  BY <1>2 DEF RxInv, RxList
<1>9. ASSUME NEW i \in Slots, rx.next[i] # i, i \notin On(s)
      PROVE  \/ pc["recv"] \in {"link", "store"} /\ reg["recv"].node = i
             \/ \E t \in NetThreads : Reading(t) /\ reg[t].node = i
  BY <1>2, <1>9 DEF RxInv, RxRest, Reading
<1>10. QED
  BY <1>6, <1>7, <1>8, <1>9 DEF CollectorSound

LEMMA TransmitIsSound ==
  ASSUME NetInv
  PROVE  TransmitSound
<1>1. TypeInv /\ SessionInv /\ TxInv
  BY DEF NetInv
<1>2. tx_own \subseteq {cur_tx}
  BY <1>1 DEF TxInv, Idle, Replying, Replied, Taking, Queueing, Giving, Freeing, Done
<1>3. ASSUME NEW t \in NetThreads, Linking(t), Linking("send")
      PROVE  FALSE
  <2>1. pc["send"] # "poll" /\ Alive(t)
    BY <1>1, <1>3, Names DEF Linking, Alive, TypeInv, PlacesInv, SendPlaces
  <2>2. PICK u \in NetThreads : pc[u] = "spin"
    BY <1>1, <2>1, TxOfSender DEF Giving, Freeing
  <2>3. u = t
    BY <1>1, <2>1, <2>2 DEF SessionInv, Alive
  <2>4. QED
    BY <1>3, <2>2, <2>3 DEF Linking
<1>4. \A t, u \in NetThreads \cup {"send"} : Linking(t) /\ Linking(u) => t = u
  <2>1. \A t, u \in NetThreads : Linking(t) /\ Linking(u) => t = u
    BY <1>1 DEF Linking, SessionInv, Alive
  <2>2. QED
    BY <1>3, <2>1
<1>5. ASSUME ~\E t \in NetThreads \cup {"send"} : Linking(t)
      PROVE  /\ IsRing(tx, FREE) /\ IsRing(tx, BUSY)
             /\ Among(tx, FREE) \cap Among(tx, BUSY) = {}
             /\ Among(tx, FREE) \cup Among(tx, BUSY) = Slots
  <2>1. PICK f \in Seq(Slots), b \in Seq(Slots) :
          /\ TwoLists(f, b) /\ Distinct(f) /\ Distinct(b)
          /\ On(f) \cap On(b) = {} /\ On(f) \cup On(b) = Slots
    <3>1. ~Linking("send") /\ \A t \in NetThreads : ~Linking(t)
      BY <1>5
    <3>2. \E i \in Slots : TwoLists(Full(i), <<>>) \/ TwoLists(Rest(i), <<i>>)
      <4>1. cur_tx \in Slots
        BY <1>1 DEF TypeInv, DataInv
      <4>2. CASE Idle
        BY <4>1, <4>2 DEF Idle
      <4>3. CASE \E t \in NetThreads : Replying(t, cur_tx)
        BY <3>1, <4>1, <4>3 DEF Replying, Taking, Queueing, Giving, Linking
      <4>4. CASE \E t \in NetThreads, i \in Slots : Next1(i) = cur_tx /\ Replied(t, i)
        BY <3>1, <4>1, <4>4 DEF Replied, Freeing, Linking
      <4>5. CASE \E t \in NetThreads : asked = wire /\ Done(t)
        BY <4>1, <4>5 DEF Done
      <4>6. QED
        BY <1>1, <4>2, <4>3, <4>4, <4>5 DEF TxInv
    <3>3. PICK i \in Slots : TwoLists(Full(i), <<>>) \/ TwoLists(Rest(i), <<i>>)
      BY <3>2
    <3>4. TxLists(i) /\ Places1(i)
      BY TxListed, Rotated
    <3>5. PICK e : e = <<>> /\ e \in Seq(Slots) /\ Distinct(e) /\ On(e) = {}
      <4>1. Distinct(<<>>) /\ On(<<>>) = {}
        BY <3>4 DEF TxLists, Listed
      <4>2. <<>> \in Seq(Slots)
        OBVIOUS
      <4>3. QED
        BY <4>1, <4>2
    <3>6. PICK o : o = <<i>> /\ o \in Seq(Slots) /\ Distinct(o) /\ On(o) = {i}
      <4>1. Distinct(<<i>>) /\ On(<<i>>) = {i}
        BY <3>4 DEF TxLists, Listed
      <4>2. <<i>> \in Seq(Slots)
        OBVIOUS
      <4>3. QED
        BY <4>1, <4>2
    <3>7. PICK r : r = Rest(i) /\ r \in Seq(Slots) /\ Distinct(r) /\ On(r) = Slots \ {i}
      <4>1. Full(i) \in Seq(Slots) /\ Full(i) # <<>> /\ Rest(i) = Tail(Full(i))
        BY <3>4 DEF Places1
      <4>2. Rest(i) \in Seq(Slots)
        BY <4>1, HeadTailProperties
      <4>3. QED
        BY <3>4, <4>2 DEF TxLists, Listed
    <3>8. PICK w : w = Full(i) /\ w \in Seq(Slots) /\ Distinct(w) /\ On(w) = Slots
      BY <3>4 DEF Places1
    <3>9. CASE TwoLists(Full(i), <<>>)
      <4>1. TwoLists(w, e)
        BY <3>5, <3>8, <3>9
      <4>2. QED
        BY <3>5, <3>8, <4>1
    <3>10. CASE TwoLists(Rest(i), <<i>>)
      <4>1. TwoLists(r, o)
        BY <3>6, <3>7, <3>10
      <4>2. o \in Seq(Slots) /\ Distinct(o) /\ On(o) = {i}
        BY <3>6
      <4>3. r \in Seq(Slots) /\ Distinct(r) /\ On(r) = Slots \ {i}
        BY <3>7
      <4>4. On(r) \cap On(o) = {} /\ On(r) \cup On(o) = Slots
        BY <3>3, <4>2, <4>3
      <4>5. QED
        BY <4>1, <4>2, <4>3, <4>4
    <3>11. QED
      BY <3>3, <3>9, <3>10
  <2>2. DOMAIN tx.next = TxNodes /\ IsFiniteSet(TxNodes)
    BY <1>1, Nodes DEF TxInv, Linked
  <2>3. Listed(TxNodes, FREE, f) /\ Listed(TxNodes, BUSY, b)
    BY <2>1, SlotLists
  <2>4. Holds(tx, FREE, f) /\ Holds(tx, BUSY, b)
    BY <2>1 DEF TwoLists
  <2>5. IsRing(tx, FREE) /\ IsRing(tx, BUSY)
    BY <2>2, <2>3, <2>4, RingIs
  <2>6. Entries(tx, FREE) = f /\ Entries(tx, BUSY) = b
    BY <2>2, <2>3, <2>4, EntriesAre DEF Holds
  <2>7. DOMAIN f = 1 .. Len(f) /\ DOMAIN b = 1 .. Len(b)
    BY <2>1, LenProperties
  <2>8. Among(tx, FREE) = On(f) /\ Among(tx, BUSY) = On(b)
    BY <2>6, <2>7 DEF Among, On
  <2>9. QED
    BY <2>1, <2>5, <2>8
<1>6. QED
  BY <1>2, <1>4, <1>5 DEF TransmitSound

(* The lists of the driver are sound, as ListsSound says.                  *)
THEOREM TheListsAreSound == Spec => []ListsSound
<1>1. NetInv => ListsSound
  BY CollectorIsSound, TransmitIsSound DEF ListsSound
<1>2. QED
  BY <1>1, NetHolds, PTL
===============================================================================
