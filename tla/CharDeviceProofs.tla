---------------------------- MODULE CharDeviceProofs --------------------------
(***************************************************************************)
(* The devices that queue characters.  The ring buffer is a FIFO of        *)
(* SIZE - 1 characters, and so is the transmitter of the serial port, for  *)
(* any SIZE and any bursts.  Whatever keys are pressed and released, and   *)
(* wherever the handler of the keyboard and the reader are in the way of   *)
(* each other, the driver knows which modifiers are held and the reader    *)
(* gets what was typed, in order, for any number of key presses.           *)
(***************************************************************************)
EXTENDS Keyboard, Uart, SequenceTheorems, TLAPS, WellFoundedInduction

-----------------------------------------------------------------------------
(* The ring buffer holds what its Contents say: storing characters that    *)
(* fit appends them, and the oldest leaves first.                          *)
Cells == Chars \cup {NUL}

(* Indices wrap around at most once.                                       *)
LEMMA InRange ==
  ASSUME NEW a \in Int
  PROVE  a % SIZE \in Index
BY CharQueueAssumption DEF Index

LEMMA NoWrap ==
  ASSUME NEW a \in 0 .. SIZE - 1
  PROVE  a % SIZE = a
BY CharQueueAssumption

LEMMA WrapDown ==
  ASSUME NEW a \in Int, SIZE <= a, a < 2 * SIZE
  PROVE  a % SIZE = a - SIZE
BY CharQueueAssumption

LEMMA WrapUp ==
  ASSUME NEW a \in 1 - SIZE .. -1
  PROVE  a % SIZE = a + SIZE
BY CharQueueAssumption

(* Going n places on from f, with n at most a full turn.                   *)
LEMMA Advance ==
  ASSUME NEW f \in Index, NEW n \in 0 .. SIZE
  PROVE  (f + n) % SIZE = IF f + n < SIZE THEN f + n ELSE f + n - SIZE
<1>0. SIZE \in Nat \ {0} /\ f \in Int /\ n \in Int
  BY CharQueueAssumption DEF Index
<1>1. CASE f + n < SIZE
  <2>1. f + n \in 0 .. SIZE - 1
    BY <1>0, <1>1 DEF Index
  <2>2. (f + n) % SIZE = f + n
    BY <2>1, NoWrap, Zenon
  <2>3. QED
    BY <1>1, <2>2, Zenon
<1>2. CASE ~(f + n < SIZE)
  <2>1. f + n \in Int /\ SIZE <= f + n /\ f + n < 2 * SIZE
    BY <1>0, <1>2 DEF Index
  <2>2. (f + n) % SIZE = (f + n) - SIZE /\ (f + n) - SIZE = f + n - SIZE
    BY <1>0, <2>1, WrapDown
  <2>3. QED
    BY <1>2, <2>2
<1>3. QED
  BY <1>1, <1>2

(* How far i lies behind l.                                                *)
LEMMA Distance ==
  ASSUME NEW i \in Index, NEW l \in Index
  PROVE  (i - l) % SIZE = IF i >= l THEN i - l ELSE i - l + SIZE
<1>0. SIZE \in Nat \ {0} /\ i \in Int /\ l \in Int
  BY CharQueueAssumption DEF Index
<1>1. CASE i >= l
  <2>1. i - l \in 0 .. SIZE - 1
    BY <1>0, <1>1 DEF Index
  <2>2. (i - l) % SIZE = i - l
    BY <2>1, NoWrap, Zenon
  <2>3. QED
    BY <1>1, <2>2, Zenon
<1>2. CASE ~(i >= l)
  <2>1. i - l \in 1 - SIZE .. -1
    BY <1>0, <1>2 DEF Index
  <2>2. (i - l) % SIZE = i - l + SIZE
    BY <2>1, WrapUp, Zenon
  <2>3. QED
    BY <1>2, <2>2, Zenon
<1>3. QED
  BY <1>1, <1>2

(* The places from first to last, and from last on, do not meet.           *)
LEMMA Places ==
  ASSUME NEW f \in Index, NEW l \in Index, NEW z \in Index, NEW n \in Nat,
         l = (f + z) % SIZE, z + n < SIZE
  PROVE  /\ \A k \in 1 .. z : ~((((f + k - 1) % SIZE) - l) % SIZE < n)
         /\ \A k \in 1 .. n : (((f + z + k - 1) % SIZE) - l) % SIZE = k - 1
         /\ (l + n) % SIZE = (f + (z + n)) % SIZE
<1>0. SIZE \in Nat \ {0} /\ f \in Int /\ l \in Int /\ z \in Int
  BY CharQueueAssumption DEF Index
<1>1. l = IF f + z < SIZE THEN f + z ELSE f + z - SIZE
  BY <1>0, Advance DEF Index
<1>2. ASSUME NEW k \in 1 .. z
      PROVE  ~((((f + k - 1) % SIZE) - l) % SIZE < n)
  <2> DEFINE i == (f + k - 1) % SIZE
  <2>1. k - 1 \in 0 .. SIZE /\ f + k - 1 = f + (k - 1)
    BY <1>0 DEF Index
  <2>2. i = IF f + k - 1 < SIZE THEN f + k - 1 ELSE f + k - 1 - SIZE
    BY <2>1, Advance
  <2>3. i \in Index
    BY <1>0, <2>1, <2>2 DEF Index
  <2>4. (i - l) % SIZE = IF i >= l THEN i - l ELSE i - l + SIZE
    BY <2>3, Distance
  <2> HIDE DEF i
  <2>5. ~((i - l) % SIZE < n)
    BY <1>0, <1>1, <2>2, <2>3, <2>4 DEF Index
  <2>6. QED
    BY <2>5 DEF i
<1>3. ASSUME NEW k \in 1 .. n
      PROVE  (((f + z + k - 1) % SIZE) - l) % SIZE = k - 1
  <2> DEFINE i == (f + z + k - 1) % SIZE
  <2>1. z + k - 1 \in 0 .. SIZE /\ f + z + k - 1 = f + (z + k - 1)
    BY <1>0 DEF Index
  <2>a. (f + (z + k - 1)) % SIZE = IF f + (z + k - 1) < SIZE
                                   THEN f + (z + k - 1) ELSE f + (z + k - 1) - SIZE
    BY <2>1, Advance, Zenon
  <2>2. i = IF f + z + k - 1 < SIZE THEN f + z + k - 1 ELSE f + z + k - 1 - SIZE
    BY <1>0, <2>1, <2>a
  <2>3. i \in Index
    BY <1>0, <2>1, <2>2 DEF Index
  <2>4. (i - l) % SIZE = IF i >= l THEN i - l ELSE i - l + SIZE
    BY <2>3, Distance
  <2> HIDE DEF i
  <2>5. (i - l) % SIZE = k - 1
    BY <1>0, <1>1, <2>2, <2>3, <2>4 DEF Index
  <2>6. QED
    BY <2>5 DEF i
<1>4. (l + n) % SIZE = (f + (z + n)) % SIZE
  <2>1. n \in 0 .. SIZE /\ z + n \in 0 .. SIZE
    BY <1>0 DEF Index
  <2>2. (l + n) % SIZE = IF l + n < SIZE THEN l + n ELSE l + n - SIZE
    BY <2>1, Advance
  <2>3. (f + (z + n)) % SIZE = IF f + (z + n) < SIZE THEN f + (z + n) ELSE f + (z + n) - SIZE
    BY <2>1, Advance
  <2>4. QED
    BY <1>0, <1>1, <2>2, <2>3 DEF Index
<1>5. QED
  BY <1>2, <1>3, <1>4

(* The size of a queue is how far last lies behind first.                  *)
LEMMA SizeOf ==
  ASSUME NEW q, q.first \in Index, NEW z \in Index, q.last = (q.first + z) % SIZE
  PROVE  Size(q) = z
<1>0. SIZE \in Nat \ {0}
  BY CharQueueAssumption
<1>1. q.last = IF q.first + z < SIZE THEN q.first + z ELSE q.first + z - SIZE
  <2>1. z \in 0 .. SIZE
    BY <1>0 DEF Index
  <2>2. QED
    BY <2>1, Advance, Zenon
<1>2. QED
  BY <1>0, <1>1 DEF Size, Index

LEMMA SizeBounds ==
  ASSUME NEW q \in CharQueues
  PROVE  /\ Size(q) \in Index
         /\ Empty(q) <=> Size(q) = 0
         /\ q.first \in Index /\ q.last \in Index /\ q.buffer \in [Index -> Cells]
         /\ q.last = (q.first + Size(q)) % SIZE
<1>1. q.first \in Index /\ q.last \in Index /\ q.buffer \in [Index -> Cells]
  BY DEF CharQueues, Cells
<1>2. Size(q) \in Index /\ (Empty(q) <=> Size(q) = 0)
  BY <1>1, CharQueueAssumption DEF Size, Empty, Index
<1>3. q.last = (q.first + Size(q)) % SIZE
  <2>1. Size(q) \in 0 .. SIZE
    BY <1>2, CharQueueAssumption DEF Index
  <2>2. (q.first + Size(q)) % SIZE =
          IF q.first + Size(q) < SIZE THEN q.first + Size(q) ELSE q.first + Size(q) - SIZE
    BY <1>1, <2>1, Advance
  <2>3. QED
    BY <1>1, <2>2, CharQueueAssumption DEF Size, Index
<1>4. QED
  BY <1>1, <1>2, <1>3

(* What a queue holds is a sequence as long as char_queue_size says.       *)
LEMMA ContentsSeq ==
  ASSUME NEW q \in CharQueues
  PROVE  /\ Contents(q) \in Seq(Cells)
         /\ Len(Contents(q)) = Size(q)
         /\ \A k \in 1 .. Size(q) : Contents(q)[k] = q.buffer[(q.first + k - 1) % SIZE]
<1>1. Size(q) \in Nat /\ q.first \in Int /\ q.buffer \in [Index -> Cells]
  BY SizeBounds, CharQueueAssumption DEF Index
<1>2. \A k \in 1 .. Size(q) : q.buffer[(q.first + k - 1) % SIZE] \in Cells
  BY <1>1, InRange
<1>3. QED
  BY <1>1, <1>2 DEF Contents

(* Storing characters that fit appends them.                               *)
LEMMA EnqueuedOK ==
  ASSUME NEW q \in CharQueues, NEW s \in Seq(Cells), Size(q) + Len(s) < SIZE
  PROVE  /\ Enqueued(q, s) \in CharQueues
         /\ Size(Enqueued(q, s)) = Size(q) + Len(s)
         /\ Contents(Enqueued(q, s)) = Contents(q) \o s
<1> DEFINE e == Enqueued(q, s)
           slot(i) == (i - q.last) % SIZE
           f == q.first
           l == q.last
           z == Size(q)
           n == Len(s)
<1>1. /\ z \in Index /\ f \in Index /\ l \in Index
      /\ q.buffer \in [Index -> Cells]
      /\ l = (f + z) % SIZE
      /\ n \in Nat /\ SIZE \in Nat \ {0}
  BY SizeBounds, CharQueueAssumption
<1>2. /\ e.first = f
      /\ e.last = (l + n) % SIZE
      /\ e.buffer = [i \in Index |-> IF slot(i) < n THEN s[slot(i) + 1] ELSE q.buffer[i]]
      /\ e = [buffer |-> e.buffer, first |-> e.first, last |-> e.last]
  <2>1. q = [buffer |-> q.buffer, first |-> f, last |-> l]
    BY DEF CharQueues
  <2> DEFINE b == [i \in Index |-> IF slot(i) < n THEN s[slot(i) + 1] ELSE q.buffer[i]]
  <2>2. e = [q EXCEPT !.buffer = b, !.last = (l + n) % SIZE]
    BY Zenon DEF Enqueued
  <2> HIDE DEF b, e, n
  <2>3. e = [buffer |-> b, first |-> f, last |-> (l + n) % SIZE]
    BY <2>1, <2>2
  <2>4. QED
    BY <2>3 DEF b
<1> HIDE DEF e, z, n
<1>3. \A i \in Index : slot(i) < n => s[slot(i) + 1] \in Cells
  <2> SUFFICES ASSUME NEW i \in Index, slot(i) < n
               PROVE  s[slot(i) + 1] \in Cells
    OBVIOUS
  <2>0. i - l \in Int
    BY <1>1 DEF Index
  <2>1. slot(i) \in Index
    BY <2>0, InRange, Zenon
  <2>a. \A j \in Index : \A m \in Nat : j < m => j + 1 \in 1 .. m
    BY <1>1 DEF Index
  <2>2. slot(i) + 1 \in 1 .. n
    BY <1>1, <2>1, <2>a, Zenon
  <2>3. QED
    BY <2>2, ElementOfSeq DEF Cells, n
<1>4. e.buffer \in [Index -> Cells] /\ e.last \in Index
  <2>1. l + n \in Int
    BY <1>1 DEF Index
  <2>2. (l + n) % SIZE \in Index
    BY <2>1, InRange, Zenon
  <2>3. QED
    BY <1>1, <1>2, <1>3, <2>2
<1>5. e \in CharQueues
  BY <1>1, <1>2, <1>4 DEF CharQueues, Cells
<1>6. z + n < SIZE /\ z + n \in Index
  BY <1>1 DEF z, n, Index
<1>7. /\ \A k \in 1 .. z : ~(slot((f + k - 1) % SIZE) < n)
      /\ \A k \in 1 .. n : slot((f + z + k - 1) % SIZE) = k - 1
      /\ (l + n) % SIZE = (f + (z + n)) % SIZE
  BY <1>1, <1>6, Places
<1>8. Size(e) = z + n
  BY <1>1, <1>2, <1>6, <1>7, SizeOf
<1>9. /\ \A k \in 1 .. z : (f + k - 1) % SIZE \in Index
      /\ \A k \in 1 .. n : (f + z + k - 1) % SIZE \in Index
  <2>0. f \in Int /\ z \in Int /\ n \in Int
    BY <1>1 DEF Index
  <2>1. /\ \A k \in 1 .. z : f + k - 1 \in Int
        /\ \A k \in 1 .. n : f + z + k - 1 \in Int
    <3> HIDE DEF f, z, n
    <3>1. QED
      BY <2>0
  <2>2. QED
    BY <2>1, InRange, Zenon
<1>10. \A k \in 1 .. z : e.buffer[(f + k - 1) % SIZE] = q.buffer[(f + k - 1) % SIZE]
  BY <1>2, <1>7, <1>9
<1>11. \A k \in 1 .. n : e.buffer[(f + z + k - 1) % SIZE] = s[k]
  <2> SUFFICES ASSUME NEW k \in 1 .. n
               PROVE  e.buffer[(f + z + k - 1) % SIZE] = s[k]
    OBVIOUS
  <2>1. slot((f + z + k - 1) % SIZE) = k - 1 /\ (f + z + k - 1) % SIZE \in Index
    BY <1>7, <1>9
  <2>2. k - 1 < n /\ k - 1 + 1 = k
    BY <1>1
  <2>3. QED
    BY <1>2, <2>1, <2>2
<1>12. Contents(e) = Contents(q) \o s
  <2> DEFINE c == Contents(e)
             d == Contents(q) \o s
  <2>1. /\ Contents(q) \in Seq(Cells) /\ Len(Contents(q)) = z
        /\ c \in Seq(Cells) /\ Len(c) = z + n
        /\ \A k \in 1 .. z : Contents(q)[k] = q.buffer[(f + k - 1) % SIZE]
        /\ \A k \in 1 .. z + n : c[k] = e.buffer[(f + k - 1) % SIZE]
    BY <1>2, <1>5, <1>8, ContentsSeq DEF z
  <2>2. s \in Seq(Cells)
    BY SeqMonotonic DEF Cells
  <2>3. d \in Seq(Cells) /\ Len(d) = z + n
    BY <2>1, <2>2, ConcatProperties DEF n
  <2>4. \A k \in 1 .. z + n : d[k] = IF k <= z THEN Contents(q)[k] ELSE s[k - z]
    BY <2>1, <2>2, ConcatProperties DEF n
  <2> HIDE DEF c, d
  <2>5. ASSUME NEW k \in 1 .. z + n
        PROVE  c[k] = d[k]
    <3>1. CASE k <= z
      <4>1. k \in 1 .. z
        BY <1>1, <3>1 DEF Index
      <4>2. QED
        BY <1>10, <2>1, <2>4, <3>1, <4>1
    <3>2. CASE ~(k <= z)
      <4>1. k - z \in 1 .. n /\ f + z + (k - z) - 1 = f + k - 1
        BY <1>1, <3>2 DEF Index
      <4>2. QED
        BY <1>11, <2>1, <2>4, <3>2, <4>1
    <3>3. QED
      BY <3>1, <3>2
  <2>6. c = d
    BY <2>1, <2>3, <2>5, SeqEqual
  <2>7. QED
    BY <2>6 DEF c, d
<1>13. QED
  BY <1>5, <1>8, <1>12 DEF e, z, n

(* Taking the oldest character leaves the others.                          *)
LEMMA DequeuedOK ==
  ASSUME NEW q \in CharQueues, ~Empty(q)
  PROVE  /\ Dequeued(q) \in CharQueues
         /\ Contents(q) # <<>>
         /\ Oldest(q) = Head(Contents(q)) /\ Oldest(q) \in Cells
         /\ Contents(Dequeued(q)) = Tail(Contents(q))
         /\ Size(Dequeued(q)) = Size(q) - 1
<1> DEFINE e == Dequeued(q)
           f == q.first
           z == Size(q)
           c == Contents(q)
<1>1. /\ z \in Index /\ z # 0 /\ f \in Index /\ q.last \in Index
      /\ q.buffer \in [Index -> Cells]
      /\ q.last = (f + z) % SIZE
      /\ SIZE \in Nat \ {0}
  BY SizeBounds, CharQueueAssumption
<1>2. /\ e.first = (f + 1) % SIZE /\ e.last = q.last /\ e.buffer = q.buffer
      /\ e = [buffer |-> e.buffer, first |-> e.first, last |-> e.last]
  BY DEF Dequeued, CharQueues
<1>3. Oldest(q) = q.buffer[f]
  BY DEF Oldest
<1> HIDE DEF e, z, c
<1>4. e.first \in Index
  BY <1>1, <1>2, InRange DEF Index
<1>5. e \in CharQueues
  BY <1>1, <1>2, <1>4 DEF CharQueues, Cells
<1>6. z \in 1 .. SIZE /\ z - 1 \in Index /\ 1 \in 0 .. SIZE
  BY <1>1 DEF Index
<1>7. e.first = IF f + 1 < SIZE THEN f + 1 ELSE f + 1 - SIZE
  BY <1>1, <1>2, <1>6, Advance
<1>8. ASSUME NEW k \in 0 .. SIZE - 1
      PROVE  (e.first + k) % SIZE = (f + (k + 1)) % SIZE
  <2>1. k \in 0 .. SIZE /\ k + 1 \in 0 .. SIZE
    BY <1>1
  <2>2. (e.first + k) % SIZE = IF e.first + k < SIZE THEN e.first + k ELSE e.first + k - SIZE
    BY <1>4, <2>1, Advance
  <2>3. (f + (k + 1)) % SIZE = IF f + (k + 1) < SIZE THEN f + (k + 1) ELSE f + (k + 1) - SIZE
    BY <1>1, <2>1, Advance
  <2> DEFINE g == e.first
             x == (e.first + k) % SIZE
             y == (f + (k + 1)) % SIZE
  <2>4. g \in Int /\ f \in Int /\ k \in Int /\ SIZE \in Nat \ {0} /\ f < SIZE
    BY <1>1, <1>4 DEF Index
  <2> HIDE DEF g, f, x, y
  <2>5. /\ g = IF f + 1 < SIZE THEN f + 1 ELSE f + 1 - SIZE
        /\ x = IF g + k < SIZE THEN g + k ELSE g + k - SIZE
        /\ y = IF f + (k + 1) < SIZE THEN f + (k + 1) ELSE f + (k + 1) - SIZE
    BY <1>7, <2>2, <2>3, Zenon DEF g, x, y
  <2>6. x = y
    BY <2>4, <2>5
  <2>7. QED
    BY <2>6 DEF x, y
<1>9. Size(e) = z - 1
  <2>1. z - 1 \in 0 .. SIZE - 1 /\ z - 1 + 1 = z
    BY <1>1, <1>6 DEF Index
  <2>2. (e.first + (z - 1)) % SIZE = (f + z) % SIZE
    BY <1>8, <2>1
  <2>3. QED
    BY <1>1, <1>2, <1>4, <1>6, <2>2, SizeOf
<1>10. /\ c \in Seq(Cells) /\ Len(c) = z
       /\ \A k \in 1 .. z : c[k] = q.buffer[(f + k - 1) % SIZE]
       /\ Contents(e) \in Seq(Cells) /\ Len(Contents(e)) = z - 1
       /\ \A k \in 1 .. z - 1 : Contents(e)[k] = q.buffer[(e.first + k - 1) % SIZE]
  BY <1>2, <1>5, <1>9, ContentsSeq DEF z, c
<1>11. c # <<>>
  BY <1>1, <1>10, EmptySeq
<1>12. Oldest(q) = c[1] /\ Oldest(q) \in Cells
  <2>0. f % SIZE = f
    BY <1>1, NoWrap, Zenon DEF Index
  <2>1. f % SIZE = f /\ f + 1 - 1 = f /\ 1 \in 1 .. z
    BY <1>1, <1>6, <2>0 DEF Index
  <2>2. QED
    BY <1>1, <1>3, <1>10, <2>1
<1>13. /\ Tail(c) \in Seq(Cells)
       /\ Len(Tail(c)) = z - 1
       /\ \A k \in 1 .. z - 1 : Tail(c)[k] = c[k + 1]
       /\ Head(c) = c[1]
  BY <1>10, <1>11, HeadTailProperties
<1>14. ASSUME NEW k \in 1 .. z - 1
       PROVE  Contents(e)[k] = Tail(c)[k]
  <2>1. /\ k - 1 \in 0 .. SIZE - 1 /\ k - 1 + 1 = k
        /\ e.first + (k - 1) = e.first + k - 1
        /\ f + (k + 1) - 1 = f + k
        /\ k + 1 \in 1 .. z
    <3>1. f \in Int /\ e.first \in Int /\ z \in Nat /\ SIZE \in Nat /\ z <= SIZE
      BY <1>1, <1>4, <1>6 DEF Index
    <3>2. k \in Int /\ k >= 1 /\ k <= z - 1
      BY <3>1
    <3> HIDE DEF f, z
    <3>3. QED
      BY <3>1, <3>2
  <2>2. (e.first + k - 1) % SIZE = (f + (k + 1) - 1) % SIZE
    BY <1>8, <2>1
  <2>3. QED
    BY <1>10, <1>13, <2>1, <2>2
<1>15. Contents(e) = Tail(c)
  BY <1>10, <1>13, <1>14, SeqEqual
<1>16. QED
  BY <1>5, <1>9, <1>11, <1>12, <1>13, <1>15 DEF e, z, c

-----------------------------------------------------------------------------
LEMMA EmptyQueue ==
  null_char_queue \in CharQueues /\ Size(null_char_queue) = 0
    /\ Empty(null_char_queue) /\ Contents(null_char_queue) = <<>>
<1>1. 0 \in Index
  BY CharQueueAssumption DEF Index
<1>2. null_char_queue \in CharQueues
  BY <1>1 DEF null_char_queue, CharQueues
<1>3. Size(null_char_queue) = 0 /\ Empty(null_char_queue)
  BY DEF Size, Empty, null_char_queue
<1>4. Contents(null_char_queue) = <<>>
  BY <1>2, <1>3, ContentsSeq, EmptySeq
<1>5. QED
  BY <1>2, <1>3, <1>4

-----------------------------------------------------------------------------
(* The serial port.                                                        *)
LEMMA Written ==
  ASSUME NEW s \in Bursts, NEW m \in Nat
  PROVE  LET written == Min({m, Len(s)})
         IN  /\ written \in Nat
             /\ SubSeq(s, 1, written) \in Seq(Chars)
             /\ Len(SubSeq(s, 1, written)) = written
<1>1. PICK n \in 0 .. MaxBurst : s \in [1 .. n -> Chars]
  BY DEF Bursts
<1>2. n \in Nat
  BY <1>1, UartAssumption
<1>3. s \in Seq(Chars) /\ Len(s) \in Nat
  BY <1>1, <1>2
<1> DEFINE w == Min({m, Len(s)})
<1>4. w \in Nat /\ w <= Len(s)
  <2>1. \E x \in {m, Len(s)} : \A y \in {m, Len(s)} : x <= y
    BY <1>3
  <2>2. w \in {m, Len(s)} /\ \A y \in {m, Len(s)} : w <= y
    BY <2>1 DEF Min
  <2>3. QED
    BY <1>3, <2>2
<1> HIDE DEF w
<1>5. \A i \in 1 .. w : s[i] \in Chars
  BY <1>3, <1>4, ElementOfSeq
<1>6. SubSeq(s, 1, w) \in Seq(Chars) /\ Len(SubSeq(s, 1, w)) = w
  BY <1>3, <1>4, <1>5, SubSeqProperties
<1>7. QED
  BY <1>4, <1>6 DEF w

(* Characters put at the end of the transmit queue are a step Put.         *)
LEMMA Appended ==
  ASSUME tx_queue \in CharQueues, NEW s \in Seq(Chars),
         ~Overflows(tx_queue, Len(s)) \/ s = <<>>,
         tx_queue' = Enqueued(tx_queue, s), UNCHANGED holding
  PROVE  tx_queue' \in CharQueues /\ LineSpec!Put
<1> DEFINE c == Contents(tx_queue)
<1>1. Size(tx_queue) \in Index /\ Size(tx_queue) \in Nat /\ SIZE \in Nat \ {0}
  BY SizeBounds, CharQueueAssumption DEF Index
<1>2. Size(tx_queue) + Len(s) < SIZE
  BY <1>1 DEF Overflows, Index
<1>3. /\ c \in Seq(Cells) /\ Len(c) = Size(tx_queue) /\ s \in Seq(Cells)
      /\ Len(s) \in Nat
  BY ContentsSeq, SeqMonotonic DEF Cells
<1>4. /\ tx_queue' \in CharQueues
      /\ Size(tx_queue') = Size(tx_queue) + Len(s)
      /\ Contents(tx_queue') = c \o s
  BY <1>2, <1>3, EnqueuedOK
<1> HIDE DEF c
<1>5. Len(c \o s) = Len(c) + Len(s)
  BY <1>3, ConcatProperties
<1>6. Len(c \o s) \in Len(c) .. SIZE - 1
  BY <1>1, <1>2, <1>3, <1>5
<1>7. SubSeq(c \o s, 1, Len(c)) = c
  <2>1. SubSeq(c \o s, 1, Len(c)) = SubSeq(c, 1, Len(c))
    BY <1>1, <1>3, SubSeqOfConcat1
  <2>2. QED
    BY <1>3, <2>1, SubSeqFull
<1>8. LineSpec!Put
  BY <1>4, <1>6, <1>7 DEF LineSpec!Put, c
<1>9. QED
  BY <1>4, <1>8

(* Every step keeps the types, and is a step of the FIFO or leaves it as   *)
(* it is.                                                                  *)
LEMMA UartStep ==
  ASSUME UartTypeOK, [UartNext]_uartVars
  PROVE  UartTypeOK' /\ [LineSpec!Next]_(LineSpec!vars)
<1> DEFINE Good == UartTypeOK' /\ [LineSpec!Next]_(LineSpec!vars)
<1>0. /\ rx_queue \in CharQueues /\ tx_queue \in CharQueues /\ ien \in BOOLEAN
      /\ holding \in Cells /\ UartTypeOK
  BY DEF UartTypeOK, Cells
<1>1. ASSUME NEW op \in {"putchar", "write", "rx", "echo"}, Panic(op)
      PROVE  Good
  BY <1>0, <1>1 DEF Panic, UartTypeOK, LineSpec!vars
<1>2. ASSUME NEW s \in Seq(Chars),
             ~Overflows(tx_queue, Len(s)) \/ s = <<>>,
             tx_queue' = Enqueued(tx_queue, s), ien' = TRUE,
             rx_queue' \in CharQueues, UNCHANGED <<holding, panic>>
      PROVE  Good
  <2>1. tx_queue' \in CharQueues /\ LineSpec!Put
    BY <1>0, <1>2, Appended
  <2>2. QED
    BY <1>0, <1>2, <2>1 DEF UartTypeOK, LineSpec!Next
<1>3. ASSUME NEW ch \in Chars, uart_putchar(ch)
      PROVE  Good
  <2>1. CASE Overflows(tx_queue, 1)
    BY <1>1, <1>3, <2>1 DEF uart_putchar
  <2>2. CASE ~Overflows(tx_queue, 1)
    <3>1. <<ch>> \in Seq(Chars) /\ Len(<<ch>>) = 1
      OBVIOUS
    <3>2. QED
      BY <1>0, <1>2, <1>3, <2>2, <3>1 DEF uart_putchar
  <2>3. QED
    BY <2>1, <2>2
<1>4. ASSUME NEW s \in Bursts, uart_write(s)
      PROVE  Good
  <2> DEFINE w == Min({Free(tx_queue), Len(s)})
  <2>1. Free(tx_queue) \in Nat
    BY <1>0, SizeBounds, CharQueueAssumption DEF Free, Index
  <2>2. /\ w \in Nat
        /\ SubSeq(s, 1, w) \in Seq(Chars)
        /\ Len(SubSeq(s, 1, w)) = w
    BY <2>1, Written
  <2>3. IF w > 0 /\ Overflows(tx_queue, w)
        THEN Panic("write")
        ELSE /\ tx_queue' = Enqueued(tx_queue, SubSeq(s, 1, w))
             /\ ien' = TRUE
             /\ UNCHANGED <<rx_queue, holding, panic>>
    BY <1>4 DEF uart_write
  <2> HIDE DEF w
  <2>4. CASE w > 0 /\ Overflows(tx_queue, w)
    BY <1>1, <2>3, <2>4
  <2>5. CASE ~(w > 0 /\ Overflows(tx_queue, w))
    <3>1. ~Overflows(tx_queue, w) \/ SubSeq(s, 1, w) = <<>>
      BY <2>2, <2>5, EmptySeq
    <3>2. QED
      BY <1>0, <1>2, <2>2, <2>3, <2>5, <3>1
  <2>6. QED
    BY <2>4, <2>5
<1>5. ASSUME NEW s \in Bursts, uart_rx_isr(s)
      PROVE  Good
  <2>1. s \in Seq(Chars)
    BY UartAssumption DEF Bursts
  <2>2. CASE Overflows(rx_queue, Len(s)) \/ Overflows(tx_queue, Len(s))
    <3>1. PICK op \in {"rx", "echo"} : Panic(op)
      BY <1>5, <2>2 DEF uart_rx_isr
    <3>2. QED
      BY <1>1, <3>1
  <2>3. CASE ~Overflows(rx_queue, Len(s)) /\ ~Overflows(tx_queue, Len(s))
    <3>1. /\ rx_queue' = Enqueued(rx_queue, s)
          /\ tx_queue' = Enqueued(tx_queue, s)
          /\ ien' = TRUE
          /\ UNCHANGED <<holding, panic>>
      BY <1>5, <2>3 DEF uart_rx_isr
    <3>2. Size(rx_queue) + Len(s) < SIZE
      BY <1>0, <2>1, <2>3, SizeBounds, CharQueueAssumption DEF Overflows, Index
    <3>3. rx_queue' \in CharQueues
      <4>1. s \in Seq(Cells)
        BY <2>1, SeqMonotonic DEF Cells
      <4>2. QED
        BY <1>0, <3>1, <3>2, <4>1, EnqueuedOK
    <3>4. QED
      BY <1>2, <2>1, <2>3, <3>1, <3>3
  <2>4. QED
    BY <2>2, <2>3
<1>6. CASE uart_tx_isr
  <2>1. CASE Empty(tx_queue)
    BY <1>0, <1>6, <2>1 DEF uart_tx_isr, UartTypeOK, LineSpec!vars
  <2>2. CASE ~Empty(tx_queue)
    <3>1. /\ holding = NUL /\ holding' = Oldest(tx_queue)
          /\ tx_queue' = Dequeued(tx_queue)
          /\ UNCHANGED <<rx_queue, panic, ien>>
      BY <1>6, <2>2 DEF uart_tx_isr
    <3>2. /\ Dequeued(tx_queue) \in CharQueues
          /\ Contents(tx_queue) # <<>>
          /\ Oldest(tx_queue) = Head(Contents(tx_queue)) /\ Oldest(tx_queue) \in Cells
          /\ Contents(Dequeued(tx_queue)) = Tail(Contents(tx_queue))
      BY <1>0, <2>2, DequeuedOK
    <3>3. LineSpec!Get
      BY <3>1, <3>2 DEF LineSpec!Get
    <3>4. QED
      BY <1>0, <3>1, <3>2, <3>3 DEF UartTypeOK, Cells, LineSpec!Next
  <2>3. QED
    BY <2>1, <2>2
<1>7. CASE Transmit
  BY <1>0, <1>7 DEF Transmit, UartTypeOK, LineSpec!Next, LineSpec!Sent
<1>8. CASE UNCHANGED uartVars
  BY <1>0, <1>8 DEF uartVars, UartTypeOK, LineSpec!vars
<1>9. QED
  BY <1>3, <1>4, <1>5, <1>6, <1>7, <1>8 DEF UartNext

(* The queues, and what the operations leave in them, have their types.    *)
THEOREM UartTypeCorrect == UartSpec => []UartTypeOK
<1>1. UartInit => UartTypeOK
  BY EmptyQueue DEF UartInit, UartTypeOK
<1>2. UartTypeOK /\ [UartNext]_uartVars => UartTypeOK'
  BY UartStep
<1>3. QED
  BY <1>1, <1>2, PTL DEF UartSpec

(* Characters that wait in the transmit queue of uart.c have the transmit  *)
(* interrupt enabled.                                                      *)
THEOREM TransmitIsEnabled == UartSpec => []PendingIsEnabled
<1>1. UartInit => PendingIsEnabled
  BY EmptyQueue DEF UartInit, PendingIsEnabled
<1>2. PendingIsEnabled /\ [UartNext]_uartVars => PendingIsEnabled'
  <2> SUFFICES ASSUME PendingIsEnabled, [UartNext]_uartVars
               PROVE  PendingIsEnabled'
    OBVIOUS
  <2> USE DEF PendingIsEnabled
  <2>1. ASSUME NEW ch \in Chars, uart_putchar(ch)
        PROVE  PendingIsEnabled'
    BY <2>1 DEF uart_putchar, Panic
  <2>2. ASSUME NEW s \in Bursts, uart_write(s)
        PROVE  PendingIsEnabled'
    BY <2>2 DEF uart_write, Panic
  <2>3. ASSUME NEW s \in Bursts, uart_rx_isr(s)
        PROVE  PendingIsEnabled'
    BY <2>3 DEF uart_rx_isr, Panic
  <2>4. CASE uart_tx_isr
    BY <2>4 DEF uart_tx_isr
  <2>5. CASE Transmit
    BY <2>5 DEF Transmit
  <2>6. CASE UNCHANGED uartVars
    BY <2>6 DEF uartVars
  <2>7. QED
    BY <2>1, <2>2, <2>3, <2>4, <2>5, <2>6 DEF UartNext
<1>3. QED
  BY <1>1, <1>2, PTL DEF UartSpec

(* The transmitter of uart.c sends what is written to it in order and once *)
(* whatever the size of its queue: it implements the abstract FIFO.        *)
THEOREM TransmitterIsFifo == UartSpec => ImplementsFifo
<1>1. UartInit => LineSpec!Init
  BY EmptyQueue DEF UartInit, LineSpec!Init
<1>2. UartTypeOK /\ [UartNext]_uartVars => [LineSpec!Next]_(LineSpec!vars)
  BY UartStep
<1>3. QED
  BY <1>1, <1>2, UartTypeCorrect, PTL DEF UartSpec, ImplementsFifo, LineSpec!Spec

-----------------------------------------------------------------------------
(* Induction, for a set of numbers.                                        *)
LEMMA NatInduct ==
  ASSUME NEW S, 0 \in S, \A n \in Nat : n \in S => n + 1 \in S
  PROVE  \A n \in Nat : n \in S
<1> SUFFICES ASSUME Nat \ S # {}
             PROVE  FALSE
  OBVIOUS
<1>1. PICK R : R = {ss \in Nat \X Nat : ss[1] < ss[2]}
  OBVIOUS
<1>2. IsWellFoundedOn(R, Nat)
  BY <1>1, NatLessThanWellFounded DEF OpToRel
<1>3. PICK x \in Nat \ S : \A y \in Nat \ S : ~(<<y, x>> \in R)
  BY <1>2, WFMin
<1>4. x \in Nat /\ x # 0 /\ x - 1 \in Nat /\ x - 1 < x /\ (x - 1) + 1 = x
  OBVIOUS
<1>5. x - 1 \in S
  <2>1. <<x - 1, x>> \in R
    BY <1>1, <1>4
  <2>2. QED
    BY <1>3, <1>4, <2>1
<1>6. QED
  BY <1>3, <1>4, <1>5

-----------------------------------------------------------------------------
(* Going through a sequence: the state d is taken on by g, a function of   *)
(* the state and of the element.                                           *)
Folds(f, g, d, s, k) == f = [n \in 0 .. k |-> IF n = 0 THEN d ELSE g[f[n - 1]][s[n]]]

Folded(g, d, s) ==
  LET F[n \in 0 .. Len(s)] == IF n = 0 THEN d ELSE g[F[n - 1]][s[n]]
  IN  F[Len(s)]

LEMMA FoldsExist ==
  ASSUME NEW g, NEW d, NEW s, NEW k \in Nat
  PROVE  \E f : Folds(f, g, d, s, k)
<1> DEFINE S == {n \in Nat : \E f : Folds(f, g, d, s, n)}
<1>1. 0 \in S
  <2>1. Folds([n \in 0 .. 0 |-> d], g, d, s, 0)
    BY DEF Folds
  <2>2. QED
    BY <2>1
<1>2. ASSUME NEW j \in Nat, j \in S
      PROVE  j + 1 \in S
  <2>1. PICK f : Folds(f, g, d, s, j)
    BY <1>2
  <2>2. PICK e : e = [n \in 0 .. j + 1 |-> IF n = j + 1 THEN g[f[j]][s[j + 1]] ELSE f[n]]
    OBVIOUS
  <2>3. \A n \in 0 .. j + 1 : n = j + 1 \/ (n \in 0 .. j /\ n # j + 1)
    OBVIOUS
  <2>4. \A n \in 0 .. j + 1 : n # 0 => n - 1 \in 0 .. j /\ n - 1 # j + 1 /\ n - 1 \in 0 .. j + 1
    OBVIOUS
  <2>5. \A n \in 0 .. j + 1 : e[n] = IF n = 0 THEN d ELSE g[e[n - 1]][s[n]]
    <3> TAKE n \in 0 .. j + 1
    <3>1. n # 0 => e[n - 1] = f[n - 1]
      BY <2>2, <2>4
    <3>2. CASE n = j + 1
      <4>1. e[n] = g[f[j]][s[j + 1]] /\ n - 1 = j /\ n # 0
        BY <2>2, <3>2
      <4>2. QED
        BY <3>1, <3>2, <4>1
    <3>3. CASE n \in 0 .. j /\ n # j + 1
      <4>1. e[n] = f[n]
        BY <2>2, <3>3
      <4>2. f[n] = IF n = 0 THEN d ELSE g[f[n - 1]][s[n]]
        BY <2>1, <3>3 DEF Folds
      <4>3. QED
        BY <3>1, <4>1, <4>2
    <3>4. QED
      BY <2>3, <3>2, <3>3
  <2>6. Folds(e, g, d, s, j + 1)
    BY <2>2, <2>5 DEF Folds
  <2>7. QED
    BY <2>6
<1>3. \A n \in Nat : n \in S
  <2> HIDE DEF S
  <2>1. QED
    BY <1>1, <1>2, NatInduct
<1>4. QED
  BY <1>3

LEMMA FoldedFolds ==
  ASSUME NEW g, NEW d, NEW s, Len(s) \in Nat
  PROVE  \E f : Folds(f, g, d, s, Len(s)) /\ Folded(g, d, s) = f[Len(s)]
<1> DEFINE F == CHOOSE f : Folds(f, g, d, s, Len(s))
<1>1. Folds(F, g, d, s, Len(s))
  BY FoldsExist
<1>2. QED
  BY <1>1 DEF Folded, Folds

LEMMA FoldsValue ==
  ASSUME NEW f, NEW g, NEW d, NEW s, NEW k \in Nat, Folds(f, g, d, s, k)
  PROVE  f[0] = d /\ \A n \in 1 .. k : f[n] = g[f[n - 1]][s[n]]
<1>1. \A n \in 0 .. k : f[n] = IF n = 0 THEN d ELSE g[f[n - 1]][s[n]]
  BY DEF Folds
<1>2. 0 \in 0 .. k /\ \A n \in 1 .. k : n \in 0 .. k /\ n # 0
  OBVIOUS
<1>3. QED
  BY <1>1, <1>2

LEMMA FoldedEmpty ==
  ASSUME NEW g, NEW d
  PROVE  Folded(g, d, <<>>) = d
<1>1. Len(<<>>) = 0
  OBVIOUS
<1>2. PICK f : Folds(f, g, d, <<>>, 0) /\ Folded(g, d, <<>>) = f[0]
  BY <1>1, FoldedFolds
<1>3. QED
  BY <1>2, FoldsValue

(* Two sequences, one after the other.                                     *)
LEMMA FoldedConcat ==
  ASSUME NEW X, NEW g, NEW d, NEW s \in Seq(X), NEW t \in Seq(X)
  PROVE  Folded(g, d, s \o t) = Folded(g, Folded(g, d, s), t)
<1>1. PICK u : u = s \o t
  OBVIOUS
<1>2. /\ Len(s) \in Nat /\ Len(t) \in Nat /\ u \in Seq(X) /\ Len(u) = Len(s) + Len(t)
      /\ \A n \in 1 .. Len(s) + Len(t) : u[n] = IF n <= Len(s) THEN s[n] ELSE t[n - Len(s)]
  BY <1>1, ConcatProperties
<1>3. PICK f : Folds(f, g, d, u, Len(u)) /\ Folded(g, d, u) = f[Len(u)]
  BY <1>2, FoldedFolds
<1>4. PICK a : Folds(a, g, d, s, Len(s)) /\ Folded(g, d, s) = a[Len(s)]
  BY <1>2, FoldedFolds
<1>5. PICK m : m = Folded(g, d, s)
  OBVIOUS
<1>6. PICK b : Folds(b, g, m, t, Len(t)) /\ Folded(g, m, t) = b[Len(t)]
  BY <1>2, FoldedFolds
<1>7. /\ f[0] = d /\ \A n \in 1 .. Len(u) : f[n] = g[f[n - 1]][u[n]]
      /\ a[0] = d /\ \A n \in 1 .. Len(s) : a[n] = g[a[n - 1]][s[n]]
      /\ b[0] = m /\ \A n \in 1 .. Len(t) : b[n] = g[b[n - 1]][t[n]]
  <2>1. f[0] = d /\ \A n \in 1 .. Len(u) : f[n] = g[f[n - 1]][u[n]]
    BY <1>2, <1>3, FoldsValue
  <2>2. a[0] = d /\ \A n \in 1 .. Len(s) : a[n] = g[a[n - 1]][s[n]]
    BY <1>2, <1>4, FoldsValue
  <2>3. b[0] = m /\ \A n \in 1 .. Len(t) : b[n] = g[b[n - 1]][t[n]]
    BY <1>2, <1>6, FoldsValue
  <2>4. QED
    BY <2>1, <2>2, <2>3
<1>8. \A n \in Nat : n \in {i \in Nat : i <= Len(s) => f[i] = a[i]}
  <2> DEFINE S == {i \in Nat : i <= Len(s) => f[i] = a[i]}
  <2>1. 0 \in S
    BY <1>7
  <2>2. ASSUME NEW n \in Nat, n \in S
        PROVE  n + 1 \in S
    <3> SUFFICES ASSUME n + 1 <= Len(s)
                 PROVE  f[n + 1] = a[n + 1]
      OBVIOUS
    <3>1. n + 1 \in 1 .. Len(s) /\ n + 1 \in 1 .. Len(u) /\ (n + 1) - 1 = n /\ n <= Len(s)
      BY <1>2
    <3>2. u[n + 1] = s[n + 1]
      BY <1>2, <3>1
    <3>3. f[n] = a[n]
      BY <2>2, <3>1
    <3>4. f[n + 1] = g[f[n]][u[n + 1]] /\ a[n + 1] = g[a[n]][s[n + 1]]
      BY <1>7, <3>1
    <3>5. QED
      BY <3>2, <3>3, <3>4
  <2> HIDE DEF S
  <2>3. \A n \in Nat : n \in S
    BY <2>1, <2>2, NatInduct
  <2>4. QED
    BY <2>3 DEF S
<1>9. f[Len(s)] = m
  BY <1>2, <1>4, <1>5, <1>8
<1>10. \A n \in Nat : n \in {i \in Nat : i <= Len(t) => f[Len(s) + i] = b[i]}
  <2> DEFINE S == {i \in Nat : i <= Len(t) => f[Len(s) + i] = b[i]}
  <2>1. 0 \in S
    BY <1>2, <1>7, <1>9
  <2>2. ASSUME NEW n \in Nat, n \in S
        PROVE  n + 1 \in S
    <3> SUFFICES ASSUME n + 1 <= Len(t)
                 PROVE  f[Len(s) + (n + 1)] = b[n + 1]
      OBVIOUS
    <3> DEFINE k == Len(s) + (n + 1)
    <3>1. /\ n + 1 \in 1 .. Len(t) /\ (n + 1) - 1 = n /\ n <= Len(t)
          /\ k \in 1 .. Len(u) /\ k \in 1 .. Len(s) + Len(t) /\ k - 1 = Len(s) + n
          /\ ~(k <= Len(s)) /\ k - Len(s) = n + 1
      BY <1>2
    <3>2. u[k] = t[n + 1]
      BY <1>2, <3>1
    <3>3. f[Len(s) + n] = b[n]
      BY <2>2, <3>1
    <3>4. f[k] = g[f[Len(s) + n]][u[k]] /\ b[n + 1] = g[b[n]][t[n + 1]]
      <4> HIDE DEF k
      <4>1. QED
        BY <1>7, <3>1
    <3>5. QED
      BY <3>2, <3>3, <3>4
  <2> HIDE DEF S
  <2>3. \A n \in Nat : n \in S
    BY <2>1, <2>2, NatInduct
  <2>4. QED
    BY <2>3 DEF S
<1>11. f[Len(u)] = b[Len(t)]
  BY <1>2, <1>10
<1>12. QED
  BY <1>1, <1>3, <1>5, <1>6, <1>11

LEMMA FoldedOne ==
  ASSUME NEW g, NEW d, NEW x
  PROVE  Folded(g, d, <<x>>) = g[d][x]
<1>1. Len(<<x>>) = 1 /\ <<x>>[1] = x
  OBVIOUS
<1>2. PICK f : Folds(f, g, d, <<x>>, 1) /\ Folded(g, d, <<x>>) = f[1]
  BY <1>1, FoldedFolds
<1>3. f[0] = d /\ f[1] = g[f[1 - 1]][<<x>>[1]]
  BY <1>2, FoldsValue
<1>4. QED
  BY <1>1, <1>2, <1>3

LEMMA FoldedThree ==
  ASSUME NEW g, NEW d, NEW s, Len(s) = 3
  PROVE  Folded(g, d, s) = g[g[g[d][s[1]]][s[2]]][s[3]]
<1>0. Len(s) \in Nat
  OBVIOUS
<1>1. PICK f : Folds(f, g, d, s, Len(s)) /\ Folded(g, d, s) = f[Len(s)]
  BY <1>0, FoldedFolds
<1>2. f[0] = d /\ \A n \in 1 .. Len(s) : f[n] = g[f[n - 1]][s[n]]
  BY <1>0, <1>1, FoldsValue
<1>3. /\ f[1] = g[f[0]][s[1]]
      /\ f[2] = g[f[1]][s[2]]
      /\ f[3] = g[f[2]][s[3]]
  BY <1>2
<1>4. QED
  BY <1>1, <1>2, <1>3

(* The first element first.                                                *)
LEMMA FoldedFirst ==
  ASSUME NEW X, NEW g, NEW d, NEW s \in Seq(X), s # <<>>
  PROVE  Folded(g, d, s) = Folded(g, g[d][Head(s)], Tail(s))
<1>1. PICK h \in X : h = Head(s)
  OBVIOUS
<1>2. PICK t \in Seq(X) : t = Tail(s)
  BY HeadTailProperties
<1>3. s = <<h>> \o t /\ <<h>> \in Seq(X)
  BY <1>1, <1>2
<1>4. Folded(g, d, <<h>> \o t) = Folded(g, Folded(g, d, <<h>>), t)
  <2>1. PICK a \in Seq(X) : a = <<h>>
    BY <1>3
  <2>2. Folded(g, d, a \o t) = Folded(g, Folded(g, d, a), t)
    BY FoldedConcat
  <2>3. QED
    BY <2>1, <2>2
<1>5. Folded(g, d, <<h>>) = g[d][h]
  BY FoldedOne
<1>6. QED
  BY <1>1, <1>2, <1>3, <1>4, <1>5

(* A set of states that no element leads out of.                           *)
LEMMA FoldedStays ==
  ASSUME NEW X, NEW g, NEW T, NEW d \in T, NEW s \in Seq(X),
         \A e \in T : \A x \in X : g[e][x] \in T
  PROVE  Folded(g, d, s) \in T
<1>1. Len(s) \in Nat /\ \A n \in 1 .. Len(s) : s[n] \in X
  OBVIOUS
<1>2. PICK f : Folds(f, g, d, s, Len(s)) /\ Folded(g, d, s) = f[Len(s)]
  BY <1>1, FoldedFolds
<1>3. f[0] = d /\ \A n \in 1 .. Len(s) : f[n] = g[f[n - 1]][s[n]]
  BY <1>1, <1>2, FoldsValue
<1> DEFINE S == {n \in Nat : n <= Len(s) => f[n] \in T}
<1>4. 0 \in S
  BY <1>3
<1>5. ASSUME NEW n \in Nat, n \in S
      PROVE  n + 1 \in S
  <2> SUFFICES ASSUME n + 1 <= Len(s)
               PROVE  f[n + 1] \in T
    OBVIOUS
  <2>1. n + 1 \in 1 .. Len(s) /\ (n + 1) - 1 = n /\ n <= Len(s)
    BY <1>1
  <2>2. f[n] \in T /\ s[n + 1] \in X
    BY <1>1, <1>5, <2>1
  <2>3. f[n + 1] = g[f[n]][s[n + 1]]
    BY <1>3, <2>1
  <2>4. QED
    BY <2>2, <2>3
<1>6. \A n \in Nat : n \in S
  <2> HIDE DEF S
  <2>1. QED
    BY <1>4, <1>5, NatInduct
<1>7. QED
  BY <1>1, <1>2, <1>6

-----------------------------------------------------------------------------
(* What the reader has when all of s has come out of the queue as well.    *)
Reading == [r \in Seq(Cells) |-> [x \in Cells |-> IF x = NUL THEN r ELSE Append(r, x)]]
Shown(r, s) == Folded(Reading, r, s)

(* s is what t starts with.                                                *)
Starts(s, t) == Len(s) <= Len(t) /\ s = SubSeq(t, 1, Len(s))

LEMMA ReadingOne ==
  ASSUME NEW r \in Seq(Cells), NEW x \in Cells
  PROVE  /\ Reading[r][x] = IF x = NUL THEN r ELSE Append(r, x)
         /\ Reading[r][x] \in Seq(Cells)
<1>1. Reading[r][x] = IF x = NUL THEN r ELSE Append(r, x)
  BY DEF Reading
<1>2. Append(r, x) \in Seq(Cells)
  OBVIOUS
<1>3. QED
  BY <1>1, <1>2

LEMMA StartsSelf ==
  ASSUME NEW E, NEW s \in Seq(E)
  PROVE  Starts(s, s)
BY SubSeqFull DEF Starts

LEMMA StartsAppend ==
  ASSUME NEW E, NEW s \in Seq(E), NEW t \in Seq(E), Starts(s, t), NEW x \in E
  PROVE  Starts(s, Append(t, x))
<1>1. Len(s) \in Nat /\ Len(t) \in Nat /\ Len(s) <= Len(t) /\ Append(t, x) \in Seq(E)
  BY DEF Starts
<1>2. Len(Append(t, x)) = Len(t) + 1 /\ \A i \in 1 .. Len(t) : Append(t, x)[i] = t[i]
  BY <1>1
<1>3. PICK u \in Seq(E) : u = Append(t, x)
  BY <1>1
<1>4. \A i \in 1 .. Len(s) : i \in 1 .. Len(t) /\ i \in 1 .. Len(u) /\ u[i] = t[i]
  BY <1>1, <1>2, <1>3
<1>5. /\ \A i \in 1 .. Len(s) : u[i] \in E /\ t[i] \in E
      /\ 1 \in Int /\ Len(s) \in Int
  BY <1>1, <1>4, ElementOfSeq
<1>6. /\ SubSeq(u, 1, Len(s)) \in Seq(E) /\ Len(SubSeq(u, 1, Len(s))) = Len(s)
      /\ \A i \in 1 .. Len(s) : SubSeq(u, 1, Len(s))[i] = u[i]
  BY <1>1, <1>2, <1>3, <1>5, SubSeqProperties
<1>7. /\ SubSeq(t, 1, Len(s)) \in Seq(E) /\ Len(SubSeq(t, 1, Len(s))) = Len(s)
      /\ \A i \in 1 .. Len(s) : SubSeq(t, 1, Len(s))[i] = t[i]
  BY <1>1, <1>5, SubSeqProperties
<1>8. SubSeq(u, 1, Len(s)) = SubSeq(t, 1, Len(s))
  BY <1>4, <1>6, <1>7, SeqEqual
<1>9. QED
  BY <1>1, <1>2, <1>3, <1>8 DEF Starts

LEMMA ShownStarts ==
  ASSUME NEW r \in Seq(Cells), NEW s \in Seq(Cells)
  PROVE  Shown(r, s) \in Seq(Cells) /\ Starts(r, Shown(r, s))
<1> DEFINE T == {t \in Seq(Cells) : Starts(r, t)}
<1>1. r \in T
  BY StartsSelf
<1>2. \A e \in T : \A x \in Cells : Reading[e][x] \in T
  <2> TAKE e \in T
  <2> TAKE x \in Cells
  <2>1. CASE x = NUL
    BY <2>1, ReadingOne
  <2>2. CASE x # NUL
    <3>1. Reading[e][x] = Append(e, x) /\ Append(e, x) \in Seq(Cells)
      BY <2>2, ReadingOne
    <3>2. QED
      BY <3>1, StartsAppend
  <2>3. QED
    BY <2>1, <2>2
<1>3. Shown(r, s) \in T
  <2> HIDE DEF T
  <2>1. QED
    BY <1>1, <1>2, FoldedStays DEF Shown
<1>4. QED
  BY <1>3

LEMMA ShownWords ==
  ASSUME NEW r \in Seq(Cells)
  PROVE  /\ Shown(r, <<>>) = r
         /\ \A x \in Cells : Shown(r, <<x>>) = IF x = NUL THEN r ELSE Append(r, x)
         /\ \A x, y, z \in Cells \ {NUL} : Shown(r, <<x, y, z>>) = r \o <<x, y, z>>
<1>1. Shown(r, <<>>) = r
  BY FoldedEmpty DEF Shown
<1>2. ASSUME NEW x \in Cells
      PROVE  Shown(r, <<x>>) = IF x = NUL THEN r ELSE Append(r, x)
  <2>1. Folded(Reading, r, <<x>>) = Reading[r][x]
    BY FoldedOne
  <2>2. QED
    BY <2>1, ReadingOne DEF Shown
<1>3. ASSUME NEW x \in Cells \ {NUL}, NEW y \in Cells \ {NUL}, NEW z \in Cells \ {NUL}
      PROVE  Shown(r, <<x, y, z>>) = r \o <<x, y, z>>
  <2>1. Append(r, x) \in Seq(Cells) /\ Append(Append(r, x), y) \in Seq(Cells)
    OBVIOUS
  <2>2. /\ Reading[r][x] = Append(r, x)
        /\ Reading[Append(r, x)][y] = Append(Append(r, x), y)
        /\ Reading[Append(Append(r, x), y)][z] = Append(Append(Append(r, x), y), z)
    BY <2>1, ReadingOne
  <2>3. Folded(Reading, r, <<x, y, z>>) = Reading[Reading[Reading[r][x]][y]][z]
    <3>1. PICK s : s = <<x, y, z>>
      OBVIOUS
    <3>2. Len(s) = 3 /\ s[1] = x /\ s[2] = y /\ s[3] = z
      BY <3>1
    <3>3. Folded(Reading, r, s) = Reading[Reading[Reading[r][s[1]]][s[2]]][s[3]]
      BY <3>2, FoldedThree
    <3>4. QED
      BY <3>1, <3>2, <3>3
  <2>4. Append(Append(Append(r, x), y), z) = r \o <<x, y, z>>
    OBVIOUS
  <2>5. QED
    BY <2>2, <2>3, <2>4 DEF Shown
<1>4. QED
  BY <1>1, <1>2, <1>3

-----------------------------------------------------------------------------
(* The driver that has had the scan codes of the port as well: what it     *)
(* remembers, what the reader will have seen, and whether a symbol was     *)
(* read at address 0.                                                      *)
Mods == {"shift", "ctrl", "alt", "altgr"}
Prevs == {0, 224, 225, 256}
Codes == 1 .. 255
AllModes == {"scancode", "keycode", "ansi"}

Decoders == [prev : Prevs, mods : SUBSET Mods, seen : Seq(Cells), wild : BOOLEAN]

Word(code, keycode, mods) ==
  IF mode = "scancode" THEN <<Raw(code)>>
  ELSE IF keycode <= 0 THEN <<>>
  ELSE IF mode = "keycode" THEN <<Raw(keycode)>>
  ELSE IF keycode > 128 THEN <<>> ELSE Keysym(Kid(mods), keycode)

Wild(keycode, mods) == mode = "ansi" /\ keycode \in 1 .. 128 /\ Kid(mods) \notin Maps

After(d, code) ==
  LET to == scancode_to_keycode(d.prev, code)
      mods == sync_modifiers(d.mods, to.keycode)
  IN  [prev |-> to.prev, mods |-> mods,
       seen |-> Shown(d.seen, Word(code, to.keycode, mods)),
       wild |-> d.wild \/ Wild(to.keycode, mods)]

Decoder == [d \in Decoders |-> [code \in Codes |-> IF code = 250 THEN d ELSE After(d, code)]]

(* What the model enqueues are characters.                                 *)
LEMMA RawCells ==
  /\ \A n \in 1 .. 255 : Raw(n) \in Cells /\ Raw(n) # NUL
  /\ Raw(0) = NUL /\ NUL \in Cells
<1>1. \A n \in 1 .. 255 : Raw(n) \in Chars
  BY KeyboardAssumption
<1>2. QED
  BY <1>1, KeyboardAssumption, CharQueueAssumption DEF Cells

LEMMA KeysymOK ==
  ASSUME NEW kid, NEW keycode \in Int
  PROVE  /\ Keysym(kid, keycode) \in Seq(Cells)
         /\ \A r \in Seq(Cells) :
              Shown(r, Keysym(kid, keycode))
                = r \o (IF Keysym(kid, keycode) = <<NUL>> THEN <<>> ELSE Keysym(kid, keycode))
<1> DEFINE w == Keysym(kid, keycode)
<1>1. \/ \E x \in Cells \ {NUL} : w = <<x>>
      \/ w = <<NUL>>
      \/ w = <<Raw(ESC), Raw(BRACKET), Raw(65)>>
      \/ w = <<>>
  <2>1. CASE keycode = 30 /\ kid \in {0, 1, 4, 5}
    <3>1. w = <<[map |-> kid, key |-> 30]>>
      BY <2>1 DEF Keysym
    <3>2. [map |-> kid, key |-> 30] \in [map : Maps, key : {30, 57}]
      BY <2>1 DEF Maps
    <3>3. [map |-> kid, key |-> 30] \in Cells \ {NUL}
      BY <3>2, KeyboardAssumption, CharQueueAssumption DEF Cells
    <3>4. QED
      BY <3>1, <3>3
  <2>2. CASE keycode = 57 /\ kid \in {0, 1}
    <3>1. w = <<[map |-> kid, key |-> 57]>>
      BY <2>2 DEF Keysym
    <3>2. [map |-> kid, key |-> 57] \in [map : Maps, key : {30, 57}]
      BY <2>2 DEF Maps
    <3>3. [map |-> kid, key |-> 57] \in Cells \ {NUL}
      BY <3>2, KeyboardAssumption, CharQueueAssumption DEF Cells
    <3>4. QED
      BY <3>1, <3>3
  <2>3. CASE keycode = 57 /\ kid = 4
    <3>1. w = <<Raw(0)>>
      BY <2>3 DEF Keysym
    <3>2. QED
      BY <3>1, RawCells
  <2>4. CASE keycode = 28 /\ kid # 8
    <3>1. w = <<Raw(CR)>> /\ CR \in 1 .. 255
      BY <2>4 DEF Keysym, CR
    <3>2. Raw(CR) \in Cells \ {NUL}
      BY <3>1, RawCells
    <3>3. QED
      BY <3>1, <3>2
  <2>5. CASE keycode = 103
    BY <2>5 DEF Keysym
  <2>6. CASE ~(\/ keycode = 30 /\ kid \in {0, 1, 4, 5}
               \/ keycode = 57 /\ kid \in {0, 1}
               \/ keycode = 57 /\ kid = 4
               \/ keycode = 28 /\ kid # 8
               \/ keycode = 103)
    <3>1. w = <<>>
      BY <2>6 DEF Keysym
    <3>2. QED
      BY <3>1
  <2>7. QED
    BY <2>1, <2>2, <2>3, <2>4, <2>5, <2>6
<1> HIDE DEF w
<1>2. CASE \E x \in Cells \ {NUL} : w = <<x>>
  <2>1. PICK x \in Cells \ {NUL} : w = <<x>>
    BY <1>2
  <2>2. w \in Seq(Cells) /\ w # <<NUL>>
    BY <2>1
  <2>3. \A r \in Seq(Cells) : Shown(r, w) = Append(r, x) /\ Append(r, x) = r \o w
    BY <2>1, ShownWords
  <2>4. QED
    BY <2>2, <2>3 DEF w
<1>3. CASE w = <<NUL>>
  <2>1. w \in Seq(Cells)
    BY <1>3, RawCells
  <2>2. ASSUME NEW r \in Seq(Cells)
        PROVE  Shown(r, w) = r /\ r = r \o <<>>
    <3>1. \A x \in Cells : Shown(r, <<x>>) = IF x = NUL THEN r ELSE Append(r, x)
      BY ShownWords
    <3>2. Shown(r, <<NUL>>) = r
      BY <3>1, RawCells
    <3>3. QED
      BY <1>3, <3>2
  <2>3. QED
    BY <1>3, <2>1, <2>2 DEF w
<1>4. CASE w = <<Raw(ESC), Raw(BRACKET), Raw(65)>>
  <2>1. Raw(ESC) \in Cells \ {NUL} /\ Raw(BRACKET) \in Cells \ {NUL} /\ Raw(65) \in Cells \ {NUL}
    BY RawCells DEF ESC, BRACKET
  <2>2. w \in Seq(Cells) /\ w # <<NUL>>
    BY <1>4, <2>1
  <2>3. \A r \in Seq(Cells) : Shown(r, w) = r \o w
    BY <1>4, <2>1, ShownWords
  <2>4. QED
    BY <2>2, <2>3 DEF w
<1>5. CASE w = <<>>
  <2>1. w \in Seq(Cells) /\ w # <<NUL>>
    BY <1>5
  <2>2. \A r \in Seq(Cells) : Shown(r, w) = r /\ r = r \o <<>>
    BY <1>5, ShownWords
  <2>3. QED
    BY <1>5, <2>1, <2>2 DEF w
<1>6. QED
  BY <1>1, <1>2, <1>3, <1>4, <1>5

(* What a scan code becomes.                                               *)
LEMMA CodeOK ==
  ASSUME NEW p \in Prevs, NEW code \in Codes
  PROVE  /\ scancode_to_keycode(p, code).keycode \in -1 .. 255
         /\ scancode_to_keycode(p, code).prev \in Prevs
BY DEF scancode_to_keycode, Prevs, Codes, e0_keys, E1_PAUSE

LEMMA WordOK ==
  ASSUME mode \in AllModes, NEW code \in Codes, NEW keycode \in -1 .. 255, NEW mods
  PROVE  /\ Word(code, keycode, mods) \in Seq(Cells)
         /\ ~Wild(keycode, mods) => Translated(code, keycode, mods) = {Word(code, keycode, mods)}
<1>1. /\ Raw(code) \in Cells
      /\ keycode > 0 => Raw(keycode) \in Cells
      /\ Keysym(Kid(mods), keycode) \in Seq(Cells)
  <2>1. code \in 1 .. 255 /\ (keycode > 0 => keycode \in 1 .. 255) /\ keycode \in Int
    BY DEF Codes
  <2>2. Keysym(Kid(mods), keycode) \in Seq(Cells)
    BY <2>1, KeysymOK
  <2>3. QED
    BY <2>1, <2>2, RawCells
<1>2. Word(code, keycode, mods) \in Seq(Cells)
  BY <1>1 DEF Word
<1>3. ASSUME ~Wild(keycode, mods)
      PROVE  Translated(code, keycode, mods) = {Word(code, keycode, mods)}
  <2>1. CASE mode = "scancode"
    <3>1. Translated(code, keycode, mods) = {<<Raw(code)>>}
      BY <2>1 DEF Translated
    <3>2. Word(code, keycode, mods) = <<Raw(code)>>
      BY <2>1 DEF Word
    <3>3. QED
      BY <3>1, <3>2, Zenon
  <2>2. CASE mode # "scancode" /\ keycode <= 0
    <3>1. Translated(code, keycode, mods) = {<<>>}
      <4>1. mode # "scancode" /\ keycode <= 0 /\ ~(keycode > 0)
        BY <2>2
      <4>2. QED
        BY <4>1, Zenon DEF Translated
    <3>2. Word(code, keycode, mods) = <<>>
      BY <2>2 DEF Word
    <3>3. QED
      BY <3>1, <3>2, Zenon
  <2>3. CASE mode = "keycode" /\ keycode > 0
    <3>1. Translated(code, keycode, mods) = {<<Raw(keycode)>>}
      BY <2>3 DEF Translated
    <3>2. Word(code, keycode, mods) = <<Raw(keycode)>>
      BY <2>3 DEF Word
    <3>3. QED
      BY <3>1, <3>2, Zenon
  <2>4. CASE mode = "ansi" /\ keycode > 0
    <3>1. keycode > 128 \/ Kid(mods) \in Maps
      BY <1>3, <2>4 DEF Wild
    <3>2. Translated(code, keycode, mods) = keycode_to_ansi(mods, keycode)
      BY <2>4 DEF Translated
    <3>3. QED
      BY <2>4, <3>1, <3>2 DEF keycode_to_ansi, Word
  <2>5. QED
    BY <2>1, <2>2, <2>3, <2>4 DEF AllModes
<1>4. QED
  BY <1>2, <1>3

LEMMA Synced ==
  ASSUME NEW mods \in SUBSET Mods, NEW keycode \in -1 .. 255
  PROVE  sync_modifiers(mods, keycode) \in SUBSET Mods
<1>1. Shifting(keycode % 128) \in SUBSET Mods
  BY DEF Shifting, Mods
<1>2. QED
  BY <1>1 DEF sync_modifiers

LEMMA DecoderOK ==
  ASSUME mode \in AllModes, NEW d \in Decoders, NEW code \in Codes
  PROVE  /\ Decoder[d][code] = IF code = 250 THEN d ELSE After(d, code)
         /\ Decoder[d][code] \in Decoders
         /\ Starts(d.seen, Decoder[d][code].seen)
<1>1. Decoder[d][code] = IF code = 250 THEN d ELSE After(d, code)
  BY DEF Decoder
<1> DEFINE to == scancode_to_keycode(d.prev, code)
           mods == sync_modifiers(d.mods, to.keycode)
           w == Word(code, to.keycode, mods)
<1>2. d.prev \in Prevs /\ d.mods \in SUBSET Mods /\ d.seen \in Seq(Cells) /\ d.wild \in BOOLEAN
  BY DEF Decoders
<1>3. to.keycode \in -1 .. 255 /\ to.prev \in Prevs
  BY <1>2, CodeOK
<1>4. mods \in SUBSET Mods /\ w \in Seq(Cells)
  <2> HIDE DEF to
  <2>1. QED
    BY <1>2, <1>3, Synced, WordOK
<1>5. Shown(d.seen, w) \in Seq(Cells) /\ Starts(d.seen, Shown(d.seen, w))
  <2> HIDE DEF w
  <2>1. QED
    BY <1>2, <1>4, ShownStarts
<1>6. After(d, code) = [prev |-> to.prev, mods |-> mods, seen |-> Shown(d.seen, w),
                        wild |-> d.wild \/ Wild(to.keycode, mods)]
  BY DEF After
<1>7. (d.wild \/ Wild(to.keycode, mods)) \in BOOLEAN
  BY <1>2 DEF Wild
<1> HIDE DEF to, mods, w
<1>8. After(d, code) \in Decoders /\ After(d, code).seen = Shown(d.seen, w)
  BY <1>3, <1>4, <1>5, <1>6, <1>7 DEF Decoders
<1>9. Starts(d.seen, d.seen)
  BY <1>2, StartsSelf
<1>10. QED
  BY <1>1, <1>5, <1>8, <1>9

(* The state of a driver that has met nothing wild.                        *)
St(p, mods, r) == [prev |-> p, mods |-> mods, seen |-> r, wild |-> FALSE]

(* What a code makes the reader see.                                       *)
Said(code, keycode, mods) ==
  IF Word(code, keycode, mods) = <<NUL>> THEN <<>> ELSE Word(code, keycode, mods)

LEMMA SaidShown ==
  ASSUME mode \in AllModes, NEW code \in Codes, NEW keycode \in -1 .. 255, NEW mods, NEW r \in Seq(Cells)
  PROVE  /\ Shown(r, Word(code, keycode, mods)) = r \o Said(code, keycode, mods)
         /\ Said(code, keycode, mods) \in Seq(Cells)
<1> DEFINE w == Word(code, keycode, mods)
<1>1. w \in Seq(Cells)
  BY WordOK
<1>2. /\ \A x \in Cells : Shown(r, <<x>>) = IF x = NUL THEN r ELSE Append(r, x)
      /\ Shown(r, <<>>) = r
  BY ShownWords
<1>3. \/ w = <<Raw(code)>>
      \/ w = <<>>
      \/ keycode > 0 /\ w = <<Raw(keycode)>>
      \/ w = Keysym(Kid(mods), keycode)
  BY DEF Word
<1> HIDE DEF w
<1>4. ASSUME NEW n \in 1 .. 255, w = <<Raw(n)>>
      PROVE  Shown(r, w) = r \o w /\ w # <<NUL>>
  <2>1. PICK x \in Cells : x = Raw(n) /\ x # NUL
    BY RawCells
  <2>2. Shown(r, <<x>>) = Append(r, x) /\ Append(r, x) = r \o <<x>> /\ <<x>> # <<NUL>>
    BY <1>2, <2>1
  <2>3. QED
    BY <1>4, <2>1, <2>2
<1>5. CASE w = <<Raw(code)>>
  BY <1>1, <1>4, <1>5 DEF Said, w, Codes
<1>6. CASE w = <<>>
  <2>1. r \o <<>> = r /\ w # <<NUL>>
    BY <1>6
  <2>2. QED
    BY <1>1, <1>2, <1>6, <2>1 DEF Said, w
<1>7. CASE keycode > 0 /\ w = <<Raw(keycode)>>
  <2>1. keycode \in 1 .. 255
    BY <1>7
  <2>2. QED
    BY <1>1, <1>4, <1>7, <2>1 DEF Said, w
<1>8. CASE w = Keysym(Kid(mods), keycode)
  <2>1. Shown(r, w) = r \o (IF w = <<NUL>> THEN <<>> ELSE w)
    BY <1>8, KeysymOK
  <2>2. QED
    BY <1>1, <2>1 DEF Said, w
<1>9. QED
  BY <1>3, <1>5, <1>6, <1>7, <1>8

(* One scan code, which is no acknowledgement and not mistaken.            *)
Handling(p, mods, code, keycode, q) ==
  /\ mode \in AllModes /\ p \in Prevs /\ mods \in SUBSET Mods
  /\ code \in Codes /\ code # 250 /\ keycode \in -1 .. 255 /\ q \in Prevs
  /\ scancode_to_keycode(p, code) = [keycode |-> keycode, prev |-> q]
  /\ ~Wild(keycode, sync_modifiers(mods, keycode))

LEMMA Handled ==
  ASSUME NEW p, NEW mods, NEW code, NEW keycode, NEW q, Handling(p, mods, code, keycode, q),
         NEW r \in Seq(Cells)
  PROVE  /\ Decoder[St(p, mods, r)][code]
              = St(q, sync_modifiers(mods, keycode), r \o Said(code, keycode, sync_modifiers(mods, keycode)))
         /\ sync_modifiers(mods, keycode) \in SUBSET Mods
         /\ r \o Said(code, keycode, sync_modifiers(mods, keycode)) \in Seq(Cells)
<1>0. /\ mode \in AllModes /\ p \in Prevs /\ mods \in SUBSET Mods
      /\ code \in Codes /\ code # 250 /\ keycode \in -1 .. 255 /\ q \in Prevs
      /\ scancode_to_keycode(p, code) = [keycode |-> keycode, prev |-> q]
      /\ ~Wild(keycode, sync_modifiers(mods, keycode))
  BY DEF Handling
<1>a. PICK after : after = sync_modifiers(mods, keycode)
  OBVIOUS
<1>b. PICK w : w = Said(code, keycode, after)
  OBVIOUS
<1>c. ~Wild(keycode, after)
  BY <1>0, <1>a
<1>1. PICK d : d = St(p, mods, r)
  OBVIOUS
<1>2. d \in Decoders /\ d.prev = p /\ d.mods = mods /\ d.seen = r /\ d.wild = FALSE
  BY <1>0, <1>1 DEF St, Decoders
<1>3. Decoder[d][code] = After(d, code)
  BY <1>0, <1>2, DecoderOK
<1>4. PICK to : to = scancode_to_keycode(p, code)
  OBVIOUS
<1>5. to.keycode = keycode /\ to.prev = q
  BY <1>0, <1>4
<1>6. After(d, code) = [prev |-> q, mods |-> after, seen |-> Shown(r, Word(code, keycode, after)),
                        wild |-> FALSE]
  BY <1>2, <1>4, <1>5, <1>a, <1>c DEF After
<1>7. Shown(r, Word(code, keycode, after)) = r \o w /\ w \in Seq(Cells)
  BY <1>0, <1>b, SaidShown
<1>8. after \in SUBSET Mods
  BY <1>0, <1>a, Synced
<1>9. r \o w \in Seq(Cells)
  BY <1>0, <1>7
<1>10. QED
  BY <1>1, <1>3, <1>6, <1>7, <1>8, <1>9, <1>a, <1>b DEF St

-----------------------------------------------------------------------------
(* What the driver makes of a key, by what the key sends.                  *)
AllKeys == {"lshift", "rshift", "lctrl", "rctrl", "alt", "altgr", "a", "space", "return", "up", "pause"}
Plain == {"lshift", "rshift", "lctrl", "alt", "a", "space", "return"}
PlainCodes == {42, 54, 29, 56, 30, 57, 28}

LEMMA RawsAre ==
  ASSUME NEW s \in Seq(Codes)
  PROVE  /\ Raws(s) \in Seq(Cells) /\ Len(Raws(s)) = Len(s)
         /\ \A i \in 1 .. Len(s) : Raws(s)[i] = Raw(s[i])
<1>1. ASSUME NEW i \in 1 .. Len(s)
      PROVE  Raw(s[i]) \in Cells
  <2>1. s[i] \in 1 .. 255
    BY ElementOfSeq DEF Codes
  <2>2. QED
    BY <2>1, RawCells
<1>2. DOMAIN s = 1 .. Len(s) /\ Len(s) \in Nat
  OBVIOUS
<1>3. Raws(s) = [i \in 1 .. Len(s) |-> Raw(s[i])]
  BY <1>2 DEF Raws
<1>4. QED
  BY <1>1, <1>2, <1>3

LEMMA PlainKeys ==
  ASSUME NEW k \in Plain
  PROVE  /\ Code(k) \in PlainCodes /\ Make(k) = <<Code(k)>> /\ Break(k) = <<Code(k) + 128>>
         /\ KindsOf(k) = Shifting(Code(k))
<1>1. Code(k) \in PlainCodes /\ KindsOf(k) = Shifting(Code(k))
  <2>1. CASE k = "lshift"
    BY <2>1 DEF Code, PlainCodes, KindsOf, Shifting
  <2>2. CASE k = "rshift"
    BY <2>2 DEF Code, PlainCodes, KindsOf, Shifting
  <2>3. CASE k = "lctrl"
    BY <2>3 DEF Code, PlainCodes, KindsOf, Shifting
  <2>4. CASE k = "alt"
    BY <2>4 DEF Code, PlainCodes, KindsOf, Shifting
  <2>5. CASE k = "a"
    BY <2>5 DEF Code, PlainCodes, KindsOf, Shifting
  <2>6. CASE k = "space"
    BY <2>6 DEF Code, PlainCodes, KindsOf, Shifting
  <2>7. CASE k = "return"
    BY <2>7 DEF Code, PlainCodes, KindsOf, Shifting
  <2>8. QED
    BY <2>1, <2>2, <2>3, <2>4, <2>5, <2>6, <2>7 DEF Plain
<1>2. Make(k) = <<Code(k)>> /\ k # "pause" /\ k # "up"
  BY DEF Plain, Code, Make
<1>3. PICK s : s = Make(k)
  OBVIOUS
<1>4. Break(k) = [s EXCEPT ![Len(s)] = @ + 128]
  BY <1>2, <1>3 DEF Break
<1>5. s = <<Code(k)>> /\ Len(s) = 1 /\ s[1] = Code(k)
  BY <1>2, <1>3
<1>6. [s EXCEPT ![Len(s)] = @ + 128] = <<Code(k) + 128>>
  BY <1>1, <1>5 DEF PlainCodes
<1>7. QED
  BY <1>1, <1>2, <1>4, <1>6

LEMMA PlainCode ==
  ASSUME NEW c \in PlainCodes
  PROVE  /\ scancode_to_keycode(0, c) = [keycode |-> c, prev |-> 0]
         /\ scancode_to_keycode(0, c + 128) = [keycode |-> c + 128, prev |-> 0]
         /\ \A mods : /\ sync_modifiers(mods, c) = mods \cup Shifting(c)
                      /\ sync_modifiers(mods, c + 128) = mods \ Shifting(c)
         /\ c \in 1 .. 127 /\ c \in Codes \ {250} /\ c + 128 \in Codes \ {250}
<1>1. /\ c \in 1 .. 127 /\ c % 128 = c /\ (c + 128) % 128 = c /\ ~(c >= 128) /\ c + 128 >= 128
      /\ c \notin {224, 225} /\ c + 128 \notin {224, 225} /\ c + 0 = c
      /\ c \in Codes \ {250} /\ c + 128 \in Codes \ {250} /\ ~(c < 0) /\ ~(c + 128 < 0)
  BY DEF PlainCodes, Codes
<1>2. scancode_to_keycode(0, c) = [keycode |-> c, prev |-> 0]
  BY <1>1 DEF scancode_to_keycode
<1>3. scancode_to_keycode(0, c + 128) = [keycode |-> c + 128, prev |-> 0]
  BY <1>1 DEF scancode_to_keycode
<1>4. \A mods : /\ sync_modifiers(mods, c) = mods \cup Shifting(c)
                /\ sync_modifiers(mods, c + 128) = mods \ Shifting(c)
  BY <1>1 DEF sync_modifiers
<1>5. QED
  BY <1>1, <1>2, <1>3, <1>4

(* A press and a release that do what they should.                         *)
PressOK(k, mods, r, keys) ==
  /\ Make(k) \in Seq(Codes) /\ r \o Meaning(k, keys) \in Seq(Cells)
  /\ Folded(Decoder, St(0, mods, r), Make(k)) = St(0, mods \cup KindsOf(k), r \o Meaning(k, keys))

ReleaseOK(k, mods, r) ==
  /\ Break(k) \in Seq(Codes) /\ r \o MeaningOfRelease(k) \in Seq(Cells)
  /\ Folded(Decoder, St(0, mods, r), Break(k)) = St(0, mods \ KindsOf(k), r \o MeaningOfRelease(k))

(* The characters of a few codes.                                          *)
LEMMA RawsOne ==
  ASSUME NEW a \in Codes
  PROVE  Raws(<<a>>) = <<Raw(a)>>
<1>0. <<a>> \in Seq(Codes)
  OBVIOUS
<1>1. PICK s \in Seq(Codes) : s = <<a>>
  BY <1>0
<1>2. Len(s) = 1 /\ s[1] = a
  BY <1>1
<1>3. Raws(s) \in Seq(Cells) /\ Len(Raws(s)) = 1 /\ Raws(s)[1] = Raw(a)
  BY <1>2, RawsAre
<1>4. Raws(s) = <<Raw(a)>>
  BY <1>3
<1>5. QED
  BY <1>1, <1>4

LEMMA RawsMore ==
  ASSUME NEW s \in Seq(Codes), NEW a \in Codes
  PROVE  Raws(Append(s, a)) = Append(Raws(s), Raw(a))
<1>0. Append(s, a) \in Seq(Codes)
  BY AppendProperties
<1>1. PICK t \in Seq(Codes) : t = Append(s, a)
  BY <1>0
<1>2. Len(t) = Len(s) + 1 /\ t[Len(s) + 1] = a /\ \A i \in 1 .. Len(s) : t[i] = s[i]
  BY <1>1
<1>3. /\ Raws(s) \in Seq(Cells) /\ Len(Raws(s)) = Len(s)
      /\ \A i \in 1 .. Len(s) : Raws(s)[i] = Raw(s[i])
  BY RawsAre
<1>4. /\ Raws(t) \in Seq(Cells) /\ Len(Raws(t)) = Len(s) + 1
      /\ \A i \in 1 .. Len(s) + 1 : Raws(t)[i] = Raw(t[i])
  BY <1>2, RawsAre
<1>5. PICK u : u = Append(Raws(s), Raw(a))
  OBVIOUS
<1>6. Raw(a) \in Cells
  BY RawCells DEF Codes
<1>7. /\ u \in Seq(Cells) /\ Len(u) = Len(s) + 1 /\ u[Len(s) + 1] = Raw(a)
      /\ \A i \in 1 .. Len(s) : u[i] = Raw(s[i])
  BY <1>3, <1>5, <1>6
<1>8. \A i \in 1 .. Len(s) + 1 : Raws(t)[i] = u[i]
  <2> TAKE i \in 1 .. Len(s) + 1
  <2>1. i \in 1 .. Len(s) \/ i = Len(s) + 1
    OBVIOUS
  <2>2. CASE i \in 1 .. Len(s)
    BY <1>2, <1>4, <1>7, <2>2
  <2>3. CASE i = Len(s) + 1
    BY <1>2, <1>4, <1>7, <2>3
  <2>4. QED
    BY <2>1, <2>2, <2>3
<1>9. Raws(t) = u
  BY <1>4, <1>7, <1>8, SeqEqual
<1>10. QED
  BY <1>1, <1>5, <1>9

(* What is said of a key when the last of its codes comes.                 *)
LEMMA SaidPressed ==
  ASSUME mode \in AllModes, NEW k, k # "pause", NEW code \in Codes, Code(k) \in 1 .. 127, NEW keys
  PROVE  Said(code, Code(k), Kinds(keys))
           = IF mode = "scancode" THEN <<Raw(code)>> ELSE Meaning(k, keys)
<1>1. PICK c \in 1 .. 127 : c = Code(k)
  OBVIOUS
<1>2. c \in Codes /\ c \in 1 .. 255 /\ code \in 1 .. 255 /\ ~(c <= 0) /\ ~(c > 128)
  BY DEF Codes
<1>3. <<Raw(c)>> # <<NUL>> /\ <<Raw(code)>> # <<NUL>>
  <2>1. Raw(c) # NUL /\ Raw(code) # NUL
    BY <1>2, RawCells
  <2>2. QED
    BY <2>1
<1>4. CASE mode = "scancode"
  <2>1. Word(code, c, Kinds(keys)) = <<Raw(code)>>
    BY <1>4 DEF Word
  <2>2. QED
    BY <1>1, <1>3, <1>4, <2>1 DEF Said
<1>5. CASE mode = "keycode"
  <2>1. Word(code, c, Kinds(keys)) = <<Raw(c)>>
    BY <1>2, <1>5 DEF Word
  <2>2. Meaning(k, keys) = Raws(<<c>>)
    BY <1>1, <1>5 DEF Meaning
  <2>3. Raws(<<c>>) = <<Raw(c)>>
    BY <1>2, RawsOne
  <2>4. QED
    BY <1>1, <1>3, <1>5, <2>1, <2>2, <2>3 DEF Said
<1>6. CASE mode = "ansi"
  <2>1. Word(code, c, Kinds(keys)) = Keysym(Kid(Kinds(keys)), c)
    BY <1>2, <1>6 DEF Word
  <2>2. Meaning(k, keys) = IF Keysym(Kid(Kinds(keys)), c) = <<NUL>> THEN <<>>
                           ELSE Keysym(Kid(Kinds(keys)), c)
    BY <1>1, <1>6 DEF Meaning
  <2>3. QED
    BY <1>1, <1>6, <2>1, <2>2 DEF Said
<1>7. QED
  BY <1>4, <1>5, <1>6 DEF AllModes

LEMMA SaidReleased ==
  ASSUME mode \in AllModes, NEW code \in Codes, NEW keycode \in 129 .. 255, NEW mods
  PROVE  Said(code, keycode, mods)
           = IF mode = "scancode" THEN <<Raw(code)>> ELSE IF mode = "keycode" THEN <<Raw(keycode)>> ELSE <<>>
<1>1. code \in 1 .. 255 /\ keycode \in 1 .. 255 /\ ~(keycode <= 0) /\ keycode > 128
  BY DEF Codes
<1>2. <<Raw(code)>> # <<NUL>> /\ <<Raw(keycode)>> # <<NUL>> /\ <<>> # <<NUL>>
  <2>1. Raw(code) # NUL /\ Raw(keycode) # NUL
    BY <1>1, RawCells
  <2>2. QED
    BY <2>1
<1>3. Word(code, keycode, mods)
        = IF mode = "scancode" THEN <<Raw(code)>> ELSE IF mode = "keycode" THEN <<Raw(keycode)>> ELSE <<>>
  BY <1>1 DEF Word
<1>4. QED
  BY <1>2, <1>3 DEF Said

-----------------------------------------------------------------------------
(* What a key sends, code by code: the codes s take a driver that has seen *)
(* r to the reader's seeing them, or m when the mode translates.           *)
Text(s, m) == IF mode = "scancode" THEN Raws(s) ELSE m

Sends(mods, r, s, p, after, m) ==
  /\ s \in Seq(Codes) /\ p \in Prevs /\ after \in SUBSET Mods /\ m \in Seq(Cells)
  /\ r \o Text(s, m) \in Seq(Cells)
  /\ Folded(Decoder, St(0, mods, r), s) = St(p, after, r \o Text(s, m))

LEMMA SendsNone ==
  ASSUME NEW mods \in SUBSET Mods, NEW r \in Seq(Cells), NEW s, s = <<>>
  PROVE  Sends(mods, r, s, 0, mods, <<>>)
<1>1. s \in Seq(Codes)
  OBVIOUS
<1>2. Raws(s) = <<>>
  <2>1. PICK z : z = Raws(s)
    OBVIOUS
  <2>2. z \in Seq(Cells) /\ Len(z) = Len(s) /\ Len(s) = 0
    BY <1>1, <2>1, RawsAre
  <2>3. QED
    BY <2>1, <2>2
<1>3. Text(s, <<>>) = <<>> /\ r \o <<>> = r
  BY <1>2 DEF Text
<1>4. Folded(Decoder, St(0, mods, r), <<>>) = St(0, mods, r)
  BY FoldedEmpty
<1>5. 0 \in Prevs /\ <<>> \in Seq(Cells)
  BY DEF Prevs
<1>6. QED
  BY <1>1, <1>3, <1>4, <1>5 DEF Sends

LEMMA SendsMore ==
  ASSUME NEW mods \in SUBSET Mods, NEW r \in Seq(Cells), NEW s, NEW p, NEW after, NEW m,
         Sends(mods, r, s, p, after, m),
         NEW code, NEW keycode, NEW q, Handling(p, after, code, keycode, q),
         NEW w \in Seq(Cells),
         Said(code, keycode, sync_modifiers(after, keycode)) = IF mode = "scancode" THEN <<Raw(code)>> ELSE w
  PROVE  Sends(mods, r, Append(s, code), q, sync_modifiers(after, keycode), m \o w)
<1>1. PICK next : next = sync_modifiers(after, keycode)
  OBVIOUS
<1>2. PICK x \in Seq(Cells) : x = r \o Text(s, m)
  BY DEF Sends
<1>3. PICK y : y = Said(code, keycode, next)
  OBVIOUS
<1>4. /\ Decoder[St(p, after, x)][code] = St(q, next, x \o y)
      /\ next \in SUBSET Mods /\ x \o y \in Seq(Cells)
  <2>1. /\ Decoder[St(p, after, x)][code]
              = St(q, sync_modifiers(after, keycode), x \o Said(code, keycode, sync_modifiers(after, keycode)))
        /\ sync_modifiers(after, keycode) \in SUBSET Mods
        /\ x \o Said(code, keycode, sync_modifiers(after, keycode)) \in Seq(Cells)
    BY Handled, Zenon
  <2>2. QED
    BY <1>1, <1>3, <2>1, Zenon
<1>5. /\ s \in Seq(Codes) /\ m \in Seq(Cells) /\ code \in Codes /\ q \in Prevs
      /\ Folded(Decoder, St(0, mods, r), s) = St(p, after, x)
  BY <1>2 DEF Sends, Handling
<1>6. x \o y = r \o Text(Append(s, code), m \o w)
  <2>1. CASE mode = "scancode"
    <3>1. PICK z : z = Raws(s)
      OBVIOUS
    <3>2. z \in Seq(Cells) /\ Raws(Append(s, code)) = Append(z, Raw(code))
      BY <1>5, <3>1, RawsAre, RawsMore
    <3>3. PICK c \in Cells : c = Raw(code)
      BY <1>5, RawCells DEF Codes
    <3>4. y = <<c>> /\ x = r \o z
      BY <1>1, <1>2, <1>3, <2>1, <3>1, <3>3 DEF Text
    <3>5. x \o y = r \o Append(z, c)
      <4>1. z \in Seq(Cells) /\ y \in Seq(Cells)
        BY <3>2, <3>4
      <4>2. Append(z, c) = z \o y
        BY <3>4, <4>1, AppendIsConcat
      <4>3. (r \o z) \o y = r \o (z \o y)
        BY <4>1
      <4>4. QED
        BY <3>4, <4>2, <4>3
    <3>6. QED
      BY <2>1, <3>2, <3>3, <3>5 DEF Text
  <2>2. CASE mode # "scancode"
    <3>1. (r \o m) \o w = r \o (m \o w)
      BY <1>5
    <3>2. QED
      BY <1>1, <1>2, <1>3, <2>2, <3>1 DEF Text
  <2>3. QED
    BY <2>1, <2>2
<1>7. Folded(Decoder, St(0, mods, r), Append(s, code)) = Decoder[St(p, after, x)][code]
  <2>1. PICK t : t = <<code>>
    OBVIOUS
  <2>2. s \in Seq(Codes) /\ code \in Codes
    BY <1>5
  <2>3. t \in Seq(Codes) /\ Append(s, code) = s \o t
    <3>1. t \in Seq(Codes)
      BY <2>1, <2>2
    <3>2. QED
      BY <2>1, <2>2, <3>1, AppendIsConcat
  <2>4. Folded(Decoder, St(0, mods, r), s \o t) = Folded(Decoder, St(p, after, x), t)
    <3>1. Folded(Decoder, St(0, mods, r), s \o t) = Folded(Decoder, Folded(Decoder, St(0, mods, r), s), t)
      BY <2>2, <2>3, FoldedConcat
    <3>2. QED
      BY <1>5, <3>1
  <2>5. QED
    BY <2>1, <2>3, <2>4, FoldedOne
<1>8. Append(s, code) \in Seq(Codes) /\ m \o w \in Seq(Cells)
  BY <1>5
<1>9. QED
  BY <1>1, <1>4, <1>5, <1>6, <1>7, <1>8 DEF Sends

(* A code that is only a part of a key.                                    *)
LEMMA SendsPart ==
  ASSUME mode \in AllModes, NEW mods \in SUBSET Mods, NEW r \in Seq(Cells),
         NEW s, NEW p, NEW after, NEW m, Sends(mods, r, s, p, after, m),
         NEW code \in Codes, code # 250, NEW n \in -1 .. 0, NEW q \in Prevs,
         scancode_to_keycode(p, code) = [keycode |-> n, prev |-> q]
  PROVE  Sends(mods, r, Append(s, code), q, after, m)
<1>0. PICK keycode \in -1 .. 255 : keycode = n /\ keycode <= 0
  OBVIOUS
<1>1. scancode_to_keycode(p, code) = [keycode |-> keycode, prev |-> q]
  BY <1>0
<1>2. sync_modifiers(after, keycode) = after
  <2>1. keycode % 128 = 0 \/ keycode % 128 = 127
    BY <1>0
  <2>2. Shifting(keycode % 128) = {}
    BY <2>1 DEF Shifting
  <2>3. QED
    BY <1>0, <2>2 DEF sync_modifiers
<1>3. ~Wild(keycode, sync_modifiers(after, keycode))
  BY <1>0 DEF Wild
<1>4. Handling(p, after, code, keycode, q)
  BY <1>1, <1>3 DEF Handling, Sends
<1>5. Said(code, keycode, after) = IF mode = "scancode" THEN <<Raw(code)>> ELSE <<>>
  <2>1. Word(code, keycode, after) = IF mode = "scancode" THEN <<Raw(code)>> ELSE <<>>
    BY <1>0 DEF Word
  <2>2. Raw(code) # NUL
    BY RawCells DEF Codes
  <2>3. <<Raw(code)>> # <<NUL>> /\ <<>> # <<NUL>>
    BY <2>2
  <2>4. CASE mode = "scancode"
    BY <2>1, <2>3, <2>4 DEF Said
  <2>5. CASE mode # "scancode"
    BY <2>1, <2>3, <2>5 DEF Said
  <2>6. QED
    BY <2>4, <2>5, Zenon
<1>6. PICK w \in Seq(Cells) : w = <<>>
  <2>1. <<>> \in Seq(Cells)
    OBVIOUS
  <2>2. QED
    BY <2>1, Zenon
<1>7. m \o w = m
  BY <1>6 DEF Sends
<1>8. Sends(mods, r, Append(s, code), q, sync_modifiers(after, keycode), m \o w)
  BY <1>2, <1>4, <1>5, <1>6, SendsMore
<1>9. QED
  BY <1>2, <1>7, <1>8

(* What the prefixes do.                                                   *)
LEMMA PrefixCodes ==
  /\ scancode_to_keycode(0, 224) = [keycode |-> 0, prev |-> 224]
  /\ scancode_to_keycode(0, 225) = [keycode |-> 0, prev |-> 225]
  /\ scancode_to_keycode(224, 42) = [keycode |-> -1, prev |-> 0]
  /\ scancode_to_keycode(224, 170) = [keycode |-> -1, prev |-> 0]
  /\ scancode_to_keycode(225, 29) = [keycode |-> 0, prev |-> 256]
  /\ scancode_to_keycode(225, 157) = [keycode |-> 0, prev |-> 256]
  /\ scancode_to_keycode(256, 69) = [keycode |-> 119, prev |-> 0]
  /\ scancode_to_keycode(256, 197) = [keycode |-> 247, prev |-> 0]
<1>1. /\ scancode_to_keycode(0, 224) = [keycode |-> 0, prev |-> 224]
      /\ scancode_to_keycode(0, 225) = [keycode |-> 0, prev |-> 225]
  BY DEF scancode_to_keycode
<1>2. /\ scancode_to_keycode(224, 42) = [keycode |-> -1, prev |-> 0]
      /\ scancode_to_keycode(224, 170) = [keycode |-> -1, prev |-> 0]
  BY DEF scancode_to_keycode
<1>3. /\ scancode_to_keycode(225, 29) = [keycode |-> 0, prev |-> 256]
      /\ scancode_to_keycode(225, 157) = [keycode |-> 0, prev |-> 256]
  BY DEF scancode_to_keycode
<1>4. /\ scancode_to_keycode(256, 69) = [keycode |-> 119, prev |-> 0]
      /\ scancode_to_keycode(256, 197) = [keycode |-> 247, prev |-> 0]
  BY DEF scancode_to_keycode, E1_PAUSE
<1>5. QED
  BY <1>1, <1>2, <1>3, <1>4

LEMMA PrefixedCodes ==
  ASSUME NEW c \in {29, 56, 72}
  PROVE  /\ e0_keys(c) \in {97, 100, 103}
         /\ scancode_to_keycode(224, c) = [keycode |-> e0_keys(c), prev |-> 0]
         /\ scancode_to_keycode(224, c + 128) = [keycode |-> e0_keys(c) + 128, prev |-> 0]
<1>1. e0_keys(c) \in {97, 100, 103}
  BY DEF e0_keys
<1>2. c % 128 = c /\ (c + 128) % 128 = c /\ c \notin {224, 225} /\ c + 128 \notin {224, 225}
      /\ ~(c >= 128) /\ c + 128 >= 128 /\ c \notin {42, 54}
  OBVIOUS
<1>3. scancode_to_keycode(224, c) = [keycode |-> e0_keys(c), prev |-> 0]
  BY <1>1, <1>2 DEF scancode_to_keycode
<1>4. scancode_to_keycode(224, c + 128) = [keycode |-> e0_keys(c) + 128, prev |-> 0]
  BY <1>1, <1>2 DEF scancode_to_keycode
<1>5. QED
  BY <1>1, <1>3, <1>4
LEMMA SyncIs ==
  ASSUME NEW n \in 1 .. 127, NEW mods
  PROVE  /\ sync_modifiers(mods, n) = mods \cup Shifting(n)
         /\ sync_modifiers(mods, n + 128) = mods \ Shifting(n)
<1>1. n % 128 = n /\ (n + 128) % 128 = n /\ ~(n < 0 \/ n >= 128) /\ n + 128 >= 128
  OBVIOUS
<1>2. QED
  BY <1>1 DEF sync_modifiers

(* The last code of a press, and the code of a release, whose key has the  *)
(* code it should.                                                         *)
Presses(k, p, code) ==
  /\ k # "pause" /\ Code(k) \in 1 .. 127 /\ KindsOf(k) = Shifting(Code(k))
  /\ p \in Prevs /\ code \in Codes /\ code # 250
  /\ scancode_to_keycode(p, code) = [keycode |-> Code(k), prev |-> 0]

Releases(k, p, code) ==
  /\ k # "pause" /\ Code(k) \in 1 .. 127 /\ KindsOf(k) = Shifting(Code(k))
  /\ p \in Prevs /\ code \in Codes /\ code # 250
  /\ scancode_to_keycode(p, code) = [keycode |-> Code(k) + 128, prev |-> 0]

(* A key may send several codes, t: the first n of them.                   *)
Sent(t, n, mods, r, p, after, m) ==
  /\ t \in Seq(Codes) /\ n \in 0 .. Len(t)
  /\ Sends(mods, r, SubSeq(t, 1, n), p, after, m)

LEMMA NoneSent ==
  ASSUME NEW mods \in SUBSET Mods, NEW r \in Seq(Cells), NEW t \in Seq(Codes), NEW m, m = <<>>
  PROVE  Sent(t, 0, mods, r, 0, mods, m)
<1>1. PICK s : s = SubSeq(t, 1, 0)
  OBVIOUS
<1>2. s = <<>>
  BY <1>1, SubSeqEmpty
<1>3. Sends(mods, r, s, 0, mods, <<>>)
  BY <1>2, SendsNone
<1>4. QED
  BY <1>1, <1>3 DEF Sent

LEMMA OneMore ==
  ASSUME NEW t \in Seq(Codes), NEW n \in Nat, NEW i \in 1 .. Len(t), i = n + 1
  PROVE  /\ SubSeq(t, 1, i) = Append(SubSeq(t, 1, n), t[i])
         /\ t[i] \in Codes
<1>1. t[i] \in Codes /\ SubSeq(t, 1, n) \in Seq(Codes)
  BY ElementOfSeq, SubSeqProperties
<1>2. SubSeq(t, 1, i) = SubSeq(t, 1, n) \o <<t[i]>>
  BY SubSeqRecursiveSecond
<1>3. QED
  BY <1>1, <1>2, AppendIsConcat

(* The next code, of number i, is a part of a key, or all that was missing *)
(* of its press or of its release.                                         *)
PartAt(t, n, i, p, q) ==
  /\ i = n + 1 /\ i <= Len(t) /\ t[i] # 250 /\ q \in Prevs
  /\ scancode_to_keycode(p, t[i]) \in {[keycode |-> 0, prev |-> q], [keycode |-> -1, prev |-> q]}

PressAt(t, n, i, k, p) == i = n + 1 /\ i <= Len(t) /\ Presses(k, p, t[i])
ReleaseAt(t, n, i, k, p) == i = n + 1 /\ i <= Len(t) /\ Releases(k, p, t[i])

LEMMA PartSent ==
  ASSUME mode \in AllModes, NEW mods \in SUBSET Mods, NEW r \in Seq(Cells),
         NEW t, NEW n, NEW p, NEW after, NEW m, Sent(t, n, mods, r, p, after, m),
         NEW i, NEW q, PartAt(t, n, i, p, q)
  PROVE  Sent(t, i, mods, r, q, after, m)
<1>0. PICK o \in -1 .. 0 : scancode_to_keycode(p, t[i]) = [keycode |-> o, prev |-> q]
  <2>1. 0 \in -1 .. 0 /\ -1 \in -1 .. 0
    OBVIOUS
  <2>2. QED
    BY <2>1 DEF PartAt
<1>1. t \in Seq(Codes) /\ n \in Nat /\ i \in 1 .. Len(t) /\ i = n + 1 /\ t[i] # 250 /\ q \in Prevs
  BY DEF Sent, PartAt
<1>2. SubSeq(t, 1, i) = Append(SubSeq(t, 1, n), t[i]) /\ t[i] \in Codes
  BY <1>1, OneMore
<1>3. Sends(mods, r, SubSeq(t, 1, n), p, after, m)
  BY DEF Sent
<1>4. Sends(mods, r, Append(SubSeq(t, 1, n), t[i]), q, after, m)
  BY <1>0, <1>1, <1>2, <1>3, SendsPart
<1>5. Sends(mods, r, SubSeq(t, 1, i), q, after, m)
  BY <1>2, <1>4, Zenon
<1>6. i \in 0 .. Len(t)
  BY <1>1
<1>7. QED
  BY <1>1, <1>5, <1>6, Zenon DEF Sent

(* What they make the reader see, in the modes that translate.             *)
PressWord(k, keys) == IF mode = "scancode" THEN <<>> ELSE Meaning(k, keys)
ReleaseWord(k) == IF mode = "scancode" THEN <<>> ELSE MeaningOfRelease(k)

LEMMA Pressed ==
  ASSUME mode \in AllModes, NEW mods \in SUBSET Mods, NEW r \in Seq(Cells), NEW s, NEW p,
         NEW m, m = <<>>, Sends(mods, r, s, p, mods, m),
         NEW k, NEW code, Presses(k, p, code),
         NEW keys, Kinds(keys) = mods \cup KindsOf(k), Kid(Kinds(keys)) \in Maps
  PROVE  Sends(mods, r, Append(s, code), 0, mods \cup KindsOf(k), PressWord(k, keys))
<1>1. PICK keycode \in 1 .. 127 : keycode = Code(k)
  BY DEF Presses
<1>2. sync_modifiers(mods, keycode) = Kinds(keys)
  BY <1>1, SyncIs DEF Presses
<1>3. Handling(p, mods, code, keycode, 0)
  <2>1. ~Wild(keycode, Kinds(keys))
    BY DEF Wild
  <2>2. keycode \in -1 .. 255 /\ 0 \in Prevs
    BY DEF Prevs
  <2>3. QED
    BY <1>1, <1>2, <2>1, <2>2 DEF Handling, Presses
<1>4. Said(code, keycode, Kinds(keys)) = IF mode = "scancode" THEN <<Raw(code)>> ELSE Meaning(k, keys)
  <2>1. k # "pause" /\ code \in Codes /\ Code(k) \in 1 .. 127
    BY DEF Presses
  <2>2. QED
    BY <1>1, <2>1, SaidPressed
<1>5. Said(code, keycode, Kinds(keys)) \in Seq(Cells)
  <2>1. code \in Codes /\ keycode \in -1 .. 255
    BY DEF Presses
  <2>2. QED
    BY <2>1, SaidShown
<1>6. PICK w \in Seq(Cells) : w = IF mode = "scancode" THEN <<>> ELSE Meaning(k, keys)
  <2>1. <<>> \in Seq(Cells)
    OBVIOUS
  <2>2. CASE mode = "scancode"
    BY <2>1, <2>2, Zenon
  <2>3. CASE mode # "scancode"
    BY <1>4, <1>5, <2>3, Zenon
  <2>4. QED
    BY <2>2, <2>3
<1>7. Said(code, keycode, sync_modifiers(mods, keycode)) = IF mode = "scancode" THEN <<Raw(code)>> ELSE w
  BY <1>2, <1>4, <1>6
<1>8. Sends(mods, r, Append(s, code), 0, sync_modifiers(mods, keycode), m \o w)
  BY <1>3, <1>7, SendsMore
<1>9. m \o w = w
  OBVIOUS
<1>10. QED
  BY <1>2, <1>6, <1>8, <1>9 DEF PressWord

LEMMA Released ==
  ASSUME mode \in AllModes, NEW mods \in SUBSET Mods, NEW r \in Seq(Cells), NEW s, NEW p,
         NEW m, m = <<>>, Sends(mods, r, s, p, mods, m),
         NEW k, NEW code, Releases(k, p, code)
  PROVE  Sends(mods, r, Append(s, code), 0, mods \ KindsOf(k), ReleaseWord(k))
<1>1. PICK keycode \in 129 .. 255 : keycode = Code(k) + 128
  <2>1. PICK n \in 1 .. 127 : n = Code(k)
    BY DEF Releases
  <2>2. n + 128 \in 129 .. 255
    OBVIOUS
  <2>3. QED
    BY <2>1, <2>2
<1>2. sync_modifiers(mods, keycode) = mods \ KindsOf(k)
  BY <1>1, SyncIs DEF Releases
<1>3. Handling(p, mods, code, keycode, 0)
  <2>1. ~Wild(keycode, sync_modifiers(mods, keycode))
    BY DEF Wild
  <2>2. keycode \in -1 .. 255 /\ 0 \in Prevs
    BY DEF Prevs
  <2>3. QED
    BY <1>1, <2>1, <2>2 DEF Handling, Releases
<1>4. PICK w \in Seq(Cells) : w = IF mode = "keycode" THEN <<Raw(keycode)>> ELSE <<>>
  <2>1. Raw(keycode) \in Cells
    <3>1. keycode \in 1 .. 255
      OBVIOUS
    <3>2. QED
      BY <3>1, RawCells
  <2>2. <<Raw(keycode)>> \in Seq(Cells) /\ <<>> \in Seq(Cells)
    BY <2>1
  <2>3. QED
    BY <2>2
<1>5. Said(code, keycode, sync_modifiers(mods, keycode)) = IF mode = "scancode" THEN <<Raw(code)>> ELSE w
  <2>1. code \in Codes
    BY DEF Releases
  <2>2. Said(code, keycode, sync_modifiers(mods, keycode))
          = IF mode = "scancode" THEN <<Raw(code)>> ELSE IF mode = "keycode" THEN <<Raw(keycode)>> ELSE <<>>
    BY <2>1, SaidReleased
  <2>3. QED
    BY <1>4, <2>2
<1>6. Sends(mods, r, Append(s, code), 0, sync_modifiers(mods, keycode), m \o w)
  BY <1>3, <1>5, SendsMore
<1>7. m \o w = w
  OBVIOUS
<1>8. w = ReleaseWord(k)
  BY <1>1, <1>4 DEF ReleaseWord, MeaningOfRelease, AllModes
<1>9. QED
  BY <1>2, <1>6, <1>7, <1>8

LEMMA PressSent ==
  ASSUME mode \in AllModes, NEW mods \in SUBSET Mods, NEW r \in Seq(Cells),
         NEW t, NEW n, NEW p, NEW m, m = <<>>, Sent(t, n, mods, r, p, mods, m),
         NEW i, NEW k, PressAt(t, n, i, k, p),
         NEW keys, Kinds(keys) = mods \cup KindsOf(k), Kid(Kinds(keys)) \in Maps
  PROVE  Sent(t, i, mods, r, 0, mods \cup KindsOf(k), PressWord(k, keys))
<1>1. t \in Seq(Codes) /\ n \in Nat /\ i \in 1 .. Len(t) /\ i = n + 1
  BY DEF Sent, PressAt
<1>2. SubSeq(t, 1, i) = Append(SubSeq(t, 1, n), t[i])
  BY <1>1, OneMore
<1>3. Sends(mods, r, SubSeq(t, 1, n), p, mods, m)
  BY DEF Sent
<1>4. Sends(mods, r, Append(SubSeq(t, 1, n), t[i]), 0, mods \cup KindsOf(k), PressWord(k, keys))
  BY <1>3, Pressed DEF PressAt
<1>5. Sends(mods, r, SubSeq(t, 1, i), 0, mods \cup KindsOf(k), PressWord(k, keys))
  BY <1>2, <1>4, Zenon
<1>6. i \in 0 .. Len(t)
  BY <1>1
<1>7. QED
  BY <1>1, <1>5, <1>6, Zenon DEF Sent

LEMMA ReleaseSent ==
  ASSUME mode \in AllModes, NEW mods \in SUBSET Mods, NEW r \in Seq(Cells),
         NEW t, NEW n, NEW p, NEW m, m = <<>>, Sent(t, n, mods, r, p, mods, m),
         NEW i, NEW k, ReleaseAt(t, n, i, k, p)
  PROVE  Sent(t, i, mods, r, 0, mods \ KindsOf(k), ReleaseWord(k))
<1>1. t \in Seq(Codes) /\ n \in Nat /\ i \in 1 .. Len(t) /\ i = n + 1
  BY DEF Sent, ReleaseAt
<1>2. SubSeq(t, 1, i) = Append(SubSeq(t, 1, n), t[i])
  BY <1>1, OneMore
<1>3. Sends(mods, r, SubSeq(t, 1, n), p, mods, m)
  BY DEF Sent
<1>4. Sends(mods, r, Append(SubSeq(t, 1, n), t[i]), 0, mods \ KindsOf(k), ReleaseWord(k))
  BY <1>3, Released DEF ReleaseAt
<1>5. Sends(mods, r, SubSeq(t, 1, i), 0, mods \ KindsOf(k), ReleaseWord(k))
  BY <1>2, <1>4, Zenon
<1>6. i \in 0 .. Len(t)
  BY <1>1
<1>7. QED
  BY <1>1, <1>5, <1>6, Zenon DEF Sent

(* What has been said is what the key means, in every mode.                *)
LEMMA AllPressed ==
  ASSUME NEW k, NEW keys, NEW mods, NEW r, NEW n, n = Len(Make(k)),
         Sent(Make(k), n, mods, r, 0, mods \cup KindsOf(k), PressWord(k, keys))
  PROVE  PressOK(k, mods, r, keys)
<1>1. PICK t \in Seq(Codes) : t = Make(k)
  BY DEF Sent
<1>2. SubSeq(t, 1, Len(t)) = t
  BY SubSeqFull
<1>3. Sends(mods, r, Make(k), 0, mods \cup KindsOf(k), PressWord(k, keys))
  BY <1>1, <1>2 DEF Sent
<1>4. Text(Make(k), PressWord(k, keys)) = Meaning(k, keys)
  BY DEF Text, Meaning, PressWord
<1>5. QED
  BY <1>3, <1>4 DEF Sends, PressOK

LEMMA AllReleased ==
  ASSUME NEW k, NEW mods, NEW r, NEW n, n = Len(Break(k)),
         Sent(Break(k), n, mods, r, 0, mods \ KindsOf(k), ReleaseWord(k))
  PROVE  ReleaseOK(k, mods, r)
<1>1. PICK t \in Seq(Codes) : t = Break(k)
  BY DEF Sent
<1>2. SubSeq(t, 1, Len(t)) = t
  BY SubSeqFull
<1>3. Sends(mods, r, Break(k), 0, mods \ KindsOf(k), ReleaseWord(k))
  BY <1>1, <1>2 DEF Sent
<1>4. Text(Break(k), ReleaseWord(k)) = MeaningOfRelease(k)
  BY DEF Text, MeaningOfRelease, ReleaseWord
<1>5. QED
  BY <1>3, <1>4 DEF Sends, ReleaseOK

-----------------------------------------------------------------------------
(* Every key, by the codes it sends.                                       *)
LEMMA PlainOK ==
  ASSUME mode \in AllModes, NEW k \in Plain, NEW mods \in SUBSET Mods, NEW r \in Seq(Cells)
  PROVE  /\ \A keys : Kinds(keys) = mods \cup KindsOf(k) /\ Kid(Kinds(keys)) \in Maps => PressOK(k, mods, r, keys)
         /\ ReleaseOK(k, mods, r)
<1>1. PICK c \in PlainCodes : c = Code(k)
  BY PlainKeys
<1>2. /\ Presses(k, 0, c) /\ Releases(k, 0, c + 128)
      /\ c \in Codes /\ c + 128 \in Codes
  <2>1. k # "pause" /\ KindsOf(k) = Shifting(c) /\ 0 \in Prevs
    BY <1>1, PlainKeys DEF Plain, Prevs
  <2>2. QED
    BY <1>1, <2>1, PlainCode DEF Presses, Releases
<1>3. PICK m : m = <<>>
  OBVIOUS
<1>4. PICK t : t = Make(k)
  OBVIOUS
<1>5. t \in Seq(Codes) /\ Len(t) = 1 /\ t[1] = c
  <2>1. t = <<c>>
    BY <1>1, <1>4, PlainKeys
  <2>2. QED
    BY <1>2, <2>1
<1>6. ASSUME NEW keys, Kinds(keys) = mods \cup KindsOf(k), Kid(Kinds(keys)) \in Maps
      PROVE  PressOK(k, mods, r, keys)
  <2>1. Sent(t, 0, mods, r, 0, mods, m)
    BY <1>3, <1>5, NoneSent
  <2>2. Sent(t, 1, mods, r, 0, mods \cup KindsOf(k), PressWord(k, keys))
    <3>1. PressAt(t, 0, 1, k, 0)
      BY <1>2, <1>5 DEF PressAt
    <3>2. QED
      BY <1>3, <1>6, <2>1, <3>1, PressSent, ZenonT(40)
  <2>3. QED
    BY <1>4, <1>5, <2>2, AllPressed
<1>7. PICK u : u = Break(k)
  OBVIOUS
<1>8. u \in Seq(Codes) /\ Len(u) = 1 /\ u[1] = c + 128
  <2>1. PICK b \in Codes : b = c + 128
    BY <1>2
  <2>2. u = <<b>>
    BY <1>1, <1>7, <2>1, PlainKeys
  <2>3. QED
    BY <2>1, <2>2
<1>9. ReleaseOK(k, mods, r)
  <2>1. Sent(u, 0, mods, r, 0, mods, m)
    BY <1>3, <1>8, NoneSent
  <2>2. Sent(u, 1, mods, r, 0, mods \ KindsOf(k), ReleaseWord(k))
    <3>1. ReleaseAt(u, 0, 1, k, 0)
      BY <1>2, <1>8 DEF ReleaseAt
    <3>2. QED
      BY <1>3, <2>1, <3>1, ReleaseSent, ZenonT(40)
  <2>3. QED
    BY <1>7, <1>8, <2>2, AllReleased
<1>10. QED
  BY <1>6, <1>9

LEMMA GreyKeys ==
  ASSUME NEW k \in {"rctrl", "altgr"}
  PROVE  \E c \in {29, 56} : /\ Presses(k, 224, c) /\ Releases(k, 224, c + 128)
                             /\ Make(k) = <<224, c>> /\ Break(k) = <<224, c + 128>>
<1>1. CASE k = "rctrl"
  <2>1. Code(k) = 97 /\ KindsOf(k) = Shifting(97)
    BY <1>1 DEF Code, KindsOf, Shifting
  <2>2. Make(k) = <<224, 29>>
    BY <1>1 DEF Make, Prefixed
  <2>3. Break(k) = <<224, 157>>
    BY <1>1, <2>2 DEF Break
  <2>4. e0_keys(29) = 97 /\ 224 \in Prevs
    BY DEF e0_keys, Prevs
  <2>5. Presses(k, 224, 29) /\ Releases(k, 224, 157)
    BY <1>1, <2>1, <2>4, PrefixedCodes DEF Presses, Releases, Codes
  <2>6. QED
    BY <1>1, <2>2, <2>3, <2>5
<1>2. CASE k = "altgr"
  <2>1. Code(k) = 100 /\ KindsOf(k) = Shifting(100)
    BY <1>2 DEF Code, KindsOf, Shifting
  <2>2. Make(k) = <<224, 56>>
    BY <1>2 DEF Make, Prefixed
  <2>3. Break(k) = <<224, 184>>
    BY <1>2, <2>2 DEF Break
  <2>4. e0_keys(56) = 100 /\ 224 \in Prevs
    BY DEF e0_keys, Prevs
  <2>5. Presses(k, 224, 56) /\ Releases(k, 224, 184)
    BY <1>2, <2>1, <2>4, PrefixedCodes DEF Presses, Releases, Codes
  <2>6. QED
    BY <1>2, <2>2, <2>3, <2>5
<1>3. QED
  BY <1>1, <1>2

LEMMA GreyOK ==
  ASSUME mode \in AllModes, NEW k \in {"rctrl", "altgr"}, NEW mods \in SUBSET Mods, NEW r \in Seq(Cells)
  PROVE  /\ \A keys : Kinds(keys) = mods \cup KindsOf(k) /\ Kid(Kinds(keys)) \in Maps => PressOK(k, mods, r, keys)
         /\ ReleaseOK(k, mods, r)
<1>1. PICK c \in {29, 56} : /\ Presses(k, 224, c) /\ Releases(k, 224, c + 128)
                            /\ Make(k) = <<224, c>> /\ Break(k) = <<224, c + 128>>
  BY GreyKeys
<1>2. PICK m : m = <<>>
  OBVIOUS
<1>3. PICK t : t = Make(k)
  OBVIOUS
<1>4. t \in Seq(Codes) /\ Len(t) = 2 /\ t[1] = 224 /\ t[2] = c
  <2>1. t = <<224, c>>
    BY <1>1, <1>3
  <2>2. 224 \in Codes /\ c \in Codes
    BY DEF Codes
  <2>3. QED
    BY <2>1, <2>2
<1>5. ASSUME NEW keys, Kinds(keys) = mods \cup KindsOf(k), Kid(Kinds(keys)) \in Maps
      PROVE  PressOK(k, mods, r, keys)
  <2>1. Sent(t, 0, mods, r, 0, mods, m)
    BY <1>2, <1>4, NoneSent
  <2>2. Sent(t, 1, mods, r, 224, mods, m)
    <3>1. PartAt(t, 0, 1, 0, 224)
      BY <1>4, PrefixCodes DEF PartAt, Prevs
    <3>2. QED
      BY <2>1, <3>1, PartSent, ZenonT(40)
  <2>3. Sent(t, 2, mods, r, 0, mods \cup KindsOf(k), PressWord(k, keys))
    <3>1. PressAt(t, 1, 2, k, 224)
      BY <1>1, <1>4 DEF PressAt
    <3>2. QED
      BY <1>2, <1>5, <2>2, <3>1, PressSent, ZenonT(40)
  <2>4. QED
    BY <1>3, <1>4, <2>3, AllPressed
<1>6. PICK u : u = Break(k)
  OBVIOUS
<1>7. u \in Seq(Codes) /\ Len(u) = 2 /\ u[1] = 224 /\ u[2] = c + 128
  <2>1. PICK b \in Codes : b = c + 128
    BY DEF Codes
  <2>2. u = <<224, b>>
    BY <1>1, <1>6, <2>1
  <2>3. 224 \in Codes
    BY DEF Codes
  <2>4. QED
    BY <2>1, <2>2, <2>3
<1>8. ReleaseOK(k, mods, r)
  <2>1. Sent(u, 0, mods, r, 0, mods, m)
    BY <1>2, <1>7, NoneSent
  <2>2. Sent(u, 1, mods, r, 224, mods, m)
    <3>1. PartAt(u, 0, 1, 0, 224)
      BY <1>7, PrefixCodes DEF PartAt, Prevs
    <3>2. QED
      BY <2>1, <3>1, PartSent, ZenonT(40)
  <2>3. Sent(u, 2, mods, r, 0, mods \ KindsOf(k), ReleaseWord(k))
    <3>1. ReleaseAt(u, 1, 2, k, 224)
      BY <1>1, <1>7 DEF ReleaseAt
    <3>2. QED
      BY <1>2, <2>2, <3>1, ReleaseSent, ZenonT(40)
  <2>4. QED
    BY <1>6, <1>7, <2>3, AllReleased
<1>9. QED
  BY <1>5, <1>8

LEMMA UpOK ==
  ASSUME mode \in AllModes, NEW mods \in SUBSET Mods, NEW r \in Seq(Cells)
  PROVE  /\ \A keys : Kinds(keys) = mods \cup KindsOf("up") /\ Kid(Kinds(keys)) \in Maps
                        => PressOK("up", mods, r, keys)
         /\ ReleaseOK("up", mods, r)
<1>1. PICK k : k = "up"
  OBVIOUS
<1>2. Presses(k, 224, 72) /\ Releases(k, 224, 200)
  <2>1. Code(k) = 103 /\ KindsOf(k) = Shifting(103)
    BY <1>1 DEF Code, KindsOf, Shifting
  <2>2. e0_keys(72) = 103 /\ 224 \in Prevs
    BY DEF e0_keys, Prevs
  <2>3. QED
    BY <1>1, <2>1, <2>2, PrefixedCodes DEF Presses, Releases, Codes
<1>3. PICK m : m = <<>>
  OBVIOUS
<1>4. PICK t : t = Make(k)
  OBVIOUS
<1>5. t \in Seq(Codes) /\ Len(t) = 4 /\ t[1] = 224 /\ t[2] = 42 /\ t[3] = 224 /\ t[4] = 72
  <2>1. t = <<224, 42, 224, 72>>
    BY <1>1, <1>4 DEF Make, Prefixed
  <2>2. 224 \in Codes /\ 42 \in Codes /\ 72 \in Codes
    BY DEF Codes
  <2>3. QED
    BY <2>1, <2>2
<1>6. ASSUME NEW keys, Kinds(keys) = mods \cup KindsOf(k), Kid(Kinds(keys)) \in Maps
      PROVE  PressOK(k, mods, r, keys)
  <2>1. Sent(t, 0, mods, r, 0, mods, m)
    BY <1>3, <1>5, NoneSent
  <2>2. Sent(t, 1, mods, r, 224, mods, m)
    <3>1. PartAt(t, 0, 1, 0, 224)
      BY <1>5, PrefixCodes DEF PartAt, Prevs
    <3>2. QED
      BY <2>1, <3>1, PartSent, ZenonT(40)
  <2>3. Sent(t, 2, mods, r, 0, mods, m)
    <3>1. PartAt(t, 1, 2, 224, 0)
      BY <1>5, PrefixCodes DEF PartAt, Prevs
    <3>2. QED
      BY <2>2, <3>1, PartSent, ZenonT(40)
  <2>4. Sent(t, 3, mods, r, 224, mods, m)
    <3>1. PartAt(t, 2, 3, 0, 224)
      BY <1>5, PrefixCodes DEF PartAt, Prevs
    <3>2. QED
      BY <2>3, <3>1, PartSent, ZenonT(40)
  <2>5. Sent(t, 4, mods, r, 0, mods \cup KindsOf(k), PressWord(k, keys))
    <3>1. PressAt(t, 3, 4, k, 224)
      BY <1>2, <1>5 DEF PressAt
    <3>2. QED
      BY <1>3, <1>6, <2>4, <3>1, PressSent, ZenonT(40)
  <2>6. QED
    BY <1>4, <1>5, <2>5, AllPressed
<1>7. PICK u : u = Break(k)
  OBVIOUS
<1>8. u \in Seq(Codes) /\ Len(u) = 4 /\ u[1] = 224 /\ u[2] = 200 /\ u[3] = 224 /\ u[4] = 170
  <2>1. u = <<224, 200, 224, 170>>
    BY <1>1, <1>7 DEF Break
  <2>2. 224 \in Codes /\ 200 \in Codes /\ 170 \in Codes
    BY DEF Codes
  <2>3. QED
    BY <2>1, <2>2
<1>9. ReleaseOK(k, mods, r)
  <2>1. Sent(u, 0, mods, r, 0, mods, m)
    BY <1>3, <1>8, NoneSent
  <2>2. Sent(u, 1, mods, r, 224, mods, m)
    <3>1. PartAt(u, 0, 1, 0, 224)
      BY <1>8, PrefixCodes DEF PartAt, Prevs
    <3>2. QED
      BY <2>1, <3>1, PartSent, ZenonT(40)
  <2>3. Sent(u, 2, mods, r, 0, mods, ReleaseWord(k))
    <3>1. ReleaseAt(u, 1, 2, k, 224)
      BY <1>2, <1>8 DEF ReleaseAt
    <3>2. Sent(u, 2, mods, r, 0, mods \ KindsOf(k), ReleaseWord(k))
      BY <1>3, <2>2, <3>1, ReleaseSent, ZenonT(40)
    <3>3. mods \ KindsOf(k) = mods
      BY <1>1 DEF KindsOf
    <3>4. QED
      BY <3>2, <3>3
  <2>4. Sent(u, 3, mods, r, 224, mods, ReleaseWord(k))
    <3>1. PartAt(u, 2, 3, 0, 224)
      BY <1>8, PrefixCodes DEF PartAt, Prevs
    <3>2. QED
      BY <2>3, <3>1, PartSent, ZenonT(40)
  <2>5. Sent(u, 4, mods, r, 0, mods, ReleaseWord(k))
    <3>1. PartAt(u, 3, 4, 224, 0)
      BY <1>8, PrefixCodes DEF PartAt, Prevs
    <3>2. QED
      BY <2>4, <3>1, PartSent, ZenonT(40)
  <2>6. mods \ KindsOf(k) = mods
    BY <1>1 DEF KindsOf
  <2>7. Sent(Break(k), 4, mods, r, 0, mods \ KindsOf(k), ReleaseWord(k))
    BY <1>7, <2>5, <2>6, Zenon
  <2>8. 4 = Len(Break(k))
    BY <1>7, <1>8
  <2>9. QED
    BY <2>7, <2>8, AllReleased
<1>10. QED
  BY <1>1, <1>6, <1>9

(* Pause is pressed and released at once, and never held.                  *)
PauseAt(t, n, i, keycode) ==
  /\ i = n + 1 /\ i <= Len(t) /\ t[i] # 250
  /\ scancode_to_keycode(256, t[i]) = [keycode |-> keycode, prev |-> 0]

PauseWord(keycode) == IF mode = "keycode" THEN <<Raw(keycode)>> ELSE <<>>

LEMMA PauseWords ==
  ASSUME NEW keycode \in {119, 247}
  PROVE  PauseWord(keycode) \in Seq(Cells)
<1>1. keycode \in 1 .. 255
  OBVIOUS
<1>2. Raw(keycode) \in Cells
  BY <1>1, RawCells
<1>3. <<Raw(keycode)>> \in Seq(Cells) /\ <<>> \in Seq(Cells)
  BY <1>2
<1>4. QED
  BY <1>3 DEF PauseWord

LEMMA PauseSent ==
  ASSUME mode \in AllModes, NEW mods \in SUBSET Mods, Kid(mods) \in Maps, NEW r \in Seq(Cells),
         NEW t, NEW n, NEW m, Sent(t, n, mods, r, 256, mods, m),
         NEW i, NEW keycode \in {119, 247}, PauseAt(t, n, i, keycode)
  PROVE  Sent(t, i, mods, r, 0, mods, m \o PauseWord(keycode))
<1>0. PICK w \in Seq(Cells) : w = IF mode = "keycode" THEN <<Raw(keycode)>> ELSE <<>>
  BY PauseWords DEF PauseWord
<1>1. t \in Seq(Codes) /\ n \in Nat /\ i \in 1 .. Len(t) /\ i = n + 1 /\ t[i] # 250
  BY DEF Sent, PauseAt
<1>2. PICK code \in Codes : code = t[i]
  BY <1>1, OneMore
<1>3. sync_modifiers(mods, keycode) = mods
  <2>1. keycode % 128 = 119
    OBVIOUS
  <2>2. Shifting(keycode % 128) = {}
    BY <2>1 DEF Shifting
  <2>3. QED
    BY <2>2 DEF sync_modifiers
<1>4. Handling(256, mods, code, keycode, 0)
  <2>1. ~Wild(keycode, sync_modifiers(mods, keycode))
    BY <1>3 DEF Wild
  <2>2. 256 \in Prevs /\ 0 \in Prevs /\ keycode \in -1 .. 255
    BY DEF Prevs
  <2>3. QED
    BY <1>1, <1>2, <2>1, <2>2 DEF Handling, PauseAt
<1>5. Said(code, keycode, mods) = IF mode = "scancode" THEN <<Raw(code)>> ELSE w
  <2>1. Raw(code) # NUL /\ Raw(keycode) # NUL
    <3>1. keycode \in 1 .. 255
      OBVIOUS
    <3>2. QED
      BY <3>1, RawCells DEF Codes
  <2>2. <<Raw(code)>> # <<NUL>> /\ <<Raw(keycode)>> # <<NUL>> /\ <<>> # <<NUL>>
    BY <2>1
  <2>3. CASE mode = "scancode"
    <3>1. Word(code, keycode, mods) = <<Raw(code)>>
      BY <2>3 DEF Word
    <3>2. QED
      BY <2>2, <2>3, <3>1 DEF Said
  <2>4. CASE mode = "keycode"
    <3>1. Word(code, keycode, mods) = <<Raw(keycode)>>
      BY <2>4 DEF Word
    <3>2. QED
      BY <1>0, <2>2, <2>4, <3>1 DEF Said
  <2>5. CASE mode = "ansi"
    <3>1. Keysym(Kid(mods), keycode) = <<>>
      BY DEF Keysym
    <3>2. Word(code, keycode, mods) = <<>>
      BY <2>5, <3>1 DEF Word
    <3>3. QED
      BY <1>0, <2>2, <2>5, <3>2 DEF Said
  <2>6. QED
    BY <2>3, <2>4, <2>5 DEF AllModes
<1>6. Sends(mods, r, SubSeq(t, 1, n), 256, mods, m)
  BY DEF Sent
<1>7. Sends(mods, r, Append(SubSeq(t, 1, n), code), 0, mods, m \o w)
  <2>1. Sends(mods, r, Append(SubSeq(t, 1, n), code), 0, sync_modifiers(mods, keycode), m \o w)
    <3>1. Said(code, keycode, sync_modifiers(mods, keycode)) = IF mode = "scancode" THEN <<Raw(code)>> ELSE w
      BY <1>3, <1>5, Zenon
    <3>2. QED
      BY <1>4, <1>6, <3>1, SendsMore
  <2>2. QED
    BY <1>3, <2>1
<1>8. SubSeq(t, 1, i) = Append(SubSeq(t, 1, n), code)
  BY <1>1, <1>2, OneMore
<1>9. Sends(mods, r, SubSeq(t, 1, i), 0, mods, m \o w)
  BY <1>7, <1>8, Zenon
<1>10. i \in 0 .. Len(t)
  BY <1>1
<1>11. QED
  BY <1>0, <1>1, <1>9, <1>10, Zenon DEF Sent, PauseWord

LEMMA PauseCodes ==
  ASSUME mode \in AllModes, NEW mods \in SUBSET Mods, Kid(mods) \in Maps, NEW r \in Seq(Cells)
  PROVE  /\ Len(Make("pause")) = 6
         /\ Sent(Make("pause"), 6, mods, r, 0, mods, PauseWord(119) \o PauseWord(247))
<1>1. PICK m : m = <<>>
  OBVIOUS
<1>2. PICK t : t = Make("pause")
  OBVIOUS
<1>3. /\ t \in Seq(Codes) /\ Len(t) = 6
      /\ t[1] = 225 /\ t[2] = 29 /\ t[3] = 69 /\ t[4] = 225 /\ t[5] = 157 /\ t[6] = 197
  <2>1. t = <<225, 29, 69, 225, 157, 197>>
    BY <1>2 DEF Make
  <2>2. 225 \in Codes /\ 29 \in Codes /\ 69 \in Codes /\ 157 \in Codes /\ 197 \in Codes
    BY DEF Codes
  <2>3. QED
    BY <2>1, <2>2
<1>4. PartAt(t, 0, 1, 0, 225) /\ PartAt(t, 1, 2, 225, 256)
  BY <1>3, PrefixCodes DEF PartAt, Prevs
<1>5. PartAt(t, 3, 4, 0, 225) /\ PartAt(t, 4, 5, 225, 256)
  BY <1>3, PrefixCodes DEF PartAt, Prevs
<1>6. PauseAt(t, 2, 3, 119) /\ PauseAt(t, 5, 6, 247)
  BY <1>3, PrefixCodes DEF PauseAt
<1>7. Sent(t, 2, mods, r, 256, mods, m)
  <2>1. Sent(t, 0, mods, r, 0, mods, m)
    BY <1>1, <1>3, NoneSent
  <2>2. Sent(t, 1, mods, r, 225, mods, m)
    BY <1>4, <2>1, PartSent
  <2>3. QED
    BY <1>4, <2>2, PartSent
<1>8. Sent(t, 3, mods, r, 0, mods, PauseWord(119))
  <2>1. Sent(t, 3, mods, r, 0, mods, m \o PauseWord(119))
    <3>1. 119 \in {119, 247}
      OBVIOUS
    <3>2. QED
      BY <1>6, <1>7, <3>1, PauseSent
  <2>2. PauseWord(119) \in Seq(Cells)
    BY PauseWords
  <2>3. m \o PauseWord(119) = PauseWord(119)
    BY <1>1, <2>2
  <2>4. QED
    BY <2>1, <2>3
<1>9. Sent(t, 5, mods, r, 256, mods, PauseWord(119))
  <2>1. Sent(t, 4, mods, r, 225, mods, PauseWord(119))
    BY <1>5, <1>8, PartSent
  <2>2. QED
    BY <1>5, <2>1, PartSent
<1>10. Sent(t, 6, mods, r, 0, mods, PauseWord(119) \o PauseWord(247))
  <2>1. 247 \in {119, 247}
    OBVIOUS
  <2>2. QED
    BY <1>6, <1>9, <2>1, PauseSent
<1>11. QED
  BY <1>2, <1>3, <1>10

LEMMA PauseMeans ==
  ASSUME mode \in AllModes, NEW keys
  PROVE  mode # "scancode" => Meaning("pause", keys) = PauseWord(119) \o PauseWord(247)
<1>1. CASE mode = "keycode"
  <2>1. Meaning("pause", keys) = Raws(<<119, 247>>)
    BY <1>1 DEF Meaning, E1_PAUSE
  <2>2. PICK s : s = <<119>>
    OBVIOUS
  <2>3. 119 \in Codes /\ 247 \in Codes
    BY DEF Codes
  <2>4. s \in Seq(Codes)
    BY <2>2, <2>3
  <2>5. Raws(s) = <<Raw(119)>>
    BY <2>2, <2>3, RawsOne
  <2>6. Raws(Append(s, 247)) = Append(Raws(s), Raw(247))
    BY <2>3, <2>4, RawsMore
  <2>7. Append(s, 247) = <<119, 247>>
    <3>1. PICK t : t = <<119, 247>>
      OBVIOUS
    <3>2. PICK u \in Seq(Codes) : u = Append(s, 247)
      <4>1. Append(s, 247) \in Seq(Codes)
        BY <2>3, <2>4, AppendProperties
      <4>2. QED
        BY <4>1, Zenon
    <3>3. Len(u) = 2 /\ u[1] = 119 /\ u[2] = 247
      BY <2>2, <2>4, <3>2
    <3>4. Len(t) = 2 /\ t[1] = 119 /\ t[2] = 247 /\ t \in Seq(Codes)
      BY <2>3, <3>1
    <3>5. Len(u) = Len(t) /\ \A i \in 1 .. Len(u) : u[i] = t[i]
      BY <3>3, <3>4
    <3>6. u = t
      BY <3>2, <3>4, <3>5, SeqEqual
    <3>7. QED
      BY <3>1, <3>2, <3>6
  <2>8. PICK v : v = Raws(s)
    OBVIOUS
  <2>9. PICK x \in Cells : x = Raw(247)
    BY RawCells
  <2>10. v \in Seq(Cells)
    BY <2>4, <2>8, RawsAre
  <2>11. Append(v, x) = v \o <<x>>
    BY <2>10, AppendIsConcat
  <2>12. v = PauseWord(119) /\ <<x>> = PauseWord(247)
    BY <1>1, <2>5, <2>8, <2>9 DEF PauseWord
  <2>13. QED
    BY <2>1, <2>6, <2>7, <2>8, <2>9, <2>11, <2>12, Zenon
<1>2. CASE mode = "ansi"
  <2>1. Keysym(Kid(Kinds(keys)), 119) = <<>> /\ Code("pause") = 119
    BY DEF Keysym, Code, E1_PAUSE
  <2>2. Meaning("pause", keys) = <<>>
    BY <1>2, <2>1 DEF Meaning
  <2>3. PauseWord(119) = <<>> /\ PauseWord(247) = <<>> /\ <<>> \o <<>> = <<>>
    BY <1>2 DEF PauseWord
  <2>4. QED
    BY <2>2, <2>3
<1>3. QED
  BY <1>1, <1>2 DEF AllModes

LEMMA PauseOK ==
  ASSUME mode \in AllModes, NEW mods \in SUBSET Mods, NEW r \in Seq(Cells),
         NEW keys, Kinds(keys) = mods \cup KindsOf("pause"), Kid(Kinds(keys)) \in Maps
  PROVE  PressOK("pause", mods, r, keys)
<1>1. mods \cup KindsOf("pause") = mods /\ Kid(mods) \in Maps
  BY DEF KindsOf
<1>2. PICK m : m = PauseWord(119) \o PauseWord(247)
  OBVIOUS
<1>3. Len(Make("pause")) = 6 /\ Sent(Make("pause"), 6, mods, r, 0, mods, m)
  BY <1>1, <1>2, PauseCodes
<1>4. PICK t \in Seq(Codes) : t = Make("pause")
  BY <1>3 DEF Sent
<1>5. SubSeq(t, 1, Len(t)) = t
  BY SubSeqFull
<1>6. Sends(mods, r, Make("pause"), 0, mods, m)
  BY <1>3, <1>4, <1>5 DEF Sent
<1>7. Text(Make("pause"), m) = Meaning("pause", keys)
  BY <1>2, PauseMeans DEF Text, Meaning
<1>8. QED
  BY <1>1, <1>6, <1>7 DEF Sends, PressOK

LEMMA KeyPressed ==
  ASSUME mode \in AllModes, NEW k \in AllKeys, NEW mods \in SUBSET Mods, NEW r \in Seq(Cells),
         NEW keys, Kinds(keys) = mods \cup KindsOf(k), Kid(Kinds(keys)) \in Maps
  PROVE  PressOK(k, mods, r, keys)
<1>1. CASE k \in Plain
  BY <1>1, PlainOK
<1>2. CASE k \in {"rctrl", "altgr"}
  BY <1>2, GreyOK
<1>3. CASE k = "up"
  BY <1>3, UpOK
<1>4. CASE k = "pause"
  BY <1>4, PauseOK
<1>5. QED
  BY <1>1, <1>2, <1>3, <1>4 DEF AllKeys, Plain

LEMMA KeyReleased ==
  ASSUME mode \in AllModes, NEW k \in AllKeys, k # "pause", NEW mods \in SUBSET Mods, NEW r \in Seq(Cells)
  PROVE  ReleaseOK(k, mods, r)
<1>1. CASE k \in Plain
  BY <1>1, PlainOK
<1>2. CASE k \in {"rctrl", "altgr"}
  BY <1>2, GreyOK
<1>3. CASE k = "up"
  BY <1>3, UpOK
<1>4. QED
  BY <1>1, <1>2, <1>3 DEF AllKeys, Plain

-----------------------------------------------------------------------------
(* The modifiers of the keys that are held.                                *)
LEMMA KindsAre ==
  /\ \A k : KindsOf(k) \in SUBSET Mods
  /\ \A keys : Kinds(keys) \in SUBSET Mods
  /\ Kinds({}) = {}
  /\ \A keys, k : Kinds(keys \cup {k}) = Kinds(keys) \cup KindsOf(k)
<1>1. \A k : KindsOf(k) \in SUBSET Mods
  BY DEF KindsOf, Mods
<1>2. \A keys : Kinds(keys) \in SUBSET Mods
  BY <1>1 DEF Kinds
<1>3. Kinds({}) = {}
  BY DEF Kinds
<1>4. \A keys, k : Kinds(keys \cup {k}) = Kinds(keys) \cup KindsOf(k)
  BY DEF Kinds
<1>5. QED
  BY <1>1, <1>2, <1>3, <1>4

(* A key goes up that is the only one of its kind.                         *)
LEMMA KindsLeft ==
  ASSUME NEW keys, NEW k \in keys, Kinds({k}) \cap Kinds(keys \ {k}) = {}
  PROVE  Kinds(keys) \ KindsOf(k) = Kinds(keys \ {k})
<1>1. keys = (keys \ {k}) \cup {k} /\ {k} = {} \cup {k}
  OBVIOUS
<1>2. Kinds(keys) = Kinds(keys \ {k}) \cup KindsOf(k) /\ Kinds({k}) = Kinds({}) \cup KindsOf(k)
  BY <1>1, KindsAre
<1>3. Kinds({k}) = KindsOf(k)
  BY <1>2, KindsAre
<1>4. QED
  BY <1>2, <1>3

LEMMA StartsTrans ==
  ASSUME NEW E, NEW s \in Seq(E), NEW t \in Seq(E), NEW u \in Seq(E), Starts(s, t), Starts(t, u)
  PROVE  Starts(s, u)
<1>1. /\ Len(s) \in Nat /\ Len(t) \in Nat /\ Len(u) \in Nat /\ Len(s) <= Len(t) /\ Len(t) <= Len(u)
      /\ s = SubSeq(t, 1, Len(s)) /\ t = SubSeq(u, 1, Len(t))
  BY DEF Starts
<1>2. \A i \in 1 .. Len(s) : i \in 1 .. Len(t) /\ i \in 1 .. Len(u)
  BY <1>1
<1>3. /\ \A i \in 1 .. Len(s) : t[i] \in E /\ u[i] \in E
      /\ \A i \in 1 .. Len(t) : i \in 1 .. Len(u) /\ u[i] \in E
  BY <1>1, <1>2, ElementOfSeq
<1>4. \A i \in 1 .. Len(t) : SubSeq(u, 1, Len(t))[i] = u[i]
  BY <1>1, <1>3, SubSeqProperties
<1>5. /\ SubSeq(u, 1, Len(s)) \in Seq(E) /\ Len(SubSeq(u, 1, Len(s))) = Len(s)
      /\ \A i \in 1 .. Len(s) : SubSeq(u, 1, Len(s))[i] = u[i]
  BY <1>1, <1>3, SubSeqProperties
<1>6. \A i \in 1 .. Len(s) : SubSeq(t, 1, Len(s))[i] = t[i]
  BY <1>1, <1>3, SubSeqProperties
<1>7. \A i \in 1 .. Len(s) : s[i] = SubSeq(u, 1, Len(s))[i]
  BY <1>1, <1>2, <1>4, <1>5, <1>6
<1>8. s = SubSeq(u, 1, Len(s))
  BY <1>5, <1>7, SeqEqual
<1>9. QED
  BY <1>1, <1>8 DEF Starts

-----------------------------------------------------------------------------
(* The invariant.  When what the handler has still to enqueue and the scan *)
(* codes in the controller have been dealt with too, the driver will know  *)
(* which keys are held and the reader will have what they mean.            *)
ISRStates == {"none", "lock", "block", "asleep", "enqueue", "broadcast", "unlock"}

Control ==
  /\ mode \in Modes /\ isr \in ISRStates
  /\ isr = "none" => todo = <<>>
  /\ isr \in {"lock", "block", "asleep", "enqueue"} => todo # <<>>

Typed ==
  /\ port \in Seq(Codes) /\ held \subseteq AllKeys \ {"pause"}
  /\ prev_scancode \in Prevs /\ modifiers \in SUBSET Mods
  /\ todo \in Seq(Cells) /\ read \in Seq(Cells) /\ meant \in Seq(Cells)
  /\ keyboard_queue \in CharQueues

Seen == Shown(read, Contents(keyboard_queue) \o todo)

Progress == Folded(Decoder, St(prev_scancode, modifiers, Seen), port) = St(0, Kinds(held), meant)

Promise == ModifiersAreHeld /\ ReadInOrder

KInv ==
  /\ Control
  /\ ~odd => Typed /\ IF down THEN Promise ELSE Progress

LEMMA ModeKnown ==
  ASSUME Control
  PROVE  mode \in AllModes
BY KeyboardAssumption DEF Control, AllModes

LEMMA StIs ==
  ASSUME NEW p, NEW mods, NEW r, NEW q, NEW others, NEW u, St(p, mods, r) = St(q, others, u)
  PROVE  p = q /\ mods = others /\ r = u
<1>1. PICK a : a = St(p, mods, r)
  OBVIOUS
<1>2. a.prev = p /\ a.mods = mods /\ a.seen = r
  BY <1>1 DEF St
<1>3. a.prev = q /\ a.mods = others /\ a.seen = u
  BY <1>1 DEF St
<1>4. QED
  BY <1>2, <1>3

LEMMA StDecoder ==
  ASSUME NEW p \in Prevs, NEW mods \in SUBSET Mods, NEW r \in Seq(Cells)
  PROVE  /\ St(p, mods, r) \in Decoders
         /\ St(p, mods, r).prev = p /\ St(p, mods, r).mods = mods
         /\ St(p, mods, r).seen = r /\ St(p, mods, r).wild = FALSE
BY DEF St, Decoders

(* What the reader has now it will still have.                             *)
LEMMA SeenStarts ==
  ASSUME Typed
  PROVE  Seen \in Seq(Cells) /\ Starts(read, Seen)
<1>1. PICK c \in Seq(Cells) : c = Contents(keyboard_queue)
  BY ContentsSeq DEF Typed
<1>2. c \o todo \in Seq(Cells) /\ read \in Seq(Cells)
  BY DEF Typed
<1>3. QED
  BY <1>1, <1>2, ShownStarts DEF Seen

LEMMA DecodingStarts ==
  ASSUME mode \in AllModes, NEW d \in Decoders, NEW s \in Seq(Codes)
  PROVE  /\ Folded(Decoder, d, s) \in Decoders
         /\ Starts(d.seen, Folded(Decoder, d, s).seen)
         /\ d.wild => Folded(Decoder, d, s).wild
<1> DEFINE T == {e \in Decoders : Starts(d.seen, e.seen) /\ (d.wild => e.wild)}
<1>0. d.seen \in Seq(Cells)
  BY DEF Decoders
<1>1. d \in T
  BY <1>0, StartsSelf
<1>2. ASSUME NEW e \in T, NEW code \in Codes
      PROVE  Decoder[e][code] \in T
  <2>1. e \in Decoders /\ Starts(d.seen, e.seen) /\ (d.wild => e.wild) /\ e.seen \in Seq(Cells)
    BY DEF Decoders
  <2>2. PICK f : f = Decoder[e][code]
    OBVIOUS
  <2>3. f \in Decoders /\ Starts(e.seen, f.seen)
    BY <2>1, <2>2, DecoderOK
  <2>4. f.seen \in Seq(Cells)
    BY <2>3 DEF Decoders
  <2>5. Starts(d.seen, f.seen)
    BY <1>0, <2>1, <2>3, <2>4, StartsTrans
  <2>6. e.wild => f.wild
    <3>1. f = IF code = 250 THEN e ELSE After(e, code)
      BY <2>1, <2>2, DecoderOK
    <3>2. CASE code = 250
      BY <3>1, <3>2
    <3>3. CASE code # 250
      <4>1. After(e, code).wild = (e.wild \/ Wild(scancode_to_keycode(e.prev, code).keycode,
                                       sync_modifiers(e.mods, scancode_to_keycode(e.prev, code).keycode)))
        BY DEF After
      <4>2. QED
        BY <3>1, <3>3, <4>1
    <3>4. QED
      BY <3>2, <3>3
  <2>7. QED
    BY <2>1, <2>2, <2>3, <2>5, <2>6
<1>3. Folded(Decoder, d, s) \in T
  <2> HIDE DEF T
  <2>1. \A e \in T : \A code \in Codes : Decoder[e][code] \in T
    BY <1>2
  <2>2. QED
    BY <1>1, <2>1, FoldedStays
<1>4. QED
  BY <1>3

LEMMA Kept ==
  ASSUME Control, Typed, Progress
  PROVE  Promise
<1>1. mode \in AllModes
  BY ModeKnown
<1>2. PICK d \in Decoders : d = St(prev_scancode, modifiers, Seen) /\ d.seen = Seen
  <2>1. prev_scancode \in Prevs /\ modifiers \in SUBSET Mods /\ Seen \in Seq(Cells)
    BY SeenStarts DEF Typed
  <2>2. St(prev_scancode, modifiers, Seen) \in Decoders /\ St(prev_scancode, modifiers, Seen).seen = Seen
    BY <2>1, StDecoder, Zenon
  <2>3. QED
    BY <2>2, Zenon
<1>3. PICK e : e = St(0, Kinds(held), meant)
  OBVIOUS
<1>4. e.seen = meant
  BY <1>3 DEF St
<1>5. Folded(Decoder, d, port) = e
  BY <1>2, <1>3 DEF Progress
<1>6. ASSUME port = <<>>
      PROVE  modifiers = Kinds(held) /\ prev_scancode = 0
  <2>1. Folded(Decoder, d, port) = d
    BY <1>6, FoldedEmpty
  <2>2. St(prev_scancode, modifiers, Seen) = St(0, Kinds(held), meant)
    BY <1>2, <1>3, <1>5, <2>1
  <2>3. QED
    BY <2>2, StIs
<1>7. Starts(Seen, meant)
  BY <1>1, <1>2, <1>4, <1>5, DecodingStarts DEF Typed
<1>8. Starts(read, meant)
  <2>1. read \in Seq(Cells) /\ meant \in Seq(Cells) /\ Seen \in Seq(Cells) /\ Starts(read, Seen)
    BY SeenStarts DEF Typed
  <2>2. QED
    BY <1>7, <2>1, StartsTrans
<1>9. QED
  BY <1>6, <1>8 DEF Promise, ModifiersAreHeld, ReadInOrder, Starts

(* Nothing is pressed to begin with, and two commands are acknowledged.    *)
LEMMA InitK ==
  ASSUME Init
  PROVE  KInv
<1>1. Control
  BY DEF Init, Control, ISRStates
<1>2. PICK c \in Codes : c = 250
  BY DEF Codes
<1>3. PICK s : s = <<c, c>>
  OBVIOUS
<1>4. port = s /\ s \in Seq(Codes) /\ s # <<>> /\ Head(s) = c /\ Tail(s) = <<c>>
  BY <1>2, <1>3 DEF Init
<1>5. Typed
  <2>1. keyboard_queue \in CharQueues /\ 0 \in Prevs /\ <<>> \in Seq(Cells)
    BY EmptyQueue DEF Init, Prevs
  <2>2. QED
    BY <1>4, <2>1 DEF Init, Typed
<1>6. Seen = <<>>
  <2>1. Contents(keyboard_queue) \o todo = <<>>
    <3>1. Contents(keyboard_queue) = <<>> /\ todo = <<>>
      BY EmptyQueue DEF Init
    <3>2. QED
      BY <3>1
  <2>2. Shown(<<>>, <<>>) = <<>>
    BY FoldedEmpty DEF Shown
  <2>3. QED
    BY <2>1, <2>2 DEF Seen, Init
<1>7. PICK d \in Decoders : d = St(0, {}, <<>>)
  <2>1. 0 \in Prevs /\ {} \in SUBSET Mods /\ <<>> \in Seq(Cells)
    BY DEF Prevs
  <2>2. QED
    BY <2>1, StDecoder
<1>8. Decoder[d][c] = d
  BY <1>1, <1>2, ModeKnown, DecoderOK
<1>9. Folded(Decoder, d, s) = d
  <2>1. Folded(Decoder, d, s) = Folded(Decoder, d, <<c>>)
    <3>1. Folded(Decoder, d, s) = Folded(Decoder, Decoder[d][Head(s)], Tail(s))
      BY <1>4, FoldedFirst
    <3>2. QED
      BY <1>4, <1>8, <3>1, Zenon
  <2>2. QED
    BY <1>8, <2>1, FoldedOne
<1>10. Progress
  BY <1>4, <1>6, <1>7, <1>9, KindsAre DEF Init, Progress
<1>11. QED
  BY <1>1, <1>5, <1>10 DEF KInv, Init

(* The driver decodes alike as long as its mode stays.                     *)
LEMMA SameDecoder ==
  ASSUME mode' = mode
  PROVE  Decoder' = Decoder
BY DEF Decoder, After, Word, Wild

LEMMA PressStep ==
  ASSUME KInv, NEW k \in Keys, Press(k)
  PROVE  KInv'
<1>1. Control'
  BY DEF KInv, Control, Press, codeVars, isrVars
<1> SUFFICES ASSUME ~odd'
             PROVE  Typed' /\ (IF down THEN Promise ELSE Progress)'
  BY <1>1 DEF KInv
<1>2. ~odd /\ ~down /\ ~down' /\ Kid(Kinds(held \cup {k})) \in Maps
  BY DEF Press
<1>3. Control /\ Typed /\ Progress /\ mode \in AllModes /\ mode' = mode
  BY <1>2, ModeKnown DEF KInv, Press, codeVars
<1>4. k \in AllKeys
  BY KeyboardAssumption DEF AllKeys
<1>5. PICK keys : keys = held \cup {k}
  OBVIOUS
<1>6. Kinds(keys) = Kinds(held) \cup KindsOf(k) /\ Kinds(held) \in SUBSET Mods /\ Kid(Kinds(keys)) \in Maps
  BY <1>2, <1>5, KindsAre
<1>7. meant \in Seq(Cells) /\ port \in Seq(Codes)
  BY <1>3 DEF Typed
<1>8. PressOK(k, Kinds(held), meant, keys)
  BY <1>3, <1>4, <1>6, <1>7, KeyPressed
<1>9. PICK m : m = Make(k)
  OBVIOUS
<1>10. /\ m \in Seq(Codes) /\ meant' \in Seq(Cells) /\ port' = port \o m
       /\ Folded(Decoder, St(0, Kinds(held), meant), m) = St(0, Kinds(held) \cup KindsOf(k), meant')
  BY <1>5, <1>8, <1>9 DEF PressOK, Press
<1>11. Kinds(held') = Kinds(held) \cup KindsOf(k)
  <2>1. CASE k = "pause"
    BY <2>1 DEF Press, KindsOf
  <2>2. CASE k # "pause"
    BY <1>5, <1>6, <2>2 DEF Press
  <2>3. QED
    BY <2>1, <2>2
<1>12. Typed'
  <2>1. port' \in Seq(Codes)
    BY <1>7, <1>10
  <2>2. held' \subseteq AllKeys \ {"pause"}
    BY <1>3, <1>4 DEF Typed, Press
  <2>3. QED
    BY <1>3, <1>10, <2>1, <2>2 DEF Typed, Press, codeVars, isrVars, readVars
<1>13. Seen' = Seen
  BY DEF Seen, Press, isrVars, readVars
<1>14. Folded(Decoder, St(prev_scancode, modifiers, Seen), port \o m)
         = Folded(Decoder, Folded(Decoder, St(prev_scancode, modifiers, Seen), port), m)
  BY <1>7, <1>10, FoldedConcat
<1>15. Progress'
  <2>1. Decoder' = Decoder
    BY <1>3, SameDecoder
  <2>2. prev_scancode' = prev_scancode /\ modifiers' = modifiers
    BY DEF Press, codeVars
  <2>3. QED
    BY <1>3, <1>10, <1>11, <1>13, <1>14, <2>1, <2>2 DEF Progress, St
<1>16. QED
  BY <1>2, <1>12, <1>15

LEMMA ReleaseStep ==
  ASSUME KInv, NEW k \in Keys, Release(k)
  PROVE  KInv'
<1>1. Control'
  BY DEF KInv, Control, Release, codeVars, isrVars
<1> SUFFICES ASSUME ~odd'
             PROVE  Typed' /\ (IF down THEN Promise ELSE Progress)'
  BY <1>1 DEF KInv
<1>2. ~odd /\ ~down /\ ~down' /\ held' = held \ {k} /\ k \in held /\ Kinds({k}) \cap Kinds(held \ {k}) = {}
  BY DEF Release
<1>3. Control /\ Typed /\ Progress /\ mode \in AllModes /\ mode' = mode
  BY <1>2, ModeKnown DEF KInv, Release, codeVars
<1>4. k \in AllKeys /\ k # "pause"
  BY <1>2, <1>3 DEF Typed
<1>5. Kinds(held') = Kinds(held) \ KindsOf(k) /\ Kinds(held) \in SUBSET Mods
  BY <1>2, KindsAre, KindsLeft
<1>6. meant \in Seq(Cells) /\ port \in Seq(Codes)
  BY <1>3 DEF Typed
<1>7. ReleaseOK(k, Kinds(held), meant)
  BY <1>3, <1>4, <1>5, <1>6, KeyReleased
<1>8. PICK m : m = Break(k)
  OBVIOUS
<1>9. /\ m \in Seq(Codes) /\ meant' \in Seq(Cells) /\ port' = port \o m
      /\ Folded(Decoder, St(0, Kinds(held), meant), m) = St(0, Kinds(held) \ KindsOf(k), meant')
  BY <1>7, <1>8 DEF ReleaseOK, Release
<1>10. Typed'
  <2>1. port' \in Seq(Codes)
    BY <1>6, <1>9
  <2>2. QED
    BY <1>2, <1>3, <1>9, <2>1 DEF Typed, Release, codeVars, isrVars, readVars
<1>11. Seen' = Seen
  BY DEF Seen, Release, isrVars, readVars
<1>12. Folded(Decoder, St(prev_scancode, modifiers, Seen), port \o m)
         = Folded(Decoder, Folded(Decoder, St(prev_scancode, modifiers, Seen), port), m)
  BY <1>6, <1>9, FoldedConcat
<1>13. Progress'
  <2>1. Decoder' = Decoder
    BY <1>3, SameDecoder
  <2>2. prev_scancode' = prev_scancode /\ modifiers' = modifiers
    BY DEF Release, codeVars
  <2>3. QED
    BY <1>3, <1>5, <1>9, <1>11, <1>12, <2>1, <2>2 DEF Progress, St
<1>14. QED
  BY <1>2, <1>10, <1>13

(* The handler translates a scan code: what it will enqueue is what the    *)
(* driver makes of the code.                                               *)
LEMMA InterruptStep ==
  ASSUME KInv, NEW t \in {"shell", "idle"}, keyboard_isr(t)
  PROVE  KInv'
<1> DEFINE to == scancode_to_keycode(prev_scancode, Head(port))
           mods == sync_modifiers(modifiers, to.keycode)
<1>0. /\ ~down /\ isr = "none" /\ port # <<>> /\ port' = Tail(port) /\ mode' = mode
      /\ held' = held /\ meant' = meant /\ odd' = odd /\ read' = read
      /\ keyboard_queue' = keyboard_queue /\ down' = down
  BY DEF keyboard_isr, codeVars, readVars
<1>1. CASE Head(port) = 250
  <2>1. Control'
    BY <1>1 DEF KInv, Control, keyboard_isr, codeVars, isrVars
  <2> SUFFICES ASSUME ~odd'
               PROVE  Typed' /\ (IF down THEN Promise ELSE Progress)'
    BY <2>1 DEF KInv
  <2>2. Control /\ Typed /\ Progress /\ mode \in AllModes
    BY <1>0, ModeKnown DEF KInv
  <2>3. UNCHANGED <<codeVars, isrVars>>
    BY <1>1 DEF keyboard_isr
  <2>4. port \in Seq(Codes) /\ port' \in Seq(Codes)
    BY <1>0, <2>2, HeadTailProperties DEF Typed
  <2>5. Typed'
    BY <1>0, <2>2, <2>3, <2>4 DEF Typed, codeVars, isrVars
  <2>6. Seen' = Seen
    BY <1>0, <2>3 DEF Seen, isrVars
  <2>7. PICK d \in Decoders : d = St(prev_scancode, modifiers, Seen)
    <3>1. prev_scancode \in Prevs /\ modifiers \in SUBSET Mods /\ Seen \in Seq(Cells)
      BY <2>2, SeenStarts DEF Typed
    <3>2. St(prev_scancode, modifiers, Seen) \in Decoders
      BY <3>1, StDecoder, Zenon
    <3>3. QED
      BY <3>2
  <2>8. Folded(Decoder, d, port) = Folded(Decoder, Decoder[d][Head(port)], Tail(port))
    BY <1>0, <2>4, FoldedFirst
  <2>9. Decoder[d][Head(port)] = d
    <3>1. Head(port) \in Codes
      BY <1>1 DEF Codes
    <3>2. QED
      BY <1>1, <2>2, <3>1, DecoderOK
  <2>10. Progress'
    <3>1. Decoder' = Decoder
      BY <1>0, SameDecoder
    <3>2. Folded(Decoder, d, port') = St(0, Kinds(held), meant)
      BY <1>0, <2>2, <2>7, <2>8, <2>9 DEF Progress
    <3>3. QED
      BY <1>0, <2>3, <2>6, <2>7, <3>1, <3>2 DEF Progress, St, codeVars
  <2>11. QED
    BY <1>0, <2>5, <2>10
<1>2. CASE Head(port) # 250
  <2>0. /\ prev_scancode' = to.prev /\ modifiers' = mods
        /\ todo' \in Translated(Head(port), to.keycode, mods)
        /\ isr' = IF todo' = <<>> THEN "none" ELSE "lock"
    BY <1>2 DEF keyboard_isr
  <2>1. Control'
    BY <1>0, <2>0 DEF KInv, Control, ISRStates
  <2> SUFFICES ASSUME ~odd'
               PROVE  Typed' /\ (IF down THEN Promise ELSE Progress)'
    BY <2>1 DEF KInv
  <2>2. Control /\ Typed /\ Progress /\ mode \in AllModes /\ todo = <<>>
    BY <1>0, ModeKnown DEF KInv, Control
  <2>3. PICK code \in Codes : code = Head(port)
    <3>1. Head(port) \in Codes
      BY <1>0, <2>2, HeadTailProperties DEF Typed
    <3>2. QED
      BY <3>1
  <2>4. port \in Seq(Codes) /\ port' \in Seq(Codes)
    BY <1>0, <2>2, HeadTailProperties DEF Typed
  <2>5. PICK keycode \in -1 .. 255 : keycode = to.keycode
    BY <2>2, <2>3, CodeOK DEF Typed
  <2>6. to.prev \in Prevs
    BY <2>2, <2>3, CodeOK DEF Typed
  <2>7. PICK after \in SUBSET Mods : after = sync_modifiers(modifiers, keycode)
    <3>1. modifiers \in SUBSET Mods
      BY <2>2 DEF Typed
    <3>2. QED
      BY <3>1, Synced
  <2>8. PICK w \in Seq(Cells) : w = Word(code, keycode, after)
    BY <2>2, WordOK
  <2>9. PICK c \in Seq(Cells) : c = Contents(keyboard_queue)
    BY <2>2, ContentsSeq DEF Typed
  <2>10. Seen = Shown(read, c)
    <3>1. c \o todo = c
      BY <2>2
    <3>2. QED
      BY <2>9, <3>1 DEF Seen
  <2>11. PICK d \in Decoders : d = St(prev_scancode, modifiers, Seen)
    <3>1. prev_scancode \in Prevs /\ modifiers \in SUBSET Mods /\ Seen \in Seq(Cells)
      BY <2>2, SeenStarts DEF Typed
    <3>2. St(prev_scancode, modifiers, Seen) \in Decoders
      BY <3>1, StDecoder, Zenon
    <3>3. QED
      BY <3>2
  <2>12. d.prev = prev_scancode /\ d.mods = modifiers /\ d.seen = Seen /\ d.wild = FALSE
    BY <2>11 DEF St
  <2>13. PICK e \in Decoders : e = Decoder[d][code]
    BY <2>2, DecoderOK
  <2>14. Folded(Decoder, d, port) = Folded(Decoder, e, port')
    <3>1. Folded(Decoder, d, port) = Folded(Decoder, Decoder[d][Head(port)], Tail(port))
      BY <1>0, <2>4, FoldedFirst
    <3>2. QED
      BY <1>0, <2>3, <2>13, <3>1
  <2>15. Folded(Decoder, e, port') = St(0, Kinds(held), meant)
    BY <2>2, <2>11, <2>14 DEF Progress
  <2>16. e = [prev |-> to.prev, mods |-> after, seen |-> Shown(Seen, w), wild |-> Wild(keycode, after)]
    <3>1. e = After(d, code)
      BY <1>2, <2>2, <2>3, <2>13, DecoderOK
    <3>2. After(d, code) = [prev |-> to.prev, mods |-> after, seen |-> Shown(Seen, w),
                            wild |-> FALSE \/ Wild(keycode, after)]
      BY <2>3, <2>5, <2>7, <2>8, <2>12 DEF After
    <3>3. (FALSE \/ Wild(keycode, after)) = Wild(keycode, after)
      BY DEF Wild
    <3>4. QED
      BY <3>1, <3>2, <3>3
  <2>17. ~Wild(keycode, after)
    <3>1. e.wild => Folded(Decoder, e, port').wild
      BY <2>2, <2>4, DecodingStarts
    <3>2. Folded(Decoder, e, port').wild = FALSE
      BY <2>15 DEF St
    <3>3. ~e.wild
      BY <3>1, <3>2
    <3>4. e.wild = Wild(keycode, after)
      BY <2>16
    <3>5. QED
      BY <3>3, <3>4
  <2>18. todo' = w
    <3>1. Translated(code, keycode, after) = {w}
      BY <2>2, <2>8, <2>17, WordOK
    <3>2. todo' \in Translated(code, keycode, after)
      BY <2>0, <2>3, <2>5, <2>7
    <3>3. QED
      BY <3>1, <3>2
  <2>19. Typed'
    <3>1. prev_scancode' \in Prevs /\ modifiers' \in SUBSET Mods
      BY <2>0, <2>5, <2>6, <2>7
    <3>2. QED
      BY <1>0, <2>2, <2>4, <2>18, <3>1 DEF Typed
  <2>20. Seen' = Shown(Seen, w)
    <3>1. Folded(Reading, read, c \o w) = Folded(Reading, Folded(Reading, read, c), w)
      BY FoldedConcat
    <3>2. Shown(read, c \o w) = Shown(Seen, w)
      BY <2>10, <3>1 DEF Shown
    <3>3. QED
      BY <1>0, <2>9, <2>18, <3>2 DEF Seen
  <2>21. Progress'
    <3>1. Decoder' = Decoder
      BY <1>0, SameDecoder
    <3>2. e = St(prev_scancode', modifiers', Seen')
      <4>1. Wild(keycode, after) = FALSE
        BY <2>17 DEF Wild
      <4>2. QED
        BY <2>0, <2>5, <2>7, <2>16, <2>20, <4>1 DEF St
    <3>3. Folded(Decoder, St(prev_scancode', modifiers', Seen'), port') = St(0, Kinds(held), meant)
      BY <2>15, <3>2
    <3>4. QED
      BY <1>0, <3>1, <3>3 DEF Progress, St
  <2>22. QED
    BY <1>0, <2>19, <2>21
<1>3. QED
  BY <1>1, <1>2

(* A step of the handler or of the reader moves characters along.          *)
LEMMA Moved ==
  ASSUME KInv, ~down, Control', UNCHANGED <<keyVars, codeVars>>,
         ~odd /\ Typed => Typed' /\ (down' => read' = read) /\ (~down' => Seen' = Seen)
  PROVE  KInv'
<1>1. /\ port' = port /\ held' = held /\ meant' = meant /\ odd' = odd
      /\ mode' = mode /\ prev_scancode' = prev_scancode /\ modifiers' = modifiers
  BY DEF keyVars, codeVars
<1> SUFFICES ASSUME ~odd'
             PROVE  Typed' /\ (IF down THEN Promise ELSE Progress)'
  BY DEF KInv
<1>2. ~odd /\ Control /\ Typed /\ Progress
  BY <1>1 DEF KInv
<1>3. Typed' /\ (down' => read' = read) /\ (~down' => Seen' = Seen)
  BY <1>2
<1>4. CASE down'
  <2>1. Promise
    BY <1>2, Kept
  <2>2. Promise'
    BY <1>1, <1>3, <1>4, <2>1 DEF Promise, ModifiersAreHeld, ReadInOrder
  <2>3. QED
    BY <1>3, <1>4, <2>2
<1>5. CASE ~down'
  <2>1. Decoder' = Decoder
    BY <1>1, SameDecoder
  <2>2. Progress'
    BY <1>1, <1>2, <1>3, <1>5, <2>1 DEF Progress, St
  <2>3. QED
    BY <1>3, <1>5, <2>2
<1>6. QED
  BY <1>4, <1>5

LEMMA HandlerStep ==
  ASSUME KInv, ISR
  PROVE  KInv'
<1>0. ~down /\ keyboard_enqueue /\ UNCHANGED <<keyVars, codeVars>> /\ mode' = mode
  BY DEF ISR, codeVars
<1>1. ASSUME todo' = todo, read' = read, keyboard_queue' = keyboard_queue, ~odd /\ Typed
      PROVE  Typed' /\ Seen' = Seen
  BY <1>0, <1>1 DEF Typed, Seen, keyVars, codeVars
<1>2. CASE isr = "lock" /\ keyboard_enqueue
  <2>1. todo' = todo /\ read' = read /\ keyboard_queue' = keyboard_queue /\ isr' \in {"enqueue", "block"}
    BY <1>2 DEF keyboard_enqueue, readVars
  <2>2. Control'
    BY <1>0, <1>2, <2>1 DEF KInv, Control, ISRStates
  <2>3. QED
    BY <1>0, <1>1, <2>1, <2>2, Moved
<1>3. CASE isr = "block" /\ keyboard_enqueue
  <2>1. todo' = todo /\ read' = read /\ keyboard_queue' = keyboard_queue /\ isr' = "asleep"
    BY <1>3 DEF keyboard_enqueue, readVars
  <2>2. Control'
    BY <1>0, <1>3, <2>1 DEF KInv, Control, ISRStates
  <2>3. QED
    BY <1>0, <1>1, <2>1, <2>2, Moved
<1>4. CASE isr = "enqueue" /\ keyboard_enqueue
  <2>1. /\ down' = Overflows(keyboard_queue, 1) /\ read' = read
        /\ keyboard_queue' = IF down' THEN keyboard_queue ELSE Enqueued(keyboard_queue, <<Head(todo)>>)
        /\ isr' = "broadcast" /\ todo' = Tail(todo)
    BY <1>4 DEF keyboard_enqueue, readVars
  <2>2. Control'
    BY <1>0, <2>1 DEF KInv, Control, ISRStates
  <2>3. ASSUME ~odd, Typed
        PROVE  Typed' /\ (~down' => Seen' = Seen)
    <3>1. todo \in Seq(Cells) /\ todo # <<>> /\ keyboard_queue \in CharQueues
      BY <1>4, <2>3 DEF KInv, Control, Typed
    <3>2. PICK h \in Cells : h = Head(todo)
      BY <3>1, HeadTailProperties
    <3>3. PICK t \in Seq(Cells) : t = Tail(todo)
      BY <3>1, HeadTailProperties
    <3>4. PICK s : s = <<h>>
      OBVIOUS
    <3>5. s \in Seq(Cells) /\ Len(s) = 1 /\ todo = s \o t
      BY <3>1, <3>2, <3>3, <3>4
    <3>6. PICK c \in Seq(Cells) : c = Contents(keyboard_queue)
      BY <3>1, ContentsSeq
    <3>7. CASE down'
      BY <1>0, <2>1, <2>3, <3>3, <3>7 DEF Typed, keyVars, codeVars
    <3>8. CASE ~down'
      <4>1. Size(keyboard_queue) + Len(s) < SIZE
        <5>1. Size(keyboard_queue) \in Int /\ SIZE \in Int
          BY <3>1, SizeBounds, CharQueueAssumption DEF Index
        <5>2. ~Overflows(keyboard_queue, 1)
          BY <2>1, <3>8
        <5>3. ~(Size(keyboard_queue) + 1 >= SIZE)
          BY <5>2 DEF Overflows
        <5>4. QED
          BY <3>5, <5>1, <5>3
      <4>2. keyboard_queue' = Enqueued(keyboard_queue, s)
        BY <2>1, <3>2, <3>4, <3>8
      <4>3. keyboard_queue' \in CharQueues /\ Contents(keyboard_queue') = c \o s
        BY <3>1, <3>5, <3>6, <4>1, <4>2, EnqueuedOK
      <4>4. (c \o s) \o t = c \o (s \o t)
        BY <3>5
      <4>5. Seen' = Seen
        BY <2>1, <3>3, <3>5, <3>6, <4>3, <4>4 DEF Seen
      <4>6. Typed'
        BY <1>0, <2>1, <2>3, <3>3, <4>3 DEF Typed, keyVars, codeVars
      <4>7. QED
        BY <4>5, <4>6
    <3>9. QED
      BY <3>7, <3>8
  <2>4. QED
    BY <1>0, <2>1, <2>2, <2>3, Moved
<1>5. CASE isr = "broadcast" /\ keyboard_enqueue
  <2>1. todo' = todo /\ read' = read /\ keyboard_queue' = keyboard_queue /\ isr' = "unlock"
    BY <1>5 DEF keyboard_enqueue
  <2>2. Control'
    BY <1>0, <1>5, <2>1 DEF KInv, Control, ISRStates
  <2>3. QED
    BY <1>0, <1>1, <2>1, <2>2, Moved
<1>6. CASE isr = "unlock" /\ keyboard_enqueue
  <2>1. todo' = todo /\ read' = read /\ keyboard_queue' = keyboard_queue
        /\ isr' = IF todo = <<>> THEN "none" ELSE "lock"
    BY <1>6 DEF keyboard_enqueue, Unlock
  <2>2. Control'
    BY <1>0, <1>6, <2>1 DEF KInv, Control, ISRStates
  <2>3. QED
    BY <1>0, <1>1, <2>1, <2>2, Moved
<1>7. QED
  BY <1>0, <1>2, <1>3, <1>4, <1>5, <1>6 DEF keyboard_enqueue

LEMMA ReaderStep ==
  ASSUME KInv, Reader
  PROVE  KInv'
<1>0. ~down /\ keyboard_read /\ UNCHANGED <<keyVars, codeVars>> /\ mode' = mode
  BY DEF Reader, codeVars
<1>1. CASE reader = "test" /\ ~Empty(keyboard_queue) /\ keyboard_read
  <2>1. /\ read' = IF Oldest(keyboard_queue) = NUL THEN read ELSE Append(read, Oldest(keyboard_queue))
        /\ keyboard_queue' = Dequeued(keyboard_queue)
        /\ isr' = isr /\ todo' = todo /\ down' = down
    BY <1>1 DEF keyboard_read, isrVars
  <2>2. Control'
    BY <1>0, <2>1 DEF KInv, Control
  <2>3. ASSUME ~odd, Typed
        PROVE  Typed' /\ Seen' = Seen
    <3>1. todo \in Seq(Cells) /\ read \in Seq(Cells) /\ keyboard_queue \in CharQueues
      BY <2>3 DEF Typed
    <3>2. PICK c \in Seq(Cells) : c = Contents(keyboard_queue)
      BY <3>1, ContentsSeq
    <3>3. PICK x \in Cells : x = Oldest(keyboard_queue)
      BY <1>1, <3>1, DequeuedOK
    <3>4. /\ c # <<>> /\ x = Head(c)
          /\ keyboard_queue' \in CharQueues /\ Contents(keyboard_queue') = Tail(c)
      BY <1>1, <2>1, <3>1, <3>2, <3>3, DequeuedOK
    <3>5. read' = Reading[read][x] /\ read' \in Seq(Cells)
      BY <2>1, <3>1, <3>3, ReadingOne
    <3>6. PICK s \in Seq(Cells) : s = c \o todo
      <4>1. c \o todo \in Seq(Cells)
        BY <3>1, ConcatProperties
      <4>2. QED
        BY <4>1
    <3>7. s # <<>> /\ Head(s) = x /\ Tail(s) = Tail(c) \o todo
      <4>1. PICK a \in Seq(Cells) : a = <<x>>
        <5>1. <<x>> \in Seq(Cells)
          OBVIOUS
        <5>2. QED
          BY <5>1
      <4>2. PICK u \in Seq(Cells) : u = Tail(c)
        BY <3>4, HeadTailProperties
      <4>3. c = a \o u
        BY <3>4, <4>1, <4>2
      <4>4. PICK v \in Seq(Cells) : v = u \o todo
        <5>1. u \o todo \in Seq(Cells)
          BY <3>1, ConcatProperties
        <5>2. QED
          BY <5>1
      <4>5. s = a \o v
        BY <3>1, <3>6, <4>3, <4>4
      <4>6. s # <<>> /\ Head(s) = x /\ Tail(s) = v
        BY <4>1, <4>5
      <4>7. QED
        BY <4>2, <4>4, <4>6
    <3>8. Folded(Reading, read, s) = Folded(Reading, Reading[read][Head(s)], Tail(s))
      BY <3>7, FoldedFirst
    <3>9. Seen' = Seen
      BY <2>1, <3>2, <3>4, <3>5, <3>6, <3>7, <3>8 DEF Seen, Shown
    <3>10. Typed'
      BY <1>0, <2>1, <2>3, <3>4, <3>5 DEF Typed, keyVars, codeVars
    <3>11. QED
      BY <3>9, <3>10
  <2>4. QED
    BY <1>0, <2>1, <2>2, <2>3, Moved
<1>2. CASE ~(reader = "test" /\ ~Empty(keyboard_queue)) /\ keyboard_read
  <2>1. /\ todo' = todo /\ read' = read /\ keyboard_queue' = keyboard_queue
        /\ (isr' = isr \/ (isr = "asleep" /\ isr' = "lock"))
    <3>1. ASSUME UNCHANGED <<isrVars, read, keyboard_queue>>
          PROVE  /\ todo' = todo /\ read' = read /\ keyboard_queue' = keyboard_queue
                 /\ (isr' = isr \/ (isr = "asleep" /\ isr' = "lock"))
      BY <3>1 DEF isrVars
    <3>2. ASSUME NEW r, Unlock(isr, r), UNCHANGED <<host, todo, read, keyboard_queue>>
          PROVE  /\ todo' = todo /\ read' = read /\ keyboard_queue' = keyboard_queue
                 /\ (isr' = isr \/ (isr = "asleep" /\ isr' = "lock"))
      <4>1. todo' = todo /\ read' = read /\ keyboard_queue' = keyboard_queue
        BY <3>2
      <4>2. isr' = IF isr = "asleep" THEN "lock" ELSE isr
        BY <3>2 DEF Unlock
      <4>3. QED
        BY <4>1, <4>2
    <3>3. \/ UNCHANGED <<isrVars, read, keyboard_queue>>
          \/ \E r : Unlock(isr, r) /\ UNCHANGED <<host, todo, read, keyboard_queue>>
      BY <1>2 DEF keyboard_read
    <3>4. QED
      BY <3>1, <3>2, <3>3
  <2>2. Control'
    BY <1>0, <2>1 DEF KInv, Control, ISRStates
  <2>3. ASSUME ~odd, Typed
        PROVE  Typed' /\ Seen' = Seen
    BY <1>0, <2>1, <2>3 DEF Typed, Seen, keyVars, codeVars
  <2>4. QED
    BY <1>0, <2>1, <2>2, <2>3, Moved
<1>3. QED
  BY <1>0, <1>1, <1>2

-----------------------------------------------------------------------------
LEMMA NextK ==
  ASSUME KInv, [Next]_vars
  PROVE  KInv'
<1>1. ASSUME NEW k \in Keys, Press(k)
      PROVE  KInv'
  BY <1>1, PressStep
<1>2. ASSUME NEW k \in Keys, Release(k)
      PROVE  KInv'
  BY <1>2, ReleaseStep
<1>3. CASE Interrupt
  BY <1>3, InterruptStep DEF Interrupt
<1>4. CASE ISR
  BY <1>4, HandlerStep
<1>5. CASE Reader
  BY <1>5, ReaderStep
<1>6. CASE UNCHANGED vars
  <2>1. UNCHANGED <<keyVars, codeVars, isrVars, readVars, keyboard_queue, down>>
    BY <1>6 DEF vars
  <2>2. /\ port' = port /\ held' = held /\ meant' = meant /\ odd' = odd
        /\ mode' = mode /\ prev_scancode' = prev_scancode /\ modifiers' = modifiers
        /\ isr' = isr /\ todo' = todo /\ read' = read /\ keyboard_queue' = keyboard_queue /\ down' = down
    BY <2>1 DEF keyVars, codeVars, isrVars, readVars
  <2>3. Control'
    BY <2>2 DEF KInv, Control
  <2>4. Decoder' = Decoder
    BY <2>2, SameDecoder
  <2>5. Typed => Typed'
    BY <2>2 DEF Typed
  <2>6. Progress => Progress'
    BY <2>2, <2>4 DEF Progress, St, Seen
  <2>7. Promise => Promise'
    BY <2>2 DEF Promise, ModifiersAreHeld, ReadInOrder
  <2>8. QED
    BY <2>2, <2>3, <2>5, <2>6, <2>7 DEF KInv
<1>7. QED
  BY <1>1, <1>2, <1>3, <1>4, <1>5, <1>6 DEF Next

LEMMA KPromise ==
  ASSUME KInv
  PROVE  Promise
<1>1. CASE odd
  BY <1>1 DEF Promise, ModifiersAreHeld, ReadInOrder
<1>2. CASE ~odd
  BY <1>2, Kept DEF KInv
<1>3. QED
  BY <1>1, <1>2

(* keyboard.c: however presses, releases, interrupts and the two users of  *)
(* the queue interleave, once the scan codes have been handled the         *)
(* modifiers are those of the keys that are down, and no prefix is         *)
(* pending, unless keys were held that the driver mistakes (odd).          *)
THEOREM SpecModifiers == Spec => []ModifiersAreHeld
<1>1. KInv => ModifiersAreHeld
  BY KPromise DEF Promise
<1>2. Init => KInv
  BY InitK
<1>3. KInv /\ [Next]_vars => KInv'
  BY NextK
<1>4. QED
  BY <1>1, <1>2, <1>3, PTL DEF Spec

(* keyboard.c, keyboard_enqueue, keyboard_read: the reader gets what the   *)
(* keys mean, each character once and in order, for any number of keys     *)
(* pressed in any of the three modes, and also when the handler waits for  *)
(* the mutex, the queue wraps around, or the system stops.                 *)
THEOREM SpecReadInOrder == Spec => []ReadInOrder
<1>1. KInv => ReadInOrder
  BY KPromise DEF Promise
<1>2. Init => KInv
  BY InitK
<1>3. KInv /\ [Next]_vars => KInv'
  BY NextK
<1>4. QED
  BY <1>1, <1>2, <1>3, PTL DEF Spec
===============================================================================
