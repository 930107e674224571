---------------------------- MODULE WfbLinkProofs ----------------------------
(***************************************************************************)
(* The link, for every FEC code and every ring size.  The ring: whatever   *)
(* arrives, in whatever order, its blocks stay consecutive, none of them   *)
(* has k fragments, and no assert of the code fails.  The stream: what is  *)
(* passed on is what was sent, in order and at most once, nothing that was *)
(* stored is dropped, and k fragments of a block give all of it.           *)
(***************************************************************************)
EXTENDS WfbLink, FiniteSetTheorems, WellFoundedInduction, TLAPS

AggFields == {"key", "epoch", "front", "alloc", "known", "ring", "out", "failed"}
SlotFields == {"block", "toSend", "has", "frag"}

Present(s) == {f \in DOMAIN s.frag : s.frag[f] # None}

SlotShape(s) ==
  /\ DOMAIN s = SlotFields
  /\ s.block \in Int /\ s.has \in Nat /\ s.toSend \in 0 .. FecK
  /\ DOMAIN s.frag = 0 .. FecN - 1

RingShape(a) ==
  /\ DOMAIN a = AggFields
  /\ DOMAIN a.ring = Slot /\ \A i \in Slot : SlotShape(a.ring[i])
  /\ a.front \in Slot /\ a.alloc \in 0 .. RingSize /\ a.known \in Int

\* The slot c places from the front.
At(a, c) == a.ring[ModN(a.front + c)]

\* A block that is still collecting: its counter is right, it is not complete
\* and not all of it has been passed on.
Collecting(s) ==
  s.has = Cardinality(Present(s)) /\ s.has < FecK /\ s.toSend < FecK

\* The inductive invariant of the Aggregator.
Consistent(a) ==
  /\ RingShape(a) /\ a.failed = FALSE
  /\ a.known = NoBlock => a.alloc = 0
  /\ \A c \in 0 .. a.alloc - 1 :
       Collecting(At(a, c)) /\ At(a, c).block = a.known - (a.alloc - 1 - c)

-----------------------------------------------------------------------------
(***************************************************************************)
(* Places in the ring.                                                     *)
(***************************************************************************)
LEMMA Parameters ==
  /\ FecK \in Nat /\ FecK > 0 /\ FecN \in Nat /\ FecK <= FecN
  /\ RingSize \in Nat /\ RingSize > 0
BY FecAssumption, RingAssumption

\* The remainder of a number that is less than two rings away.
LEMMA ModIs ==
  ASSUME NEW x \in Int, - RingSize <= x, x < 2 * RingSize
  PROVE  ModN(x) = IF x < 0 THEN x + RingSize
                   ELSE IF x < RingSize THEN x ELSE x - RingSize
<1> DEFINE q == x \div RingSize
           r == x % RingSize
<1>1. RingSize \in Nat \ {0}
  BY RingAssumption
<1>2. r \in 0 .. RingSize - 1 /\ q \in Int
  BY <1>1
<1>3. x = RingSize * q + r
  BY <1>1
<1>4. ModN(x) = r
  BY DEF ModN
<1> HIDE DEF q, r
<1>5. CASE q >= 2
  <2>1. RingSize * q >= RingSize * 2
    BY <1>1, <1>2, <1>5
  <2> QED
    BY <2>1, <1>1, <1>2, <1>3
<1>6. CASE q <= -2
  <2>1. RingSize * q <= RingSize * (-2)
    BY <1>1, <1>2, <1>6
  <2> QED
    BY <2>1, <1>1, <1>2, <1>3
<1>7. CASE q = 1
  BY <1>1, <1>2, <1>3, <1>4, <1>7
<1>8. CASE q = 0
  BY <1>1, <1>2, <1>3, <1>4, <1>8
<1>9. CASE q = -1
  BY <1>1, <1>2, <1>3, <1>4, <1>9
<1> QED
  BY <1>2, <1>5, <1>6, <1>7, <1>8, <1>9

\* The places counted from p: all different, and counted on from any of them.
LEMMA Places ==
  ASSUME NEW p \in Slot
  PROVE  /\ p \in Int /\ ModN(p) = p
         /\ \A c \in 0 .. RingSize : ModN(p + c) \in Slot
         /\ \A c, d \in 0 .. RingSize - 1 : ModN(p + c) = ModN(p + d) => c = d
         /\ \A c, d \in 0 .. RingSize : c + d <= RingSize =>
              ModN(ModN(p + c) + d) = ModN(p + (c + d))
         /\ \A c \in 0 .. RingSize - 1 : ModN(ModN(p + c) - p) = c
<1>1. RingSize \in Nat /\ RingSize > 0 /\ p \in 0 .. RingSize - 1
  BY Parameters DEF Slot
<1>2. \A x \in Int : - RingSize <= x /\ x < 2 * RingSize =>
        ModN(x) = IF x < 0 THEN x + RingSize
                  ELSE IF x < RingSize THEN x ELSE x - RingSize
  BY ModIs
<1>3. \A c \in 0 .. RingSize :
        ModN(p + c) = IF p + c < RingSize THEN p + c ELSE p + c - RingSize
  BY <1>1, <1>2
<1>4. p \in Int /\ ModN(p) = p
  BY <1>1, <1>2
<1>5. \A c \in 0 .. RingSize : ModN(p + c) \in Slot
  BY <1>1, <1>3 DEF Slot
<1>6. \A c, d \in 0 .. RingSize - 1 : ModN(p + c) = ModN(p + d) => c = d
  BY <1>1, <1>3
<1>7. ASSUME NEW c \in 0 .. RingSize, NEW d \in 0 .. RingSize, c + d <= RingSize
      PROVE  ModN(ModN(p + c) + d) = ModN(p + (c + d))
  <2>1. CASE p + c < RingSize
    <3>1. ModN(p + c) + d = p + (c + d)
      BY <1>1, <1>3, <2>1
    <3> QED
      BY <3>1
  <2>2. CASE p + c >= RingSize
    <3>1. ModN(p + c) = p + c - RingSize
      BY <1>1, <1>3, <2>2
    <3> DEFINE e == c + d
               x == ModN(p + c) + d
    <3>2. e \in 0 .. RingSize /\ ~(p + e < RingSize)
      BY <1>1, <1>7, <2>2
    <3>3. x = p + e - RingSize /\ x \in Int /\ 0 <= x /\ x < RingSize
      BY <1>1, <1>7, <2>2, <3>1
    <3>4. ModN(x) = x
      <4> HIDE DEF x
      <4> QED
        BY <1>1, <1>2, <3>3
    <3>5. ModN(p + e) = p + e - RingSize
      <4> HIDE DEF e
      <4> QED
        BY <1>3, <3>2
    <3> QED
      BY <3>3, <3>4, <3>5
  <2> QED
    BY <1>1, <2>1, <2>2
<1>8. ASSUME NEW c \in 0 .. RingSize - 1
      PROVE  ModN(ModN(p + c) - p) = c
  <2>1. CASE p + c < RingSize
    <3>1. ModN(p + c) - p = c
      BY <1>1, <1>3, <2>1
    <3> QED
      BY <1>1, <1>2, <3>1
  <2>2. CASE p + c >= RingSize
    <3>1. ModN(p + c) - p = c - RingSize
      BY <1>1, <1>3, <2>2
    <3> QED
      BY <1>1, <1>2, <3>1
  <2> QED
    BY <1>1, <2>1, <2>2
<1> QED
  BY <1>4, <1>5, <1>6, <1>7, <1>8

-----------------------------------------------------------------------------
(***************************************************************************)
(* The steps of the Aggregator, and what each leaves of the ring.          *)
(***************************************************************************)
LEMMA EmptyCollects ==
  ASSUME NEW b \in Int
  PROVE  SlotShape(EmptySlot(b)) /\ Collecting(EmptySlot(b)) /\ EmptySlot(b).block = b
<1>1. Present(EmptySlot(b)) = {}
  BY DEF Present, EmptySlot, None
<1>2. SlotShape(EmptySlot(b)) /\ EmptySlot(b).block = b
  BY Parameters DEF SlotShape, SlotFields, EmptySlot
<1>3. EmptySlot(b).has = 0 /\ EmptySlot(b).toSend = 0
  BY DEF EmptySlot
<1> QED
  BY <1>1, <1>2, <1>3, Parameters, FS_EmptySet DEF Collecting

\* What FlushFront leaves.
LEMMA FlushKeeps ==
  ASSUME NEW a, RingShape(a)
  PROVE  LET r == FlushFront(a)
         IN /\ DOMAIN r = AggFields
            /\ r.ring = a.ring /\ r.known = a.known /\ r.failed = a.failed
            /\ r.alloc = a.alloc /\ r.front = ModN(a.front + 1)
            /\ r.key = a.key /\ r.epoch = a.epoch
            /\ r.out = SendThere(a.out, a.ring[a.front], FecK)
BY DEF FlushFront, RingShape, AggFields

\* A push keeps the newest blocks in their order and adds an empty one.
LEMMA PushKeeps ==
  ASSUME NEW a, RingShape(a), NEW b \in Int
  PROVE  LET r == PushBlock(a, b)
             full == a.alloc = RingSize
         IN /\ RingShape(r) /\ r.known = a.known /\ r.failed = a.failed
            /\ r.key = a.key /\ r.epoch = a.epoch
            /\ r.out = IF full THEN SendThere(a.out, a.ring[a.front], FecK) ELSE a.out
            /\ r.alloc = IF full THEN RingSize ELSE a.alloc + 1
            /\ At(r, r.alloc - 1) = EmptySlot(b)
            /\ \A c \in 0 .. r.alloc - 2 :
                 At(r, c) = At(a, IF full THEN c + 1 ELSE c)
<1> DEFINE r == PushBlock(a, b)
           p == RxRingPush(a)
           n == Newest(p)
           full == a.alloc = RingSize
<1>1. /\ RingSize \in Nat /\ RingSize > 0
      /\ a.front \in Slot /\ a.alloc \in 0 .. RingSize /\ a.known \in Int
      /\ DOMAIN a = AggFields /\ DOMAIN a.ring = Slot
      /\ \A i \in Slot : SlotShape(a.ring[i])
  BY Parameters DEF RingShape
<1>2. /\ DOMAIN p = AggFields /\ p.ring = a.ring /\ p.known = a.known
      /\ p.failed = a.failed /\ p.key = a.key /\ p.epoch = a.epoch
      /\ p.out = IF full THEN SendThere(a.out, a.ring[a.front], FecK) ELSE a.out
      /\ p.alloc = IF full THEN RingSize ELSE a.alloc + 1
      /\ p.front = IF full THEN ModN(a.front + 1) ELSE a.front
  <2>1. CASE full
    BY <1>1, <2>1, FlushKeeps DEF RxRingPush
  <2>2. CASE ~full
    BY <1>1, <2>2 DEF RxRingPush, AggFields
  <2> QED
    BY <2>1, <2>2
<1> HIDE DEF p, full
<1>3. p.front \in Slot /\ p.alloc \in 1 .. RingSize
  <2>1. 1 \in 0 .. RingSize
    BY <1>1
  <2>2. ModN(a.front + 1) \in Slot
    BY <1>1, <2>1, Places
  <2> QED
    BY <1>1, <1>2, <2>2 DEF full
<1>4. n = ModN(p.front + (p.alloc - 1)) /\ n \in Slot
  <2>1. p.front \in Int
    BY <1>3, Places
  <2>2. p.front + p.alloc - 1 = p.front + (p.alloc - 1)
    BY <1>1, <1>3, <2>1
  <2>3. p.alloc - 1 \in 0 .. RingSize
    BY <1>1, <1>3
  <2> QED
    BY <1>3, <2>2, <2>3, Places DEF Newest
<1> HIDE DEF n
<1>5. r = [p EXCEPT !.ring[n] = EmptySlot(b)]
  BY DEF PushBlock, p, n
<1> HIDE DEF r
<1>6. /\ DOMAIN r = AggFields /\ r.known = p.known /\ r.failed = p.failed
      /\ r.alloc = p.alloc /\ r.front = p.front
      /\ r.key = p.key /\ r.epoch = p.epoch /\ r.out = p.out
      /\ r.ring = [p.ring EXCEPT ![n] = EmptySlot(b)]
  BY <1>2, <1>5 DEF AggFields
<1>7. /\ DOMAIN r.ring = Slot /\ r.ring[n] = EmptySlot(b)
      /\ \A i \in Slot : i # n => r.ring[i] = a.ring[i]
  BY <1>1, <1>2, <1>4, <1>6
<1>8. RingShape(r)
  <2>1. \A i \in Slot : SlotShape(r.ring[i])
    BY <1>1, <1>7, EmptyCollects
  <2> QED
    BY <1>1, <1>2, <1>3, <1>6, <1>7, <2>1 DEF RingShape
<1>9. At(r, r.alloc - 1) = EmptySlot(b)
  BY <1>4, <1>6, <1>7 DEF At
<1>10. ASSUME NEW c \in 0 .. r.alloc - 2
       PROVE  At(r, c) = At(a, IF full THEN c + 1 ELSE c)
  <2>1. /\ c \in 0 .. RingSize /\ c \in 0 .. RingSize - 1
        /\ p.alloc - 1 \in 0 .. RingSize - 1
        /\ c # p.alloc - 1
    BY <1>1, <1>3, <1>6
  <2>2. ModN(p.front + c) # n /\ ModN(p.front + c) \in Slot
    <3> DEFINE d == p.alloc - 1
    <3>1. d \in 0 .. RingSize - 1 /\ c # d /\ n = ModN(p.front + d)
      BY <1>4, <2>1
    <3> HIDE DEF d
    <3>2. ModN(p.front + c) = ModN(p.front + d) => c = d
      BY <1>3, <2>1, <3>1, Places
    <3>3. ModN(p.front + c) \in Slot
      BY <1>3, <2>1, Places
    <3> QED
      BY <3>1, <3>2, <3>3
  <2>3. At(r, c) = a.ring[ModN(p.front + c)]
    BY <1>6, <1>7, <2>2 DEF At
  <2>4. CASE full
    <3>1. 1 \in 0 .. RingSize /\ c \in 0 .. RingSize /\ 1 + c <= RingSize
      BY <1>1, <2>1, <1>3, <1>6
    <3>2. ModN(ModN(a.front + 1) + c) = ModN(a.front + (1 + c))
      BY <1>1, <3>1, Places
    <3>3. 1 + c = c + 1
      BY <2>1
    <3> QED
      BY <1>2, <2>3, <2>4, <3>2, <3>3 DEF At
  <2>5. CASE ~full
    BY <1>2, <2>3, <2>5 DEF At
  <2> QED
    BY <2>4, <2>5
<1> QED
  BY <1>2, <1>6, <1>8, <1>9, <1>10 DEF r, full

\* A non-empty set of naturals has a least element.
LEMMA LeastNatural ==
  ASSUME NEW T, T \subseteq Nat, T # {}
  PROVE  \E x \in T : \A y \in T : x <= y
<1> DEFINE R == OpToRel(<, Nat)
<1>1. \A x, y \in Nat : ~(<<y, x>> \in R) => x <= y
  BY DEF OpToRel
<1> HIDE DEF R
<1>2. IsWellFoundedOn(R, Nat)
  BY NatLessThanWellFounded DEF R
<1>3. PICK x \in T : \A y \in T : ~(<<y, x>> \in R)
  BY <1>2, WFMin
<1> QED
  BY <1>1, <1>3

\* A set that holds 0, and with a number the next, holds all up to n.
LEMMA UpTo ==
  ASSUME NEW n \in Nat, NEW T, 0 \in T,
         \A j \in 0 .. n - 1 : j \in T => j + 1 \in T
  PROVE  \A j \in 0 .. n : j \in T
<1> DEFINE bad == {j \in 0 .. n : j \notin T}
<1> SUFFICES ASSUME bad # {} PROVE FALSE
  OBVIOUS
<1>1. bad \subseteq Nat
  OBVIOUS
<1>2. PICK x \in bad : \A y \in bad : x <= y
  <2> HIDE DEF bad
  <2> QED
    BY <1>1, LeastNatural
<1>3. x \in 0 .. n /\ x \notin T /\ x # 0
  BY <1>2
<1>4. x - 1 \in 0 .. n - 1 /\ x - 1 \in 0 .. n
  BY <1>3
<1>5. x - 1 \in T
  <2>1. ~(x <= x - 1)
    BY <1>3
  <2> QED
    BY <1>2, <1>4, <2>1
<1>6. (x - 1) + 1 \in T
  BY <1>4, <1>5
<1> QED
  BY <1>3, <1>6

\* What flush of FlushBlocks is a solution of, and that there is one.
FlushLoop(g, a, n) ==
  [j \in 0 .. n |->
     IF j = 0 THEN a ELSE [FlushFront(g[j - 1]) EXCEPT !.alloc = @ - 1]]

LEMMA FlushDefined ==
  ASSUME NEW a, NEW n \in Nat
  PROVE  \E g : g = FlushLoop(g, a, n)
<1> DEFINE Step(r) == [FlushFront(r) EXCEPT !.alloc = @ - 1]
           Loop(g, m) == [j \in 0 .. m |-> IF j = 0 THEN a ELSE Step(g[j - 1])]
           T == {m \in Nat : \E g : g = Loop(g, m)}
<1> HIDE DEF Step
<1>1. 0 \in T
  <2> DEFINE g == [j \in 0 .. 0 |-> a]
  <2>1. g = Loop(g, 0)
    OBVIOUS
  <2> QED
    BY <2>1
<1>2. ASSUME NEW m \in 0 .. n - 1, m \in T
      PROVE  m + 1 \in T
  <2>1. PICK g : g = Loop(g, m)
    BY <1>2
  <2> DEFINE h == [j \in 0 .. m + 1 |-> IF j = m + 1 THEN Step(g[m]) ELSE g[j]]
  <2>2. ASSUME NEW j \in 0 .. m + 1
        PROVE  h[j] = IF j = 0 THEN a ELSE Step(h[j - 1])
    <3>1. m \in Nat /\ (j \in 0 .. m \/ j = m + 1)
      BY <1>2
    <3>2. CASE j = m + 1
      <4>1. j # 0 /\ j - 1 = m /\ m \in 0 .. m + 1 /\ m # m + 1
        BY <3>1, <3>2
      <4>2. h[m] = g[m]
        BY <4>1
      <4>3. h[j] = Step(g[m])
        BY <3>2
      <4> QED
        BY <4>1, <4>2, <4>3
    <3>3. CASE j \in 0 .. m
      <4>1. j # m + 1 /\ (j # 0 => j - 1 \in 0 .. m + 1 /\ j - 1 # m + 1)
        BY <3>1, <3>3
      <4>2. h[j] = g[j] /\ (j # 0 => h[j - 1] = g[j - 1])
        BY <4>1
      <4>3. g[j] = IF j = 0 THEN a ELSE Step(g[j - 1])
        BY <2>1, <3>3
      <4> QED
        BY <4>2, <4>3
    <3> QED
      BY <3>1, <3>2, <3>3
  <2>3. h = Loop(h, m + 1)
    <3>1. h = [j \in 0 .. m + 1 |-> h[j]]
      OBVIOUS
    <3> HIDE DEF h
    <3> QED
      BY <2>2, <3>1
  <2>4. m + 1 \in Nat
    BY <1>2
  <2> HIDE DEF h, Loop
  <2> QED
    BY <2>3, <2>4
<1>3. n \in T
  <2> HIDE DEF T
  <2> QED
    BY <1>1, <1>2, UpTo
<1>4. PICK g : g = Loop(g, n)
  BY <1>3
<1> QED
  BY <1>4 DEF Step, FlushLoop

\* r is a without its j oldest blocks.
Flushed(r, a, j) ==
  /\ DOMAIN r = AggFields /\ r.ring = a.ring /\ r.known = a.known
  /\ r.failed = a.failed /\ r.key = a.key /\ r.epoch = a.epoch
  /\ r.alloc = a.alloc - j /\ r.front = ModN(a.front + j)

\* The n oldest blocks are gone, one by one, and nothing else has changed.
LEMMA FlushBlocksKeeps ==
  ASSUME NEW a, RingShape(a), NEW n \in 0 .. a.alloc
  PROVE  \E flush :
           /\ flush[0] = a /\ flush[n] = FlushBlocks(a, n)
           /\ \A j \in 0 .. n - 1 :
                flush[j + 1] = [FlushFront(flush[j]) EXCEPT !.alloc = @ - 1]
           /\ \A j \in 0 .. n : Flushed(flush[j], a, j)
<1> DEFINE flush == CHOOSE g : g = FlushLoop(g, a, n)
           T == {j \in Nat : Flushed(flush[j], a, j)}
<1>1. /\ RingSize \in Nat /\ a.alloc \in 0 .. RingSize /\ a.front \in Slot
      /\ n \in Nat /\ DOMAIN a = AggFields
  BY Parameters DEF RingShape
<1>2. FlushBlocks(a, n) = flush[n]
  BY DEF FlushBlocks, FlushLoop
<1>3. flush = FlushLoop(flush, a, n)
  BY <1>1, FlushDefined
<1> HIDE DEF flush
<1>4. \A j \in 0 .. n : flush[j] =
        IF j = 0 THEN a ELSE [FlushFront(flush[j - 1]) EXCEPT !.alloc = @ - 1]
  BY <1>3 DEF FlushLoop
<1>5. 0 \in T
  <2>1. 0 \in 0 .. n
    BY <1>1
  <2>2. flush[0] = a
    BY <1>4, <2>1
  <2>3. a.front \in Int /\ ModN(a.front) = a.front
    BY <1>1, Places
  <2>4. a.front + 0 = a.front /\ a.alloc - 0 = a.alloc
    BY <1>1, <2>3
  <2> QED
    BY <1>1, <2>2, <2>3, <2>4 DEF Flushed
<1>6. ASSUME NEW j \in 0 .. n - 1, j \in T
      PROVE  j + 1 \in T
  <2> DEFINE r == flush[j]
             p == FlushFront(r)
             q == flush[j + 1]
  <2>1. Flushed(r, a, j)
    BY <1>6
  <2>2. /\ j \in 0 .. RingSize /\ 1 \in 0 .. RingSize /\ j + 1 <= RingSize
        /\ j + 1 \in 0 .. n /\ j + 1 # 0 /\ (j + 1) - 1 = j /\ j + 1 \in Nat
    BY <1>1
  <2>3. q = [p EXCEPT !.alloc = @ - 1]
    BY <1>4, <2>2
  <2> HIDE DEF r, q
  <2>4. RingShape(r)
    <3>1. r.front \in Slot
      BY <1>1, <2>1, <2>2, Places DEF Flushed
    <3>2. r.alloc \in 0 .. RingSize
      BY <1>1, <2>1 DEF Flushed
    <3> QED
      BY <2>1, <3>1, <3>2 DEF RingShape, Flushed
  <2>5. /\ DOMAIN p = AggFields /\ p.ring = a.ring /\ p.known = a.known
        /\ p.failed = a.failed /\ p.key = a.key /\ p.epoch = a.epoch
        /\ p.alloc = a.alloc - j /\ p.front = ModN(ModN(a.front + j) + 1)
    BY <2>1, <2>4, FlushKeeps DEF Flushed
  <2>6. ModN(ModN(a.front + j) + 1) = ModN(a.front + (j + 1))
    BY <1>1, <2>2, Places
  <2>7. a.alloc - j - 1 = a.alloc - (j + 1)
    BY <1>1
  <2> HIDE DEF p
  <2>8. Flushed(q, a, j + 1)
    BY <2>3, <2>5, <2>6, <2>7 DEF AggFields, Flushed
  <2> QED
    BY <2>2, <2>8 DEF q
<1>7. \A j \in 0 .. n : j \in T
  <2> HIDE DEF T
  <2> QED
    BY <1>1, <1>5, <1>6, UpTo
<1>8. ASSUME NEW j \in 0 .. n - 1
      PROVE  flush[j + 1] = [FlushFront(flush[j]) EXCEPT !.alloc = @ - 1]
  <2>1. j + 1 \in 0 .. n /\ j + 1 # 0 /\ (j + 1) - 1 = j
    BY <1>1
  <2> QED
    BY <1>4, <2>1
<1>9. flush[0] = a
  <2>1. 0 \in 0 .. n
    BY <1>1
  <2> QED
    BY <1>4, <2>1
<1> QED
  BY <1>2, <1>7, <1>8, <1>9

\* The same for push of RingWith.
PushLoop(g, a, b, n) ==
  [j \in 0 .. n |-> IF j = 0 THEN a ELSE PushBlock(g[j - 1], b - n + j)]

LEMMA PushDefined ==
  ASSUME NEW a, NEW n \in Nat, NEW b
  PROVE  \E g : g = PushLoop(g, a, b, n)
<1> DEFINE Step(r, j) == PushBlock(r, b - n + j)
           Loop(g, m) == [j \in 0 .. m |-> IF j = 0 THEN a ELSE Step(g[j - 1], j)]
           T == {m \in Nat : \E g : g = Loop(g, m)}
<1> HIDE DEF Step
<1>1. 0 \in T
  <2> DEFINE g == [j \in 0 .. 0 |-> a]
  <2>1. g = Loop(g, 0)
    OBVIOUS
  <2> QED
    BY <2>1
<1>2. ASSUME NEW m \in 0 .. n - 1, m \in T
      PROVE  m + 1 \in T
  <2>1. PICK g : g = Loop(g, m)
    BY <1>2
  <2> DEFINE h == [j \in 0 .. m + 1 |->
                     IF j = m + 1 THEN Step(g[m], m + 1) ELSE g[j]]
  <2>2. ASSUME NEW j \in 0 .. m + 1
        PROVE  h[j] = IF j = 0 THEN a ELSE Step(h[j - 1], j)
    <3>1. m \in Nat /\ (j \in 0 .. m \/ j = m + 1)
      BY <1>2
    <3>2. CASE j = m + 1
      <4>1. j # 0 /\ j - 1 = m /\ m \in 0 .. m + 1 /\ m # m + 1
        BY <3>1, <3>2
      <4>2. h[m] = g[m]
        BY <4>1
      <4>3. h[j] = Step(g[m], j)
        BY <3>2
      <4> QED
        BY <4>1, <4>2, <4>3
    <3>3. CASE j \in 0 .. m
      <4>1. j # m + 1 /\ (j # 0 => j - 1 \in 0 .. m + 1 /\ j - 1 # m + 1)
        BY <3>1, <3>3
      <4>2. h[j] = g[j] /\ (j # 0 => h[j - 1] = g[j - 1])
        BY <4>1
      <4>3. g[j] = IF j = 0 THEN a ELSE Step(g[j - 1], j)
        BY <2>1, <3>3
      <4> QED
        BY <4>2, <4>3
    <3> QED
      BY <3>1, <3>2, <3>3
  <2>3. h = Loop(h, m + 1)
    <3>1. h = [j \in 0 .. m + 1 |-> h[j]]
      OBVIOUS
    <3> HIDE DEF h
    <3> QED
      BY <2>2, <3>1
  <2>4. m + 1 \in Nat
    BY <1>2
  <2> HIDE DEF h, Loop
  <2> QED
    BY <2>3, <2>4
<1>3. n \in T
  <2> HIDE DEF T
  <2> QED
    BY <1>1, <1>2, UpTo
<1>4. PICK g : g = Loop(g, n)
  BY <1>3
<1> QED
  BY <1>4 DEF Step, PushLoop

-----------------------------------------------------------------------------
(***************************************************************************)
(* get_block_ring_idx.                                                     *)
(***************************************************************************)
\* The ring after j of n pushes for block b: the j newest slots are new and
\* empty, the others hold what they held.
Pushed(r, a, b, n, j) ==
  /\ RingShape(r) /\ r.known = b /\ r.failed = FALSE
  /\ r.alloc = IF a.alloc + j < RingSize THEN a.alloc + j ELSE RingSize
  /\ \A c \in 0 .. r.alloc - 1 :
       /\ Collecting(At(r, c))
       /\ At(r, c).block = IF r.alloc - 1 - c < j
                           THEN b - n + j - (r.alloc - 1 - c)
                           ELSE a.known - (r.alloc - 1 - c - j)

LEMMA PushedStep ==
  ASSUME NEW a, RingShape(a), NEW b \in Int, NEW n \in Nat, NEW j \in 0 .. n - 1,
         NEW r, Pushed(r, a, b, n, j)
  PROVE  Pushed(PushBlock(r, b - n + (j + 1)), a, b, n, j + 1)
<1> DEFINE x == b - n + (j + 1)
           q == PushBlock(r, x)
           full == r.alloc = RingSize
<1>1. /\ RingSize \in Nat /\ RingSize > 0 /\ a.alloc \in 0 .. RingSize
      /\ a.known \in Int /\ j \in Nat /\ x \in Int
      /\ RingShape(r) /\ r.known = b /\ r.failed = FALSE /\ r.alloc \in 0 .. RingSize
  BY Parameters DEF RingShape, Pushed
<1>2. r.alloc = IF a.alloc + j < RingSize THEN a.alloc + j ELSE RingSize
  BY DEF Pushed
<1>3. /\ RingShape(q) /\ q.known = b /\ q.failed = FALSE
      /\ q.alloc = IF full THEN RingSize ELSE r.alloc + 1
      /\ At(q, q.alloc - 1) = EmptySlot(x)
      /\ \A c \in 0 .. q.alloc - 2 : At(q, c) = At(r, IF full THEN c + 1 ELSE c)
  <2> HIDE DEF x
  <2> QED
    BY <1>1, PushKeeps
<1> HIDE DEF q
<1>4. q.alloc = IF a.alloc + (j + 1) < RingSize THEN a.alloc + (j + 1) ELSE RingSize
  BY <1>1, <1>2, <1>3
<1>5. ASSUME NEW c \in 0 .. q.alloc - 1
      PROVE  /\ Collecting(At(q, c))
             /\ At(q, c).block = IF q.alloc - 1 - c < j + 1
                                 THEN b - n + (j + 1) - (q.alloc - 1 - c)
                                 ELSE a.known - (q.alloc - 1 - c - (j + 1))
  <2>1. q.alloc \in 1 .. RingSize
    BY <1>1, <1>3
  <2>2. CASE c = q.alloc - 1
    <3>1. At(q, c) = EmptySlot(x) /\ q.alloc - 1 - c = 0
      BY <1>3, <2>1, <2>2
    <3>2. Collecting(At(q, c)) /\ At(q, c).block = x
      BY <1>1, <3>1, EmptyCollects
    <3>3. 0 < j + 1 /\ x = b - n + (j + 1) - 0
      BY <1>1
    <3> QED
      BY <3>1, <3>2, <3>3
  <2>3. CASE c # q.alloc - 1
    <3> DEFINE d == IF full THEN c + 1 ELSE c
    <3>1. c \in 0 .. q.alloc - 2
      BY <1>1, <2>1, <2>3
    <3>2. At(q, c) = At(r, d)
      BY <1>3, <3>1
    <3>3. d \in 0 .. r.alloc - 1 /\ r.alloc - 1 - d = q.alloc - 1 - c - 1
      BY <1>1, <1>3, <3>1
    <3> HIDE DEF d
    <3>4. /\ Collecting(At(r, d))
          /\ At(r, d).block = IF r.alloc - 1 - d < j
                              THEN b - n + j - (r.alloc - 1 - d)
                              ELSE a.known - (r.alloc - 1 - d - j)
      BY <3>3 DEF Pushed
    <3> QED
      BY <1>1, <2>1, <3>2, <3>3, <3>4
  <2> QED
    BY <2>2, <2>3
<1> QED
  BY <1>3, <1>4, <1>5 DEF Pushed, q

\* The pushes for a block b that is not in the ring, one by one.
LEMMA RingWithPushes ==
  ASSUME NEW a, Consistent(a), NEW b \in Nat, ~Processed(a, b), Holding(a, b) = {}
  PROVE  \E n \in 1 .. RingSize : \E push :
           /\ a.known <= b - n
           /\ n < RingSize => a.alloc = 0 \/ a.known = b - n
           /\ push[0] = [Asserted(a, TRUE) EXCEPT !.known = b]
           /\ push[n] = RingWith(a, b)
           /\ \A j \in 0 .. n - 1 :
                push[j + 1] = PushBlock(push[j], b - n + (j + 1))
           /\ \A j \in 0 .. n : Pushed(push[j], a, b, n, j)
<1> DEFINE gap == IF a.known = NoBlock THEN 1 ELSE b - a.known
           n == IF gap < RingSize THEN gap ELSE RingSize
           base == [Asserted(a, gap > 0) EXCEPT !.known = b]
           push == CHOOSE g : g = PushLoop(g, base, b, n)
           T == {j \in Nat : Pushed(push[j], a, b, n, j)}
<1>1. /\ RingSize \in Nat /\ RingSize > 0 /\ a.alloc \in 0 .. RingSize
      /\ a.known \in Int /\ RingShape(a) /\ DOMAIN a = AggFields
      /\ a.failed = FALSE /\ NoBlock = -1
      /\ a.known = NoBlock => a.alloc = 0
  BY Parameters DEF Consistent, RingShape, NoBlock
<1>2. gap \in Nat /\ gap > 0 /\ n \in 1 .. RingSize
  BY <1>1 DEF Processed
<1>3. RingWith(a, b) = push[n]
  BY DEF RingWith, PushLoop
<1>4. push = PushLoop(push, base, b, n)
  <2> HIDE DEF base, n
  <2>1. n \in Nat
    BY <1>1, <1>2
  <2> QED
    BY <2>1, PushDefined
<1> HIDE DEF push
<1>5. \A j \in 0 .. n :
        push[j] = IF j = 0 THEN base ELSE PushBlock(push[j - 1], b - n + j)
  BY <1>4 DEF PushLoop
<1>6. push[0] = base /\ base = [Asserted(a, TRUE) EXCEPT !.known = b]
  <2>1. 0 \in 0 .. n /\ (gap > 0) = TRUE
    BY <1>1, <1>2
  <2> QED
    BY <1>5, <2>1
<1>7. 0 \in T
  <2>1. /\ DOMAIN base = AggFields /\ base.known = b /\ base.failed = FALSE
        /\ base.ring = a.ring /\ base.front = a.front /\ base.alloc = a.alloc
    BY <1>1, <1>6 DEF Asserted, AggFields
  <2> HIDE DEF base
  <2>2. RingShape(base)
    BY <1>1, <2>1 DEF RingShape
  <2>3. base.alloc = IF a.alloc + 0 < RingSize THEN a.alloc + 0 ELSE RingSize
    BY <1>1, <2>1
  <2>4. ASSUME NEW c \in 0 .. base.alloc - 1
        PROVE  /\ Collecting(At(base, c)) /\ ~(base.alloc - 1 - c < 0)
               /\ At(base, c).block = a.known - (base.alloc - 1 - c - 0)
    <3>1. At(base, c) = At(a, c) /\ c \in 0 .. a.alloc - 1
      BY <2>1 DEF At
    <3>2. Collecting(At(a, c)) /\ At(a, c).block = a.known - (a.alloc - 1 - c)
      BY <3>1 DEF Consistent
    <3> QED
      BY <1>1, <2>1, <3>1, <3>2
  <2> QED
    BY <1>6, <2>1, <2>2, <2>3, <2>4 DEF Pushed
<1>8. ASSUME NEW j \in 0 .. n - 1
      PROVE  push[j + 1] = PushBlock(push[j], b - n + (j + 1))
  <2> HIDE DEF n
  <2>1. j + 1 \in 0 .. n /\ j + 1 # 0 /\ (j + 1) - 1 = j
    BY <1>1, <1>2
  <2> QED
    BY <1>5, <2>1
<1>9. ASSUME NEW j \in 0 .. n - 1, j \in T
      PROVE  j + 1 \in T
  <2> HIDE DEF n
  <2>1. j + 1 \in Nat /\ n \in Nat
    BY <1>1, <1>2
  <2>2. Pushed(push[j + 1], a, b, n, j + 1)
    BY <1>1, <1>8, <1>9, <2>1, PushedStep
  <2> QED
    BY <2>1, <2>2
<1>10. \A j \in 0 .. n : Pushed(push[j], a, b, n, j)
  <2> HIDE DEF T, n
  <2>1. n \in Nat
    BY <1>1, <1>2
  <2>2. \A j \in 0 .. n : j \in T
    BY <1>7, <1>9, <2>1, UpTo
  <2> QED
    BY <2>2 DEF T
<1>11. a.known <= b - n /\ (n < RingSize => a.alloc = 0 \/ a.known = b - n)
  BY <1>1, <1>2
<1> HIDE DEF n, base
<1> QED
  BY <1>2, <1>3, <1>6, <1>8, <1>10, <1>11

\* The blocks of the ring are numbered on from the oldest, up to b.
LEMMA RingWithConsistent ==
  ASSUME NEW a, Consistent(a), NEW b \in Nat, ~Processed(a, b)
  PROVE  Consistent(RingWith(a, b)) /\ Holding(RingWith(a, b), b) # {}
<1>1. CASE Holding(a, b) # {}
  BY <1>1 DEF RingWith
<1>2. CASE Holding(a, b) = {}
  <2>0. PICK n \in 1 .. RingSize : \E push :
          /\ a.known <= b - n
          /\ n < RingSize => a.alloc = 0 \/ a.known = b - n
          /\ push[n] = RingWith(a, b)
          /\ \A j \in 0 .. n : Pushed(push[j], a, b, n, j)
    BY <1>2, RingWithPushes
  <2>1. PICK push :
          /\ a.known <= b - n
          /\ n < RingSize => a.alloc = 0 \/ a.known = b - n
          /\ push[n] = RingWith(a, b)
          /\ \A j \in 0 .. n : Pushed(push[j], a, b, n, j)
    BY <2>0
  <2> DEFINE r == RingWith(a, b)
  <2> HIDE DEF r
  <2>2. /\ RingSize \in Nat /\ RingSize > 0 /\ a.alloc \in 0 .. RingSize
        /\ a.known \in Int /\ n \in Nat
    BY Parameters DEF Consistent, RingShape
  <2>3. Pushed(r, a, b, n, n)
    <3>1. n \in 0 .. n
      BY <2>2
    <3> QED
      BY <2>1, <3>1 DEF r
  <2>4. /\ RingShape(r) /\ r.known = b /\ r.failed = FALSE /\ r.alloc \in 1 .. RingSize
        /\ r.alloc = IF a.alloc + n < RingSize THEN a.alloc + n ELSE RingSize
    BY <2>2, <2>3 DEF Pushed
  <2>5. ASSUME NEW c \in 0 .. r.alloc - 1
        PROVE  Collecting(At(r, c)) /\ At(r, c).block = b - (r.alloc - 1 - c)
    <3>1. /\ Collecting(At(r, c))
          /\ At(r, c).block = IF r.alloc - 1 - c < n
                              THEN b - n + n - (r.alloc - 1 - c)
                              ELSE a.known - (r.alloc - 1 - c - n)
      BY <2>3 DEF Pushed
    <3>2. CASE r.alloc - 1 - c < n
      BY <2>2, <2>4, <3>1, <3>2
    <3>3. CASE ~(r.alloc - 1 - c < n)
      <4>1. a.known = b - n
        BY <2>1, <2>2, <2>4, <3>3
      <4> QED
        BY <2>2, <2>4, <3>1, <3>3, <4>1
    <3> QED
      BY <3>2, <3>3
  <2>6. Consistent(r)
    BY <2>4, <2>5 DEF Consistent, NoBlock
  <2>7. r.alloc - 1 \in Holding(r, b)
    <3>1. r.alloc - 1 \in 0 .. r.alloc - 1 /\ b - (r.alloc - 1 - (r.alloc - 1)) = b
      BY <2>2, <2>4
    <3>2. At(r, r.alloc - 1).block = b
      BY <2>5, <3>1
    <3> QED
      BY <3>1, <3>2 DEF Holding, At
  <2> QED
    BY <2>6, <2>7 DEF r
<1> QED
  BY <1>1, <1>2

\* The slot of block b is one of the ring's.
LEMMA SlotOfPlace ==
  ASSUME NEW a, Consistent(a), NEW b \in Nat, Holding(a, b) # {}
  PROVE  \E c \in 0 .. a.alloc - 1 :
           SlotOf(a, b) = ModN(a.front + c) /\ At(a, c).block = b
<1> DEFINE first == CHOOSE c \in Holding(a, b) : \A d \in Holding(a, b) : c <= d
<1>1. Holding(a, b) \subseteq 0 .. a.alloc - 1
  BY DEF Holding
<1>2. Holding(a, b) \subseteq Nat
  BY <1>1
<1>3. \E c \in Holding(a, b) : \A d \in Holding(a, b) : c <= d
  BY <1>2, LeastNatural
<1>4. first \in Holding(a, b)
  BY <1>3
<1>5. SlotOf(a, b) = ModN(a.front + first)
  BY DEF SlotOf
<1>6. At(a, first).block = b
  BY <1>4 DEF Holding, At
<1> QED
  BY <1>1, <1>4, <1>5, <1>6

-----------------------------------------------------------------------------
(***************************************************************************)
(* process_packet: a fragment is stored, sent on or completes its block.   *)
(***************************************************************************)
\* r differs from a in slot i at most.
SameBut(r, a, i) ==
  /\ RingShape(r) /\ r.known = a.known /\ r.failed = a.failed
  /\ r.front = a.front /\ r.alloc = a.alloc
  /\ r.key = a.key /\ r.epoch = a.epoch
  /\ \A j \in Slot : j # i => r.ring[j] = a.ring[j]

LEMMA GapIs ==
  ASSUME NEW s, SlotShape(s)
  PROVE  /\ Gap(s) \in 0 .. FecK /\ s.toSend <= Gap(s)
         /\ Gap(s) = FecK \/ s.frag[Gap(s)] = None
         /\ \A f \in s.toSend .. Gap(s) - 1 : s.frag[f] # None
<1> DEFINE T == {g \in s.toSend .. FecK : g = FecK \/ s.frag[g] = None}
<1>1. FecK \in Nat /\ s.toSend \in 0 .. FecK
  BY Parameters DEF SlotShape
<1>2. T \subseteq Nat /\ FecK \in T
  BY <1>1
<1>3. PICK g \in T : \A y \in T : g <= y
  <2> HIDE DEF T
  <2> QED
    BY <1>2, LeastNatural
<1>4. ASSUME NEW f \in s.toSend .. g - 1
      PROVE  s.frag[f] # None
  <2>1. f \in s.toSend .. FecK /\ ~(g <= f)
    BY <1>1, <1>3
  <2> QED
    BY <1>3, <2>1
<1>5. \E h \in s.toSend .. FecK :
        /\ h = FecK \/ s.frag[h] = None
        /\ \A f \in s.toSend .. h - 1 : s.frag[f] # None
  BY <1>3, <1>4
<1>6. /\ Gap(s) \in s.toSend .. FecK
      /\ Gap(s) = FecK \/ s.frag[Gap(s)] = None
      /\ \A f \in s.toSend .. Gap(s) - 1 : s.frag[f] # None
  BY <1>5 DEF Gap
<1> QED
  BY <1>1, <1>6

LEMMA SendKeeps ==
  ASSUME NEW a, RingShape(a), NEW i \in Slot
  PROVE  LET r == SendContiguous(a, i)
         IN /\ SameBut(r, a, i)
            /\ r.ring[i].block = a.ring[i].block /\ r.ring[i].has = a.ring[i].has
            /\ r.ring[i].frag = a.ring[i].frag
            /\ r.ring[i].toSend = Gap(a.ring[i])
            /\ r.out = SendThere(a.out, a.ring[i], Gap(a.ring[i]))
<1> DEFINE s == a.ring[i]
           g == Gap(s)
           o == SendThere(a.out, s, g)
           r == SendContiguous(a, i)
           t == [s EXCEPT !.toSend = g]
<1>1. SlotShape(s) /\ DOMAIN a = AggFields /\ DOMAIN a.ring = Slot
  BY DEF RingShape
<1>2. g \in 0 .. FecK
  BY <1>1, GapIs
<1>3. r = [a EXCEPT !.out = o, !.ring[i].toSend = g]
  BY DEF SendContiguous
<1> HIDE DEF r, o, g
<1>4. /\ DOMAIN r = AggFields /\ r.known = a.known /\ r.failed = a.failed
      /\ r.front = a.front /\ r.alloc = a.alloc
      /\ r.key = a.key /\ r.epoch = a.epoch /\ r.out = o
      /\ r.ring = [a.ring EXCEPT ![i] = t]
  BY <1>1, <1>3 DEF AggFields
<1>5. /\ SlotShape(t) /\ t.block = s.block /\ t.has = s.has /\ t.frag = s.frag
      /\ t.toSend = g
  BY <1>1, <1>2 DEF SlotShape, SlotFields
<1> HIDE DEF t
<1>6. /\ DOMAIN r.ring = Slot /\ r.ring[i] = t
      /\ \A j \in Slot : j # i => r.ring[j] = a.ring[j]
  BY <1>1, <1>4
<1>7. RingShape(r)
  BY <1>4, <1>5, <1>6 DEF RingShape
<1> QED
  BY <1>4, <1>5, <1>6, <1>7 DEF SameBut, r, o, g

\* The counter of a slot stays right when a fragment is stored.
LEMMA StoreKeeps ==
  ASSUME NEW a, RingShape(a), NEW i \in Slot, NEW f \in 0 .. FecN - 1, NEW body,
         body # None, a.ring[i].frag[f] = None,
         a.ring[i].has = Cardinality(Present(a.ring[i]))
  PROVE  LET r == Stored(a, i, f, body)
         IN /\ SameBut(r, a, i)
            /\ r.ring[i].block = a.ring[i].block
            /\ r.ring[i].toSend = a.ring[i].toSend
            /\ r.ring[i].has = a.ring[i].has + 1
            /\ r.ring[i].has = Cardinality(Present(r.ring[i]))
            /\ r.ring[i].frag[f] = body
            /\ \A g \in 0 .. FecN - 1 : g # f =>
                 r.ring[i].frag[g] = a.ring[i].frag[g]
            /\ r.out = a.out
<1> DEFINE s == a.ring[i]
           r == Stored(a, i, f, body)
           t == [s EXCEPT !.frag = [s.frag EXCEPT ![f] = body], !.has = s.has + 1]
<1>1. SlotShape(s) /\ DOMAIN a = AggFields /\ DOMAIN a.ring = Slot
  BY DEF RingShape
<1>2. r = [a EXCEPT !.ring[i].frag[f] = body, !.ring[i].has = @ + 1]
  BY DEF Stored
<1> HIDE DEF r
<1>3. /\ DOMAIN r = AggFields /\ r.known = a.known /\ r.failed = a.failed
      /\ r.front = a.front /\ r.alloc = a.alloc
      /\ r.key = a.key /\ r.epoch = a.epoch /\ r.out = a.out
      /\ DOMAIN r.ring = Slot
      /\ \A j \in Slot : j # i => r.ring[j] = a.ring[j]
  BY <1>1, <1>2 DEF AggFields
<1>4. r.ring[i] = t
  BY <1>1, <1>2 DEF AggFields, SlotShape, SlotFields
<1>5. /\ SlotShape(t) /\ t.block = s.block /\ t.toSend = s.toSend
      /\ t.has = s.has + 1 /\ t.frag = [s.frag EXCEPT ![f] = body]
  BY <1>1 DEF SlotShape, SlotFields
<1> HIDE DEF t
<1>6. Present(t) = Present(s) \cup {f} /\ f \notin Present(s)
  BY <1>1, <1>5 DEF Present, SlotShape
<1>7. IsFiniteSet(Present(s))
  <2>1. IsFiniteSet(0 .. FecN - 1)
    BY Parameters, FS_Interval
  <2>2. Present(s) \subseteq 0 .. FecN - 1
    BY <1>1 DEF Present, SlotShape
  <2> QED
    BY <2>1, <2>2, FS_Subset
<1>8. Cardinality(Present(t)) = Cardinality(Present(s)) + 1
  BY <1>6, <1>7, FS_AddElement
<1>9. RingShape(r)
  BY <1>3, <1>4, <1>5 DEF RingShape
<1>10. /\ t.frag[f] = body
       /\ \A g \in 0 .. FecN - 1 : g # f => t.frag[g] = s.frag[g]
  BY <1>1, <1>5 DEF SlotShape
<1> QED
  BY <1>3, <1>4, <1>5, <1>8, <1>9, <1>10 DEF SameBut, r

\* With k fragments there are as many parity fragments as data fragments are
\* missing, so apply_fec has enough to work on.
LEMMA EnoughParities ==
  ASSUME NEW s, SlotShape(s), Cardinality(Present(s)) = FecK
  PROVE  ~(Cardinality(Parities(s)) < Cardinality(Missing(s)))
<1> DEFINE D == (0 .. FecK - 1) \ Missing(s)
           P == Parities(s)
           M == Missing(s)
<1>1. /\ FecK \in Nat /\ FecK > 0 /\ FecN \in Nat /\ FecK <= FecN
      /\ DOMAIN s.frag = 0 .. FecN - 1
  BY Parameters DEF SlotShape
<1>2. IsFiniteSet(0 .. FecN - 1) /\ IsFiniteSet(0 .. FecK - 1)
      /\ Cardinality(0 .. FecK - 1) = FecK
  <2>1. FecN - 1 \in Int /\ FecK - 1 \in Int /\ ~(0 > FecK - 1)
    BY <1>1
  <2>2. IsFiniteSet(0 .. FecN - 1) /\ IsFiniteSet(0 .. FecK - 1)
    BY <2>1, FS_Interval
  <2>3. Cardinality(0 .. FecK - 1) = FecK - 1 - 0 + 1
    BY <2>1, FS_Interval
  <2> QED
    BY <1>1, <2>2, <2>3
<1>3. D \subseteq 0 .. FecK - 1 /\ M \subseteq 0 .. FecK - 1 /\ P \subseteq 0 .. FecN - 1
  BY <1>1 DEF Missing, Parities
<1>4. IsFiniteSet(D) /\ IsFiniteSet(M) /\ IsFiniteSet(P)
  BY <1>2, <1>3, FS_Subset
<1>5. D \cup M = 0 .. FecK - 1 /\ D \cap M = {}
  BY <1>3
<1>6. Present(s) = D \cup P
  <2>1. ASSUME NEW f PROVE f \in Present(s) <=> f \in D \cup P
    BY <1>1 DEF Present, Missing, Parities
  <2> QED
    BY <2>1
<1>7. D \cap P = {}
  BY <1>1 DEF Missing, Parities
<1> HIDE DEF D, M, P
<1>8. /\ Cardinality(D) \in Nat /\ Cardinality(M) \in Nat /\ Cardinality(P) \in Nat
  BY <1>4, FS_CardinalityType
<1>9. Cardinality(D \cup M) = Cardinality(D) + Cardinality(M)
  BY <1>4, <1>5, <1>8, FS_Union, FS_EmptySet
<1>10. Cardinality(D \cup P) = Cardinality(D) + Cardinality(P)
  BY <1>4, <1>7, <1>8, FS_Union, FS_EmptySet
<1>11. Cardinality(P) = Cardinality(M)
  <2>1. Cardinality(D \cup M) = FecK
    BY <1>2, <1>5
  <2>2. Cardinality(D \cup P) = FecK
    BY <1>6
  <2> QED
    BY <1>1, <1>8, <1>9, <1>10, <2>1, <2>2
<1> QED
  BY <1>8, <1>11 DEF P, M

LEMMA FecKeeps ==
  ASSUME NEW a, RingShape(a), NEW i \in Slot,
         Cardinality(Present(a.ring[i])) = FecK
  PROVE  LET r == ApplyFec(a, i)
         IN /\ SameBut(r, a, i) /\ r.out = a.out
            /\ r.ring[i] = IF Missing(a.ring[i]) = {} THEN a.ring[i] ELSE Recover(a.ring[i])
<1> DEFINE s == a.ring[i]
           t == Recover(s)
           r == [a EXCEPT !.ring[i] = t]
<1>1. SlotShape(s) /\ DOMAIN a = AggFields /\ DOMAIN a.ring = Slot
  BY DEF RingShape
<1>2. CASE Missing(s) = {}
  BY <1>2 DEF ApplyFec, SameBut
<1>3. CASE Missing(s) # {}
  <2>1. ApplyFec(a, i) = r
    BY <1>1, <1>3, EnoughParities DEF ApplyFec
  <2>2. SlotShape(t)
    BY <1>1 DEF Recover, SlotShape, SlotFields
  <2> HIDE DEF t
  <2>3. /\ DOMAIN r = AggFields /\ r.known = a.known /\ r.failed = a.failed
        /\ r.front = a.front /\ r.alloc = a.alloc
        /\ r.key = a.key /\ r.epoch = a.epoch /\ r.out = a.out
        /\ r.ring = [a.ring EXCEPT ![i] = t]
    BY <1>1 DEF AggFields
  <2> HIDE DEF r
  <2>4. /\ DOMAIN r.ring = Slot /\ r.ring[i] = t
        /\ \A j \in Slot : j # i => r.ring[j] = a.ring[j]
    BY <1>1, <2>3
  <2>5. RingShape(r)
    BY <2>2, <2>3, <2>4 DEF RingShape
  <2> QED
    BY <1>3, <2>1, <2>3, <2>4, <2>5 DEF SameBut, t
<1> QED
  BY <1>2, <1>3

\* The blocks behind slot c stay when it and those before it are removed,
\* whatever has become of it.
LEMMA TailConsistent ==
  ASSUME NEW a, Consistent(a), NEW c \in 0 .. a.alloc - 1, NEW r, RingShape(r),
         r.known = a.known, r.failed = FALSE,
         r.alloc = a.alloc - (c + 1), r.front = ModN(a.front + (c + 1)),
         \A j \in Slot : j # ModN(a.front + c) => r.ring[j] = a.ring[j]
  PROVE  Consistent(r)
<1>1. /\ RingSize \in Nat /\ RingSize > 0 /\ a.alloc \in 1 .. RingSize
      /\ a.front \in Slot /\ a.known \in Int
  BY Parameters DEF Consistent, RingShape
<1>2. a.known # NoBlock
  BY <1>1 DEF Consistent
<1>3. ASSUME NEW d \in 0 .. r.alloc - 1
      PROVE  Collecting(At(r, d)) /\ At(r, d).block = r.known - (r.alloc - 1 - d)
  <2> DEFINE e == c + 1 + d
  <2>1. /\ e \in 0 .. a.alloc - 1 /\ e \in 0 .. RingSize - 1 /\ e \in 0 .. RingSize
        /\ c \in 0 .. RingSize - 1 /\ e # c
        /\ c + 1 \in 0 .. RingSize /\ d \in 0 .. RingSize /\ (c + 1) + d <= RingSize
        /\ a.alloc - 1 - e = r.alloc - 1 - d
    BY <1>1
  <2>2. ModN(r.front + d) = ModN(a.front + e)
    <3> DEFINE k == c + 1
    <3>1. k \in 0 .. RingSize /\ k + d <= RingSize /\ e = k + d
      BY <2>1
    <3> HIDE DEF k
    <3>2. ModN(ModN(a.front + k) + d) = ModN(a.front + (k + d))
      BY <1>1, <2>1, <3>1, Places
    <3> QED
      BY <3>1, <3>2 DEF k
  <2> HIDE DEF e
  <2>3. ModN(a.front + e) \in Slot
    BY <1>1, <2>1, Places
  <2>4. ModN(a.front + e) # ModN(a.front + c)
    BY <1>1, <2>1, Places
  <2>5. At(r, d) = At(a, e)
    BY <2>2, <2>3, <2>4 DEF At
  <2>6. Collecting(At(a, e)) /\ At(a, e).block = a.known - (a.alloc - 1 - e)
    BY <2>1 DEF Consistent
  <2> QED
    BY <2>1, <2>5, <2>6
<1> QED
  BY <1>2, <1>3 DEF Consistent

\* A block that still collects may change in place.
LEMMA PlaceConsistent ==
  ASSUME NEW a, Consistent(a), NEW c \in 0 .. a.alloc - 1, NEW r,
         SameBut(r, a, ModN(a.front + c)), Collecting(At(r, c)),
         At(r, c).block = At(a, c).block
  PROVE  Consistent(r)
<1>1. /\ RingSize \in Nat /\ RingSize > 0 /\ a.alloc \in 1 .. RingSize
      /\ a.front \in Slot /\ a.failed = FALSE
  BY Parameters DEF Consistent, RingShape
<1>2. /\ RingShape(r) /\ r.known = a.known /\ r.failed = FALSE
      /\ r.front = a.front /\ r.alloc = a.alloc
  BY <1>1 DEF SameBut
<1>3. ASSUME NEW d \in 0 .. a.alloc - 1
      PROVE  Collecting(At(r, d)) /\ At(r, d).block = At(a, d).block
  <2>1. CASE d = c
    BY <2>1
  <2>2. CASE d # c
    <3>1. /\ c \in 0 .. RingSize - 1 /\ d \in 0 .. RingSize - 1 /\ d \in 0 .. RingSize
      BY <1>1
    <3>2. ModN(a.front + d) \in Slot /\ ModN(a.front + d) # ModN(a.front + c)
      BY <1>1, <2>2, <3>1, Places
    <3>3. At(r, d) = At(a, d)
      BY <1>2, <3>2 DEF At, SameBut
    <3> QED
      BY <3>3 DEF Consistent
  <2> QED
    BY <2>1, <2>2
<1> QED
  BY <1>2, <1>3 DEF Consistent

\* RecoverBlock on a slot that has just got its k-th fragment.
LEMMA RecoverKeeps ==
  ASSUME NEW a, Consistent(a), NEW c \in 0 .. a.alloc - 1, NEW b,
         SameBut(b, a, ModN(a.front + c)), Cardinality(Present(At(b, c))) = FecK
  PROVE  Consistent(RecoverBlock(b, ModN(a.front + c)))
<1> DEFINE i == ModN(a.front + c)
           n == ModN(i - b.front)
           before == FlushBlocks(b, n)
           here == Asserted(before, before.alloc > 0 /\ before.front = i)
           fec == ApplyFec(here, i)
           rest == SendContiguous(fec, i)
           r == RemoveFront(rest)
<1>1. /\ RingSize \in Nat /\ RingSize > 0 /\ a.alloc \in 1 .. RingSize
      /\ a.front \in Slot /\ a.failed = FALSE
      /\ c \in 0 .. RingSize - 1 /\ c \in 0 .. RingSize /\ c \in 0 .. a.alloc
      /\ 1 \in 0 .. RingSize /\ c + 1 <= RingSize
  BY Parameters DEF Consistent, RingShape
<1>2. /\ RingShape(b) /\ b.known = a.known /\ b.failed = FALSE
      /\ b.front = a.front /\ b.alloc = a.alloc
      /\ \A j \in Slot : j # i => b.ring[j] = a.ring[j]
  BY <1>1 DEF SameBut
<1>3. i \in Slot /\ ModN(i - b.front) = c
  BY <1>1, <1>2, Places
<1> HIDE DEF i
<1>4. /\ DOMAIN before = AggFields /\ before.ring = b.ring
      /\ before.known = a.known /\ before.failed = FALSE
      /\ before.alloc = a.alloc - c /\ before.front = i
  <2>1. n = c /\ n \in 0 .. b.alloc /\ before = FlushBlocks(b, n)
    BY <1>1, <1>2, <1>3
  <2>2. PICK flush : flush[n] = FlushBlocks(b, n) /\ \A j \in 0 .. n : Flushed(flush[j], b, j)
    <3> HIDE DEF n
    <3> QED
      BY <1>2, <2>1, FlushBlocksKeeps
  <2>3. Flushed(before, b, c)
    <3>1. c \in 0 .. c
      BY <1>1
    <3> QED
      BY <2>1, <2>2, <3>1
  <2> HIDE DEF before, n
  <2> QED
    BY <1>2, <2>3 DEF Flushed, i
<1> HIDE DEF before
<1>5. /\ DOMAIN here = AggFields /\ here.ring = b.ring
      /\ here.known = a.known /\ here.failed = FALSE
      /\ here.alloc = a.alloc - c /\ here.front = i
  <2>1. before.alloc > 0
    BY <1>1, <1>4
  <2> QED
    BY <1>4, <2>1 DEF Asserted, AggFields
<1> HIDE DEF here
<1>6. RingShape(here)
  <2>1. here.alloc \in 0 .. RingSize
    BY <1>1, <1>5
  <2> QED
    BY <1>2, <1>3, <1>5, <2>1 DEF RingShape
<1>7. SameBut(fec, here, i)
  <2>1. here.ring[i] = At(b, c)
    BY <1>2, <1>5 DEF At, i
  <2> QED
    BY <1>3, <1>6, <2>1, FecKeeps
<1> HIDE DEF fec
<1>8. SameBut(rest, fec, i)
  BY <1>3, <1>7, SendKeeps DEF SameBut
<1> HIDE DEF rest
<1>9. /\ RingShape(rest) /\ rest.known = a.known /\ rest.failed = FALSE
      /\ rest.alloc = a.alloc - c /\ rest.front = i
      /\ \A j \in Slot : j # i => rest.ring[j] = a.ring[j]
  BY <1>2, <1>5, <1>7, <1>8 DEF SameBut
<1>10. /\ DOMAIN r = AggFields /\ r.known = a.known /\ r.failed = FALSE
       /\ r.alloc = a.alloc - c - 1 /\ r.front = ModN(i + 1) /\ r.ring = rest.ring
  BY <1>9 DEF RemoveFront, RingShape, AggFields
<1>11. ModN(i + 1) = ModN(a.front + (c + 1)) /\ ModN(i + 1) \in Slot
  <2>1. c + 1 \in 0 .. RingSize
    BY <1>1
  <2>2. ModN(i + 1) = ModN(a.front + (c + 1))
    BY <1>1, Places DEF i
  <2>3. ModN(a.front + (c + 1)) \in Slot
    BY <1>1, <2>1, Places
  <2> QED
    BY <2>2, <2>3
<1>12. r.alloc = a.alloc - (c + 1) /\ r.alloc \in 0 .. RingSize
  BY <1>1, <1>10
<1>13. RingShape(r)
  BY <1>9, <1>10, <1>11, <1>12 DEF RingShape
<1>14. RecoverBlock(b, i) = r
  BY DEF RecoverBlock, r, rest, fec, here, before
<1> HIDE DEF r
<1>15. Consistent(r)
  BY <1>9, <1>10, <1>11, <1>12, <1>13, TailConsistent DEF i
<1> QED
  BY <1>14, <1>15 DEF i

\* A fragment keeps the ring consistent.
LEMMA AddConsistent ==
  ASSUME NEW a, Consistent(a), NEW b \in Nat, NEW f \in 0 .. FecN - 1, NEW body,
         body # None, ~Processed(a, b)
  PROVE  Consistent(AddFragment(a, b, f, body))
<1> DEFINE r == RingWith(a, b)
           i == SlotOf(r, b)
           kept == Stored(r, i, f, body)
           next == IF i = r.front THEN SendContiguous(kept, i) ELSE kept
<1>1. Consistent(r) /\ Holding(r, b) # {}
  BY RingWithConsistent
<1>2. PICK c \in 0 .. r.alloc - 1 : i = ModN(r.front + c)
  BY <1>1, SlotOfPlace
<1>3. AddFragment(a, b, f, body) =
        IF r.ring[i].frag[f] # None THEN r
        ELSE IF next.ring[i].toSend = FecK THEN RemoveFront(next)
        ELSE IF next.ring[i].has = FecK THEN RecoverBlock(next, i)
        ELSE next
  BY DEF AddFragment
<1> HIDE DEF r, i
<1>4. CASE r.ring[i].frag[f] # None
  BY <1>1, <1>3, <1>4
<1>5. CASE r.ring[i].frag[f] = None
  <2>1. /\ RingSize \in Nat /\ RingSize > 0 /\ r.alloc \in 1 .. RingSize
        /\ r.front \in Slot /\ r.failed = FALSE /\ RingShape(r)
        /\ FecK \in Nat /\ c \in 0 .. RingSize - 1 /\ c \in 0 .. RingSize
    BY <1>1, Parameters DEF Consistent, RingShape
  <2>2. i \in Slot /\ r.ring[i] = At(r, c)
    BY <1>2, <2>1, Places DEF At
  <2>3. Collecting(r.ring[i]) /\ SlotShape(r.ring[i])
    BY <1>1, <2>2 DEF Consistent, RingShape
  <2>4. /\ SameBut(kept, r, i)
        /\ kept.ring[i].block = r.ring[i].block
        /\ kept.ring[i].toSend = r.ring[i].toSend
        /\ kept.ring[i].has = r.ring[i].has + 1
        /\ kept.ring[i].has = Cardinality(Present(kept.ring[i]))
    <3>1. r.ring[i].has = Cardinality(Present(r.ring[i]))
      BY <2>3 DEF Collecting
    <3>2. RingShape(r) /\ i \in Slot
      BY <2>1, <2>2
    <3> QED
      BY <1>5, <3>1, <3>2, StoreKeeps
  <2> HIDE DEF kept
  <2>5. /\ SameBut(next, r, i)
        /\ next.ring[i].block = r.ring[i].block
        /\ next.ring[i].has = kept.ring[i].has
        /\ next.ring[i].frag = kept.ring[i].frag
        /\ i # r.front => next.ring[i].toSend = r.ring[i].toSend
    <3>1. CASE i = r.front
      <4> DEFINE q == SendContiguous(kept, i)
      <4>1. /\ SameBut(q, kept, i)
            /\ q.ring[i].block = kept.ring[i].block
            /\ q.ring[i].has = kept.ring[i].has
            /\ q.ring[i].frag = kept.ring[i].frag
        BY <2>2, <2>4, SendKeeps DEF SameBut
      <4> HIDE DEF q
      <4>2. next = q
        BY <3>1 DEF q
      <4> QED
        BY <2>4, <3>1, <4>1, <4>2 DEF SameBut
    <3>2. CASE i # r.front
      BY <2>4, <3>2
    <3> QED
      BY <3>1, <3>2
  <2> HIDE DEF next
  <2>6. /\ next.ring[i].has = r.ring[i].has + 1
        /\ next.ring[i].has = Cardinality(Present(next.ring[i]))
        /\ RingShape(next) /\ SlotShape(next.ring[i])
    BY <2>2, <2>4, <2>5 DEF Present, SameBut, RingShape
  <2>7. CASE next.ring[i].toSend = FecK
    <3> DEFINE q == RemoveFront(next)
    <3>1. i = r.front
      BY <2>1, <2>3, <2>5, <2>7 DEF Collecting
    <3>2. c = 0
      <4>0. r.front \in Int /\ ModN(r.front) = r.front
        BY <2>1, Places
      <4>1. r.front + 0 = r.front /\ 0 \in 0 .. RingSize - 1 /\ ModN(r.front) = r.front
        BY <2>1, <4>0
      <4>2. ModN(r.front + c) = ModN(r.front + 0)
        BY <1>2, <3>1, <4>1
      <4> QED
        BY <2>1, <4>1, <4>2, Places
    <3>3. /\ DOMAIN q = AggFields /\ q.known = r.known /\ q.failed = FALSE
          /\ q.ring = next.ring /\ q.alloc = r.alloc - 1 /\ q.front = ModN(r.front + 1)
      BY <2>1, <2>5, <2>6 DEF RemoveFront, SameBut, RingShape, AggFields
    <3>4. ModN(r.front + 1) \in Slot /\ q.alloc \in 0 .. RingSize
      <4>1. 1 \in 0 .. RingSize /\ q.alloc \in 0 .. RingSize
        BY <2>1, <3>3
      <4> QED
        BY <2>1, <4>1, Places
    <3> HIDE DEF q
    <3>5. RingShape(q)
      BY <2>5, <2>6, <3>3, <3>4 DEF RingShape, SameBut
    <3>6. c + 1 = 1
      BY <3>2
    <3>7. \A j \in Slot : j # ModN(r.front + c) => q.ring[j] = r.ring[j]
      BY <1>2, <2>5, <3>3 DEF SameBut
    <3>8. Consistent(q)
      BY <1>1, <1>2, <3>3, <3>5, <3>6, <3>7, TailConsistent
    <3> QED
      BY <1>3, <1>5, <2>7, <3>8 DEF q
  <2>8. CASE next.ring[i].toSend # FecK /\ next.ring[i].has = FecK
    <3>1. At(next, c) = next.ring[i]
      BY <1>2, <2>5 DEF At, SameBut
    <3>2. Consistent(RecoverBlock(next, i))
      BY <1>1, <1>2, <2>5, <2>6, <2>8, <3>1, RecoverKeeps
    <3> QED
      BY <1>3, <1>5, <2>8, <3>2
  <2>9. CASE next.ring[i].toSend # FecK /\ next.ring[i].has # FecK
    <3>1. At(next, c) = next.ring[i]
      BY <1>2, <2>5 DEF At, SameBut
    <3>2. next.ring[i].toSend < FecK /\ next.ring[i].has < FecK
      BY <2>1, <2>3, <2>6, <2>9 DEF SlotShape, Collecting
    <3>3. Collecting(At(next, c))
      BY <2>6, <3>1, <3>2 DEF Collecting
    <3>4. Consistent(next)
      BY <1>1, <1>2, <2>2, <2>5, <3>1, <3>3, PlaceConsistent
    <3> QED
      BY <1>3, <1>5, <2>9, <3>4
  <2> QED
    BY <2>7, <2>8, <2>9
<1> QED
  BY <1>4, <1>5

-----------------------------------------------------------------------------
(***************************************************************************)
(* The link.                                                               *)
(***************************************************************************)
\* What is in the air: a fragment is never empty and has an index below FecN.
AirOK ==
  /\ blockIndex \in Nat /\ fragmentIndex \in 0 .. FecK - 1
  /\ block \in Seq(Nat) /\ sent \in Nat
  /\ \A m \in air : m.type = "data" =>
       m.block \in Nat /\ m.frag \in 0 .. FecN - 1 /\ m.body # None

LInv == AirOK /\ Consistent(agg)

LEMMA InitFecConsistent ==
  ASSUME NEW a, DOMAIN a = AggFields, a.failed = FALSE, NEW key, NEW epoch
  PROVE  Consistent(InitFec(a, key, epoch))
<1> DEFINE r == InitFec(a, key, epoch)
<1>1. /\ DOMAIN r = AggFields /\ r.front = 0 /\ r.alloc = 0 /\ r.known = NoBlock
      /\ r.ring = [i \in Slot |-> EmptySlot(0)] /\ r.failed = FALSE
  BY DEF InitFec, AggFields
<1> HIDE DEF r
<1>2. 0 \in Slot /\ 0 \in 0 .. RingSize /\ NoBlock \in Int
  BY Parameters DEF Slot, NoBlock
<1>3. SlotShape(EmptySlot(0))
  BY EmptyCollects
<1>4. RingShape(r)
  BY <1>1, <1>2, <1>3 DEF RingShape
<1>5. Consistent(r)
  BY <1>1, <1>4 DEF Consistent
<1> QED
  BY <1>5 DEF r

LEMMA LinkStarts == LinkInit => LInv
<1> SUFFICES ASSUME LinkInit PROVE LInv
  OBVIOUS
<1>1. AirOK
  BY Parameters DEF LinkInit, TxInit, AirOK
<1>2. Consistent(agg)
  <2> DEFINE z == [key |-> 0, epoch |-> 0, front |-> 0, alloc |-> 0,
                   known |-> NoBlock, ring |-> <<>>, out |-> <<>>, failed |-> FALSE]
  <2>1. DOMAIN z = AggFields /\ z.failed = FALSE
    BY DEF AggFields
  <2>2. agg = InitFec(z, 0, 0)
    BY DEF LinkInit, RxInit
  <2> HIDE DEF z
  <2> QED
    BY <2>1, <2>2, InitFecConsistent
<1> QED
  BY <1>1, <1>2 DEF LInv

\* sendPacket puts only well-formed fragments on the air.
LEMMA SendPacketAir ==
  ASSUME AirOK, NEW p \in Nat, NEW ann, \A m \in ann : m.type = "session",
         SendPacket(p, ann), sent' \in Nat
  PROVE  AirOK'
<1> DEFINE word == Append(block, p)
           frag == Fragment(fragmentIndex, <<p>>)
           Good(m) == m.type = "data" =>
                        m.block \in Nat /\ m.frag \in 0 .. FecN - 1 /\ m.body # None
<1>1. /\ blockIndex \in Nat /\ fragmentIndex \in 0 .. FecK - 1
      /\ block \in Seq(Nat) /\ \A m \in air : Good(m)
  BY DEF AirOK
<1>2. FecK \in Nat /\ FecK > 0 /\ FecN \in Nat /\ FecK <= FecN
  BY Parameters
<1>3. word \in Seq(Nat) /\ word # <<>>
  BY <1>1
<1>4. Good(frag)
  <2>1. <<p>> # <<>>
    OBVIOUS
  <2> QED
    BY <1>1, <1>2, <2>1 DEF Fragment, None
<1>5. \A m \in Parity(word) : Good(m)
  <2> HIDE DEF word
  <2>1. ASSUME NEW f \in FecK .. FecN - 1
        PROVE  Good(Fragment(f, word))
    BY <1>1, <1>2, <1>3 DEF Fragment, None
  <2> QED
    BY <2>1 DEF Parity
<1>6. \A m \in NewKeys : Good(m)
  BY DEF NewKeys
<1>7. \A m \in ann : Good(m)
  OBVIOUS
<1> HIDE DEF Good, word, frag
<1>8. CASE fragmentIndex + 1 < FecK
  <2>1. /\ block' = word /\ fragmentIndex' = fragmentIndex + 1
        /\ air' = air \cup ann \cup {frag} /\ blockIndex' = blockIndex
    BY <1>8 DEF SendPacket, word, frag
  <2>2. fragmentIndex' \in 0 .. FecK - 1
    BY <1>1, <1>2, <1>8, <2>1
  <2>3. \A m \in air' : Good(m)
    BY <1>1, <1>4, <1>7, <2>1
  <2> QED
    BY <1>1, <1>3, <2>1, <2>2, <2>3 DEF AirOK, Good
<1>9. CASE ~(fragmentIndex + 1 < FecK)
  <2>1. /\ block' = <<>> /\ fragmentIndex' = 0 /\ NextBlock
        /\ air' = air \cup ann \cup {frag} \cup Parity(word) \cup NewKeys
    BY <1>9 DEF SendPacket, word, frag
  <2>2. blockIndex' \in Nat
    BY <1>1, <2>1 DEF NextBlock
  <2>3. \A m \in air' : Good(m)
    BY <1>1, <1>4, <1>5, <1>6, <1>7, <2>1
  <2>4. 0 \in 0 .. FecK - 1 /\ <<>> \in Seq(Nat)
    BY <1>2
  <2> QED
    BY <2>1, <2>2, <2>3, <2>4 DEF AirOK, Good
<1> QED
  BY <1>8, <1>9

LEMMA LinkSteps == LInv /\ [LinkNext]_linkVars => LInv'
<1> SUFFICES ASSUME LInv, [LinkNext]_linkVars PROVE LInv'
  OBVIOUS
<1>0. AirOK /\ Consistent(agg)
  BY DEF LInv
<1>1. CASE Transmit /\ UNCHANGED <<agg, stored, complete>>
  <2>1. Consistent(agg)'
    BY <1>0, <1>1 DEF Consistent, RingShape, At, Collecting, Present
  <2>2. CASE DataArrives
    <3>1. sent \in Nat /\ sent + 1 \in Nat /\ sent' = sent + 1
      BY <1>0, <2>2 DEF AirOK, DataArrives
    <3>2. \A m \in {Announcement(Session)} : m.type = "session"
      BY DEF Announcement
    <3>3. SendPacket(sent + 1, {Announcement(Session)})
      BY <2>2 DEF DataArrives
    <3>4. AirOK'
      BY <1>0, <3>1, <3>2, <3>3, SendPacketAir
    <3> QED
      BY <2>1, <3>4 DEF LInv
  <2>3. CASE FecTimeout
    <3>1. sent' \in Nat /\ Fill \in Nat /\ SendPacket(Fill, {})
      BY <1>0, <2>3 DEF AirOK, FecTimeout, Fill
    <3>2. AirOK'
      BY <1>0, <3>1, SendPacketAir
    <3> QED
      BY <2>1, <3>2 DEF LInv
  <2>4. ASSUME NEW e \in Epochs, Restart(e)
        PROVE  AirOK'
    <3>1. 0 \in 0 .. FecK - 1 /\ <<>> \in Seq(Nat)
      BY Parameters
    <3> QED
      BY <1>0, <2>4, <3>1 DEF AirOK, Restart
  <2> QED
    BY <1>1, <2>1, <2>2, <2>3, <2>4 DEF LInv, Transmit
<1>2. ASSUME NEW m \in air, ReceiveData(m)
      PROVE  LInv'
  <2>1. AirOK'
    BY <1>0, <1>2 DEF ReceiveData, txVars, AirOK
  <2>2. m.block \in Nat /\ m.frag \in 0 .. FecN - 1 /\ m.body # None
    BY <1>0, <1>2 DEF AirOK, ReceiveData
  <2>3. /\ ~Processed(agg, m.block)
        /\ agg' = AddFragment(agg, m.block, m.frag, m.body)
    BY <1>2 DEF ReceiveData, TakeData
  <2>4. Consistent(AddFragment(agg, m.block, m.frag, m.body))
    BY <1>0, <2>2, <2>3, AddConsistent
  <2>5. Consistent(agg')
    BY <2>3, <2>4
  <2> QED
    BY <2>1, <2>5 DEF LInv, Consistent, RingShape, At, Collecting, Present
<1>3. ASSUME NEW m \in air, ReceiveSession(m)
      PROVE  LInv'
  <2>1. AirOK'
    BY <1>0, <1>3 DEF ReceiveSession, txVars, AirOK
  <2>2. agg' = InitFec(agg, m.key, m.epoch)
    BY <1>3 DEF ReceiveSession, TakeSession
  <2>3. Consistent(InitFec(agg, m.key, m.epoch))
    <3>1. DOMAIN agg = AggFields /\ agg.failed = FALSE
      BY <1>0 DEF Consistent, RingShape
    <3> QED
      BY <3>1, InitFecConsistent
  <2>4. Consistent(agg')
    BY <2>2, <2>3
  <2> QED
    BY <2>1, <2>4 DEF LInv, Consistent, RingShape, At, Collecting, Present
<1>4. CASE UNCHANGED linkVars
  BY <1>0, <1>4 DEF linkVars, txVars, LInv, AirOK, Consistent, RingShape, At,
    Collecting, Present
<1> QED
  BY <1>1, <1>2, <1>3, <1>4 DEF LinkNext, Receive

\* The inductive invariant of the link holds in every reachable state.
THEOREM LinkInv == LinkSpec => []LInv
<1> QED
  BY LinkStarts, LinkSteps, PTL DEF LinkSpec

\* No assert of process_packet and get_block_ring_idx fails, and the ring holds
\* consecutive unfinished blocks up to last_known_block, for every FEC code,
\* every ring size, and any loss, repetition, delay and reordering.
THEOREM RingAlwaysConsistent == LinkSpec => []RingConsistent
<1>1. LInv => RingConsistent
  BY DEF LInv, Consistent, RingShape, RingConsistent, At, Collecting, Present
<1> QED
  BY <1>1, LinkInv, PTL

-----------------------------------------------------------------------------
(***************************************************************************)
(* What the transmitter puts on the air.                                   *)
(***************************************************************************)
Fragments == {m \in air : m.type = "data"}
Packets == {m \in Fragments : m.frag < FecK}

\* Fragment f of block b of session k, with this body, is in F.
Among(F, k, b, f, body) ==
  \E m \in F : m.key = k /\ m.block = b /\ m.frag = f /\ m.body = body

\* The transmitter sent m earlier than n.
Before(m, n) ==
  \/ m.key < n.key
  \/ m.key = n.key /\ m.block < n.block
  \/ m.key = n.key /\ m.block = n.block /\ m.frag < n.frag

\* The fragments of the block under way are on the air, and sessions are
\* announced with their epochs, which do not decrease.
Underway ==
  /\ Len(block) = fragmentIndex
  /\ \A j \in 0 .. fragmentIndex - 1 : Among(Fragments, Session, blockIndex, j, <<block[j + 1]>>)
  /\ epochs \in Seq(Nat) /\ Len(epochs) > 0
  /\ \A i, j \in 1 .. Len(epochs) : i <= j => epochs[i] <= epochs[j]
  /\ \A m \in air : m.type = "session" =>
       m.key \in 1 .. Len(epochs) /\ m.epoch = epochs[m.key]

\* A fragment is from before the point the transmitter is at.  A data fragment
\* is one packet; a parity fragment is data fragments that were sent.
FragmentsOK ==
  \A m \in Fragments :
    /\ m.key \in 1 .. Len(epochs)
    /\ \/ m.key < Len(epochs)
       \/ m.block < blockIndex
       \/ m.block = blockIndex /\ m.frag < fragmentIndex
    /\ m.frag < FecK => m.body = <<m.body[1]>> /\ m.body[1] \in 0 .. sent
    /\ m.frag >= FecK =>
         /\ m.body \in Seq(Nat) /\ Len(m.body) = FecK
         /\ \A f \in 0 .. FecK - 1 : Among(Fragments, m.key, m.block, f, <<m.body[f + 1]>>)

\* A nonce has one body, and packets are numbered in the order they were sent.
Ordered ==
  /\ \A m, n \in Fragments :
       m.key = n.key /\ m.block = n.block /\ m.frag = n.frag => m.body = n.body
  /\ \A m, n \in Packets :
       Before(m, n) /\ m.body[1] # Fill /\ n.body[1] # Fill => m.body[1] < n.body[1]

TInv == AirOK /\ Underway /\ FragmentsOK /\ Ordered

LEMMA TxStarts == LinkInit => TInv
<1> SUFFICES ASSUME LinkInit PROVE TInv
  OBVIOUS
<1>1. AirOK
  BY LinkStarts DEF LInv
<1>2. air = {} /\ epochs = <<0>> /\ block = <<>> /\ fragmentIndex = 0
  BY DEF LinkInit, TxInit
<1>3. Fragments = {} /\ Packets = {}
  BY <1>2 DEF Fragments, Packets
<1>4. Len(epochs) = 1 /\ epochs[1] = 0 /\ epochs \in Seq(Nat) /\ Len(block) = 0
  BY <1>2
<1>5. Underway
  BY <1>2, <1>4 DEF Underway
<1> QED
  BY <1>1, <1>3, <1>5 DEF TInv, FragmentsOK, Ordered

\* One packet more, p, the Fill packet or the next of the application's.
LEMMA TxSends ==
  ASSUME TInv, NEW p \in Nat, p = Fill \/ p = sent + 1,
         sent' \in Nat, sent <= sent', p <= sent',
         NEW ann, \A m \in ann : m.type = "session" /\ m.key = Len(epochs)
                                 /\ m.epoch = epochs[Len(epochs)],
         SendPacket(p, ann)
  PROVE  /\ TInv'
         /\ air \subseteq air'
         /\ \A m \in Packets' : m \in Packets \/ m.body[1] = p
<1> DEFINE K == Len(epochs)
           word == Append(block, p)
           frag == Fragment(fragmentIndex, <<p>>)
           par == IF fragmentIndex + 1 < FecK THEN {} ELSE Parity(word)
           keys == IF fragmentIndex + 1 < FecK THEN {} ELSE NewKeys
<1>1. /\ AirOK /\ Underway /\ FragmentsOK /\ Ordered
      /\ FecK \in Nat /\ FecK > 0 /\ FecN \in Nat /\ FecK <= FecN
      /\ blockIndex \in Nat /\ fragmentIndex \in 0 .. FecK - 1 /\ sent \in Nat
      /\ block \in Seq(Nat) /\ epochs \in Seq(Nat) /\ K \in Nat /\ K > 0
      /\ Len(block) = fragmentIndex
  BY Parameters DEF TInv, AirOK, Underway
<1>2. /\ word \in Seq(Nat) /\ Len(word) = fragmentIndex + 1
      /\ \A j \in 0 .. fragmentIndex - 1 : word[j + 1] = block[j + 1]
      /\ word[fragmentIndex + 1] = p
  BY <1>1
<1>3. air' = air \cup ann \cup {frag} \cup par \cup keys
  BY DEF SendPacket
<1>4. AirOK'
  BY <1>1, SendPacketAir
<1>5. /\ frag.type = "data" /\ frag.key = K /\ frag.block = blockIndex
      /\ frag.frag = fragmentIndex /\ frag.body = <<p>> /\ frag.body[1] = p
  BY DEF Fragment, Session
<1>6. \A m \in par : /\ m.type = "data" /\ m.key = K /\ m.block = blockIndex
                     /\ m.frag \in FecK .. FecN - 1 /\ m.body = word
                     /\ ~(fragmentIndex + 1 < FecK)
  <2> HIDE DEF word
  <2> QED
    BY DEF Parity, Fragment, Session
<1>7. \A m \in keys : /\ m.type = "session" /\ m.key \in K + 1 .. Len(epochs')
                      /\ m.epoch = epochs'[m.key]
  BY DEF NewKeys, Session
<1> HIDE DEF word, frag, par, keys, K
<1>8. Fragments' = Fragments \cup {frag} \cup par
  BY <1>3, <1>5, <1>6, <1>7 DEF Fragments
<1>90. K \in Nat /\ K > 0 /\ blockIndex \in Nat /\ fragmentIndex \in Nat
  BY <1>1 DEF K
<1>9. \A m \in Fragments : /\ m.key \in 1 .. K /\ m.block \in Nat /\ m.frag \in 0 .. FecN - 1
                           /\ \/ m.key < K
                              \/ m.block < blockIndex
                              \/ m.block = blockIndex /\ m.frag < fragmentIndex
  BY <1>1 DEF FragmentsOK, AirOK, Fragments, K
<1>91. ASSUME NEW m \in Fragments
       PROVE  ~(m.key = K /\ m.block = blockIndex /\ m.frag >= fragmentIndex)
  <2>1. /\ m.block \in Nat /\ m.frag \in Int
        /\ \/ m.key < K
           \/ m.block < blockIndex
           \/ m.block = blockIndex /\ m.frag < fragmentIndex
    BY <1>9
  <2> QED
    BY <1>90, <2>1
<1>92. \A m \in Fragments' : m \notin Fragments =>
         m.key = K /\ m.block = blockIndex /\ m.frag >= fragmentIndex
  BY <1>1, <1>5, <1>6, <1>8
<1>10. \A k, b, f, w : Among(Fragments, k, b, f, w) => Among(Fragments', k, b, f, w)
  BY <1>8 DEF Among
<1>11. ASSUME NEW f \in 0 .. fragmentIndex
       PROVE  Among(Fragments', K, blockIndex, f, <<word[f + 1]>>)
  <2>1. CASE f = fragmentIndex
    <3>1. frag \in Fragments' /\ <<word[f + 1]>> = <<p>>
      BY <1>2, <1>8, <2>1
    <3> QED
      BY <1>5, <2>1, <3>1 DEF Among
  <2>2. CASE f \in 0 .. fragmentIndex - 1
    <3>1. Among(Fragments, K, blockIndex, f, <<word[f + 1]>>)
      BY <1>1, <1>2, <2>2 DEF Underway, Session, K
    <3> QED
      BY <1>10, <3>1
  <2> QED
    BY <1>1, <2>1, <2>2
<1>12. \/ /\ fragmentIndex + 1 < FecK /\ fragmentIndex' = fragmentIndex + 1
          /\ block' = word /\ blockIndex' = blockIndex /\ epochs' = epochs
          /\ keys = {}
       \/ /\ ~(fragmentIndex + 1 < FecK) /\ fragmentIndex' = 0 /\ block' = <<>>
          /\ \/ blockIndex' = blockIndex + 1 /\ epochs' = epochs
             \/ blockIndex' = 0 /\ epochs' = Append(epochs, epochs[K])
  BY DEF SendPacket, NextBlock, word, keys, Session, K
<1>13. /\ epochs' \in Seq(Nat) /\ Len(epochs') \in {K, K + 1}
       /\ \A i \in 1 .. K : epochs'[i] = epochs[i]
       /\ Len(epochs') = K + 1 => epochs'[K + 1] = epochs[K] /\ fragmentIndex' = 0
  <2>1. CASE epochs' = epochs
    BY <1>1, <2>1 DEF K
  <2>2. CASE epochs' = Append(epochs, epochs[K]) /\ fragmentIndex' = 0
    <3>1. epochs[K] \in Nat
      BY <1>1 DEF K
    <3> QED
      BY <1>1, <2>2, <3>1 DEF K
  <2> QED
    BY <1>12, <2>1, <2>2
<1>14. Underway'
  <2>1. Len(block') = fragmentIndex'
    BY <1>1, <1>2, <1>12
  <2>2. ASSUME NEW j \in 0 .. fragmentIndex' - 1
        PROVE  Among(Fragments', Len(epochs'), blockIndex', j, <<block'[j + 1]>>)
    <3>1. /\ fragmentIndex' = fragmentIndex + 1 /\ block' = word
          /\ blockIndex' = blockIndex /\ Len(epochs') = K
      BY <1>1, <1>12, <2>2 DEF K
    <3>2. j \in 0 .. fragmentIndex
      BY <1>1, <3>1
    <3> QED
      BY <1>11, <3>1, <3>2 DEF Among
  <2>3. ASSUME NEW i \in 1 .. Len(epochs'), NEW j \in 1 .. Len(epochs'), i <= j
        PROVE  epochs'[i] <= epochs'[j]
    <3>1. \A a, b \in 1 .. K : a <= b => epochs[a] <= epochs[b]
      BY <1>1 DEF Underway, K
    <3>2. \A a \in 1 .. K : epochs[a] \in Nat
      BY <1>1 DEF K
    <3>3. CASE j \in 1 .. K
      <4>1. i \in 1 .. K
        BY <1>90, <2>3, <3>3
      <4> QED
        BY <1>13, <2>3, <3>1, <3>3, <4>1
    <3>4. CASE j = K + 1 /\ Len(epochs') = K + 1
      <4>1. epochs'[j] = epochs[K] /\ K \in 1 .. K
        BY <1>1, <1>13, <3>4
      <4>2. CASE i = K + 1
        BY <1>13, <3>2, <3>4, <4>1, <4>2
      <4>3. CASE i \in 1 .. K
        BY <1>13, <3>1, <4>1, <4>3
      <4> QED
        BY <1>1, <3>4, <4>2, <4>3
    <3> QED
      BY <1>1, <1>13, <3>3, <3>4
  <2>4. ASSUME NEW m \in air', m.type = "session"
        PROVE  m.key \in 1 .. Len(epochs') /\ m.epoch = epochs'[m.key]
    <3>1. m \in air \cup ann \/ m \in keys
      BY <1>3, <1>5, <1>6, <2>4
    <3>2. CASE m \in air \cup ann
      <4>1. m.key \in 1 .. K /\ m.epoch = epochs[m.key]
        BY <1>1, <2>4, <3>2 DEF Underway, K
      <4> QED
        <5>1. 1 .. K \subseteq 1 .. Len(epochs')
          BY <1>13, <1>90
        <5> QED
          BY <1>13, <4>1, <5>1
    <3>3. CASE m \in keys
      BY <1>1, <1>7, <3>3
    <3> QED
      BY <3>1, <3>2, <3>3
  <2> QED
    BY <1>1, <1>13, <2>1, <2>2, <2>3, <2>4 DEF Underway, Session
<1>15. FragmentsOK'
  <2> SUFFICES ASSUME NEW m \in Fragments'
               PROVE  /\ m.key \in 1 .. Len(epochs')
                      /\ \/ m.key < Len(epochs')
                         \/ m.block < blockIndex'
                         \/ m.block = blockIndex' /\ m.frag < fragmentIndex'
                      /\ m.frag < FecK => m.body = <<m.body[1]>> /\ m.body[1] \in 0 .. sent'
                      /\ m.frag >= FecK =>
                           /\ m.body \in Seq(Nat) /\ Len(m.body) = FecK
                           /\ \A f \in 0 .. FecK - 1 :
                                Among(Fragments', m.key, m.block, f, <<m.body[f + 1]>>)
    BY DEF FragmentsOK, Among
  <2>1. CASE m \in Fragments
    <3>1. /\ m.key \in 1 .. Len(epochs')
          /\ \/ m.key < Len(epochs')
             \/ m.block < blockIndex'
             \/ m.block = blockIndex' /\ m.frag < fragmentIndex'
      <4>1. /\ m.key \in 1 .. K /\ m.block \in Nat
            /\ \/ m.key < K
               \/ m.block < blockIndex
               \/ m.block = blockIndex /\ m.frag < fragmentIndex
            /\ m.frag \in Int
        BY <1>9, <2>1
      <4>2. CASE fragmentIndex' = fragmentIndex + 1 /\ blockIndex' = blockIndex
                 /\ Len(epochs') = K
        BY <1>90, <4>1, <4>2
      <4>3. CASE blockIndex' = blockIndex + 1 /\ Len(epochs') = K
        BY <1>90, <4>1, <4>3
      <4>4. CASE Len(epochs') = K + 1
        BY <1>90, <4>1, <4>4
      <4> QED
        BY <1>1, <1>12, <1>13, <4>2, <4>3, <4>4 DEF K
    <3>2. m.frag < FecK => m.body = <<m.body[1]>> /\ m.body[1] \in 0 .. sent
      BY <1>1, <2>1 DEF FragmentsOK
    <3>3. m.frag >= FecK =>
            /\ m.body \in Seq(Nat) /\ Len(m.body) = FecK
            /\ \A f \in 0 .. FecK - 1 : Among(Fragments, m.key, m.block, f, <<m.body[f + 1]>>)
      BY <1>1, <2>1 DEF FragmentsOK
    <3>4. 0 .. sent \subseteq 0 .. sent'
      BY <1>1
    <3> QED
      BY <1>10, <3>1, <3>2, <3>3, <3>4
  <2>2. CASE m = frag
    <3>1. m.key \in 1 .. Len(epochs') /\ m.frag < FecK /\ ~(m.frag >= FecK)
      <4>1. m.key = K /\ m.frag = fragmentIndex /\ Len(epochs') \in {K, K + 1}
        BY <1>5, <1>13, <2>2
      <4>2. fragmentIndex < FecK /\ FecK \in Nat
        BY <1>1
      <4> QED
        BY <1>90, <4>1, <4>2
    <3>2. \/ m.key < Len(epochs')
          \/ m.block < blockIndex'
          \/ m.block = blockIndex' /\ m.frag < fragmentIndex'
      BY <1>1, <1>5, <1>12, <1>13, <2>2 DEF K
    <3>3. m.body = <<m.body[1]>> /\ m.body[1] \in 0 .. sent'
      BY <1>5, <2>2
    <3> QED
      BY <3>1, <3>2, <3>3
  <2>3. CASE m \in par
    <3>1. /\ m.key = K /\ m.block = blockIndex /\ m.frag \in FecK .. FecN - 1
          /\ m.body = word /\ ~(fragmentIndex + 1 < FecK)
      BY <1>6, <2>3
    <3>2. fragmentIndex = FecK - 1 /\ ~(m.frag < FecK)
      BY <1>1, <3>1
    <3>3. /\ m.key \in 1 .. Len(epochs')
          /\ \/ m.key < Len(epochs')
             \/ m.block < blockIndex'
             \/ m.block = blockIndex' /\ m.frag < fragmentIndex'
      BY <1>1, <1>12, <1>13, <3>1 DEF K
    <3>4. m.body \in Seq(Nat) /\ Len(m.body) = FecK
      BY <1>1, <1>2, <3>1, <3>2
    <3>5. \A f \in 0 .. FecK - 1 : Among(Fragments', m.key, m.block, f, <<m.body[f + 1]>>)
      BY <1>11, <3>1, <3>2 DEF Among
    <3> QED
      BY <3>2, <3>3, <3>4, <3>5
  <2> QED
    BY <1>8, <2>1, <2>2, <2>3
<1>16. Ordered'
  <2>1. ASSUME NEW m \in Fragments', NEW n \in Fragments',
               m.key = n.key, m.block = n.block, m.frag = n.frag
        PROVE  m.body = n.body
    <3>1. CASE m \in Fragments /\ n \in Fragments
      BY <1>1, <2>1, <3>1 DEF Ordered
    <3>2. CASE m \in Fragments /\ n \notin Fragments
      BY <1>91, <1>92, <2>1, <3>2
    <3>3. CASE m \notin Fragments /\ n \in Fragments
      BY <1>91, <1>92, <2>1, <3>3
    <3>4. CASE m \notin Fragments /\ n \notin Fragments
      BY <1>1, <1>5, <1>6, <1>8, <2>1, <3>4
    <3> QED
      BY <3>1, <3>2, <3>3, <3>4
  <2>2. ASSUME NEW m \in Packets', NEW n \in Packets', Before(m, n),
               m.body[1] # Fill, n.body[1] # Fill
        PROVE  m.body[1] < n.body[1]
    <3>1. Packets' = Packets \cup {frag}
      BY <1>1, <1>5, <1>6, <1>8 DEF Packets
    <3>2. \A q \in Packets : q \in Fragments /\ q.body[1] \in 0 .. sent
      BY <1>1 DEF Packets, FragmentsOK
    <3>3. CASE m \in Packets /\ n \in Packets
      BY <1>1, <2>2, <3>3 DEF Ordered
    <3>4. CASE m \in Packets /\ n = frag
      BY <1>1, <1>5, <2>2, <3>2, <3>4
    <3>5. CASE m = frag
      <4>1. ~Before(frag, frag)
        BY <1>1, <1>5 DEF Before
      <4>2. ASSUME NEW q \in Fragments PROVE ~Before(frag, q)
        <5>1. /\ q.key \in 1 .. K /\ q.block \in Nat /\ q.frag \in Int
              /\ \/ q.key < K
                 \/ q.block < blockIndex
                 \/ q.block = blockIndex /\ q.frag < fragmentIndex
          BY <1>9
        <5> QED
          BY <1>5, <1>90, <5>1 DEF Before
      <4> QED
        BY <2>2, <3>1, <3>2, <3>5, <4>1, <4>2
    <3> QED
      BY <2>2, <3>1, <3>3, <3>4, <3>5
  <2> QED
    BY <2>1, <2>2 DEF Ordered, Before
<1>17. \A m \in Packets' : m \in Packets \/ m.body[1] = p
  BY <1>1, <1>5, <1>6, <1>8 DEF Packets
<1> QED
  BY <1>3, <1>4, <1>14, <1>15, <1>16, <1>17 DEF TInv

-----------------------------------------------------------------------------
(***************************************************************************)
(* What the receiver passes on.                                            *)
(***************************************************************************)
Elements(o) == {o[i] : i \in 1 .. Len(o)}

\* Packet numbers up to n, in order and none twice.
InSequence(o, n) ==
  /\ o \in Seq(Nat)
  /\ \A i \in 1 .. Len(o) : o[i] \in 1 .. n
  /\ \A i \in 2 .. Len(o) : o[i - 1] < o[i]

Continues(q, o) == Len(o) <= Len(q) /\ \A i \in 1 .. Len(o) : q[i] = o[i]

LEMMA AppendPacket ==
  ASSUME NEW n \in Nat, NEW o, InSequence(o, n), NEW x \in 1 .. n,
         \A y \in Elements(o) : y < x
  PROVE  /\ InSequence(Append(o, x), n) /\ Continues(Append(o, x), o)
         /\ Elements(Append(o, x)) = Elements(o) \cup {x}
<1> DEFINE q == Append(o, x)
           l == Len(o)
<1>1. /\ o \in Seq(Nat) /\ l \in Nat /\ x \in Nat
  BY DEF InSequence
<1>2. /\ q \in Seq(Nat) /\ Len(q) = l + 1 /\ q[l + 1] = x
      /\ \A i \in 1 .. l : q[i] = o[i]
  BY <1>1
<1> HIDE DEF q, l
<1>3. \A i \in 1 .. l : o[i] \in Elements(o) /\ o[i] < x /\ o[i] \in 1 .. n
  BY DEF Elements, InSequence, l
<1>4. \A i \in 1 .. l + 1 : i \in 1 .. l \/ i = l + 1
  BY <1>1
<1>5. ASSUME NEW i \in 2 .. Len(q) PROVE q[i - 1] < q[i]
  <2>1. CASE i = l + 1
    <3>1. i - 1 \in 1 .. l
      BY <1>1, <1>2, <2>1
    <3> QED
      BY <1>2, <1>3, <2>1, <3>1
  <2>2. CASE i # l + 1
    <3>1. i \in 2 .. l /\ i \in 1 .. l /\ i - 1 \in 1 .. l
      BY <1>1, <1>2, <2>2
    <3>2. o[i - 1] < o[i]
      BY <3>1 DEF InSequence, l
    <3> QED
      BY <1>2, <3>1, <3>2
  <2> QED
    BY <2>1, <2>2
<1>6. InSequence(q, n)
  BY <1>2, <1>3, <1>4, <1>5 DEF InSequence
<1>7. Continues(q, o)
  BY <1>1, <1>2 DEF Continues, l
<1>8. Elements(q) = Elements(o) \cup {x}
  <2>1. l + 1 \in 1 .. Len(q)
    BY <1>1, <1>2
  <2>2. 1 .. l \subseteq 1 .. Len(q)
    BY <1>1, <1>2
  <2>3. x \in Elements(q)
    BY <1>2, <2>1 DEF Elements
  <2>4. ASSUME NEW y \in Elements(o) PROVE y \in Elements(q)
    BY <1>2, <2>2 DEF Elements, l
  <2>5. ASSUME NEW y \in Elements(q) PROVE y \in Elements(o) \cup {x}
    <3>1. PICK i \in 1 .. Len(q) : y = q[i]
      BY DEF Elements
    <3> QED
      BY <1>2, <1>3, <1>4, <3>1
  <2> QED
    BY <2>3, <2>4, <2>5
<1> QED
  BY <1>6, <1>7, <1>8 DEF q

\* The data fragments of s from toSend to end - 1 that are there, as packets.
There(s, end) ==
  {s.frag[f][1] : f \in {g \in s.toSend .. end - 1 :
                           s.frag[g] # None /\ s.frag[g][1] # Fill}}

\* What upTo of SendThere is a solution of, and that there is one.
SendLoop(g, out, s) ==
  [f \in 0 .. FecK |->
     IF f <= s.toSend THEN out
     ELSE IF s.frag[f - 1] = None THEN g[f - 1]
     ELSE RxSendPacket(g[f - 1], s.frag[f - 1])]

LEMMA SendDefined ==
  ASSUME NEW out, NEW s, s.toSend \in Nat
  PROVE  \E g : g = SendLoop(g, out, s)
<1> DEFINE Step(r, f) == IF f <= s.toSend THEN out
                         ELSE IF s.frag[f - 1] = None THEN r
                         ELSE RxSendPacket(r, s.frag[f - 1])
           Loop(g, m) == [f \in 0 .. m |-> Step(g[f - 1], f)]
           T == {m \in Nat : \E g : g = Loop(g, m)}
<1>0. \A r : Step(r, 0) = out
  OBVIOUS
<1> HIDE DEF Step
<1>1. 0 \in T
  <2> DEFINE g == [f \in 0 .. 0 |-> out]
  <2>1. g = Loop(g, 0)
    BY <1>0
  <2> QED
    BY <2>1
<1>2. ASSUME NEW m \in 0 .. FecK - 1, m \in T
      PROVE  m + 1 \in T
  <2>1. PICK g : g = Loop(g, m)
    BY <1>2
  <2> DEFINE h == [f \in 0 .. m + 1 |->
                     IF f = m + 1 THEN Step(g[m], m + 1) ELSE g[f]]
  <2>2. ASSUME NEW f \in 0 .. m + 1
        PROVE  h[f] = Step(h[f - 1], f)
    <3>1. m \in Nat /\ (f \in 0 .. m \/ f = m + 1)
      BY <1>2
    <3>2. CASE f = m + 1
      <4>1. f - 1 = m /\ m \in 0 .. m + 1 /\ m # m + 1
        BY <3>1, <3>2
      <4>2. h[m] = g[m]
        BY <4>1
      <4>3. h[f] = Step(g[m], f)
        BY <3>2
      <4> QED
        BY <4>1, <4>2, <4>3
    <3>3. CASE f \in 0 .. m
      <4>1. f # m + 1 /\ (f # 0 => f - 1 \in 0 .. m + 1 /\ f - 1 # m + 1)
        BY <3>1, <3>3
      <4>2. h[f] = g[f] /\ (f # 0 => h[f - 1] = g[f - 1])
        BY <4>1
      <4>3. g[f] = Step(g[f - 1], f)
        BY <2>1, <3>3
      <4> QED
        BY <1>0, <4>2, <4>3
    <3> QED
      BY <3>1, <3>2, <3>3
  <2>3. h = Loop(h, m + 1)
    <3>1. h = [f \in 0 .. m + 1 |-> h[f]]
      OBVIOUS
    <3> HIDE DEF h
    <3> QED
      BY <2>2, <3>1
  <2>4. m + 1 \in Nat
    BY <1>2
  <2> HIDE DEF h, Loop
  <2> QED
    BY <2>3, <2>4
<1>3. FecK \in T
  <2> HIDE DEF T
  <2>1. FecK \in Nat /\ FecK \in 0 .. FecK
    BY Parameters
  <2> QED
    BY <1>1, <1>2, <2>1, UpTo
<1>4. PICK g : g = Loop(g, FecK)
  BY <1>3
<1> QED
  BY <1>4 DEF Step, SendLoop

\* SendThere passes on what is there, in order.
LEMMA SendThereIs ==
  ASSUME NEW n \in Nat, NEW out, InSequence(out, n), NEW s, SlotShape(s),
         NEW end \in 0 .. FecK,
         \A f \in s.toSend .. end - 1 : s.frag[f] # None => s.frag[f][1] \in 0 .. n,
         \A x \in Elements(out) : \A y \in There(s, end) : x < y,
         \A f, g \in s.toSend .. end - 1 :
           f < g /\ s.frag[f] # None /\ s.frag[g] # None
                 /\ s.frag[f][1] # Fill /\ s.frag[g][1] # Fill
           => s.frag[f][1] < s.frag[g][1]
  PROVE  LET o == SendThere(out, s, end)
         IN /\ InSequence(o, n) /\ Continues(o, out)
            /\ Elements(o) = Elements(out) \cup There(s, end)
<1> DEFINE upTo == CHOOSE g : g = SendLoop(g, out, s)
           Good(f) == /\ InSequence(upTo[f], n) /\ Continues(upTo[f], out)
                      /\ Elements(upTo[f]) = Elements(out) \cup There(s, f)
           T == {f \in Nat : Good(f)}
<1>1. FecK \in Nat /\ s.toSend \in Nat /\ end \in Nat /\ Fill = 0
  BY Parameters DEF SlotShape, Fill
<1>2. SendThere(out, s, end) = upTo[end]
  BY DEF SendThere, SendLoop
<1>3. upTo = SendLoop(upTo, out, s)
  BY <1>1, SendDefined
<1> HIDE DEF upTo
<1>4. \A f \in 0 .. FecK : upTo[f] =
        IF f <= s.toSend THEN out
        ELSE IF s.frag[f - 1] = None THEN upTo[f - 1]
        ELSE RxSendPacket(upTo[f - 1], s.frag[f - 1])
  BY <1>3 DEF SendLoop
<1>5. ASSUME NEW f \in 0 .. FecK, f <= s.toSend
      PROVE  Good(f)
  <2>1. upTo[f] = out
    BY <1>4, <1>5
  <2>2. There(s, f) = {}
    BY <1>1, <1>5 DEF There
  <2>3. Continues(out, out)
    BY DEF Continues, InSequence
  <2> QED
    BY <2>1, <2>2, <2>3
<1>6. ASSUME NEW f \in 0 .. end - 1, f \in T
      PROVE  f + 1 \in T
  <2>0. f + 1 \in Nat /\ f + 1 \in 0 .. FecK /\ f \in Nat
    BY <1>1
  <2>1. CASE f + 1 <= s.toSend
    BY <1>5, <2>0, <2>1
  <2>2. CASE ~(f + 1 <= s.toSend)
    <3> DEFINE o == upTo[f]
    <3>1. f \in s.toSend .. end - 1 /\ (f + 1) - 1 = f /\ Good(f)
      BY <1>1, <1>6, <2>0, <2>2
    <3>2. upTo[f + 1] = IF s.frag[f] = None THEN o ELSE RxSendPacket(o, s.frag[f])
      BY <1>4, <2>0, <2>2, <3>1
    <3>3. s.toSend .. (f + 1) - 1 = (s.toSend .. f - 1) \cup {f}
      BY <1>1, <2>0, <3>1
    <3>4. CASE s.frag[f] = None
      <4>1. There(s, f + 1) = There(s, f)
        BY <3>3, <3>4 DEF There
      <4> QED
        BY <2>0, <3>1, <3>2, <3>4, <4>1
    <3>5. CASE s.frag[f] # None /\ s.frag[f][1] = Fill
      <4>1. There(s, f + 1) = There(s, f)
        BY <3>3, <3>5 DEF There
      <4>2. upTo[f + 1] = o
        BY <3>2, <3>5 DEF RxSendPacket
      <4> QED
        BY <2>0, <3>1, <4>1, <4>2
    <3>6. CASE s.frag[f] # None /\ s.frag[f][1] # Fill
      <4> DEFINE x == s.frag[f][1]
      <4>1. There(s, f + 1) = There(s, f) \cup {x}
        BY <3>3, <3>6 DEF There
      <4>2. upTo[f + 1] = Append(o, x)
        BY <3>2, <3>6 DEF RxSendPacket
      <4>3. x \in 1 .. n
        BY <1>1, <3>1, <3>6
      <4>4. x \in There(s, end)
        BY <3>1, <3>6 DEF There
      <4>5. ASSUME NEW y \in There(s, f) PROVE y < x
        <5>1. PICK g \in s.toSend .. f - 1 :
                s.frag[g] # None /\ s.frag[g][1] # Fill /\ y = s.frag[g][1]
          BY DEF There
        <5>2. g \in s.toSend .. end - 1 /\ g < f
          BY <1>1, <2>0, <3>1
        <5> QED
          BY <3>1, <3>6, <5>1, <5>2
      <4>6. \A y \in Elements(o) : y < x
        BY <3>1, <4>4, <4>5
      <4> HIDE DEF x
      <4>7. /\ InSequence(Append(o, x), n) /\ Continues(Append(o, x), o)
            /\ Elements(Append(o, x)) = Elements(o) \cup {x}
        BY <3>1, <4>3, <4>6, AppendPacket
      <4>8. Continues(Append(o, x), out)
        <5>1. Continues(o, out) /\ Len(out) \in Nat /\ Len(o) \in Nat
              /\ Len(Append(o, x)) \in Nat
          BY <3>1, <4>7 DEF InSequence
        <5> QED
          BY <4>7, <5>1 DEF Continues
      <4> QED
        BY <2>0, <3>1, <4>1, <4>2, <4>7, <4>8
    <3> QED
      BY <3>4, <3>5, <3>6
  <2> QED
    BY <2>1, <2>2
<1>7. end \in T
  <2>1. 0 \in T
    BY <1>1, <1>5
  <2>2. end \in 0 .. end
    BY <1>1
  <2> HIDE DEF T
  <2> QED
    BY <1>1, <1>6, <2>1, <2>2, UpTo
<1> QED
  BY <1>2, <1>7

-----------------------------------------------------------------------------
(***************************************************************************)
(* What is in the ring is what was sent, and later than what was passed on.*)
(***************************************************************************)
SlotHolds(k, s) ==
  \A f \in 0 .. FecN - 1 : s.frag[f] # None => Among(Fragments, k, s.block, f, s.frag[f])

\* What is before toSend has been passed on.
SentPart(o, s) ==
  \A f \in 0 .. s.toSend - 1 :
    s.frag[f] # None /\ (s.frag[f][1] = Fill \/ s.frag[f][1] \in Elements(o))

\* m may still be passed on: it is of a later session, of a block after the
\* last, or of a block in the ring and not before toSend.
Ahead(a, last, m) ==
  \/ m.key > a.key
  \/ m.key = a.key /\ m.block > last
  \/ /\ m.key = a.key
     /\ \E c \in 0 .. a.alloc - 1 : m.block = At(a, c).block /\ m.frag >= At(a, c).toSend

Flow(a, last) ==
  /\ InSequence(a.out, sent)
  /\ \A c \in 0 .. a.alloc - 1 :
       /\ SlotHolds(a.key, At(a, c)) /\ SentPart(a.out, At(a, c))
       /\ At(a, c).block <= last
  /\ \A c, d \in 0 .. a.alloc - 1 : c < d => At(a, c).block < At(a, d).block
  /\ \A x \in Elements(a.out) : \A m \in Packets :
       m.body[1] # Fill /\ Ahead(a, last, m) => x < m.body[1]

\* The packets passed on or waiting in the ring.
Held(a) ==
  Elements(a.out) \cup UNION {There(At(a, c), FecK) : c \in 0 .. a.alloc - 1}

\* r passes on what a does and perhaps more, and loses nothing.
Keeps(r, a) == Continues(r.out, a.out) /\ Held(a) \subseteq Held(r)

LEMMA ContinuesElements ==
  ASSUME NEW o \in Seq(Nat), NEW q \in Seq(Nat), Continues(q, o)
  PROVE  Elements(o) \subseteq Elements(q)
<1> SUFFICES ASSUME NEW i \in 1 .. Len(o) PROVE o[i] \in Elements(q)
  BY DEF Elements
<1>1. i \in 1 .. Len(q) /\ q[i] = o[i]
  BY DEF Continues
<1> QED
  BY <1>1 DEF Elements

LEMMA KeepsTrans ==
  ASSUME NEW a, NEW b, NEW c, Keeps(b, a), Keeps(c, b),
         a.out \in Seq(Nat), b.out \in Seq(Nat), c.out \in Seq(Nat)
  PROVE  Keeps(c, a)
<1>1. Len(a.out) \in Nat /\ Len(b.out) \in Nat /\ Len(c.out) \in Nat
  OBVIOUS
<1>2. Continues(c.out, a.out)
  BY <1>1 DEF Keeps, Continues
<1> QED
  BY <1>2 DEF Keeps

\* A slot that gets fragments keeps those it had.
LEMMA ThereGrows ==
  ASSUME NEW s, NEW t, t.toSend = s.toSend,
         \A f \in 0 .. FecK - 1 : s.frag[f] # None => t.frag[f] = s.frag[f],
         s.toSend \in Nat
  PROVE  There(s, FecK) \subseteq There(t, FecK)
<1> SUFFICES ASSUME NEW f \in s.toSend .. FecK - 1,
                    s.frag[f] # None, s.frag[f][1] # Fill
             PROVE  s.frag[f][1] \in There(t, FecK)
  BY DEF There
<1>1. f \in 0 .. FecK - 1
  BY Parameters
<1>2. t.frag[f] = s.frag[f]
  BY <1>1
<1> QED
  BY <1>2 DEF There

\* A data fragment of a slot is a packet on the air.
LEMMA SlotPackets ==
  ASSUME TInv, NEW s, NEW k, SlotHolds(k, s),
         NEW f \in 0 .. FecK - 1, s.frag[f] # None
  PROVE  /\ s.frag[f][1] \in 0 .. sent
         /\ \E m \in Packets : m.key = k /\ m.block = s.block /\ m.frag = f
                               /\ m.body = s.frag[f]
<1>1. f \in 0 .. FecN - 1 /\ f < FecK
  BY Parameters
<1>2. PICK m \in Fragments : m.key = k /\ m.block = s.block /\ m.frag = f
                             /\ m.body = s.frag[f]
  BY <1>1 DEF SlotHolds, Among
<1>3. m \in Packets
  BY <1>1, <1>2 DEF Packets
<1>4. m.body[1] \in 0 .. sent
  BY <1>1, <1>2 DEF TInv, FragmentsOK
<1> QED
  BY <1>2, <1>3, <1>4

\* The types of what is on the air.
LEMMA PacketTypes ==
  ASSUME TInv, NEW m \in Packets
  PROVE  /\ m \in Fragments /\ m.key \in Nat /\ m.block \in Nat /\ m.frag \in Nat
         /\ m.frag < FecK /\ m.body[1] \in 0 .. sent /\ sent \in Nat
BY DEF TInv, FragmentsOK, AirOK, Packets, Fragments, Underway

\* Sending what is there of the oldest block up to end.
LEMMA FrontSent ==
  ASSUME TInv, NEW a, RingShape(a), NEW last \in Int, Flow(a, last), a.alloc > 0,
         NEW end \in 0 .. FecK
  PROVE  LET s == At(a, 0)
             o == SendThere(a.out, s, end)
         IN /\ InSequence(o, sent) /\ Continues(o, a.out)
            /\ Elements(o) = Elements(a.out) \cup There(s, end)
            /\ \A x \in Elements(o) : \A m \in Packets :
                 /\ m.body[1] # Fill
                 /\ Ahead(a, last, m)
                 /\ m.key = a.key /\ m.block = s.block => m.frag >= end
                 => x < m.body[1]
<1> DEFINE s == At(a, 0)
           o == SendThere(a.out, s, end)
<1>1. /\ FecK \in Nat /\ sent \in Nat /\ 0 \in 0 .. a.alloc - 1
      /\ a.front \in Slot /\ a.alloc \in 0 .. RingSize
  BY Parameters DEF RingShape, TInv, AirOK
<1>2. SlotShape(s) /\ s.toSend \in Nat /\ s.block \in Int
  <2>1. a.front \in Int /\ ModN(a.front) = a.front
    BY <1>1, Places
  <2>2. a.front + 0 = a.front
    BY <2>1
  <2> QED
    BY <1>1, <2>1, <2>2 DEF At, RingShape, SlotShape
<1>3. /\ SlotHolds(a.key, s) /\ InSequence(a.out, sent)
      /\ \A c \in 1 .. a.alloc - 1 : s.block < At(a, c).block
      /\ s.block <= last
  <2>1. \A c \in 1 .. a.alloc - 1 : c \in 0 .. a.alloc - 1 /\ 0 < c
    BY <1>1
  <2> QED
    BY <1>1, <2>1 DEF Flow
<1> HIDE DEF s
<1>4. ASSUME NEW f \in s.toSend .. end - 1, s.frag[f] # None
      PROVE  /\ f \in 0 .. FecK - 1 /\ s.frag[f][1] \in 0 .. sent
             /\ \E m \in Packets : m.key = a.key /\ m.block = s.block /\ m.frag = f
                                   /\ m.body = s.frag[f]
  <2>1. f \in 0 .. FecK - 1
    BY <1>1, <1>2
  <2> QED
    BY <1>3, <1>4, <2>1, SlotPackets
<1>5. ASSUME NEW x \in Elements(a.out), NEW y \in There(s, end)
      PROVE  x < y
  <2>1. PICK f \in s.toSend .. end - 1 :
          s.frag[f] # None /\ s.frag[f][1] # Fill /\ y = s.frag[f][1]
    BY DEF There
  <2>2. PICK m \in Packets : m.key = a.key /\ m.block = s.block /\ m.frag = f
                             /\ m.body = s.frag[f]
    BY <1>4, <2>1
  <2>3. m.frag >= s.toSend
    BY <1>1, <1>2, <2>2
  <2>4. Ahead(a, last, m)
    BY <1>1, <2>2, <2>3 DEF Ahead, s
  <2> QED
    BY <2>1, <2>2, <2>4 DEF Flow
<1>6. ASSUME NEW f \in s.toSend .. end - 1, s.frag[f] # None, s.frag[f][1] # Fill,
             NEW m \in Packets, m.body[1] # Fill,
             \/ m.key > a.key
             \/ m.key = a.key /\ m.block > s.block
             \/ m.key = a.key /\ m.block = s.block /\ m.frag > f
      PROVE  s.frag[f][1] < m.body[1]
  <2>1. PICK p \in Packets : p.key = a.key /\ p.block = s.block /\ p.frag = f
                             /\ p.body = s.frag[f]
    BY <1>4, <1>6
  <2>2. Before(p, m)
    BY <1>6, <2>1, PacketTypes DEF Before
  <2>3. \A q, r \in Packets :
          Before(q, r) /\ q.body[1] # Fill /\ r.body[1] # Fill => q.body[1] < r.body[1]
    BY DEF TInv, Ordered
  <2> QED
    BY <1>6, <2>1, <2>2, <2>3
<1>7. ASSUME NEW f \in s.toSend .. end - 1, NEW g \in s.toSend .. end - 1, f < g,
             s.frag[f] # None, s.frag[g] # None,
             s.frag[f][1] # Fill, s.frag[g][1] # Fill
      PROVE  s.frag[f][1] < s.frag[g][1]
  <2>1. PICK m \in Packets : m.key = a.key /\ m.block = s.block /\ m.frag = g
                             /\ m.body = s.frag[g]
    BY <1>4, <1>7
  <2>2. m.frag > f
    BY <1>1, <1>2, <1>7, <2>1
  <2> QED
    BY <1>6, <1>7, <2>1, <2>2
<1>8. /\ InSequence(o, sent) /\ Continues(o, a.out)
      /\ Elements(o) = Elements(a.out) \cup There(s, end)
  BY <1>1, <1>2, <1>3, <1>4, <1>5, <1>7, SendThereIs
<1> HIDE DEF o
<1>9. ASSUME NEW x \in Elements(o), NEW m \in Packets, m.body[1] # Fill,
             Ahead(a, last, m), m.key = a.key /\ m.block = s.block => m.frag >= end
      PROVE  x < m.body[1]
  <2>1. CASE x \in Elements(a.out)
    BY <1>9, <2>1 DEF Flow
  <2>2. CASE x \in There(s, end)
    <3>1. PICK f \in s.toSend .. end - 1 :
            s.frag[f] # None /\ s.frag[f][1] # Fill /\ x = s.frag[f][1]
      BY <2>2 DEF There
    <3>2. m.key \in Nat /\ m.block \in Nat /\ m.frag \in Nat /\ f \in Int /\ f < end
      BY <1>1, <1>2, PacketTypes
    <3>3. CASE m.key > a.key
      BY <1>6, <1>9, <3>1, <3>3
    <3>4. CASE m.key = a.key /\ m.block = s.block
      <4>1. m.frag > f
        BY <1>9, <3>2, <3>4
      <4> QED
        BY <1>6, <1>9, <3>1, <3>4, <4>1
    <3>5. CASE m.key = a.key /\ m.block # s.block
      <4>1. m.block > last \/ \E c \in 0 .. a.alloc - 1 : m.block = At(a, c).block
        BY <1>9, <3>2, <3>5 DEF Ahead
      <4>2. CASE \E c \in 0 .. a.alloc - 1 : m.block = At(a, c).block
        <5>1. PICK c \in 0 .. a.alloc - 1 : m.block = At(a, c).block
          BY <4>2
        <5>2. c # 0
          BY <3>5, <5>1 DEF s
        <5>3. c \in 1 .. a.alloc - 1
          BY <5>2
        <5>4. m.block > s.block
          BY <1>2, <1>3, <3>2, <5>1, <5>3
        <5> QED
          BY <1>6, <1>9, <3>1, <3>5, <5>4
      <4>3. CASE m.block > last
        <5>1. m.block > s.block
          BY <1>2, <1>3, <3>2, <4>3
        <5> QED
          BY <1>6, <1>9, <3>1, <3>5, <5>1
      <4> QED
        BY <4>1, <4>2, <4>3
    <3> QED
      BY <1>9, <3>2, <3>3, <3>4, <3>5 DEF Ahead
  <2> QED
    BY <1>8, <2>1, <2>2
<1> QED
  BY <1>8, <1>9 DEF s, o

\* A place of the ring is a slot.
LEMMA PlaceBlocks ==
  ASSUME NEW a, RingShape(a), NEW c \in 0 .. a.alloc - 1
  PROVE  /\ SlotShape(At(a, c)) /\ At(a, c).block \in Int /\ At(a, c).toSend \in Nat
         /\ ModN(a.front + c) \in Slot /\ At(a, c) = a.ring[ModN(a.front + c)]
<1>1. a.front \in Slot /\ c \in 0 .. RingSize
  BY Parameters DEF RingShape
<1>2. ModN(a.front + c) \in Slot
  BY <1>1, Places
<1> QED
  BY <1>2 DEF At, RingShape, SlotShape

\* A later point to start new blocks from.
LEMMA FlowLater ==
  ASSUME TInv, NEW a, RingShape(a), NEW last \in Int, Flow(a, last),
         NEW x \in Int, last <= x
  PROVE  Flow(a, x)
<1>1. \A c \in 0 .. a.alloc - 1 : At(a, c).block <= x
  BY PlaceBlocks DEF Flow
<1>2. ASSUME NEW m \in Packets, Ahead(a, x, m)
      PROVE  Ahead(a, last, m)
  <2>1. m.block \in Int
    BY PacketTypes
  <2> QED
    BY <1>2, <2>1 DEF Ahead
<1> QED
  BY <1>1, <1>2 DEF Flow

\* The oldest block goes out and leaves the ring.
LEMMA FlowDrop ==
  ASSUME TInv, NEW a, RingShape(a), NEW last \in Int, Flow(a, last), a.alloc > 0,
         NEW r, r.key = a.key, r.out = SendThere(a.out, At(a, 0), FecK),
         r.alloc = a.alloc - 1, \A c \in 0 .. r.alloc - 1 : At(r, c) = At(a, c + 1)
  PROVE  Flow(r, last) /\ Keeps(r, a)
<1> DEFINE s == At(a, 0)
<1>1. a.alloc \in Nat /\ 0 \in 0 .. a.alloc - 1 /\ FecK \in 0 .. FecK
  BY Parameters DEF RingShape
<1>2. /\ InSequence(r.out, sent) /\ Continues(r.out, a.out)
      /\ Elements(r.out) = Elements(a.out) \cup There(s, FecK)
      /\ \A x \in Elements(r.out) : \A m \in Packets :
           /\ m.body[1] # Fill
           /\ Ahead(a, last, m)
           /\ m.key = a.key /\ m.block = s.block => m.frag >= FecK
           => x < m.body[1]
  BY <1>1, FrontSent
<1>3. \A c \in 0 .. r.alloc - 1 :
        c + 1 \in 0 .. a.alloc - 1 /\ 0 < c + 1 /\ At(r, c) = At(a, c + 1)
  BY <1>1
<1>4. s.block \in Int /\ s.block <= last
  BY <1>1, PlaceBlocks DEF Flow
<1>5. \A c \in 0 .. r.alloc - 1 :
        /\ SlotHolds(r.key, At(r, c)) /\ SentPart(r.out, At(r, c))
        /\ At(r, c).block <= last
        /\ s.block < At(r, c).block /\ At(r, c).block \in Int
  <2> TAKE c \in 0 .. r.alloc - 1
  <2> DEFINE d == c + 1
  <2>1. d \in 0 .. a.alloc - 1 /\ At(r, c) = At(a, d) /\ 0 < d
    BY <1>3
  <2> HIDE DEF d
  <2>2. /\ SlotHolds(a.key, At(a, d)) /\ SentPart(a.out, At(a, d))
        /\ At(a, d).block <= last /\ s.block < At(a, d).block
    BY <1>1, <2>1 DEF Flow
  <2>3. SentPart(r.out, At(a, d))
    BY <1>2, <2>2 DEF SentPart
  <2>4. At(a, d).block \in Int
    BY <2>1, PlaceBlocks
  <2> QED
    BY <2>1, <2>2, <2>3, <2>4
<1>6. \A c, d \in 0 .. r.alloc - 1 : c < d => At(r, c).block < At(r, d).block
  <2> SUFFICES ASSUME NEW c \in 0 .. r.alloc - 1, NEW d \in 0 .. r.alloc - 1, c < d
               PROVE  At(r, c).block < At(r, d).block
    OBVIOUS
  <2>1. c + 1 \in 0 .. a.alloc - 1 /\ d + 1 \in 0 .. a.alloc - 1 /\ c + 1 < d + 1
    BY <1>3
  <2> QED
    BY <1>3, <2>1 DEF Flow
<1>7. ASSUME NEW m \in Packets, Ahead(r, last, m)
      PROVE  Ahead(a, last, m) /\ ~(m.key = a.key /\ m.block = s.block)
  <2>1. m.block \in Nat /\ m.key \in Nat
    BY PacketTypes
  <2>2. CASE m.key > a.key
    BY <2>1, <2>2 DEF Ahead
  <2>3. CASE m.key = a.key /\ m.block > last
    BY <1>4, <2>1, <2>3 DEF Ahead
  <2>4. CASE m.key = a.key /\ \E c \in 0 .. r.alloc - 1 :
               m.block = At(r, c).block /\ m.frag >= At(r, c).toSend
    <3>1. PICK c \in 0 .. r.alloc - 1 : m.block = At(r, c).block /\ m.frag >= At(r, c).toSend
      BY <2>4
    <3> DEFINE d == c + 1
    <3>2. d \in 0 .. a.alloc - 1 /\ At(r, c) = At(a, d)
      BY <1>3
    <3> HIDE DEF d
    <3>3. s.block < At(r, c).block
      BY <1>5
    <3>4. m.block # s.block
      BY <1>4, <2>1, <3>1, <3>3
    <3> QED
      BY <2>4, <3>1, <3>2, <3>4 DEF Ahead
  <2> QED
    BY <1>7, <2>2, <2>3, <2>4 DEF Ahead
<1>8. Flow(r, last)
  BY <1>2, <1>5, <1>6, <1>7 DEF Flow
<1>9. Held(a) \subseteq Held(r)
  <2> SUFFICES ASSUME NEW x \in Held(a) PROVE x \in Held(r)
    OBVIOUS
  <2>1. CASE x \in Elements(a.out)
    BY <1>2, <2>1 DEF Held
  <2>2. CASE \E c \in 0 .. a.alloc - 1 : x \in There(At(a, c), FecK)
    <3>1. PICK c \in 0 .. a.alloc - 1 : x \in There(At(a, c), FecK)
      BY <2>2
    <3>2. CASE c = 0
      BY <1>2, <3>1, <3>2 DEF Held
    <3>3. CASE c # 0
      <4>1. c - 1 \in 0 .. r.alloc - 1 /\ (c - 1) + 1 = c
        BY <1>1, <3>3
      <4>2. At(r, c - 1) = At(a, c)
        BY <1>3, <4>1
      <4> QED
        BY <3>1, <4>1, <4>2 DEF Held
    <3> QED
      BY <3>2, <3>3
  <2> QED
    BY <2>1, <2>2 DEF Held
<1> QED
  BY <1>2, <1>8, <1>9 DEF Keeps

\* The front moves on: FlushFront and one block fewer.
LEMMA FlowAdvance ==
  ASSUME TInv, NEW a, RingShape(a), NEW last \in Int, Flow(a, last), a.alloc > 0
  PROVE  LET r == [FlushFront(a) EXCEPT !.alloc = @ - 1]
         IN /\ RingShape(r) /\ Flow(r, last) /\ Keeps(r, a)
            /\ r.key = a.key /\ r.out \in Seq(Nat)
            /\ r.out = SendThere(a.out, At(a, 0), FecK) /\ r.alloc = a.alloc - 1
            /\ \A c \in 0 .. r.alloc - 1 : At(r, c) = At(a, c + 1)
<1> DEFINE p == FlushFront(a)
           r == [p EXCEPT !.alloc = @ - 1]
<1>1. /\ RingSize \in Nat /\ RingSize > 0 /\ a.front \in Slot /\ a.alloc \in 1 .. RingSize
      /\ DOMAIN a = AggFields /\ 1 \in 0 .. RingSize
  BY Parameters DEF RingShape
<1>2. /\ DOMAIN p = AggFields /\ p.ring = a.ring /\ p.known = a.known
      /\ p.alloc = a.alloc /\ p.front = ModN(a.front + 1) /\ p.key = a.key
      /\ p.out = SendThere(a.out, a.ring[a.front], FecK)
  BY FlushKeeps
<1> HIDE DEF p
<1>3. /\ DOMAIN r = AggFields /\ r.ring = a.ring /\ r.known = a.known
      /\ r.alloc = a.alloc - 1 /\ r.front = ModN(a.front + 1) /\ r.key = a.key
      /\ r.out = SendThere(a.out, a.ring[a.front], FecK)
  BY <1>2 DEF AggFields
<1> HIDE DEF r
<1>4. At(a, 0) = a.ring[a.front]
  <2>1. a.front \in Int /\ ModN(a.front) = a.front
    BY <1>1, Places
  <2>2. a.front + 0 = a.front
    BY <2>1
  <2> QED
    BY <2>1, <2>2 DEF At
<1>5. ModN(a.front + 1) \in Slot /\ r.alloc \in 0 .. RingSize
  <2>1. r.alloc \in 0 .. RingSize
    BY <1>1, <1>3
  <2>2. ModN(a.front + 1) \in Slot
    BY <1>1, Places
  <2> QED
    BY <2>1, <2>2
<1>6. RingShape(r)
  BY <1>3, <1>5 DEF RingShape
<1>7. ASSUME NEW c \in 0 .. r.alloc - 1
      PROVE  At(r, c) = At(a, c + 1)
  <2>1. c \in 0 .. RingSize /\ 1 + c <= RingSize /\ 1 + c = c + 1
    BY <1>1, <1>3
  <2>2. ModN(ModN(a.front + 1) + c) = ModN(a.front + (1 + c))
    BY <1>1, <2>1, Places
  <2> QED
    BY <1>3, <2>1, <2>2 DEF At
<1>8. Flow(r, last) /\ Keeps(r, a)
  BY <1>3, <1>4, <1>7, FlowDrop
<1>9. r.out \in Seq(Nat)
  BY <1>8 DEF Flow, InSequence
<1> QED
  BY <1>3, <1>4, <1>6, <1>7, <1>8, <1>9 DEF r, p

\* A new, empty block at the end.
LEMMA FlowNew ==
  ASSUME TInv, NEW a, RingShape(a), NEW last \in Int, Flow(a, last),
         NEW x \in Int, last < x,
         NEW r, r.key = a.key, r.out = a.out, r.alloc = a.alloc + 1,
         At(r, r.alloc - 1) = EmptySlot(x),
         \A c \in 0 .. r.alloc - 2 : At(r, c) = At(a, c)
  PROVE  Flow(r, x) /\ Keeps(r, a)
<1>1. a.alloc \in Nat /\ InSequence(a.out, sent)
  BY Parameters DEF RingShape, Flow
<1>2. \A c \in 0 .. r.alloc - 1 :
        \/ c = r.alloc - 1 /\ c = a.alloc
        \/ c \in 0 .. r.alloc - 2 /\ c \in 0 .. a.alloc - 1 /\ c < a.alloc
  BY <1>1
<1>3. /\ EmptySlot(x).block = x /\ EmptySlot(x).toSend = 0
      /\ \A f \in 0 .. FecN - 1 : EmptySlot(x).frag[f] = None
  BY DEF EmptySlot
<1>4. SlotHolds(r.key, EmptySlot(x)) /\ SentPart(r.out, EmptySlot(x))
  BY <1>3 DEF SlotHolds, SentPart
<1>5. \A c \in 0 .. a.alloc - 1 :
        /\ c \in 0 .. r.alloc - 1 /\ c \in 0 .. r.alloc - 2
        /\ SlotHolds(a.key, At(a, c)) /\ SentPart(a.out, At(a, c))
        /\ At(a, c).block <= last /\ At(a, c).block \in Int /\ At(a, c).block < x
        /\ At(r, c) = At(a, c)
  BY <1>1, PlaceBlocks DEF Flow
<1>6. ASSUME NEW c \in 0 .. r.alloc - 1
      PROVE  /\ SlotHolds(r.key, At(r, c)) /\ SentPart(r.out, At(r, c))
             /\ At(r, c).block <= x
  <2>1. CASE c = r.alloc - 1
    BY <1>3, <1>4, <2>1
  <2>2. CASE c \in 0 .. a.alloc - 1
    BY <1>5, <2>2
  <2> QED
    BY <1>2, <2>1, <2>2
<1>7. ASSUME NEW c \in 0 .. r.alloc - 1, NEW d \in 0 .. r.alloc - 1, c < d
      PROVE  At(r, c).block < At(r, d).block
  <2>1. c \in 0 .. a.alloc - 1
    BY <1>1, <1>7
  <2>2. CASE d = r.alloc - 1
    BY <1>3, <1>5, <2>1, <2>2
  <2>3. CASE d \in 0 .. a.alloc - 1
    BY <1>5, <1>7, <2>1, <2>3 DEF Flow
  <2> QED
    BY <1>2, <2>2, <2>3
<1>8. ASSUME NEW m \in Packets, Ahead(r, x, m)
      PROVE  Ahead(a, last, m)
  <2>1. m.block \in Nat
    BY PacketTypes
  <2>2. CASE m.key > a.key
    BY <2>2 DEF Ahead
  <2>3. CASE m.key = a.key /\ m.block > x
    BY <2>1, <2>3 DEF Ahead
  <2>4. CASE m.key = a.key /\ \E c \in 0 .. r.alloc - 1 :
               m.block = At(r, c).block /\ m.frag >= At(r, c).toSend
    <3>1. PICK c \in 0 .. r.alloc - 1 : m.block = At(r, c).block /\ m.frag >= At(r, c).toSend
      BY <2>4
    <3>2. CASE c = r.alloc - 1
      BY <1>3, <2>1, <2>4, <3>1, <3>2 DEF Ahead
    <3>3. CASE c \in 0 .. a.alloc - 1
      BY <1>5, <2>4, <3>1, <3>3 DEF Ahead
    <3> QED
      BY <1>2, <3>2, <3>3
  <2> QED
    BY <1>8, <2>2, <2>3, <2>4 DEF Ahead
<1>9. Flow(r, x)
  BY <1>1, <1>6, <1>7, <1>8 DEF Flow
<1>10. Held(a) \subseteq Held(r) /\ Continues(r.out, a.out)
  <2>1. Len(a.out) \in Nat
    BY <1>1 DEF InSequence
  <2> QED
    BY <1>5, <2>1 DEF Held, Continues
<1> QED
  BY <1>9, <1>10 DEF Keeps

\* rx_ring_push, at the limit of the ring too.
LEMMA FlowPush ==
  ASSUME TInv, NEW a, RingShape(a), NEW last \in Int, Flow(a, last),
         NEW x \in Int, last < x
  PROVE  Flow(PushBlock(a, x), x) /\ Keeps(PushBlock(a, x), a)
<1> DEFINE r == PushBlock(a, x)
           full == a.alloc = RingSize
<1>1. RingSize \in Nat /\ RingSize > 0 /\ a.alloc \in 0 .. RingSize
  BY Parameters DEF RingShape
<1>2. /\ RingShape(r) /\ r.key = a.key
      /\ r.out = IF full THEN SendThere(a.out, a.ring[a.front], FecK) ELSE a.out
      /\ r.alloc = IF full THEN RingSize ELSE a.alloc + 1
      /\ At(r, r.alloc - 1) = EmptySlot(x)
      /\ \A c \in 0 .. r.alloc - 2 : At(r, c) = At(a, IF full THEN c + 1 ELSE c)
  BY PushKeeps
<1> HIDE DEF r
<1>3. CASE ~full
  BY <1>2, <1>3, FlowNew DEF r
<1>4. CASE full
  <2> DEFINE q == [FlushFront(a) EXCEPT !.alloc = @ - 1]
  <2>1. /\ RingShape(q) /\ Flow(q, last) /\ Keeps(q, a)
        /\ q.key = a.key /\ q.out \in Seq(Nat)
        /\ q.out = SendThere(a.out, At(a, 0), FecK) /\ q.alloc = a.alloc - 1
        /\ \A c \in 0 .. q.alloc - 1 : At(q, c) = At(a, c + 1)
    BY <1>1, <1>4, FlowAdvance
  <2> HIDE DEF q
  <2>2. At(a, 0) = a.ring[a.front]
    <3>1. a.front \in Int /\ ModN(a.front) = a.front
      BY Places DEF RingShape
    <3>2. a.front + 0 = a.front
      BY <3>1
    <3> QED
      BY <3>1, <3>2 DEF At
  <2>3. r.key = q.key /\ r.out = q.out /\ r.alloc = q.alloc + 1
    BY <1>1, <1>2, <1>4, <2>1, <2>2
  <2>4. ASSUME NEW c \in 0 .. r.alloc - 2
        PROVE  At(r, c) = At(q, c)
    <3>1. c \in 0 .. q.alloc - 1
      BY <1>1, <2>1, <2>3
    <3> QED
      BY <1>2, <1>4, <2>1, <3>1
  <2>5. Flow(r, x) /\ Keeps(r, q)
    BY <1>2, <2>1, <2>3, <2>4, FlowNew
  <2>6. a.out \in Seq(Nat) /\ r.out \in Seq(Nat)
    BY <2>5 DEF Flow, InSequence
  <2>7. Keeps(r, a)
    BY <2>1, <2>5, <2>6, KeepsTrans
  <2> QED
    BY <2>5, <2>7 DEF r
<1> QED
  BY <1>3, <1>4

\* The places of a ring of which one slot has changed.
LEMMA OtherPlaces ==
  ASSUME NEW a, RingShape(a), NEW c \in 0 .. a.alloc - 1,
         NEW r, SameBut(r, a, ModN(a.front + c))
  PROVE  /\ r.alloc = a.alloc /\ r.key = a.key
         /\ \A d \in 0 .. a.alloc - 1 : d # c => At(r, d) = At(a, d)
<1>1. /\ RingSize \in Nat /\ RingSize > 0 /\ a.alloc \in 0 .. RingSize
      /\ a.front \in Slot
  BY Parameters DEF RingShape
<1>2. ASSUME NEW d \in 0 .. a.alloc - 1, d # c
      PROVE  At(r, d) = At(a, d)
  <2>1. c \in 0 .. RingSize - 1 /\ d \in 0 .. RingSize - 1 /\ d \in 0 .. RingSize
    BY <1>1
  <2>2. ModN(a.front + d) \in Slot /\ ModN(a.front + d) # ModN(a.front + c)
    BY <1>1, <1>2, <2>1, Places
  <2> QED
    BY <2>2 DEF At, SameBut
<1> QED
  BY <1>2 DEF SameBut

\* A slot gets fragments of its block, and nothing is passed on.
LEMMA FlowFill ==
  ASSUME TInv, NEW a, RingShape(a), NEW last \in Int, Flow(a, last),
         NEW c \in 0 .. a.alloc - 1, NEW r, SameBut(r, a, ModN(a.front + c)),
         r.out = a.out, At(r, c).block = At(a, c).block,
         At(r, c).toSend = At(a, c).toSend, SlotHolds(a.key, At(r, c)),
         \A f \in 0 .. FecN - 1 :
           At(a, c).frag[f] # None => At(r, c).frag[f] = At(a, c).frag[f]
  PROVE  Flow(r, last) /\ Keeps(r, a)
<1>1. /\ r.alloc = a.alloc /\ r.key = a.key
      /\ \A d \in 0 .. a.alloc - 1 : d # c => At(r, d) = At(a, d)
  BY OtherPlaces
<1>2. \A d \in 0 .. a.alloc - 1 :
        At(r, d).block = At(a, d).block /\ At(r, d).toSend = At(a, d).toSend
  BY <1>1
<1>3. \A m : Ahead(r, last, m) => Ahead(a, last, m)
  BY <1>1, <1>2 DEF Ahead
<1>4. ASSUME NEW f \in 0 .. FecK - 1
      PROVE  At(a, c).frag[f] # None => At(r, c).frag[f] = At(a, c).frag[f]
  <2>1. f \in 0 .. FecN - 1
    BY Parameters
  <2> QED
    BY <2>1
<1>5. SentPart(r.out, At(r, c))
  <2>1. SentPart(a.out, At(a, c))
    BY DEF Flow
  <2>2. At(a, c).toSend \in 0 .. FecK
    BY PlaceBlocks DEF SlotShape
  <2>3. \A f \in 0 .. At(a, c).toSend - 1 : f \in 0 .. FecK - 1
    BY <2>2, Parameters
  <2> QED
    BY <1>4, <2>1, <2>3 DEF SentPart
<1>6. \A d \in 0 .. a.alloc - 1 :
        /\ SlotHolds(r.key, At(r, d)) /\ SentPart(r.out, At(r, d))
        /\ At(r, d).block <= last
  <2> TAKE d \in 0 .. a.alloc - 1
  <2>1. /\ SlotHolds(a.key, At(a, d)) /\ SentPart(a.out, At(a, d))
        /\ At(a, d).block <= last
    BY DEF Flow
  <2> QED
    BY <1>1, <1>2, <1>5, <2>1
<1>7. Flow(r, last)
  BY <1>1, <1>2, <1>3, <1>6 DEF Flow
<1>8. There(At(a, c), FecK) \subseteq There(At(r, c), FecK)
  BY <1>4, PlaceBlocks, ThereGrows
<1>9. Held(a) \subseteq Held(r)
  <2>1. \A d \in 0 .. a.alloc - 1 : There(At(a, d), FecK) \subseteq There(At(r, d), FecK)
    BY <1>1, <1>8
  <2> QED
    BY <1>1, <2>1 DEF Held
<1>10. Continues(r.out, a.out)
  <2>1. Len(a.out) \in Nat
    BY DEF Flow, InSequence
  <2> QED
    BY <2>1 DEF Continues
<1> QED
  BY <1>7, <1>9, <1>10 DEF Keeps

\* The oldest block is passed on as far as it has no gap.
LEMMA FlowSend ==
  ASSUME TInv, NEW a, RingShape(a), NEW last \in Int, Flow(a, last), a.alloc > 0
  PROVE  Flow(SendContiguous(a, a.front), last) /\ Keeps(SendContiguous(a, a.front), a)
<1> DEFINE i == a.front
           r == SendContiguous(a, i)
           s == At(a, 0)
           t == At(r, 0)
           g == Gap(s)
<1>1. /\ i \in Slot /\ a.alloc \in Nat /\ 0 \in 0 .. a.alloc - 1 /\ FecK \in Nat
  BY Parameters DEF RingShape
<1>2. i = ModN(a.front + 0) /\ s = a.ring[i]
  <2>1. a.front \in Int /\ ModN(a.front) = a.front
    BY <1>1, Places
  <2>2. a.front + 0 = a.front
    BY <2>1
  <2> QED
    BY <2>1, <2>2 DEF At
<1>3. /\ SameBut(r, a, i)
      /\ r.ring[i].block = s.block /\ r.ring[i].frag = s.frag
      /\ r.ring[i].toSend = g /\ r.out = SendThere(a.out, s, g)
  BY <1>1, <1>2, SendKeeps
<1> HIDE DEF r
<1>4. t.block = s.block /\ t.frag = s.frag /\ t.toSend = g
  <2>1. r.front = a.front
    BY <1>3 DEF SameBut
  <2>2. t = r.ring[i]
    BY <1>2, <2>1 DEF At
  <2> QED
    BY <1>3, <2>2
<1>5. SlotShape(s) /\ s.block \in Int /\ s.toSend \in Nat
  BY <1>1, PlaceBlocks
<1>6. /\ g \in 0 .. FecK /\ s.toSend <= g
      /\ \A f \in s.toSend .. g - 1 : s.frag[f] # None
  BY <1>5, GapIs
<1> HIDE DEF g
<1>7. /\ InSequence(r.out, sent) /\ Continues(r.out, a.out)
      /\ Elements(r.out) = Elements(a.out) \cup There(s, g)
      /\ \A x \in Elements(r.out) : \A m \in Packets :
           /\ m.body[1] # Fill
           /\ Ahead(a, last, m)
           /\ m.key = a.key /\ m.block = s.block => m.frag >= g
           => x < m.body[1]
  BY <1>3, <1>6, FrontSent
<1>8. /\ r.alloc = a.alloc /\ r.key = a.key
      /\ \A d \in 0 .. a.alloc - 1 : d # 0 => At(r, d) = At(a, d)
  BY <1>1, <1>2, <1>3, OtherPlaces
<1>9. \A d \in 0 .. a.alloc - 1 : At(r, d).block = At(a, d).block
  BY <1>4, <1>8
<1>10. \A d \in 0 .. a.alloc - 1 :
         /\ SlotHolds(a.key, At(a, d)) /\ SentPart(a.out, At(a, d))
         /\ At(a, d).block <= last /\ At(a, d).block \in Int
         /\ d # 0 => s.block < At(a, d).block
  <2> TAKE d \in 0 .. a.alloc - 1
  <2>1. d # 0 => 0 < d
    BY <1>1
  <2> QED
    BY <1>1, <2>1, PlaceBlocks DEF Flow
<1>11. SentPart(r.out, t)
  <2> SUFFICES ASSUME NEW f \in 0 .. g - 1
               PROVE  s.frag[f] # None /\ (s.frag[f][1] = Fill \/ s.frag[f][1] \in Elements(r.out))
    BY <1>4 DEF SentPart
  <2>1. CASE f \in 0 .. s.toSend - 1
    BY <1>1, <1>7, <1>10, <2>1 DEF SentPart
  <2>2. CASE f \in s.toSend .. g - 1
    BY <1>6, <1>7, <2>2 DEF There
  <2> QED
    BY <1>5, <1>6, <2>1, <2>2
<1>12. SlotHolds(a.key, t)
  BY <1>1, <1>4, <1>10 DEF SlotHolds
<1>13. \A d \in 0 .. a.alloc - 1 :
         /\ SlotHolds(r.key, At(r, d)) /\ SentPart(r.out, At(r, d))
         /\ At(r, d).block <= last
  <2> TAKE d \in 0 .. a.alloc - 1
  <2>1. CASE d = 0
    BY <1>4, <1>8, <1>10, <1>11, <1>12, <2>1
  <2>2. CASE d # 0
    <3>1. SentPart(r.out, At(a, d))
      BY <1>7, <1>10 DEF SentPart
    <3> QED
      BY <1>8, <1>10, <2>2, <3>1
  <2> QED
    BY <2>1, <2>2
<1>14. ASSUME NEW m \in Packets, Ahead(r, last, m)
       PROVE  Ahead(a, last, m) /\ (m.key = a.key /\ m.block = s.block => m.frag >= g)
  <2>1. m.block \in Nat /\ m.key \in Nat /\ m.frag \in Nat
    BY PacketTypes
  <2>2. CASE m.key > a.key
    BY <2>1, <2>2 DEF Ahead
  <2>3. CASE m.key = a.key /\ m.block > last
    BY <1>1, <1>10, <2>1, <2>3 DEF Ahead
  <2>4. CASE m.key = a.key /\ \E c \in 0 .. a.alloc - 1 :
               m.block = At(r, c).block /\ m.frag >= At(r, c).toSend
    <3>1. PICK c \in 0 .. a.alloc - 1 : m.block = At(r, c).block /\ m.frag >= At(r, c).toSend
      BY <2>4
    <3>2. CASE c = 0
      <4>1. m.block = s.block /\ m.frag >= g
        BY <1>4, <3>1, <3>2
      <4>2. m.frag >= s.toSend
        BY <1>5, <1>6, <2>1, <4>1
      <4> QED
        BY <1>1, <2>4, <4>1, <4>2 DEF Ahead
    <3>3. CASE c # 0
      <4>1. m.block = At(a, c).block /\ m.frag >= At(a, c).toSend /\ s.block < At(a, c).block
        BY <1>8, <1>10, <3>1, <3>3
      <4>2. m.block # s.block
        BY <1>5, <2>1, <4>1
      <4> QED
        BY <2>4, <4>1, <4>2 DEF Ahead
    <3> QED
      BY <3>2, <3>3
  <2> QED
    BY <1>8, <1>14, <2>2, <2>3, <2>4 DEF Ahead
<1>15. Flow(r, last)
  <2>1. \A c, d \in 0 .. r.alloc - 1 : c < d => At(r, c).block < At(r, d).block
    BY <1>8, <1>9 DEF Flow
  <2> QED
    BY <1>7, <1>8, <1>13, <1>14, <2>1 DEF Flow
<1>16. There(s, FecK) \subseteq There(s, g) \cup There(t, FecK)
  <2> SUFFICES ASSUME NEW f \in s.toSend .. FecK - 1, s.frag[f] # None, s.frag[f][1] # Fill
               PROVE  s.frag[f][1] \in There(s, g) \cup There(t, FecK)
    BY DEF There
  <2>1. f \in s.toSend .. g - 1 \/ f \in g .. FecK - 1
    BY <1>1, <1>5, <1>6
  <2> QED
    BY <1>4, <2>1 DEF There
<1>17. Held(a) \subseteq Held(r)
  <2> SUFFICES ASSUME NEW x \in Held(a) PROVE x \in Held(r)
    OBVIOUS
  <2>1. CASE x \in Elements(a.out)
    BY <1>7, <2>1 DEF Held
  <2>2. CASE \E c \in 0 .. a.alloc - 1 : x \in There(At(a, c), FecK)
    <3>1. PICK c \in 0 .. a.alloc - 1 : x \in There(At(a, c), FecK)
      BY <2>2
    <3>2. CASE c = 0
      <4>1. x \in There(s, g) \/ x \in There(t, FecK)
        BY <1>16, <3>1, <3>2
      <4> QED
        BY <1>1, <1>7, <1>8, <4>1 DEF Held
    <3>3. CASE c # 0
      BY <1>8, <3>1, <3>3 DEF Held
    <3> QED
      BY <3>2, <3>3
  <2> QED
    BY <2>1, <2>2 DEF Held
<1> QED
  BY <1>7, <1>15, <1>17 DEF Keeps, r

\* The front block, sent already, leaves the ring.
LEMMA FlowRemove ==
  ASSUME TInv, NEW a, RingShape(a), NEW last \in Int, Flow(a, last), a.alloc > 0,
         At(a, 0).toSend = FecK
  PROVE  LET r == RemoveFront(a)
         IN Flow(r, last) /\ Keeps(r, a) /\ r.out = a.out
<1> DEFINE r == RemoveFront(a)
           s == At(a, 0)
<1>1. /\ RingSize \in Nat /\ a.front \in Slot /\ a.alloc \in 1 .. RingSize
      /\ DOMAIN a = AggFields /\ 1 \in 0 .. RingSize /\ FecK \in Nat
  BY Parameters DEF RingShape
<1>2. /\ r.key = a.key /\ r.out = a.out /\ r.alloc = a.alloc - 1
      /\ r.ring = a.ring /\ r.front = ModN(a.front + 1)
  BY <1>1 DEF RemoveFront, AggFields
<1> HIDE DEF r
<1>3. SendThere(a.out, s, FecK) = a.out
  <2> DEFINE upTo == CHOOSE g : g = SendLoop(g, a.out, s)
  <2>1. SendThere(a.out, s, FecK) = upTo[FecK]
    BY DEF SendThere, SendLoop
  <2>2. s.toSend \in Nat
    BY <1>1
  <2>3. upTo = SendLoop(upTo, a.out, s)
    BY <2>2, SendDefined
  <2> HIDE DEF upTo
  <2>4. FecK \in 0 .. FecK /\ FecK <= s.toSend
    BY <1>1
  <2> QED
    BY <2>1, <2>3, <2>4 DEF SendLoop
<1>4. ASSUME NEW c \in 0 .. r.alloc - 1
      PROVE  At(r, c) = At(a, c + 1)
  <2>1. c \in 0 .. RingSize /\ 1 + c <= RingSize /\ 1 + c = c + 1
    BY <1>1, <1>2
  <2>2. ModN(ModN(a.front + 1) + c) = ModN(a.front + (1 + c))
    BY <1>1, <2>1, Places
  <2> QED
    BY <1>2, <2>1, <2>2 DEF At
<1>5. Flow(r, last) /\ Keeps(r, a)
  BY <1>2, <1>3, <1>4, FlowDrop
<1> QED
  BY <1>2, <1>5 DEF r

\* Only the key, the stream and the ring matter.
LEMMA FlowSame ==
  ASSUME NEW a, NEW last, Flow(a, last), NEW r, r.key = a.key, r.out = a.out,
         r.alloc = a.alloc, r.front = a.front, r.ring = a.ring
  PROVE  Flow(r, last) /\ Keeps(r, a)
<1>1. \A c : At(r, c) = At(a, c)
  BY DEF At
<1>2. \A m : Ahead(r, last, m) => Ahead(a, last, m)
  BY <1>1 DEF Ahead
<1>3. Flow(r, last)
  BY <1>1, <1>2 DEF Flow
<1>4. Held(a) \subseteq Held(r)
  BY <1>1 DEF Held
<1>5. Len(a.out) \in Nat
  BY DEF Flow, InSequence
<1> QED
  BY <1>3, <1>4, <1>5 DEF Keeps, Continues

\* A parity fragment holds the packets of its block.
LEMMA WordIs ==
  ASSUME TInv, NEW p \in Fragments, p.frag >= FecK, NEW f \in 0 .. FecK - 1,
         NEW m \in Fragments, m.key = p.key, m.block = p.block, m.frag = f
  PROVE  m.body = <<p.body[f + 1]>>
<1>1. Among(Fragments, p.key, p.block, f, <<p.body[f + 1]>>)
  BY DEF TInv, FragmentsOK
<1>2. PICK q \in Fragments : q.key = p.key /\ q.block = p.block /\ q.frag = f
                             /\ q.body = <<p.body[f + 1]>>
  BY <1>1 DEF Among
<1> QED
  BY <1>2 DEF TInv, Ordered

\* The front block has been passed on: with it all packets of the block.
LEMMA Whole ==
  ASSUME TInv, NEW a, RingShape(a), NEW last \in Int, Flow(a, last), a.alloc > 0,
         At(a, 0).toSend = FecK,
         NEW m \in Fragments, m.key = a.key, m.block = At(a, 0).block
  PROVE  PacketsOf(m) \subseteq Elements(a.out)
<1> DEFINE s == At(a, 0)
<1>1. FecK \in Nat /\ FecN \in Nat /\ FecK <= FecN /\ 0 \in 0 .. a.alloc - 1
  BY Parameters DEF RingShape
<1>2. SlotHolds(a.key, s) /\ SentPart(a.out, s)
  BY <1>1 DEF Flow
<1>3. ASSUME NEW q \in Fragments, q.key = a.key, q.block = s.block, q.frag \in 0 .. FecK - 1
      PROVE  q.body[1] = Fill \/ q.body[1] \in Elements(a.out)
  <2>1. /\ s.frag[q.frag] # None
        /\ s.frag[q.frag][1] = Fill \/ s.frag[q.frag][1] \in Elements(a.out)
    BY <1>2, <1>3 DEF SentPart
  <2>2. q.frag \in 0 .. FecN - 1
    BY <1>1, <1>3
  <2>3. PICK p \in Fragments : p.key = a.key /\ p.block = s.block /\ p.frag = q.frag
                               /\ p.body = s.frag[q.frag]
    BY <1>2, <2>1, <2>2 DEF SlotHolds, Among
  <2>4. q.body = p.body
    BY <1>3, <2>3 DEF TInv, Ordered
  <2> QED
    BY <2>1, <2>3, <2>4
<1> SUFFICES ASSUME NEW x \in PacketsOf(m) PROVE x \in Elements(a.out)
  OBVIOUS
<1>4. PICK q \in air : /\ q.type = "data" /\ q.key = m.key /\ q.block = m.block
                       /\ x \in {q.body[j] : j \in 1 .. Len(q.body)} \ {Fill}
  BY DEF PacketsOf
<1>5. PICK j \in 1 .. Len(q.body) : x = q.body[j]
  BY <1>4
<1>6. /\ q \in Fragments /\ q.key = a.key /\ q.block = s.block /\ x # Fill
      /\ q.frag \in 0 .. FecN - 1
  BY <1>4 DEF Fragments, TInv, AirOK
<1> HIDE DEF s
<1>7. CASE q.frag < FecK
  <2>1. q.body = <<q.body[1]>> /\ q.frag \in 0 .. FecK - 1
    BY <1>1, <1>6, <1>7 DEF TInv, FragmentsOK
  <2>2. Len(q.body) = 1
    <3>1. PICK y : q.body = <<y>>
      BY <2>1
    <3> QED
      BY <3>1
  <2>3. x = q.body[1]
    BY <1>5, <2>2
  <2> QED
    BY <1>3, <1>6, <2>1, <2>3
<1>8. CASE q.frag >= FecK
  <2>1. Len(q.body) = FecK
    BY <1>6, <1>8 DEF TInv, FragmentsOK
  <2> DEFINE f == j - 1
  <2>2. f \in 0 .. FecK - 1 /\ f + 1 = j
    BY <1>1, <1>5, <2>1
  <2> HIDE DEF f
  <2>3. Among(Fragments, q.key, q.block, f, <<q.body[f + 1]>>)
    BY <1>6, <1>8, <2>2 DEF TInv, FragmentsOK
  <2>4. PICK p \in Fragments : p.key = q.key /\ p.block = q.block /\ p.frag = f
                               /\ p.body = <<q.body[f + 1]>>
    BY <2>3 DEF Among
  <2>5. p.body[1] = x
    BY <1>5, <2>2, <2>4
  <2> QED
    BY <1>3, <1>6, <2>2, <2>4, <2>5
<1> QED
  BY <1>1, <1>6, <1>7, <1>8

\* apply_fec gives the missing packets of the block, and nothing else.
LEMMA RecoverIs ==
  ASSUME TInv, NEW s, SlotShape(s), NEW k, SlotHolds(k, s),
         Cardinality(Present(s)) = FecK, Missing(s) # {}
  PROVE  LET t == Recover(s)
         IN /\ t.block = s.block /\ t.toSend = s.toSend /\ SlotHolds(k, t)
            /\ \A f \in 0 .. FecN - 1 : s.frag[f] # None => t.frag[f] = s.frag[f]
            /\ \A f \in 0 .. FecK - 1 : t.frag[f] # None
<1> DEFINE z == CHOOSE f \in Parities(s) : TRUE
           word == s.frag[z]
           fits == /\ \A f \in Parities(s) : s.frag[f] = word
                   /\ \A f \in (0 .. FecK - 1) \ Missing(s) : s.frag[f] = <<word[f + 1]>>
           t == Recover(s)
<1>1. /\ FecK \in Nat /\ FecK > 0 /\ FecN \in Nat /\ FecK <= FecN
      /\ DOMAIN s.frag = 0 .. FecN - 1 /\ DOMAIN s = SlotFields
  BY Parameters DEF SlotShape
<1>2. Parities(s) # {}
  <2>1. SUFFICES ASSUME Parities(s) = {} PROVE FALSE
    OBVIOUS
  <2>2. IsFiniteSet(Missing(s))
    <3>1. IsFiniteSet(0 .. FecK - 1)
      BY <1>1, FS_Interval
    <3>2. Missing(s) \subseteq 0 .. FecK - 1
      BY DEF Missing
    <3> QED
      BY <3>1, <3>2, FS_Subset
  <2>3. Cardinality(Parities(s)) = 0 /\ Cardinality(Missing(s)) \in Nat
        /\ Cardinality(Missing(s)) # 0
    BY <2>1, <2>2, FS_EmptySet, FS_CardinalityType
  <2> QED
    BY <2>3, EnoughParities
<1>3. z \in Parities(s) /\ z \in FecK .. FecN - 1 /\ word # None /\ z \in 0 .. FecN - 1
  <2>1. z \in Parities(s)
    BY <1>2
  <2> QED
    BY <1>1, <2>1 DEF Parities
<1> HIDE DEF z
<1>4. PICK p \in Fragments : p.key = k /\ p.block = s.block /\ p.frag = z /\ p.body = word
  BY <1>3 DEF SlotHolds, Among
<1>5. p.frag >= FecK
  BY <1>1, <1>3, <1>4
<1>6. ASSUME NEW f \in 0 .. FecK - 1
      PROVE  Among(Fragments, k, s.block, f, <<word[f + 1]>>)
  BY <1>4, <1>5 DEF TInv, FragmentsOK
<1>7. ASSUME NEW f \in Parities(s)
      PROVE  s.frag[f] = word
  <2>1. f \in FecK .. FecN - 1 /\ s.frag[f] # None /\ f \in 0 .. FecN - 1
    BY <1>1 DEF Parities
  <2>2. PICK q \in Fragments : q.key = k /\ q.block = s.block /\ q.frag = f
                               /\ q.body = s.frag[f]
    BY <2>1 DEF SlotHolds, Among
  <2>3. q.frag >= FecK
    BY <1>1, <2>1, <2>2
  <2>4. /\ q.body \in Seq(Nat) /\ Len(q.body) = FecK
        /\ word \in Seq(Nat) /\ Len(word) = FecK
    BY <1>4, <1>5, <2>3 DEF TInv, FragmentsOK
  <2>5. ASSUME NEW j \in 1 .. FecK PROVE q.body[j] = word[j]
    <3> DEFINE g == j - 1
    <3>1. g \in 0 .. FecK - 1 /\ g + 1 = j
      BY <1>1
    <3> HIDE DEF g
    <3>2. PICK m \in Fragments : m.key = k /\ m.block = s.block /\ m.frag = g
                                 /\ m.body = <<word[g + 1]>>
      BY <1>6, <3>1 DEF Among
    <3>3. m.body = <<q.body[g + 1]>>
      BY <2>2, <2>3, <3>1, <3>2, WordIs
    <3>4. m.body[1] = word[j] /\ m.body[1] = q.body[j]
      BY <3>1, <3>2, <3>3
    <3> QED
      BY <3>4
  <2>6. q.body = word
    BY <2>4, <2>5
  <2> QED
    BY <2>2, <2>6
<1>8. ASSUME NEW f \in (0 .. FecK - 1) \ Missing(s)
      PROVE  s.frag[f] = <<word[f + 1]>>
  <2>1. s.frag[f] # None /\ f \in 0 .. FecN - 1
    BY <1>1 DEF Missing
  <2>2. PICK q \in Fragments : q.key = k /\ q.block = s.block /\ q.frag = f
                               /\ q.body = s.frag[f]
    BY <2>1 DEF SlotHolds, Among
  <2> QED
    BY <1>4, <1>5, <2>2, WordIs
<1>9. fits
  BY <1>7, <1>8
<1>10. t = [s EXCEPT !.frag = [f \in DOMAIN s.frag |->
              IF f \notin Missing(s) THEN s.frag[f]
              ELSE IF fits THEN <<word[f + 1]>> ELSE Garbage]]
  BY DEF Recover, z
<1> HIDE DEF t, word, fits
<1>11. /\ t.block = s.block /\ t.toSend = s.toSend
       /\ \A f \in 0 .. FecN - 1 :
            t.frag[f] = IF f \notin Missing(s) THEN s.frag[f] ELSE <<word[f + 1]>>
  BY <1>1, <1>9, <1>10 DEF SlotFields
<1>12. \A f \in 0 .. FecN - 1 : s.frag[f] # None => t.frag[f] = s.frag[f]
  BY <1>11 DEF Missing
<1>13. ASSUME NEW f \in 0 .. FecK - 1 PROVE t.frag[f] # None
  <2>1. f \in 0 .. FecN - 1 /\ <<word[f + 1]>> # <<>>
    BY <1>1
  <2> QED
    BY <1>11, <2>1 DEF Missing, None
<1>14. SlotHolds(k, t)
  <2> SUFFICES ASSUME NEW f \in 0 .. FecN - 1, t.frag[f] # None
               PROVE  Among(Fragments, k, s.block, f, t.frag[f])
    BY <1>11 DEF SlotHolds
  <2>1. CASE f \notin Missing(s)
    BY <1>11, <2>1 DEF SlotHolds
  <2>2. CASE f \in Missing(s)
    BY <1>6, <1>11, <2>2 DEF Missing
  <2> QED
    BY <2>1, <2>2
<1> QED
  BY <1>11, <1>12, <1>13, <1>14 DEF t

\* RecoverBlock: what was there of the blocks before goes out, then the whole
\* block.
LEMMA FlowRecover ==
  ASSUME TInv, NEW a, RingShape(a), NEW last \in Int, Flow(a, last),
         NEW c \in 0 .. a.alloc - 1, Cardinality(Present(At(a, c))) = FecK
  PROVE  LET r == RecoverBlock(a, ModN(a.front + c))
         IN /\ Flow(r, last) /\ Keeps(r, a)
            /\ r.key = a.key /\ r.epoch = a.epoch /\ r.known = a.known
            /\ \A m \in Fragments : m.key = a.key /\ m.block = At(a, c).block =>
                 PacketsOf(m) \subseteq Elements(r.out)
<1> DEFINE i == ModN(a.front + c)
           before == FlushBlocks(a, ModN(i - a.front))
           here == Asserted(before, before.alloc > 0 /\ before.front = i)
           fec == ApplyFec(here, i)
           rest == SendContiguous(fec, i)
           r == RemoveFront(rest)
           s == At(a, c)
<1>1. /\ RingSize \in Nat /\ RingSize > 0 /\ a.alloc \in 1 .. RingSize
      /\ a.front \in Slot /\ DOMAIN a = AggFields
      /\ c \in 0 .. RingSize - 1 /\ c \in 0 .. RingSize /\ c \in 0 .. a.alloc /\ c \in Nat
      /\ a.out \in Seq(Nat)
  BY Parameters DEF RingShape, Flow, InSequence
<1>2. i \in Slot /\ ModN(i - a.front) = c /\ s = a.ring[i] /\ SlotShape(s)
  BY <1>1, Places, PlaceBlocks
<1>3. PICK flush :
        /\ flush[0] = a /\ flush[c] = FlushBlocks(a, c)
        /\ \A j \in 0 .. c - 1 :
             flush[j + 1] = [FlushFront(flush[j]) EXCEPT !.alloc = @ - 1]
        /\ \A j \in 0 .. c : Flushed(flush[j], a, j)
  BY <1>1, FlushBlocksKeeps
<1>4. ASSUME NEW j \in 0 .. c
      PROVE  RingShape(flush[j]) /\ flush[j].alloc = a.alloc - j
  <2> DEFINE q == flush[j]
  <2>1. Flushed(q, a, j)
    BY <1>3
  <2> HIDE DEF q
  <2>2. j \in 0 .. RingSize /\ a.alloc - j \in 0 .. RingSize
    BY <1>1
  <2>3. q.front \in Slot
    BY <1>1, <2>1, <2>2, Places DEF Flushed
  <2>4. RingShape(q)
    BY <2>1, <2>2, <2>3 DEF RingShape, Flushed
  <2> QED
    BY <2>1, <2>4 DEF Flushed, q
<1>5. Flow(flush[c], last) /\ Keeps(flush[c], a)
  <2> DEFINE T == {j \in Nat : Flow(flush[j], last) /\ Keeps(flush[j], a)}
  <2>1. 0 \in T
    <3>1. Flow(flush[0], last) /\ Keeps(flush[0], a)
      BY <1>3, FlowSame
    <3> QED
      BY <3>1
  <2>2. ASSUME NEW j \in 0 .. c - 1, j \in T
        PROVE  j + 1 \in T
    <3> DEFINE p == flush[j]
               q == flush[j + 1]
    <3>1. j \in 0 .. c /\ j + 1 \in Nat /\ a.alloc - j > 0
      BY <1>1
    <3>2. RingShape(p) /\ p.alloc > 0 /\ Flow(p, last) /\ Keeps(p, a)
      BY <1>4, <2>2, <3>1
    <3>3. q = [FlushFront(p) EXCEPT !.alloc = @ - 1]
      BY <1>3
    <3> HIDE DEF p, q
    <3>4. Flow(q, last) /\ Keeps(q, p) /\ q.out \in Seq(Nat)
      BY <3>2, <3>3, FlowAdvance
    <3>5. p.out \in Seq(Nat)
      BY <3>2 DEF Flow, InSequence
    <3>6. Keeps(q, a)
      BY <1>1, <3>2, <3>4, <3>5, KeepsTrans
    <3> QED
      BY <3>1, <3>4, <3>6 DEF q
  <2>3. \A j \in 0 .. c : j \in T
    <3> HIDE DEF T
    <3> QED
      BY <1>1, <2>1, <2>2, UpTo
  <2>4. c \in 0 .. c
    BY <1>1
  <2> QED
    BY <2>3, <2>4
<1>6. /\ Flow(before, last) /\ Keeps(before, a) /\ RingShape(before)
      /\ Flushed(before, a, c)
  <2>1. before = flush[c] /\ c \in 0 .. c
    BY <1>1, <1>2, <1>3
  <2> QED
    BY <1>3, <1>4, <1>5, <2>1
<1> HIDE DEF before
<1>7. /\ DOMAIN here = AggFields /\ here.ring = a.ring /\ here.known = a.known
      /\ here.key = a.key /\ here.epoch = a.epoch /\ here.alloc = before.alloc
      /\ here.front = i /\ here.out = before.out
      /\ before.key = a.key /\ before.ring = a.ring /\ before.front = i
      /\ here.alloc = a.alloc - c
  BY <1>6 DEF Asserted, AggFields, Flushed
<1> HIDE DEF here
<1>8. Flow(here, last) /\ Keeps(here, before)
  BY <1>6, <1>7, FlowSame
<1>9. RingShape(here) /\ here.alloc > 0 /\ 0 \in 0 .. here.alloc - 1
  <2>1. here.alloc > 0 /\ 0 \in 0 .. here.alloc - 1
    BY <1>1, <1>7
  <2> QED
    BY <1>6, <1>7, <2>1 DEF RingShape
<1>10. i = ModN(here.front + 0) /\ At(here, 0) = s
  <2>1. i \in Int /\ ModN(i) = i
    BY <1>2, Places
  <2>2. i + 0 = i
    BY <2>1
  <2> QED
    BY <1>2, <1>7, <2>1, <2>2 DEF At
<1>11. /\ SameBut(fec, here, i) /\ fec.out = here.out
       /\ fec.ring[i] = IF Missing(s) = {} THEN s ELSE Recover(s)
  <2>1. here.ring[i] = s
    BY <1>2, <1>7
  <2> QED
    BY <1>2, <1>9, <2>1, FecKeeps
<1> HIDE DEF fec
<1> DEFINE t == At(fec, 0)
<1>12. /\ RingShape(fec) /\ fec.front = i /\ fec.alloc = here.alloc
       /\ fec.key = a.key /\ fec.epoch = a.epoch /\ fec.known = a.known
       /\ t = fec.ring[i]
  BY <1>7, <1>10, <1>11 DEF SameBut, At
<1>13. SlotHolds(a.key, s)
  BY DEF Flow
<1>14. /\ t.block = s.block /\ t.toSend = s.toSend /\ SlotHolds(a.key, t)
       /\ \A f \in 0 .. FecN - 1 : s.frag[f] # None => t.frag[f] = s.frag[f]
       /\ \A f \in 0 .. FecK - 1 : t.frag[f] # None
  <2>1. CASE Missing(s) = {}
    <3>1. t = s
      BY <1>11, <1>12, <2>1
    <3> HIDE DEF t
    <3> QED
      BY <1>13, <2>1, <3>1 DEF Missing
  <2>2. CASE Missing(s) # {}
    <3>1. t = Recover(s)
      BY <1>11, <1>12, <2>2
    <3> HIDE DEF t, s
    <3>2. Cardinality(Present(s)) = FecK
      BY DEF s
    <3> QED
      BY <1>2, <1>13, <2>2, <3>1, <3>2, RecoverIs
  <2> QED
    BY <2>1, <2>2
<1> HIDE DEF s
<1>15. Flow(fec, last) /\ Keeps(fec, here)
  BY <1>7, <1>8, <1>9, <1>10, <1>11, <1>14, FlowFill
<1>16. /\ SameBut(rest, fec, i) /\ rest.ring[i].toSend = Gap(t)
       /\ rest.ring[i].block = t.block
  BY <1>2, <1>12, SendKeeps
<1>17. Flow(rest, last) /\ Keeps(rest, fec)
  BY <1>9, <1>12, <1>15, FlowSend
<1> HIDE DEF rest
<1>18. /\ RingShape(rest) /\ rest.alloc > 0 /\ rest.key = a.key
       /\ rest.epoch = a.epoch /\ rest.known = a.known /\ At(rest, 0) = rest.ring[i]
  BY <1>9, <1>10, <1>12, <1>16, <1>7 DEF SameBut, At
<1>19. Gap(t) = FecK
  <2>1. SlotShape(t)
    BY <1>2, <1>12 DEF RingShape
  <2>2. Gap(t) \in 0 .. FecK /\ (Gap(t) = FecK \/ t.frag[Gap(t)] = None)
    BY <2>1, GapIs
  <2> QED
    BY <1>14, <2>2, Parameters
<1>20. At(rest, 0).toSend = FecK /\ At(rest, 0).block = s.block
  BY <1>14, <1>16, <1>18, <1>19
<1>21. Flow(r, last) /\ Keeps(r, rest) /\ r.out = rest.out
  BY <1>17, <1>18, <1>20, FlowRemove
<1>22. r.key = a.key /\ r.epoch = a.epoch /\ r.known = a.known
  BY <1>18 DEF RemoveFront, RingShape, AggFields
<1> HIDE DEF r
<1>23. Keeps(r, a)
  <2>1. /\ before.out \in Seq(Nat) /\ here.out \in Seq(Nat) /\ fec.out \in Seq(Nat)
        /\ rest.out \in Seq(Nat) /\ r.out \in Seq(Nat)
    BY <1>6, <1>8, <1>15, <1>17, <1>21 DEF Flow, InSequence
  <2>2. Keeps(here, a)
    BY <1>1, <1>6, <1>8, <2>1, KeepsTrans
  <2>3. Keeps(fec, a)
    BY <1>1, <1>15, <2>1, <2>2, KeepsTrans
  <2>4. Keeps(rest, a)
    BY <1>1, <1>17, <2>1, <2>3, KeepsTrans
  <2> QED
    BY <1>1, <1>21, <2>1, <2>4, KeepsTrans
<1>24. \A m \in Fragments : m.key = a.key /\ m.block = s.block =>
         PacketsOf(m) \subseteq Elements(r.out)
  BY <1>17, <1>18, <1>20, <1>21, Whole
<1>25. RecoverBlock(a, i) = r
  BY DEF RecoverBlock, before, here, fec, rest, r
<1> QED
  BY <1>21, <1>22, <1>23, <1>24, <1>25 DEF s

\* get_block_ring_idx.
LEMMA FlowRingWith ==
  ASSUME TInv, NEW a, Consistent(a), Flow(a, a.known), NEW b \in Nat, ~Processed(a, b)
  PROVE  LET r == RingWith(a, b)
         IN /\ Flow(r, r.known) /\ Keeps(r, a) /\ r.key = a.key /\ r.epoch = a.epoch
<1>1. CASE Holding(a, b) # {}
  <2>1. RingWith(a, b) = a
    BY <1>1 DEF RingWith
  <2> QED
    BY <2>1, FlowSame
<1>2. CASE Holding(a, b) = {}
  <2>0. PICK n \in 1 .. RingSize : \E push :
          /\ a.known <= b - n
          /\ push[0] = [Asserted(a, TRUE) EXCEPT !.known = b]
          /\ push[n] = RingWith(a, b)
          /\ \A j \in 0 .. n - 1 :
               push[j + 1] = PushBlock(push[j], b - n + (j + 1))
          /\ \A j \in 0 .. n : Pushed(push[j], a, b, n, j)
    BY <1>2, RingWithPushes
  <2>1. PICK push :
          /\ a.known <= b - n
          /\ push[0] = [Asserted(a, TRUE) EXCEPT !.known = b]
          /\ push[n] = RingWith(a, b)
          /\ \A j \in 0 .. n - 1 :
               push[j + 1] = PushBlock(push[j], b - n + (j + 1))
          /\ \A j \in 0 .. n : Pushed(push[j], a, b, n, j)
    BY <2>0
  <2>2. /\ RingShape(a) /\ a.known \in Int /\ n \in Nat /\ b - n \in Int
        /\ DOMAIN a = AggFields /\ a.out \in Seq(Nat)
    BY Parameters DEF Consistent, RingShape, Flow, InSequence
  <2> DEFINE T == {j \in Nat : /\ Flow(push[j], b - n + j) /\ Keeps(push[j], a)
                               /\ push[j].key = a.key /\ push[j].epoch = a.epoch}
  <2>3. 0 \in T
    <3> DEFINE p == push[0]
    <3>1. /\ p.key = a.key /\ p.epoch = a.epoch /\ p.out = a.out /\ p.alloc = a.alloc
          /\ p.front = a.front /\ p.ring = a.ring
      BY <2>1, <2>2 DEF Asserted, AggFields
    <3> HIDE DEF p
    <3>2. Flow(a, b - n)
      BY <2>1, <2>2, FlowLater
    <3>3. Flow(p, b - n) /\ Keeps(p, a)
      BY <3>1, <3>2, FlowSame
    <3>4. b - n + 0 = b - n
      BY <2>2
    <3> QED
      BY <3>1, <3>3, <3>4 DEF p
  <2>4. ASSUME NEW j \in 0 .. n - 1, j \in T
        PROVE  j + 1 \in T
    <3> DEFINE p == push[j]
               q == push[j + 1]
               last == b - n + j
               x == b - n + (j + 1)
    <3>1. j \in 0 .. n /\ j + 1 \in Nat /\ last \in Int /\ x \in Int /\ last < x
      BY <2>2
    <3>2. /\ RingShape(p) /\ Flow(p, last) /\ Keeps(p, a)
          /\ p.key = a.key /\ p.epoch = a.epoch
      BY <2>1, <2>4, <3>1 DEF Pushed
    <3>3. q = PushBlock(p, x)
      BY <2>1
    <3> HIDE DEF p, q, last, x
    <3>4. Flow(q, x) /\ Keeps(q, p) /\ q.key = a.key /\ q.epoch = a.epoch
      BY <3>1, <3>2, <3>3, FlowPush, PushKeeps
    <3>5. p.out \in Seq(Nat) /\ q.out \in Seq(Nat)
      BY <3>2, <3>4 DEF Flow, InSequence
    <3>6. Keeps(q, a)
      BY <2>2, <3>2, <3>4, <3>5, KeepsTrans
    <3> QED
      BY <3>1, <3>4, <3>6 DEF q, x
  <2>5. n \in T
    <3>1. n \in 0 .. n
      BY <2>2
    <3> HIDE DEF T
    <3> QED
      BY <2>2, <2>3, <2>4, <3>1, UpTo
  <2>6. b - n + n = b /\ n \in 0 .. n
    BY <2>2
  <2>7. RingWith(a, b).known = b
    BY <2>1, <2>6 DEF Pushed
  <2> QED
    BY <2>1, <2>5, <2>6, <2>7
<1> QED
  BY <1>1, <1>2

(***************************************************************************)
(* process_packet, for a fragment that is on the air: the stream goes on   *)
(* in order, the packet is in it or in the ring, and with k fragments      *)
(* of a block all its packets are in the stream.                           *)
(***************************************************************************)
LEMMA FlowAdd ==
  ASSUME TInv, NEW a, Consistent(a), Flow(a, a.known),
         NEW m \in Fragments, m.key = a.key, ~Processed(a, m.block)
  PROVE  LET q == AddFragment(a, m.block, m.frag, m.body)
             r == RingWith(a, m.block)
             s == r.ring[SlotOf(r, m.block)]
         IN /\ Flow(q, q.known) /\ Keeps(q, a) /\ q.key = a.key /\ q.epoch = a.epoch
            /\ m.frag < FecK => m.body[1] = Fill \/ m.body[1] \in Held(q)
            /\ s.frag[m.frag] = None /\ Cardinality(Present(s)) = FecK - 1 =>
                 PacketsOf(m) \subseteq Elements(q.out)
<1> DEFINE b == m.block
           f == m.frag
           body == m.body
           r == RingWith(a, b)
           i == SlotOf(r, b)
           s == r.ring[i]
           kept == Stored(r, i, f, body)
           next == IF i = r.front THEN SendContiguous(kept, i) ELSE kept
           q == AddFragment(a, b, f, body)
           Result(x) ==
             /\ Flow(x, x.known) /\ Keeps(x, a) /\ x.key = a.key /\ x.epoch = a.epoch
             /\ f < FecK => body[1] = Fill \/ body[1] \in Held(x)
             /\ s.frag[f] = None /\ Cardinality(Present(s)) = FecK - 1 =>
                  PacketsOf(m) \subseteq Elements(x.out)
<1>0. b \in Nat /\ f \in 0 .. FecN - 1 /\ body # None
  BY DEF TInv, AirOK, Fragments
<1>1. Consistent(r) /\ Holding(r, b) # {}
  BY <1>0, RingWithConsistent
<1>2. PICK c \in 0 .. r.alloc - 1 : i = ModN(r.front + c) /\ At(r, c).block = b
  BY <1>0, <1>1, SlotOfPlace
<1>3. q = IF s.frag[f] # None THEN r
          ELSE IF next.ring[i].toSend = FecK THEN RemoveFront(next)
          ELSE IF next.ring[i].has = FecK THEN RecoverBlock(next, i)
          ELSE next
  BY DEF AddFragment
<1>4. Flow(r, r.known) /\ Keeps(r, a) /\ r.key = a.key /\ r.epoch = a.epoch
  BY <1>0, FlowRingWith
<1> HIDE DEF r, i, q, b, f, body
<1>5. /\ RingSize \in Nat /\ RingSize > 0 /\ r.alloc \in 1 .. RingSize
      /\ r.front \in Slot /\ r.failed = FALSE /\ RingShape(r) /\ r.known \in Int
      /\ FecK \in Nat /\ FecK > 0 /\ FecN \in Nat /\ FecK <= FecN
      /\ c \in 0 .. RingSize - 1 /\ c \in 0 .. RingSize
  BY <1>1, Parameters DEF Consistent, RingShape
<1>6. i \in Slot /\ s = At(r, c) /\ SlotShape(s) /\ s.block = b
  BY <1>2, <1>5, PlaceBlocks
<1>7. /\ SlotHolds(r.key, s) /\ SentPart(r.out, s) /\ Collecting(s)
  BY <1>1, <1>4, <1>6 DEF Flow, Consistent
<1>8. Among(Fragments, r.key, b, f, body)
  BY <1>4 DEF Among, b, f, body
<1>9. /\ a.out \in Seq(Nat) /\ r.out \in Seq(Nat)
  BY <1>4 DEF Flow, InSequence
<1>10. \A n \in Fragments : n.key = r.key /\ n.block = b /\ n.frag = f => n.body = body
  BY <1>4 DEF TInv, Ordered, b, f, body
<1> HIDE DEF s
<1>11. CASE s.frag[f] # None
  <2>1. s.frag[f] = body
    <3>1. PICK n \in Fragments : n.key = r.key /\ n.block = b /\ n.frag = f
                                 /\ n.body = s.frag[f]
      BY <1>0, <1>6, <1>7, <1>11 DEF SlotHolds, Among
    <3> QED
      BY <1>10, <3>1
  <2>2. ASSUME f < FecK PROVE body[1] = Fill \/ body[1] \in Held(r)
    <3>1. s.toSend \in Nat
      BY <1>6 DEF SlotShape
    <3>2. CASE f < s.toSend
      <4>1. f \in 0 .. s.toSend - 1
        BY <1>0, <3>1, <3>2
      <4> QED
        BY <1>7, <2>1, <4>1 DEF SentPart, Held
    <3>3. CASE ~(f < s.toSend) /\ body[1] # Fill
      <4>1. f \in s.toSend .. FecK - 1
        BY <1>0, <1>5, <2>2, <3>1, <3>3
      <4>2. body[1] \in There(At(r, c), FecK)
        BY <1>6, <1>11, <2>1, <3>3, <4>1 DEF There
      <4> QED
        BY <4>2 DEF Held
    <3> QED
      BY <3>2, <3>3
  <2>3. q = r
    BY <1>3, <1>11
  <2>4. Result(q)
    BY <1>4, <1>11, <2>2, <2>3
  <2> QED
    BY <2>4 DEF q, s, r, i, b, f, body
<1>12. CASE s.frag[f] = None
  <2>1. /\ SameBut(kept, r, i) /\ kept.out = r.out
        /\ kept.ring[i].block = s.block
        /\ kept.ring[i].toSend = s.toSend
        /\ kept.ring[i].has = s.has + 1
        /\ kept.ring[i].has = Cardinality(Present(kept.ring[i]))
        /\ kept.ring[i].frag[f] = body
        /\ \A g \in 0 .. FecN - 1 : g # f => kept.ring[i].frag[g] = s.frag[g]
    <3>1. r.ring[i].has = Cardinality(Present(r.ring[i]))
      BY <1>7 DEF Collecting, s
    <3>2. RingShape(r) /\ i \in Slot /\ r.ring[i].frag[f] = None
      BY <1>5, <1>6, <1>12 DEF s
    <3> QED
      BY <1>0, <3>1, <3>2, StoreKeeps DEF s
  <2> HIDE DEF kept
  <2>2. At(kept, c) = kept.ring[i] /\ RingShape(kept) /\ kept.front = r.front
        /\ kept.alloc = r.alloc /\ kept.key = a.key /\ kept.epoch = a.epoch
        /\ kept.known = r.known
    BY <1>2, <1>4, <2>1 DEF At, SameBut
  <2>3. SlotHolds(r.key, At(kept, c))
    <3> SUFFICES ASSUME NEW g \in 0 .. FecN - 1, kept.ring[i].frag[g] # None
                 PROVE  Among(Fragments, r.key, b, g, kept.ring[i].frag[g])
      BY <1>6, <2>1, <2>2 DEF SlotHolds
    <3>1. CASE g = f
      BY <1>8, <2>1, <3>1
    <3>2. CASE g # f
      BY <1>6, <1>7, <2>1, <3>2 DEF SlotHolds
    <3> QED
      BY <3>1, <3>2
  <2>4. Flow(kept, r.known) /\ Keeps(kept, r)
    <3>1. \A g \in 0 .. FecN - 1 :
            At(r, c).frag[g] # None => At(kept, c).frag[g] = At(r, c).frag[g]
      BY <1>6, <1>12, <2>1, <2>2
    <3> QED
      BY <1>2, <1>4, <1>5, <1>6, <2>1, <2>2, <2>3, <3>1, FlowFill
  <2>5. ASSUME f < FecK PROVE body[1] = Fill \/ body[1] \in Held(kept)
    <3>1. s.toSend \in Nat
      BY <1>6 DEF SlotShape
    <3>2. ~(f < s.toSend)
      <4> SUFFICES ASSUME f < s.toSend PROVE FALSE
        OBVIOUS
      <4>1. f \in 0 .. s.toSend - 1
        BY <1>0, <3>1
      <4> QED
        BY <1>7, <1>12, <4>1 DEF SentPart
    <3>3. f \in s.toSend .. FecK - 1
      BY <1>0, <1>5, <2>5, <3>1, <3>2
    <3>4. body[1] # Fill => body[1] \in There(At(kept, c), FecK)
      BY <1>0, <2>1, <2>2, <3>3 DEF There
    <3> QED
      BY <2>2, <3>4 DEF Held
  <2>6. /\ SameBut(next, kept, i)
        /\ next.ring[i].block = b
        /\ next.ring[i].has = s.has + 1
        /\ next.ring[i].frag = kept.ring[i].frag
        /\ i # r.front => next.ring[i].toSend = s.toSend
        /\ Flow(next, r.known) /\ Keeps(next, kept)
    <3>1. CASE i = r.front
      <4> DEFINE z == SendContiguous(kept, i)
      <4>1. /\ SameBut(z, kept, i)
            /\ z.ring[i].block = kept.ring[i].block
            /\ z.ring[i].has = kept.ring[i].has
            /\ z.ring[i].frag = kept.ring[i].frag
        BY <1>6, <2>2, SendKeeps
      <4>2. kept.alloc > 0 /\ i = kept.front
        BY <1>5, <2>2, <3>1
      <4>3. Flow(z, r.known) /\ Keeps(z, kept)
        BY <1>5, <2>2, <2>4, <4>2, FlowSend
      <4> HIDE DEF z
      <4>4. next = z
        BY <3>1 DEF z
      <4> QED
        BY <1>6, <2>1, <3>1, <4>1, <4>3, <4>4
    <3>2. CASE i # r.front
      <4>1. next = kept
        BY <3>2
      <4>2. Keeps(kept, kept)
        BY <2>4, FlowSame
      <4>3. SameBut(kept, kept, i)
        BY <2>2 DEF SameBut
      <4> HIDE DEF next
      <4> QED
        BY <1>6, <2>1, <2>4, <4>1, <4>2, <4>3
    <3> QED
      BY <3>1, <3>2
  <2> HIDE DEF next
  <2>7. /\ RingShape(next) /\ next.front = r.front /\ next.alloc = r.alloc
        /\ next.key = a.key /\ next.epoch = a.epoch /\ next.known = r.known
        /\ At(next, c) = next.ring[i]
        /\ next.ring[i].has = Cardinality(Present(next.ring[i]))
    BY <1>2, <2>1, <2>2, <2>6 DEF SameBut, At, Present
  <2>8. Keeps(next, a) /\ next.out \in Seq(Nat)
    <3>1. kept.out \in Seq(Nat) /\ next.out \in Seq(Nat)
      BY <2>4, <2>6 DEF Flow, InSequence
    <3>2. Keeps(kept, a)
      BY <1>4, <1>9, <2>4, <3>1, KeepsTrans
    <3> QED
      BY <1>9, <2>6, <3>1, <3>2, KeepsTrans
  <2>9. f < FecK => body[1] = Fill \/ body[1] \in Held(next)
    BY <2>5, <2>6 DEF Keeps
  <2>10. ASSUME NEW x, Flow(x, r.known), Keeps(x, next), x.key = a.key,
                x.epoch = a.epoch, x.known = r.known,
                Cardinality(Present(s)) = FecK - 1 => PacketsOf(m) \subseteq Elements(x.out)
         PROVE  Result(x)
    <3>1. x.out \in Seq(Nat)
      BY <2>10 DEF Flow, InSequence
    <3>2. Keeps(x, a)
      BY <1>9, <2>8, <2>10, <3>1, KeepsTrans
    <3>3. f < FecK => body[1] = Fill \/ body[1] \in Held(x)
      BY <2>9, <2>10 DEF Keeps
    <3> QED
      BY <2>10, <3>2, <3>3
  <2>11. CASE next.ring[i].toSend = FecK
    <3>1. c = 0
      <4>1. i = r.front
        BY <1>5, <1>7, <2>6, <2>11 DEF Collecting
      <4>2. r.front \in Int /\ ModN(r.front) = r.front
        BY <1>5, Places
      <4>3. r.front + 0 = r.front /\ 0 \in 0 .. RingSize - 1
        BY <1>5, <4>2
      <4>4. ModN(r.front + c) = ModN(r.front + 0)
        BY <1>2, <4>1, <4>2, <4>3
      <4> QED
        BY <1>5, <4>3, <4>4, Places
    <3>2. At(next, 0).toSend = FecK /\ At(next, 0).block = m.block /\ next.alloc > 0
      BY <1>5, <2>6, <2>7, <2>11, <3>1 DEF b
    <3> DEFINE x == RemoveFront(next)
    <3>3. Flow(x, r.known) /\ Keeps(x, next) /\ x.out = next.out
      BY <1>5, <2>6, <2>7, <3>2, FlowRemove
    <3>4. x.key = a.key /\ x.epoch = a.epoch /\ x.known = r.known
      BY <2>7 DEF RemoveFront, RingShape, AggFields
    <3> HIDE DEF x
    <3>5. PacketsOf(m) \subseteq Elements(x.out)
      BY <1>5, <2>6, <2>7, <3>2, <3>3, Whole
    <3>6. q = x
      BY <1>3, <1>12, <2>11 DEF x
    <3>7. Result(x)
      <4> HIDE DEF Result
      <4> QED
        BY <2>10, <3>3, <3>4, <3>5
    <3> QED
      BY <3>6, <3>7 DEF q, s, r, i, b, f, body
  <2>12. CASE next.ring[i].toSend # FecK /\ next.ring[i].has = FecK
    <3> DEFINE x == RecoverBlock(next, i)
    <3>1. i = ModN(next.front + c) /\ c \in 0 .. next.alloc - 1
          /\ Cardinality(Present(At(next, c))) = FecK
          /\ At(next, c).block = b
      BY <1>2, <2>6, <2>7, <2>12
    <3>2. /\ Flow(x, r.known) /\ Keeps(x, next)
          /\ x.key = a.key /\ x.epoch = a.epoch /\ x.known = r.known
          /\ \A n \in Fragments : n.key = a.key /\ n.block = b =>
               PacketsOf(n) \subseteq Elements(x.out)
      BY <1>5, <2>6, <2>7, <3>1, FlowRecover
    <3> HIDE DEF x
    <3>3. PacketsOf(m) \subseteq Elements(x.out)
      BY <3>2 DEF b
    <3>4. q = x
      BY <1>3, <1>12, <2>12 DEF x
    <3>5. Result(x)
      <4> HIDE DEF Result
      <4> QED
        BY <2>10, <3>2, <3>3
    <3> QED
      BY <3>4, <3>5 DEF q, s, r, i, b, f, body
  <2>13. CASE next.ring[i].toSend # FecK /\ next.ring[i].has # FecK
    <3>1. q = next
      BY <1>3, <1>12, <2>13
    <3>2. Cardinality(Present(s)) # FecK - 1
      BY <1>5, <1>6, <1>7, <2>6, <2>13 DEF Collecting, SlotShape
    <3>3. Keeps(next, next)
      BY <2>6, FlowSame
    <3>4. Result(next)
      <4> HIDE DEF Result
      <4> QED
        BY <2>6, <2>7, <2>10, <3>2, <3>3
    <3> QED
      BY <3>1, <3>4 DEF q, s, r, i, b, f, body
  <2> QED
    BY <2>11, <2>12, <2>13
<1> QED
  BY <1>11, <1>12

-----------------------------------------------------------------------------
(***************************************************************************)
(* The link: what the receiver has stored is in the stream or in the ring, *)
(* and the stream is what was sent.                                        *)
(***************************************************************************)
\* The session the receiver is in is one of the transmitter's, or none.
KeyOK ==
  /\ agg.key \in 0 .. Len(epochs)
  /\ agg.epoch = IF agg.key = 0 THEN 0 ELSE epochs[agg.key]

FInv ==
  /\ LInv /\ TInv /\ KeyOK /\ Flow(agg, agg.known)
  /\ stored \subseteq Held(agg) /\ complete \subseteq Elements(agg.out)

\* A new Transmitter.
LEMMA TxRestarts ==
  ASSUME TInv, NEW e \in Nat, Restart(e)
  PROVE  TInv' /\ Len(epochs') = Len(epochs) + 1
         /\ \A i \in 1 .. Len(epochs) : epochs'[i] = epochs[i]
<1> DEFINE K == Len(epochs)
<1>1. /\ epochs \in Seq(Nat) /\ K \in Nat /\ K > 0
      /\ \A i, j \in 1 .. K : i <= j => epochs[i] <= epochs[j]
      /\ e >= epochs[K] /\ \A i \in 1 .. K : epochs[i] \in Nat
  BY DEF TInv, Underway, Restart, Session
<1>2. /\ epochs' = Append(epochs, e) /\ air' = air /\ sent' = sent
      /\ blockIndex' = 0 /\ fragmentIndex' = 0 /\ block' = <<>>
  BY DEF Restart
<1>3. /\ epochs' \in Seq(Nat) /\ Len(epochs') = K + 1 /\ epochs'[K + 1] = e
      /\ \A i \in 1 .. K : epochs'[i] = epochs[i]
  BY <1>1, <1>2
<1> HIDE DEF K
<1>4. AirOK'
  <2>1. 0 \in 0 .. FecK - 1 /\ <<>> \in Seq(Nat)
    BY Parameters
  <2> QED
    BY <1>2, <2>1 DEF TInv, AirOK
<1>5. Fragments' = Fragments /\ Packets' = Packets
  BY <1>2 DEF Fragments, Packets
<1>6. Underway'
  <2>1. ASSUME NEW i \in 1 .. K + 1, NEW j \in 1 .. K + 1, i <= j
        PROVE  epochs'[i] <= epochs'[j]
    <3>1. CASE j \in 1 .. K
      <4>1. i \in 1 .. K
        BY <1>1, <2>1, <3>1
      <4> QED
        BY <1>1, <1>3, <2>1, <3>1, <4>1
    <3>2. CASE j = K + 1 /\ i = K + 1
      BY <1>3, <3>2
    <3>3. CASE j = K + 1 /\ i \in 1 .. K
      <4>1. epochs[i] <= epochs[K] /\ epochs[K] \in Nat /\ epochs[i] \in Nat
        BY <1>1, <3>3
      <4> QED
        BY <1>1, <1>3, <3>3, <4>1
    <3> QED
      BY <1>1, <3>1, <3>2, <3>3
  <2>2. ASSUME NEW m \in air', m.type = "session"
        PROVE  m.key \in 1 .. K + 1 /\ m.epoch = epochs'[m.key]
    <3>1. m.key \in 1 .. K /\ m.epoch = epochs[m.key]
      BY <1>2, <2>2 DEF TInv, Underway, K
    <3> QED
      BY <1>1, <1>3, <3>1
  <2>3. Len(block') = fragmentIndex' /\ Len(epochs') > 0 /\ 0 .. fragmentIndex' - 1 = {}
    BY <1>1, <1>2, <1>3
  <2> QED
    BY <1>3, <2>1, <2>2, <2>3 DEF Underway
<1>7. FragmentsOK'
  <2> SUFFICES ASSUME NEW m \in Fragments
               PROVE  /\ m.key \in 1 .. K + 1 /\ m.key < K + 1
                      /\ m.frag < FecK => m.body = <<m.body[1]>> /\ m.body[1] \in 0 .. sent
                      /\ m.frag >= FecK =>
                           /\ m.body \in Seq(Nat) /\ Len(m.body) = FecK
                           /\ \A f \in 0 .. FecK - 1 :
                                Among(Fragments, m.key, m.block, f, <<m.body[f + 1]>>)
    BY <1>2, <1>3, <1>5 DEF FragmentsOK, Among
  <2>1. m.key \in 1 .. K
    BY DEF TInv, FragmentsOK, K
  <2>2. m.key \in 1 .. K + 1 /\ m.key < K + 1
    BY <1>1, <2>1
  <2> QED
    BY <2>2 DEF TInv, FragmentsOK
<1>8. Ordered'
  BY <1>5 DEF TInv, Ordered, Before
<1> QED
  BY <1>3, <1>4, <1>6, <1>7, <1>8 DEF TInv, K

\* What the transmitter adds is later than all that was passed on.
LEMMA FlowTransmits ==
  ASSUME TInv, Flow(agg, agg.known), agg' = agg, air \subseteq air',
         sent' \in Nat, sent <= sent',
         \A m \in Packets' : m \in Packets \/ m.body[1] = Fill \/ m.body[1] = sent + 1
  PROVE  Flow(agg, agg.known)'
<1>1. sent \in Nat
  BY DEF TInv, AirOK
<1>2. InSequence(agg.out, sent')
  <2>1. 1 .. sent \subseteq 1 .. sent'
    BY <1>1
  <2> QED
    BY <2>1 DEF Flow, InSequence
<1>4. ASSUME NEW c \in 0 .. agg.alloc - 1
      PROVE  /\ SlotHolds(agg.key, At(agg, c))' /\ SentPart(agg.out, At(agg, c))'
             /\ (At(agg, c).block <= agg.known)'
  <2>1. /\ SlotHolds(agg.key, At(agg, c)) /\ SentPart(agg.out, At(agg, c))
        /\ At(agg, c).block <= agg.known
    BY DEF Flow
  <2>2. At(agg, c)' = At(agg, c)
    BY DEF At
  <2> QED
    BY <2>1, <2>2 DEF SlotHolds, Among, Fragments, SentPart, Elements
<1>5. ASSUME NEW x \in Elements(agg.out), NEW m \in Packets', m.body[1] # Fill,
             Ahead(agg, agg.known, m)
      PROVE  x < m.body[1]
  <2>1. CASE m \in Packets
    BY <1>5, <2>1 DEF Flow
  <2>2. CASE m.body[1] = sent + 1
    <3>1. x \in 1 .. sent
      BY DEF Flow, InSequence, Elements
    <3> QED
      BY <1>1, <2>2, <3>1
  <2> QED
    BY <1>5, <2>1, <2>2
<1>6. Elements(agg.out)' = Elements(agg.out)
  BY DEF Elements
<1>7. \A m : Ahead(agg, agg.known, m)' <=> Ahead(agg, agg.known, m)
  BY DEF Ahead, At
<1> QED
  BY <1>2, <1>4, <1>5, <1>6, <1>7 DEF Flow, At, InSequence

\* An announcement of another session: the ring is empty, and what comes is
\* later than what was passed on, unless the stream starts afresh.
LEMMA FlowSession ==
  ASSUME FInv, NEW m \in air, m.type = "session", m.key # agg.key
  PROVE  LET r == InitFec(agg, m.key, m.epoch)
         IN /\ Flow(r, r.known) /\ r.key = m.key /\ r.epoch = m.epoch
            /\ r.out = IF m.key < agg.key THEN <<>> ELSE agg.out
            /\ m.key \in 1 .. Len(epochs) /\ m.epoch = epochs[m.key]
<1> DEFINE r == InitFec(agg, m.key, m.epoch)
<1>1. DOMAIN agg = AggFields /\ sent \in Nat
  BY DEF FInv, LInv, Consistent, RingShape, AirOK
<1>2. /\ r.key = m.key /\ r.epoch = m.epoch /\ r.alloc = 0 /\ r.known = NoBlock
      /\ r.out = IF m.key < agg.key THEN <<>> ELSE agg.out
  BY <1>1 DEF InitFec, AggFields
<1> HIDE DEF r
<1>3. /\ m.key \in 1 .. Len(epochs) /\ m.epoch = epochs[m.key] /\ Len(epochs) \in Nat
      /\ agg.key \in 0 .. Len(epochs) /\ Flow(agg, agg.known) /\ TInv
  BY DEF FInv, TInv, Underway, KeyOK
<1>4. InSequence(r.out, sent) /\ (m.key < agg.key => Elements(r.out) = {})
  <2>1. InSequence(agg.out, sent)
    BY <1>3 DEF Flow
  <2>2. InSequence(<<>>, sent) /\ Elements(<<>>) = {}
    BY DEF InSequence, Elements
  <2> QED
    BY <1>2, <2>1, <2>2
<1>5. ASSUME NEW x \in Elements(r.out), NEW p \in Packets, p.body[1] # Fill,
             Ahead(r, r.known, p)
      PROVE  x < p.body[1]
  <2>1. ~(m.key < agg.key) /\ r.out = agg.out
    BY <1>2, <1>4, <1>5
  <2>2. p.key \in Nat
    BY <1>3, PacketTypes
  <2>3. p.key >= m.key
    <3>1. 0 .. r.alloc - 1 = {}
      BY <1>2
    <3>2. p.key > r.key \/ p.key = r.key
      BY <1>5, <3>1 DEF Ahead
    <3> QED
      BY <1>2, <1>3, <2>2, <3>2
  <2>4. p.key > agg.key
    BY <1>3, <2>1, <2>2, <2>3
  <2>5. Ahead(agg, agg.known, p)
    BY <2>4 DEF Ahead
  <2> QED
    BY <1>3, <1>5, <2>1, <2>5 DEF Flow
<1>6. Flow(r, r.known)
  BY <1>2, <1>4, <1>5 DEF Flow
<1> QED
  BY <1>2, <1>3, <1>6 DEF r

\* The stream's invariant holds at the start.
LEMMA StreamStarts == LinkInit => FInv
<1> SUFFICES ASSUME LinkInit PROVE FInv
  OBVIOUS
<1>1. LInv /\ TInv
  BY LinkStarts, TxStarts
<1>2. /\ agg.key = 0 /\ agg.epoch = 0 /\ agg.alloc = 0 /\ agg.out = <<>>
      /\ agg.known = NoBlock
  BY DEF LinkInit, RxInit, InitFec
<1>3. /\ epochs = <<0>> /\ sent = 0 /\ stored = {} /\ complete = {}
  BY DEF LinkInit, TxInit
<1>4. KeyOK
  BY <1>2, <1>3 DEF KeyOK
<1>5. Elements(agg.out) = {} /\ InSequence(agg.out, sent)
  BY <1>2, <1>3 DEF Elements, InSequence
<1>6. Flow(agg, agg.known)
  BY <1>2, <1>5 DEF Flow
<1> QED
  BY <1>1, <1>3, <1>4, <1>6 DEF FInv

\* The parts of the invariant that speak of the receiver, when the transmitter
\* takes a step.
LEMMA StreamTransmits ==
  ASSUME FInv, LInv', TInv', UNCHANGED <<agg, stored, complete>>, air \subseteq air',
         sent <= sent',
         \A m \in Packets' : m \in Packets \/ m.body[1] = Fill \/ m.body[1] = sent + 1,
         Len(epochs) <= Len(epochs'),
         \A i \in 1 .. Len(epochs) : epochs'[i] = epochs[i]
  PROVE  FInv'
<1>1. TInv /\ Flow(agg, agg.known) /\ KeyOK /\ agg' = agg /\ sent' \in Nat
      /\ stored' = stored /\ complete' = complete
  BY DEF FInv, TInv, AirOK
<1>2. Flow(agg, agg.known)'
  BY <1>1, FlowTransmits
<1>3. KeyOK'
  <2>1. Len(epochs) \in Nat /\ Len(epochs') \in Nat
    BY <1>1 DEF TInv, Underway
  <2>2. agg.key # 0 => agg.key \in 1 .. Len(epochs)
    BY <1>1, <2>1 DEF KeyOK
  <2> QED
    BY <1>1, <2>1, <2>2 DEF KeyOK
<1>4. stored' \subseteq Held(agg)' /\ complete' \subseteq Elements(agg.out)'
  <2>1. Held(agg)' = Held(agg) /\ Elements(agg.out)' = Elements(agg.out)
    BY <1>1 DEF Held, Elements, There, At
  <2> QED
    BY <1>1, <2>1 DEF FInv
<1> QED
  BY <1>2, <1>3, <1>4 DEF FInv

\* What the receiver does with a fragment.
LEMMA StreamReceives ==
  ASSUME FInv, NEW m \in air, ReceiveData(m)
  PROVE  /\ Flow(agg', agg'.known) /\ Keeps(agg', agg)
         /\ agg'.key = agg.key /\ agg'.epoch = agg.epoch
         /\ m.frag < FecK => m.body[1] = Fill \/ m.body[1] \in Held(agg')
         /\ Completes(m) => PacketsOf(m) \subseteq Elements(agg'.out)
<1>1. /\ m.type = "data" /\ m.key = agg.key /\ ~Processed(agg, m.block)
      /\ agg' = AddFragment(agg, m.block, m.frag, m.body)
  BY DEF ReceiveData, TakeData
<1>2. m \in Fragments /\ TInv /\ Consistent(agg) /\ Flow(agg, agg.known)
  BY <1>1 DEF Fragments, FInv, LInv
<1> DEFINE r == RingWith(agg, m.block)
           s == r.ring[SlotOf(r, m.block)]
<1>3. Completes(m) => s.frag[m.frag] = None /\ Cardinality(Present(s)) = FecK - 1
  BY DEF Completes, Target, Present
<1> HIDE DEF s
<1> QED
  BY <1>1, <1>2, <1>3, FlowAdd DEF s

\* Every step of the link keeps it.
LEMMA StreamSteps == FInv /\ [LinkNext]_linkVars => FInv'
<1> SUFFICES ASSUME FInv, [LinkNext]_linkVars PROVE FInv'
  OBVIOUS
<1>1. /\ TInv /\ LInv' /\ sent \in Nat /\ epochs \in Seq(Nat)
      /\ Len(epochs) \in Nat /\ Len(epochs) > 0
  BY LinkSteps DEF FInv, TInv, AirOK, Underway
<1>2. CASE Transmit /\ UNCHANGED <<agg, stored, complete>>
  <2>1. ASSUME NEW p \in Nat, p = Fill \/ p = sent + 1, sent' \in Nat,
               sent <= sent', p <= sent', NEW ann,
               \A m \in ann : m.type = "session" /\ m.key = Len(epochs)
                              /\ m.epoch = epochs[Len(epochs)],
               SendPacket(p, ann)
        PROVE  FInv'
    <3>1. /\ TInv' /\ air \subseteq air'
          /\ \A m \in Packets' : m \in Packets \/ m.body[1] = p
      BY <1>1, <2>1, TxSends
    <3>2. epochs' = epochs \/ epochs' = Append(epochs, epochs[Len(epochs)])
      BY <2>1 DEF SendPacket, NextBlock, Session
    <3>3. /\ Len(epochs) <= Len(epochs')
          /\ \A i \in 1 .. Len(epochs) : epochs'[i] = epochs[i]
      BY <1>1, <3>2
    <3> QED
      BY <1>1, <1>2, <2>1, <3>1, <3>3, StreamTransmits
  <2>2. CASE DataArrives
    <3>1. /\ sent + 1 \in Nat /\ sent' = sent + 1
          /\ SendPacket(sent + 1, {Announcement(Session)})
      BY <1>1, <2>2 DEF DataArrives
    <3>2. \A m \in {Announcement(Session)} :
            m.type = "session" /\ m.key = Len(epochs) /\ m.epoch = epochs[Len(epochs)]
      BY DEF Announcement, Session
    <3>3. sent' \in Nat /\ sent <= sent' /\ sent + 1 <= sent'
      BY <1>1, <3>1
    <3> QED
      BY <2>1, <3>1, <3>2, <3>3
  <2>3. CASE FecTimeout
    <3>1. SendPacket(Fill, {}) /\ sent' = sent /\ Fill \in Nat /\ Fill = 0
      BY <2>3 DEF FecTimeout, Fill
    <3>2. sent' \in Nat /\ sent <= sent' /\ Fill <= sent'
      BY <1>1, <3>1
    <3> QED
      BY <2>1, <3>1, <3>2
  <2>4. ASSUME NEW e \in Epochs, Restart(e)
        PROVE  FInv'
    <3>1. e \in Nat
      BY TransmitterAssumption
    <3>2. /\ TInv' /\ Len(epochs') = Len(epochs) + 1
          /\ \A i \in 1 .. Len(epochs) : epochs'[i] = epochs[i]
      BY <1>1, <2>4, <3>1, TxRestarts
    <3>3. air' = air /\ sent' = sent /\ Packets' = Packets
      BY <2>4 DEF Restart, Packets, Fragments
    <3>4. Len(epochs) <= Len(epochs') /\ sent <= sent'
      BY <1>1, <3>2, <3>3
    <3> QED
      BY <1>1, <1>2, <3>2, <3>3, <3>4, StreamTransmits
  <2> QED
    BY <1>2, <2>2, <2>3, <2>4 DEF Transmit
<1>3. ASSUME UNCHANGED txVars
      PROVE  TInv' /\ Fragments' = Fragments /\ Packets' = Packets /\ epochs' = epochs
             /\ sent' = sent
  BY <1>1, <1>3 DEF txVars, TInv, AirOK, Underway, FragmentsOK, Ordered, Fragments,
    Packets, Among, Before, Session
<1>4. ASSUME NEW m \in air, ReceiveData(m)
      PROVE  FInv'
  <2>1. /\ TInv' /\ Fragments' = Fragments /\ Packets' = Packets /\ epochs' = epochs
        /\ sent' = sent
    BY <1>3, <1>4 DEF ReceiveData
  <2>2. /\ Flow(agg', agg'.known) /\ Keeps(agg', agg)
        /\ agg'.key = agg.key /\ agg'.epoch = agg.epoch
        /\ m.frag < FecK => m.body[1] = Fill \/ m.body[1] \in Held(agg')
        /\ Completes(m) => PacketsOf(m) \subseteq Elements(agg'.out)
    BY <1>4, StreamReceives
  <2>3. Flow(agg, agg.known)'
    BY <2>1, <2>2 DEF Flow, InSequence, SlotHolds, Among, SentPart, Ahead, At, Elements
  <2>4. KeyOK'
    BY <2>1, <2>2 DEF FInv, KeyOK
  <2>5. stored' \subseteq Held(agg')
    <3>1. stored \subseteq Held(agg')
      BY <2>2 DEF FInv, Keeps
    <3> QED
      BY <1>4, <2>2, <3>1 DEF ReceiveData
  <2>6. complete' \subseteq Elements(agg'.out)
    <3>1. agg.out \in Seq(Nat) /\ agg'.out \in Seq(Nat)
      BY <2>2 DEF FInv, Flow, InSequence
    <3>2. Elements(agg.out) \subseteq Elements(agg'.out)
      BY <2>2, <3>1, ContinuesElements DEF Keeps
    <3> QED
      BY <1>4, <2>2, <3>2 DEF ReceiveData, FInv
  <2>7. Held(agg)' = Held(agg') /\ Elements(agg.out)' = Elements(agg'.out)
    BY DEF Held, Elements, There, At
  <2> QED
    BY <1>1, <2>1, <2>3, <2>4, <2>5, <2>6, <2>7 DEF FInv
<1>5. ASSUME NEW m \in air, ReceiveSession(m)
      PROVE  FInv'
  <2>1. /\ TInv' /\ Fragments' = Fragments /\ Packets' = Packets /\ epochs' = epochs
        /\ sent' = sent
    BY <1>3, <1>5 DEF ReceiveSession
  <2>2. /\ Flow(agg', agg'.known) /\ agg'.key = m.key /\ agg'.epoch = m.epoch
        /\ m.key \in 1 .. Len(epochs) /\ m.epoch = epochs[m.key]
    BY <1>5, FlowSession DEF ReceiveSession, TakeSession
  <2>3. Flow(agg, agg.known)'
    BY <2>1, <2>2 DEF Flow, InSequence, SlotHolds, Among, SentPart, Ahead, At, Elements
  <2>4. KeyOK'
    BY <1>1, <2>1, <2>2 DEF KeyOK
  <2>5. stored' = {} /\ complete' = {}
    BY <1>5 DEF ReceiveSession
  <2> QED
    BY <1>1, <2>1, <2>3, <2>4, <2>5 DEF FInv
<1>6. CASE UNCHANGED linkVars
  <2>1. UNCHANGED txVars /\ UNCHANGED <<agg, stored, complete>>
    BY <1>6 DEF linkVars
  <2>2. /\ TInv' /\ Packets' = Packets /\ epochs' = epochs /\ sent' = sent /\ air' = air
    BY <1>3, <2>1 DEF txVars
  <2>3. sent <= sent' /\ Len(epochs) <= Len(epochs') /\ air \subseteq air'
    BY <1>1, <2>2
  <2> QED
    BY <1>1, <2>1, <2>2, <2>3, StreamTransmits
<1> QED
  BY <1>2, <1>4, <1>5, <1>6 DEF LinkNext, Receive

\* The inductive invariant of the stream.
THEOREM StreamInv == LinkSpec => []FInv
<1> QED
  BY StreamStarts, StreamSteps, PTL DEF LinkSpec

\* Nothing the receiver has stored is lost when blocks are overridden or
\* flushed, and k fragments of a block are enough for all of it, for every FEC
\* code, ring size and order of arrival.
THEOREM NothingIsDropped == LinkSpec => []NothingDropped
<1>1. FInv => NothingDropped
  <2> SUFFICES ASSUME FInv PROVE NothingDropped
    OBVIOUS
  <2>1. \A c \in 0 .. agg.alloc - 1 : There(At(agg, c), FecK) \subseteq Pending
    BY DEF There, At, Pending
  <2>2. Held(agg) \subseteq Elements(agg.out) \cup Pending
    BY <2>1 DEF Held
  <2> QED
    BY <2>2 DEF FInv, NothingDropped, Elements
<1> QED
  BY <1>1, StreamInv, PTL

\* A list with one more element, in the terms of LossyFifo.
LEMMA OneMore ==
  ASSUME NEW o \in Seq(Nat), NEW x \in Nat
  PROVE  /\ Len(Append(o, x)) = Len(o) + 1
         /\ SubSeq(Append(o, x), 1, Len(o)) = o
OBVIOUS

\* Lists with the same elements.
LEMMA SameList ==
  ASSUME NEW o \in Seq(Nat), NEW q \in Seq(Nat), Len(q) = Len(o),
         \A i \in 1 .. Len(o) : q[i] = o[i]
  PROVE  q = o
OBVIOUS

\* Every step of the link is one of the channel, or none.
LEMMA StreamIsFifo ==
  FInv /\ FInv' /\ [LinkNext]_linkVars => [Channel!Next]_(Channel!fifoVars)
<1> SUFFICES ASSUME FInv, FInv', [LinkNext]_linkVars
             PROVE  Channel!Next \/ UNCHANGED <<sent, epochs, agg.out>>
  BY DEF Channel!fifoVars
<1>1. /\ TInv /\ KeyOK /\ sent \in Nat /\ epochs \in Seq(Nat) /\ Len(epochs) \in Nat
      /\ Len(epochs) > 0 /\ epochs[Len(epochs)] \in Nat
      /\ InSequence(agg.out, sent) /\ InSequence(agg'.out, sent')
  BY DEF FInv, TInv, AirOK, Underway, Flow, InSequence
<1>2. CASE Transmit /\ UNCHANGED <<agg, stored, complete>>
  <2>1. \A x \in Nat : epochs' = Append(epochs, x) => Channel!NewSession
    BY <1>1, OneMore DEF Channel!NewSession
  <2>2. \A p, ann : SendPacket(p, ann) =>
          epochs' = epochs \/ epochs' = Append(epochs, epochs[Len(epochs)])
    BY DEF SendPacket, NextBlock, Session
  <2>3. CASE DataArrives
    BY <1>1, <1>2, <2>1, <2>2, <2>3 DEF DataArrives, Channel!Next, Channel!Send
  <2>4. CASE FecTimeout
    BY <1>1, <1>2, <2>1, <2>2, <2>4 DEF FecTimeout, Channel!Next
  <2>5. ASSUME NEW e \in Epochs, Restart(e)
        PROVE  Channel!Next
    <3>1. e \in Nat /\ epochs' = Append(epochs, e) /\ sent' = sent
      BY <2>5, TransmitterAssumption DEF Restart
    <3> QED
      BY <1>2, <2>1, <3>1 DEF Channel!Next
  <2> QED
    BY <1>2, <2>3, <2>4, <2>5 DEF Transmit
<1>3. ASSUME NEW m \in air, ReceiveData(m)
      PROVE  Channel!Next \/ UNCHANGED <<sent, epochs, agg.out>>
  <2> DEFINE o == agg.out
             q == agg'.out
  <2>1. Continues(q, o) /\ sent' = sent /\ epochs' = epochs
    BY <1>3, StreamReceives DEF Keeps, ReceiveData, txVars
  <2>2. InSequence(o, sent) /\ InSequence(q, sent)
    BY <1>1, <2>1
  <2> HIDE DEF o, q
  <2>3. /\ o \in Seq(Nat) /\ q \in Seq(Nat) /\ Len(o) \in Nat /\ Len(q) \in Nat
        /\ Len(o) <= Len(q) /\ \A i \in 1 .. Len(o) : q[i] = o[i]
    BY <2>1, <2>2 DEF InSequence, Continues
  <2>4. CASE Len(q) = Len(o)
    <3>1. q = o
      BY <2>3, <2>4
    <3> QED
      BY <2>1, <3>1 DEF o, q
  <2>5. CASE Len(q) > Len(o)
    <3>1. SubSeq(q, 1, Len(o)) = o
      <4> DEFINE z == SubSeq(q, 1, Len(o))
      <4>1. z \in Seq(Nat) /\ Len(z) = Len(o) /\ \A i \in 1 .. Len(o) : z[i] = q[i]
        BY <2>3, <2>5
      <4> HIDE DEF z
      <4>2. \A i \in 1 .. Len(o) : z[i] = o[i]
        BY <2>3, <4>1
      <4>3. o \in Seq(Nat) /\ z \in Seq(Nat) /\ Len(z) = Len(o)
        BY <2>3, <4>1
      <4>4. z = o
        BY <4>2, <4>3, SameList
      <4> QED
        BY <4>4 DEF z
    <3>2. ASSUME NEW i \in Len(o) + 1 .. Len(q)
          PROVE  q[i] \in 1 .. sent /\ (i > 1 => q[i - 1] < q[i])
      <4>1. i \in 1 .. Len(q) /\ (i > 1 => i \in 2 .. Len(q))
        BY <2>3
      <4> QED
        BY <2>2, <4>1 DEF InSequence
    <3> QED
      BY <2>1, <2>5, <3>1, <3>2 DEF Channel!Next, Channel!Deliver, o, q
  <2> QED
    BY <2>3, <2>4, <2>5
<1>4. ASSUME NEW m \in air, ReceiveSession(m)
      PROVE  Channel!Next \/ UNCHANGED <<sent, epochs, agg.out>>
  <2>1. /\ m.type = "session" /\ m.key # agg.key /\ m.epoch >= agg.epoch
        /\ agg' = InitFec(agg, m.key, m.epoch) /\ sent' = sent /\ epochs' = epochs
    BY <1>4 DEF ReceiveSession, TakeSession, txVars
  <2>2. /\ agg'.out = IF m.key < agg.key THEN <<>> ELSE agg.out
        /\ m.key \in 1 .. Len(epochs) /\ m.epoch = epochs[m.key]
    BY <2>1, FlowSession
  <2>3. CASE ~(m.key < agg.key)
    BY <2>1, <2>2, <2>3
  <2>4. CASE m.key < agg.key
    <3>1. /\ agg.key \in 1 .. Len(epochs) /\ agg.epoch = epochs[agg.key]
          /\ m.key <= agg.key
      BY <1>1, <2>2, <2>4 DEF KeyOK
    <3>2. /\ epochs[m.key] <= epochs[agg.key]
          /\ epochs[m.key] \in Nat /\ epochs[agg.key] \in Nat
      <4>1. \A i, j \in 1 .. Len(epochs) : i <= j => epochs[i] <= epochs[j]
        BY <1>1 DEF TInv, Underway
      <4>2. \A i \in 1 .. Len(epochs) : epochs[i] \in Nat
        BY <1>1
      <4> QED
        BY <2>2, <3>1, <4>1, <4>2
    <3>3. epochs[m.key] = epochs[agg.key]
      BY <2>1, <2>2, <3>1, <3>2
    <3>4. DOMAIN epochs = 1 .. Len(epochs)
      BY <1>1
    <3>5. Channel!Ambiguous
      BY <2>1, <2>2, <3>1, <3>3, <3>4 DEF Channel!Ambiguous
    <3> QED
      BY <2>1, <2>2, <2>4, <3>5 DEF Channel!Next, Channel!Afresh
  <2> QED
    BY <2>3, <2>4
<1>5. CASE UNCHANGED linkVars
  BY <1>5 DEF linkVars, txVars
<1> QED
  BY <1>2, <1>3, <1>4, <1>5 DEF LinkNext, Receive

\* The link implements an ordered lossy channel: what comes out went in, in
\* order and at most once, for every FEC code, ring size and number of blocks
\* in a session, and through any loss, repetition, delay and reordering.
THEOREM LinkImplementsFifo == LinkSpec => ImplementsFifo
<1>1. LinkInit => Channel!Init
  <2> SUFFICES ASSUME LinkInit PROVE Channel!Init
    OBVIOUS
  <2>1. sent = 0 /\ epochs = <<0>> /\ agg.out = <<>>
    BY DEF LinkInit, TxInit, RxInit, InitFec
  <2> QED
    BY <2>1 DEF Channel!Init
<1> QED
  BY <1>1, StreamIsFifo, StreamInv, PTL DEF LinkSpec, ImplementsFifo, Channel!Fifo

=============================================================================
