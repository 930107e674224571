---------------------------- MODULE PnWordsProofs ----------------------------
(***************************************************************************)
(* The replay window as the code keeps it, an array of machine words, for  *)
(* every number of words and every word size: winShift moves each bit to   *)
(* its place across the words, so the array implements the flat window of  *)
(* PnWindow, and through it the unbounded filter.                          *)
(***************************************************************************)
EXTENDS PnWords, WellFoundedInduction, TLAPS

Size == Words * WordBits
Array == [Index -> Word]

\* The positions of an array that are 1, counted across its words.
Bits(a) == {i \in 0 .. Size - 1 : WinTest(a, i)}

-----------------------------------------------------------------------------
(***************************************************************************)
(* Arithmetic of bit positions: position i is bit i % WordBits of word     *)
(* i \div WordBits.                                                        *)
(***************************************************************************)
\* Quotient and remainder by the word size.
LEMMA DivMod ==
  ASSUME NEW x \in Nat, NEW b \in Nat \ {0}
  PROVE  /\ x \div b \in Nat /\ x % b \in 0 .. b - 1
         /\ x = b * (x \div b) + (x % b)
<1>1. x % b \in 0 .. b - 1
  OBVIOUS
<1>2. x \div b \in Int
  OBVIOUS
<1>3. x = b * (x \div b) + (x % b)
  OBVIOUS
<1>4. x \div b >= 0
  BY <1>1, <1>2, <1>3
<1> QED
  BY <1>1, <1>2, <1>3, <1>4

\* A larger quotient is at least one whole word further.
LEMMA NextMultiple ==
  ASSUME NEW b \in Nat \ {0}
  PROVE  \A x, y \in Int : x < y => b * y >= b * x + b
OBVIOUS

\* Only one word and bit make up a position.
LEMMA DivUnique ==
  ASSUME NEW b \in Nat \ {0}, NEW q \in Int, NEW t \in Int,
         NEW r \in 0 .. b - 1, NEW s \in 0 .. b - 1, b * q + r = b * t + s
  PROVE  q = t /\ r = s
BY NextMultiple

LEMMA SizeType == Size \in Nat \ {0} /\ WordBits \in Nat \ {0} /\ Words \in Nat \ {0}
<1>1. Words \in Nat \ {0} /\ WordBits \in Nat \ {0}
  BY WordsAssumption
<1>2. Words * WordBits \in Nat /\ Words * WordBits > 0
  BY <1>1
<1> QED
  BY <1>1, <1>2 DEF Size

\* Where position i lies.
LEMMA Position ==
  ASSUME NEW i \in 0 .. Size - 1
  PROVE  /\ i \div WordBits \in Index /\ i % WordBits \in 0 .. WordBits - 1
         /\ i = WordBits * (i \div WordBits) + (i % WordBits)
<1>1. /\ i \in Nat /\ WordBits \in Nat \ {0} /\ Words \in Nat
      /\ i < WordBits * Words
  BY SizeType DEF Size
<1>2. /\ i \div WordBits \in Nat /\ i % WordBits \in 0 .. WordBits - 1
      /\ i = WordBits * (i \div WordBits) + (i % WordBits)
  BY <1>1, DivMod
<1>3. i \div WordBits < Words
  <2> SUFFICES ASSUME Words <= i \div WordBits PROVE FALSE
    BY <1>1, <1>2
  <2>1. WordBits * Words <= WordBits * (i \div WordBits)
    BY <1>1, <1>2
  <2> QED
    BY <1>1, <1>2, <2>1
<1> QED
  BY <1>1, <1>2, <1>3 DEF Index

\* The position of bit b of word k.
LEMMA Compose ==
  ASSUME NEW k \in Index, NEW b \in 0 .. WordBits - 1
  PROVE  /\ WordBits * k + b \in 0 .. Size - 1
         /\ (WordBits * k + b) \div WordBits = k
         /\ (WordBits * k + b) % WordBits = b
<1>1. k \in Nat /\ k < Words /\ Words \in Nat /\ WordBits \in Nat \ {0}
      /\ b \in Nat /\ b < WordBits
  BY SizeType DEF Index
<1>2. WordBits * k \in Nat /\ WordBits * Words >= WordBits * k + WordBits
  BY <1>1, NextMultiple
<1>3. WordBits * k + b \in Nat /\ WordBits * k + b < Words * WordBits
  BY <1>1, <1>2
<1> DEFINE x == WordBits * k + b
           q == x \div WordBits
           r == x % WordBits
<1>4. q \in Nat /\ r \in 0 .. WordBits - 1 /\ x = WordBits * q + r
  BY <1>1, <1>3, DivMod
<1>5. q = k /\ r = b
  <2> HIDE DEF q, r
  <2>1. WordBits * q + r = WordBits * k + b
    BY <1>4
  <2> QED
    BY <1>1, <1>4, <2>1, DivUnique
<1> QED
  BY <1>1, <1>3, <1>5, SizeType DEF Size

-----------------------------------------------------------------------------
(***************************************************************************)
(* winClear, winTest and winSet.                                           *)
(***************************************************************************)
LEMMA ClearBits == WinClear \in Array /\ Bits(WinClear) = {}
<1>1. WinClear \in Array
  BY DEF WinClear, Array, Word
<1>2. \A i \in 0 .. Size - 1 : ~WinTest(WinClear, i)
  BY Position DEF WinClear, WinTest
<1> QED
  BY <1>1, <1>2 DEF Bits

\* An array with no bit set is the cleared one.
LEMMA NoBits ==
  ASSUME NEW a \in Array, Bits(a) = {}
  PROVE  a = WinClear
<1>1. \A k \in Index : a[k] = {}
  <2> SUFFICES ASSUME NEW k \in Index, NEW b \in a[k] PROVE FALSE
    OBVIOUS
  <2>1. b \in 0 .. WordBits - 1
    BY DEF Array, Word
  <2>2. WordBits * k + b \in Bits(a)
    BY <2>1, Compose DEF Bits, WinTest
  <2> QED
    BY <2>2
<1> QED
  BY <1>1 DEF Array, WinClear

LEMMA SetBits ==
  ASSUME NEW a \in Array, NEW i \in 0 .. Size - 1
  PROVE  WinSet(a, i) \in Array /\ Bits(WinSet(a, i)) = Bits(a) \cup {i}
<1> DEFINE q == i \div WordBits
           r == i % WordBits
<1>1. q \in Index /\ r \in 0 .. WordBits - 1 /\ i = WordBits * q + r
  BY Position
<1>2. WinSet(a, i) = [a EXCEPT ![q] = @ \cup {r}]
  BY DEF WinSet
<1> HIDE DEF q, r
<1>3. WinSet(a, i) \in Array
  BY <1>1, <1>2 DEF Array, Word
<1>4. ASSUME NEW j \in 0 .. Size - 1
      PROVE  WinTest(WinSet(a, i), j) <=> WinTest(a, j) \/ j = i
  <2> DEFINE qj == j \div WordBits
             rj == j % WordBits
  <2>1. qj \in Index /\ rj \in 0 .. WordBits - 1 /\ j = WordBits * qj + rj
    BY Position
  <2>2. WinTest(WinSet(a, i), j) <=> rj \in WinSet(a, i)[qj]
    BY DEF WinTest
  <2>3. WinTest(a, j) <=> rj \in a[qj]
    BY DEF WinTest
  <2>4. j = i => qj = q /\ rj = r
    BY DEF q, r
  <2> HIDE DEF qj, rj
  <2>5. qj = q /\ rj = r => j = i
    BY <1>1, <2>1
  <2>6. rj \in WinSet(a, i)[qj] <=> rj \in a[qj] \/ (qj = q /\ rj = r)
    BY <1>1, <1>2, <2>1 DEF Array
  <2> QED
    BY <2>2, <2>3, <2>4, <2>5, <2>6
<1> QED
  BY <1>3, <1>4 DEF Bits

-----------------------------------------------------------------------------
(***************************************************************************)
(* winShift.                                                               *)
(***************************************************************************)
\* A non-empty set of naturals has a least element.
LEMMA LeastNatural ==
  ASSUME NEW T, T \subseteq Nat, T # {}
  PROVE  \E x \in T : \A y \in T : x <= y
<1> DEFINE R == OpToRel(<, Nat)
<1>1. \A x, y \in Nat : ~(<<y, x>> \in R) => x <= y
  BY DEF OpToRel
<1> HIDE DEF R
<1>2. IsWellFoundedOn(R, Nat)
  BY NatLessThanWellFounded DEF R
<1>3. \E x \in T : \A y \in T : ~(<<y, x>> \in R)
  BY <1>2, WFMin
<1>4. PICK x \in T : \A y \in T : ~(<<y, x>> \in R)
  BY <1>3
<1>5. \A y \in T : x <= y
  BY <1>1, <1>4, Zenon
<1> QED
  BY <1>5

\* The array once the words from i up have been shifted.
Partial(a, n, i) ==
  [k \in Index |-> IF k >= i THEN ShiftedWord(a, k, n) ELSE a[k]]

\* A shifted word is a word.
LEMMA ShiftedWordType ==
  ASSUME NEW a \in Array, NEW k \in Index, NEW n \in Nat
  PROVE  ShiftedWord(a, k, n) \in Word
<1> DEFINE words == n \div WordBits
           bits == n % WordBits
           v == IF k - words >= 0 THEN a[k - words] ELSE {}
           lo == IF bits # 0 /\ k - words - 1 >= 0
                 THEN ShiftRight(a[k - words - 1], WordBits - bits) ELSE {}
<1>0. WordBits \in Nat \ {0} /\ Words \in Nat \ {0}
  BY SizeType
<1>1. words \in Nat /\ bits \in 0 .. WordBits - 1
  BY <1>0, DivMod
<1>2. ShiftedWord(a, k, n) = ShiftLeft(v, bits) \cup lo
  BY DEF ShiftedWord
<1> HIDE DEF words, bits
<1>3. k - words >= 0 => k - words \in Index
  BY <1>0, <1>1 DEF Index
<1>4. k - words - 1 >= 0 => k - words - 1 \in Index
  BY <1>0, <1>1 DEF Index
<1>5. v \in SUBSET (0 .. WordBits - 1)
  BY <1>3 DEF Array, Word
<1>6. ShiftLeft(v, bits) \in SUBSET (0 .. WordBits - 1)
  <2> HIDE DEF v
  <2> QED
    BY <1>0, <1>1, <1>5 DEF ShiftLeft
<1>7. lo \in SUBSET (0 .. WordBits - 1)
  <2>1. CASE bits # 0 /\ k - words - 1 >= 0
    <3> DEFINE u == a[k - words - 1]
    <3>1. u \in SUBSET (0 .. WordBits - 1)
      BY <1>4, <2>1 DEF Array, Word
    <3> HIDE DEF u
    <3>2. ShiftRight(u, WordBits - bits) \in SUBSET (0 .. WordBits - 1)
      BY <1>0, <1>1, <3>1 DEF ShiftRight
    <3> QED
      BY <2>1, <3>2 DEF u
  <2>2. CASE ~(bits # 0 /\ k - words - 1 >= 0)
    BY <2>2
  <2> QED
    BY <2>1, <2>2
<1> QED
  BY <1>2, <1>6, <1>7 DEF Word

\* winShift reads only words that it has not overwritten yet.
LEMMA ShiftReadsBelow ==
  ASSUME NEW a \in Array, NEW n \in Nat, NEW i \in Index
  PROVE  ShiftedWord(Partial(a, n, i + 1), i, n) = ShiftedWord(a, i, n)
<1> DEFINE words == n \div WordBits
           c == Partial(a, n, i + 1)
<1>0. WordBits \in Nat \ {0} /\ Words \in Nat \ {0}
  BY SizeType
<1>1. words \in Nat
  BY <1>0, DivMod
<1>2. \A k \in Index : k <= i => c[k] = a[k]
  BY <1>0 DEF Partial, Index
<1> HIDE DEF words, c
<1>3. i - words >= 0 => c[i - words] = a[i - words]
  BY <1>0, <1>1, <1>2 DEF Index
<1>4. i - words - 1 >= 0 => c[i - words - 1] = a[i - words - 1]
  BY <1>0, <1>1, <1>2 DEF Index
<1>5. ShiftedWord(c, i, n) = ShiftedWord(a, i, n)
  BY <1>3, <1>4 DEF ShiftedWord, words
<1> QED
  BY <1>5 DEF c

\* One turn of winShift's loop.
LEMMA PartialStep ==
  ASSUME NEW a \in Array, NEW n \in Nat, NEW i \in Index
  PROVE  Partial(a, n, i) =
           [Partial(a, n, i + 1) EXCEPT ![i] = ShiftedWord(Partial(a, n, i + 1), i, n)]
<1> DEFINE c == Partial(a, n, i + 1)
           d == [c EXCEPT ![i] = ShiftedWord(c, i, n)]
<1>1. ShiftedWord(c, i, n) = ShiftedWord(a, i, n)
  BY ShiftReadsBelow
<1>2. d = [k \in Index |-> IF k = i THEN ShiftedWord(a, i, n) ELSE c[k]]
  BY <1>1 DEF Partial
<1>3. \A k \in Index : k # i => c[k] = Partial(a, n, i)[k]
  <2> SUFFICES ASSUME NEW k \in Index, k # i PROVE c[k] = Partial(a, n, i)[k]
    OBVIOUS
  <2>1. k >= i + 1 <=> k >= i
    BY SizeType DEF Index
  <2> QED
    BY <2>1 DEF Partial
<1>4. Partial(a, n, i)[i] = ShiftedWord(a, i, n)
  BY SizeType DEF Partial, Index
<1>5. Partial(a, n, i) = [k \in Index |-> Partial(a, n, i)[k]]
  BY DEF Partial
<1> HIDE DEF c
<1> QED
  BY <1>2, <1>3, <1>4, <1>5 DEF c

\* The loop, which overwrites the array in place from the last word down,
\* leaves in every word what shifting the original array puts there.
LEMMA ShiftInPlace ==
  ASSUME NEW a \in Array, NEW n \in Nat, n < Size
  PROVE  WinShift(a, n) = [k \in Index |-> ShiftedWord(a, k, n)]
<1> DEFINE Loop(f) ==
             [i \in 0 .. Words |->
                IF i = Words THEN a
                ELSE [f[i + 1] EXCEPT ![i] = ShiftedWord(f[i + 1], i, n)]]
           P == [i \in 0 .. Words |-> Partial(a, n, i)]
           from == CHOOSE f : f = Loop(f)
<1>0. Words \in Nat \ {0} /\ WordBits \in Nat \ {0} /\ Size \in Nat
  BY SizeType
<1>1. WinShift(a, n) = from[0]
  BY <1>0 DEF WinShift, Size
<1>2. Partial(a, n, Words) = a
  <2>1. \A k \in Index : ~(k >= Words)
    BY <1>0 DEF Index
  <2> QED
    BY <2>1 DEF Partial, Array
<1>3. P = Loop(P)
  <2>1. ASSUME NEW i \in 0 .. Words
        PROVE  P[i] = IF i = Words THEN a
                      ELSE [P[i + 1] EXCEPT ![i] = ShiftedWord(P[i + 1], i, n)]
    <3>1. CASE i = Words
      BY <1>2, <3>1
    <3>2. CASE i # Words
      <4>1. i \in Index /\ i + 1 \in 0 .. Words
        BY <1>0, <3>2 DEF Index
      <4>2. P[i] = Partial(a, n, i) /\ P[i + 1] = Partial(a, n, i + 1)
        BY <4>1
      <4> HIDE DEF P
      <4> QED
        BY <3>2, <4>1, <4>2, PartialStep
    <3> QED
      BY <3>1, <3>2
  <2> QED
    BY <2>1
<1> HIDE DEF P
<1>4. from = Loop(from)
  <2> HIDE DEF Loop
  <2> QED
    BY <1>3
<1> HIDE DEF from
<1>5. \A i \in 0 .. Words : from[i] = P[i]
  <2> DEFINE T == {j \in 0 .. Words : from[Words - j] # P[Words - j]}
  <2> SUFFICES ASSUME T # {} PROVE FALSE
    <3>1. \A i \in 0 .. Words : Words - i \in 0 .. Words /\ Words - (Words - i) = i
      BY <1>0
    <3> QED
      BY <3>1
  <2>1. PICK j \in T : \A l \in T : j <= l
    <3>1. T \subseteq Nat
      BY <1>0
    <3> HIDE DEF T
    <3> QED
      BY <3>1, LeastNatural
  <2>2. j # 0
    <3>1. \A f : Loop(f)[Words] = a
      BY <1>0
    <3>2. from[Words] = a
      <4>1. Loop(from)[Words] = a
        BY <3>1
      <4> HIDE DEF Loop
      <4> QED
        BY <1>4, <4>1
    <3>3. P[Words] = a
      <4>1. Loop(P)[Words] = a
        BY <3>1
      <4> HIDE DEF Loop
      <4> QED
        BY <1>3, <4>1
    <3> QED
      BY <1>0, <3>2, <3>3, <2>1
  <2> DEFINE i == Words - j
  <2>3. i \in 0 .. Words /\ i # Words /\ i + 1 \in 0 .. Words
        /\ i + 1 = Words - (j - 1) /\ j - 1 \in 0 .. Words /\ ~(j <= j - 1)
    BY <1>0, <2>1, <2>2
  <2>4. from[i + 1] = P[i + 1]
    <3>1. j - 1 \notin T
      BY <2>1, <2>3
    <3> QED
      BY <2>3, <3>1
  <2>5. from[i] # P[i]
    BY <2>1
  <2> HIDE DEF i
  <2>6. from[i] = [from[i + 1] EXCEPT ![i] = ShiftedWord(from[i + 1], i, n)]
    BY <1>4, <2>3
  <2>7. P[i] = [P[i + 1] EXCEPT ![i] = ShiftedWord(P[i + 1], i, n)]
    BY <1>3, <2>3
  <2> QED
    BY <2>4, <2>5, <2>6, <2>7
<1>6. from[0] = Partial(a, n, 0)
  BY <1>0, <1>5 DEF P
<1>7. \A k \in Index : k >= 0
  BY <1>0 DEF Index
<1> QED
  BY <1>1, <1>6, <1>7 DEF Partial

\* Bit b of shifted word k is the bit n positions below, if there is one.
LEMMA ShiftedBit ==
  ASSUME NEW a \in Array, NEW n \in Nat, NEW k \in Index,
         NEW b \in 0 .. WordBits - 1
  PROVE  b \in ShiftedWord(a, k, n)
           <=> /\ WordBits * k + b - n >= 0
               /\ WordBits * k + b - n \in Bits(a)
<1> DEFINE words == n \div WordBits
           bits == n % WordBits
           v == IF k - words >= 0 THEN a[k - words] ELSE {}
           lo == IF bits # 0 /\ k - words - 1 >= 0
                 THEN ShiftRight(a[k - words - 1], WordBits - bits) ELSE {}
           m == WordBits * k + b - n
<1>0. WordBits \in Nat \ {0} /\ Words \in Nat \ {0} /\ k \in Nat /\ k < Words
  BY SizeType DEF Index
<1>1. words \in Nat /\ bits \in 0 .. WordBits - 1 /\ n = WordBits * words + bits
  BY <1>0, DivMod
<1>2. ShiftedWord(a, k, n) = ShiftLeft(v, bits) \cup lo
  BY DEF ShiftedWord
<1> HIDE DEF words, bits
<1>3. \A j \in Int : j >= 0 /\ j <= k => j \in Index
  BY <1>0 DEF Index
<1>4. v \in SUBSET (0 .. WordBits - 1)
  BY <1>0, <1>1, <1>3 DEF Array, Word
<1>5. b \in ShiftLeft(v, bits) <=> b - bits \in v
  <2> HIDE DEF v
  <2>1. b \in ShiftLeft(v, bits) => b - bits \in v
    BY <1>0, <1>1, <1>4 DEF ShiftLeft
  <2>2. b - bits \in v => b \in ShiftLeft(v, bits)
    <3> SUFFICES ASSUME b - bits \in v PROVE b \in ShiftLeft(v, bits)
      OBVIOUS
    <3>1. (b - bits) + bits = b /\ b < WordBits
      BY <1>0, <1>1
    <3> QED
      BY <3>1 DEF ShiftLeft
  <2> QED
    BY <2>1, <2>2
<1>6. b \in lo <=> /\ bits # 0 /\ k - words - 1 >= 0
                   /\ b + (WordBits - bits) \in a[k - words - 1]
  <2>1. CASE bits # 0 /\ k - words - 1 >= 0
    <3> DEFINE u == a[k - words - 1]
    <3>1. u \in SUBSET (0 .. WordBits - 1)
      BY <1>0, <1>1, <1>3, <2>1 DEF Array, Word
    <3> HIDE DEF u
    <3>2. b \in ShiftRight(u, WordBits - bits) => b + (WordBits - bits) \in u
      BY <1>0, <1>1, <3>1 DEF ShiftRight
    <3>3. ASSUME b + (WordBits - bits) \in u
          PROVE  b \in ShiftRight(u, WordBits - bits)
      <4>1. /\ (b + (WordBits - bits)) - (WordBits - bits) = b
            /\ b + (WordBits - bits) >= WordBits - bits
        BY <1>0, <1>1
      <4> QED
        BY <3>3, <4>1 DEF ShiftRight
    <3>4. lo = ShiftRight(u, WordBits - bits)
      BY <2>1 DEF u
    <3> HIDE DEF lo
    <3> QED
      BY <2>1, <3>2, <3>3, <3>4 DEF u
  <2>2. CASE ~(bits # 0 /\ k - words - 1 >= 0)
    BY <2>2
  <2> QED
    BY <2>1, <2>2
<1>7. CASE b >= bits
  <2>1. m = WordBits * (k - words) + (b - bits) /\ b - bits \in 0 .. WordBits - 1
    BY <1>0, <1>1, <1>7
  <2>2. b \notin lo
    <3>1. k - words - 1 >= 0 => a[k - words - 1] \in SUBSET (0 .. WordBits - 1)
      BY <1>0, <1>1, <1>3 DEF Array, Word
    <3>2. b + (WordBits - bits) \notin 0 .. WordBits - 1
      BY <1>0, <1>1, <1>7
    <3> HIDE DEF lo
    <3> QED
      BY <1>6, <3>1, <3>2
  <2>3. CASE k - words >= 0
    <3>1. k - words \in Index
      BY <1>0, <1>1, <1>3, <2>3
    <3>2. m \in 0 .. Size - 1 /\ m \div WordBits = k - words /\ m % WordBits = b - bits
      BY <2>1, <3>1, Compose
    <3>3. m \in Bits(a) <=> b - bits \in a[k - words]
      <4> HIDE DEF m
      <4> QED
        BY <3>2 DEF Bits, WinTest
    <3>4. m >= 0
      BY <3>2, SizeType
    <3>5. v = a[k - words]
      BY <2>3
    <3> HIDE DEF v, lo
    <3>6. b \in ShiftedWord(a, k, n) <=> b - bits \in v
      BY <1>2, <1>5, <2>2
    <3> QED
      BY <3>3, <3>4, <3>5, <3>6
  <2>4. CASE ~(k - words >= 0)
    <3>1. 0 >= WordBits * (k - words) + WordBits
      <4>1. k - words \in Int /\ k - words < 0
        BY <1>0, <1>1, <2>4
      <4> QED
        BY <1>0, <4>1, NextMultiple
    <3>2. m < 0
      BY <1>0, <1>1, <2>1, <3>1
    <3>3. v = {}
      BY <2>4
    <3>4. m \notin Bits(a)
      BY <3>2, SizeType DEF Bits
    <3> HIDE DEF v, lo
    <3> QED
      BY <1>2, <1>5, <2>2, <3>3, <3>4
  <2> QED
    BY <2>3, <2>4
<1>8. CASE b < bits
  <2>1. /\ m = WordBits * (k - words - 1) + (b + (WordBits - bits))
        /\ b + (WordBits - bits) \in 0 .. WordBits - 1 /\ bits # 0
    BY <1>0, <1>1, <1>8
  <2>2. b - bits \notin v
    <3>1. b - bits \notin 0 .. WordBits - 1
      BY <1>0, <1>1, <1>8
    <3> HIDE DEF v
    <3> QED
      BY <1>4, <3>1
  <2>3. CASE k - words - 1 >= 0
    <3>1. k - words - 1 \in Index
      BY <1>0, <1>1, <1>3, <2>3
    <3>2. /\ m \in 0 .. Size - 1 /\ m \div WordBits = k - words - 1
          /\ m % WordBits = b + (WordBits - bits)
      BY <2>1, <3>1, Compose
    <3>3. m \in Bits(a) <=> b + (WordBits - bits) \in a[k - words - 1]
      <4> HIDE DEF m
      <4> QED
        BY <3>2 DEF Bits, WinTest
    <3>4. m >= 0
      BY <3>2, SizeType
    <3> HIDE DEF v, lo
    <3> QED
      BY <1>2, <1>5, <1>6, <2>1, <2>2, <2>3, <3>3, <3>4
  <2>4. CASE ~(k - words - 1 >= 0)
    <3>1. 0 >= WordBits * (k - words - 1) + WordBits
      <4>1. k - words - 1 \in Int /\ k - words - 1 < 0
        BY <1>0, <1>1, <2>4
      <4> QED
        BY <1>0, <4>1, NextMultiple
    <3>2. m < 0
      BY <1>0, <1>1, <2>1, <3>1
    <3>3. m \notin Bits(a)
      BY <3>2, SizeType DEF Bits
    <3> HIDE DEF v, lo
    <3> QED
      BY <1>2, <1>5, <1>6, <2>2, <2>4, <3>3
  <2> QED
    BY <2>3, <2>4
<1> QED
  BY <1>0, <1>1, <1>7, <1>8

\* winShift(n) moves position i to i + n and drops what passes the end.
LEMMA ShiftBits ==
  ASSUME NEW a \in Array, NEW n \in Nat
  PROVE  /\ WinShift(a, n) \in Array
         /\ Bits(WinShift(a, n)) = Flat!WinShift(Bits(a), n)
<1>0. Size \in Nat \ {0}
  BY SizeType
<1>1. \A i \in Bits(a) : i \in 0 .. Size - 1
  BY DEF Bits
<1>2. Flat!WinShift(Bits(a), n) = {i \in 0 .. Size - 1 : i - n >= 0 /\ i - n \in Bits(a)}
  <2>1. Flat!WinShift(Bits(a), n) = {i + n : i \in {j \in Bits(a) : j + n < Size}}
    BY DEF Flat!WinShift, Size
  <2>2. ASSUME NEW i \in {j \in Bits(a) : j + n < Size}
        PROVE  i + n \in 0 .. Size - 1 /\ (i + n) - n = i /\ i >= 0
    BY <1>0, <1>1, <2>2
  <2>3. ASSUME NEW i \in 0 .. Size - 1, i - n \in Bits(a)
        PROVE  i - n \in {j \in Bits(a) : j + n < Size} /\ (i - n) + n = i
    BY <1>0, <1>1, <2>3
  <2> QED
    BY <2>1, <2>2, <2>3
<1>3. CASE n >= Size
  <2>1. WinShift(a, n) = WinClear
    BY <1>3 DEF WinShift, Size
  <2>2. \A i \in 0 .. Size - 1 : ~(i - n >= 0)
    BY <1>0, <1>3
  <2> QED
    BY <1>2, <2>1, <2>2, ClearBits
<1>4. CASE ~(n >= Size)
  <2>1. WinShift(a, n) = [k \in Index |-> ShiftedWord(a, k, n)]
    BY <1>0, <1>4, ShiftInPlace
  <2>2. WinShift(a, n) \in Array
    BY <2>1, ShiftedWordType DEF Array
  <2>3. ASSUME NEW i \in 0 .. Size - 1
        PROVE  WinTest(WinShift(a, n), i) <=> i - n >= 0 /\ i - n \in Bits(a)
    <3> DEFINE q == i \div WordBits
               r == i % WordBits
    <3>1. q \in Index /\ r \in 0 .. WordBits - 1 /\ i = WordBits * q + r
      BY Position
    <3>2. WinTest(WinShift(a, n), i) <=> r \in ShiftedWord(a, q, n)
      BY <2>1, <3>1 DEF WinTest
    <3> HIDE DEF q, r
    <3>3. r \in ShiftedWord(a, q, n)
            <=> WordBits * q + r - n >= 0 /\ WordBits * q + r - n \in Bits(a)
      BY <3>1, ShiftedBit
    <3>4. WordBits * q + r - n = i - n
      BY <3>1, SizeType DEF Index
    <3> QED
      BY <3>2, <3>3, <3>4
  <2> QED
    BY <1>2, <2>2, <2>3 DEF Bits
<1> QED
  BY <1>3, <1>4

-----------------------------------------------------------------------------
(***************************************************************************)
(* The refinement: every call of pnWindowCheck on the array is a call on   *)
(* the flat window.                                                        *)
(***************************************************************************)
WordsInv == highest \in Nat /\ win \in Array

\* The first-packet test reads the array as the flat window does.
LEMMA FirstSame ==
  ASSUME WordsInv
  PROVE  highest = 0 /\ win = WinClear
           <=> Flat!PnFirst([highest |-> highest, win |-> Bitmap])
<1>1. Bitmap = Bits(win)
  BY DEF Bitmap, Bits, Size
<1>2. win = WinClear <=> Bits(win) = {}
  BY NoBits, ClearBits DEF WordsInv
<1> QED
  BY <1>1, <1>2 DEF Flat!PnFirst

\* An accepted or refused packet number is so in the flat window, which
\* changes in the same way.
LEMMA CheckRefines ==
  ASSUME WordsInv, NEW p \in Pn, PnWindowCheck(p)
  PROVE  WordsInv' /\ Flat!PnWindowCheck(p)
<1> DEFINE f == [highest |-> highest, win |-> Bitmap]
<1>0. /\ p \in Nat /\ highest \in Nat /\ win \in Array
      /\ Size \in Nat \ {0} /\ 0 \in 0 .. Size - 1
  BY SizeType, WordsAssumption DEF Pn, WordsInv
<1>1. Bitmap = Bits(win) /\ Bitmap' = Bits(win')
  BY DEF Bitmap, Bits, Size
<1>2. f.highest = highest /\ f.win = Bits(win)
  BY <1>1
<1>3. highest = 0 /\ win = WinClear <=> Flat!PnFirst(f)
  BY FirstSame
<1> HIDE DEF f
<1>4. CASE highest = 0 /\ win = WinClear
  <2>1. Accept(p, p, WinSet(win, 0))
    BY <1>4 DEF PnWindowCheck
  <2>2. WinSet(win, 0) \in Array /\ Bits(WinSet(win, 0)) = {0}
    BY <1>0, <1>4, SetBits, ClearBits
  <2>3. WordsInv'
    BY <1>0, <2>1, <2>2 DEF Accept, WordsInv
  <2>4. Flat!PnAccepts(f, p) /\ Flat!PnUpdate(f, p) = [highest |-> p, win |-> {0}]
    BY <1>3, <1>4 DEF Flat!PnAccepts, Flat!PnUpdate
  <2>5. highest' = p /\ Bitmap' = {0}
    BY <1>1, <2>1, <2>2 DEF Accept
  <2> QED
    BY <2>1, <2>3, <2>4, <2>5 DEF Accept, Flat!PnWindowCheck, f
<1>5. CASE ~(highest = 0 /\ win = WinClear) /\ p > highest
  <2> DEFINE n == p - highest
             a == WinShift(win, n)
  <2>1. Accept(p, p, WinSet(a, 0))
    BY <1>5 DEF PnWindowCheck
  <2>2. n \in Nat
    BY <1>0, <1>5
  <2>3. a \in Array /\ Bits(a) = Flat!WinShift(Bits(win), n)
    BY <1>0, <2>2, ShiftBits
  <2> HIDE DEF a
  <2>4. /\ WinSet(a, 0) \in Array
        /\ Bits(WinSet(a, 0)) = Flat!WinShift(Bits(win), n) \cup {0}
    BY <1>0, <2>3, SetBits
  <2>5. WordsInv'
    BY <1>0, <2>1, <2>4 DEF Accept, WordsInv
  <2>6. /\ Flat!PnAccepts(f, p)
        /\ Flat!PnUpdate(f, p) =
             [highest |-> p, win |-> Flat!WinShift(Bits(win), n) \cup {0}]
    BY <1>2, <1>3, <1>5 DEF Flat!PnAccepts, Flat!PnUpdate
  <2>7. highest' = p /\ Bitmap' = Flat!WinShift(Bits(win), n) \cup {0}
    BY <1>1, <2>1, <2>4 DEF Accept
  <2> QED
    BY <2>1, <2>5, <2>6, <2>7 DEF Accept, Flat!PnWindowCheck, f
<1>6. CASE /\ ~(highest = 0 /\ win = WinClear) /\ ~(p > highest)
           /\ highest - p >= Size
  <2>1. Reject(p)
    BY <1>6 DEF PnWindowCheck, Size
  <2>2. ~Flat!PnAccepts(f, p)
    BY <1>0, <1>2, <1>3, <1>6 DEF Flat!PnAccepts, Size
  <2>3. WordsInv' /\ Bitmap' = Bitmap /\ highest' = highest
    BY <1>0, <1>1, <2>1 DEF Reject, WordsInv
  <2> QED
    BY <2>1, <2>2, <2>3 DEF Reject, Flat!PnWindowCheck, f
<1>7. CASE /\ ~(highest = 0 /\ win = WinClear) /\ ~(p > highest)
           /\ ~(highest - p >= Size)
  <2> DEFINE d == highest - p
  <2>1. d \in 0 .. Size - 1 /\ d < Size
    BY <1>0, <1>7
  <2>2. WinTest(win, d) <=> d \in Bits(win)
    BY <2>1 DEF Bits
  <2>3. CASE WinTest(win, d)
    <3>1. Reject(p)
      BY <1>7, <2>3 DEF PnWindowCheck, Size
    <3>2. ~Flat!PnAccepts(f, p)
      BY <1>0, <1>2, <1>3, <1>7, <2>2, <2>3 DEF Flat!PnAccepts
    <3>3. WordsInv' /\ Bitmap' = Bitmap /\ highest' = highest
      BY <1>0, <1>1, <3>1 DEF Reject, WordsInv
    <3> QED
      BY <3>1, <3>2, <3>3 DEF Reject, Flat!PnWindowCheck, f
  <2>4. CASE ~WinTest(win, d)
    <3>1. Accept(p, highest, WinSet(win, d))
      BY <1>7, <2>4 DEF PnWindowCheck, Size
    <3>2. WinSet(win, d) \in Array /\ Bits(WinSet(win, d)) = Bits(win) \cup {d}
      BY <1>0, <2>1, SetBits
    <3>3. WordsInv'
      BY <1>0, <3>1, <3>2 DEF Accept, WordsInv
    <3>4. Flat!PnAccepts(f, p)
      BY <1>0, <1>2, <2>1, <2>2, <2>4 DEF Flat!PnAccepts, Size
    <3>5. Flat!PnUpdate(f, p) = [highest |-> highest, win |-> Bits(win) \cup {d}]
      BY <1>1, <1>2, <1>3, <1>7 DEF Flat!PnUpdate, f
    <3>6. highest' = highest /\ Bitmap' = Bits(win) \cup {d}
      BY <1>1, <3>1, <3>2 DEF Accept
    <3> QED
      BY <3>1, <3>3, <3>4, <3>5, <3>6 DEF Accept, Flat!PnWindowCheck, f
  <2> QED
    BY <2>3, <2>4
<1> QED
  BY <1>4, <1>5, <1>6, <1>7

\* The array keeps its shape under every frame and rekey.
LEMMA WordsInductive == Spec => []WordsInv
<1>1. Init => WordsInv
  BY ClearBits DEF Init, WordsInv
<1>2. WordsInv /\ [Next]_vars => WordsInv'
  <2> SUFFICES ASSUME WordsInv, [Next]_vars PROVE WordsInv'
    OBVIOUS
  <2>1. ASSUME NEW p \in Pn, PnWindowCheck(p) PROVE WordsInv'
    BY <2>1, CheckRefines
  <2>2. CASE Rekey
    BY <2>2, ClearBits DEF Rekey, WordsInv
  <2>3. CASE UNCHANGED vars
    BY <2>3 DEF vars, WordsInv
  <2> QED
    BY <2>1, <2>2, <2>3 DEF Next
<1> QED
  BY <1>1, <1>2, PTL DEF Spec

\* pnWindowCheck on an array of any number of words of any size behaves as it
\* does on one bitmap of Words * WordBits positions: no shift, across however
\* many words, loses, moves or invents a bit.
THEOREM WordsImplementWindow == Spec => ImplementsWindow
<1>1. Init => Flat!Init
  <2> SUFFICES ASSUME Init PROVE Flat!Init
    OBVIOUS
  <2>1. Bitmap = {} /\ highest = 0
    BY ClearBits DEF Init, Bitmap, Bits, Size
  <2> QED
    BY <2>1 DEF Init, Flat!Init, Flat!EmptyWindow
<1>2. WordsInv /\ [Next]_vars => [Flat!Next]_(Flat!vars)
  <2> SUFFICES ASSUME WordsInv, [Next]_vars PROVE [Flat!Next]_(Flat!vars)
    OBVIOUS
  <2>1. ASSUME NEW p \in Pn, PnWindowCheck(p) PROVE Flat!Next
    <3>1. Flat!PnWindowCheck(p)
      BY <2>1, CheckRefines
    <3> QED
      BY <3>1 DEF Flat!Next, Pn, Flat!Pn
  <2>2. ASSUME Rekey PROVE Flat!Next
    <3>1. highest' = 0 /\ Bitmap' = {}
      BY <2>2, ClearBits DEF Rekey, Bitmap, Bits, Size
    <3> QED
      BY <2>2, <3>1 DEF Rekey, Flat!Next, Flat!Rekey, Flat!EmptyWindow
  <2>3. ASSUME UNCHANGED vars PROVE UNCHANGED Flat!vars
    BY <2>3 DEF vars, Flat!vars, Bitmap
  <2> QED
    BY <2>1, <2>2, <2>3 DEF Next
<1> QED
  BY <1>1, <1>2, WordsInductive, PTL DEF Spec, ImplementsWindow, Flat!Spec

-----------------------------------------------------------------------------
(***************************************************************************)
(* What PnWindowProofs shows of the flat window carries over.              *)
(***************************************************************************)
FlatProofs == INSTANCE PnWindowProofs
  WITH WinSize <- Words * WordBits,
       w <- [highest |-> highest, win |-> Bitmap]

\* The flat window that PnWindowProofs is about is the one PnWords names.
LEMMA SameInstance ==
  /\ Flat!Init <=> FlatProofs!Init
  /\ [Flat!Next]_(Flat!vars) <=> [FlatProofs!Next]_(FlatProofs!vars)
  /\ Flat!WindowExact <=> FlatProofs!WindowExact
<1> DEFINE f == [highest |-> highest, win |-> Bitmap]
<1>1. Flat!Init <=> FlatProofs!Init
  BY DEF Flat!Init, FlatProofs!Init, Flat!EmptyWindow, FlatProofs!EmptyWindow
<1>2. Flat!WindowExact <=> FlatProofs!WindowExact
  BY DEF Flat!WindowExact, FlatProofs!WindowExact, Flat!Tracks,
     FlatProofs!Tracks, Flat!PnFirst, FlatProofs!PnFirst
<1>3. ASSUME NEW p
      PROVE  Flat!PnWindowCheck(p) <=> FlatProofs!PnWindowCheck(p)
  <2>1. Flat!PnAccepts(f, p) <=> FlatProofs!PnAccepts(f, p)
    BY DEF Flat!PnAccepts, FlatProofs!PnAccepts, Flat!PnFirst, FlatProofs!PnFirst
  <2>2. Flat!PnUpdate(f, p) = FlatProofs!PnUpdate(f, p)
    BY DEF Flat!PnUpdate, FlatProofs!PnUpdate, Flat!PnFirst,
       FlatProofs!PnFirst, Flat!WinShift, FlatProofs!WinShift
  <2> QED
    BY <2>1, <2>2 DEF Flat!PnWindowCheck, FlatProofs!PnWindowCheck
<1>4. Flat!Rekey <=> FlatProofs!Rekey
  BY DEF Flat!Rekey, FlatProofs!Rekey, Flat!EmptyWindow, FlatProofs!EmptyWindow
<1>5. Flat!vars = FlatProofs!vars /\ Flat!vars' = FlatProofs!vars'
  BY DEF Flat!vars, FlatProofs!vars
<1>6. Flat!Next <=> FlatProofs!Next
  BY <1>3, <1>4 DEF Flat!Next, FlatProofs!Next, Flat!Pn, FlatProofs!Pn
<1> QED
  BY <1>1, <1>2, <1>5, <1>6

\* Bit i of the array is set exactly when packet number highest - i was
\* accepted, whatever the order, gaps and repeats of what arrived and however
\* many words the window spans.
THEOREM WordsExact == Spec => []WindowExact
<1>1. Words * WordBits \in Nat \ {0} /\ MaxPn \in Nat
  BY SizeType, WordsAssumption DEF Size
<1>2. FlatProofs!Spec => []FlatProofs!WindowExact
  BY <1>1, FlatProofs!WindowIsExact, PTL
<1> QED
  BY <1>2, SameInstance, WordsImplementWindow, PTL
     DEF ImplementsWindow, WindowExact, Flat!Spec, FlatProofs!Spec

\* So is the filter it implements.
LEMMA SameFilter ==
  /\ Flat!Filter!Init <=> FlatProofs!Filter!Init
  /\ [Flat!Filter!Next]_(Flat!Filter!vars)
       <=> [FlatProofs!Filter!Next]_(FlatProofs!Filter!vars)
<1>1. Flat!Filter!Init <=> FlatProofs!Filter!Init
  BY DEF Flat!Filter!Init, FlatProofs!Filter!Init
<1>2. ASSUME NEW p
      PROVE  Flat!Filter!Receive(p) <=> FlatProofs!Filter!Receive(p)
  BY DEF Flat!Filter!Receive, FlatProofs!Filter!Receive, Flat!Filter!Recent,
     FlatProofs!Filter!Recent
<1>3. Flat!Filter!Rekey <=> FlatProofs!Filter!Rekey
  BY DEF Flat!Filter!Rekey, FlatProofs!Filter!Rekey
<1>4. Flat!Filter!Next <=> FlatProofs!Filter!Next
  BY <1>2, <1>3 DEF Flat!Filter!Next, FlatProofs!Filter!Next, Flat!Filter!Pn,
     FlatProofs!Filter!Pn
<1>5. /\ Flat!Filter!vars = FlatProofs!Filter!vars
      /\ Flat!Filter!vars' = FlatProofs!Filter!vars'
  BY DEF Flat!Filter!vars, FlatProofs!Filter!vars
<1> QED
  BY <1>1, <1>4, <1>5

\* On the word array too pnWindowCheck accepts a packet number at most once
\* under a key, and never refuses one that is new and within the window.
THEOREM WordsImplementFilter == Spec => ImplementsFilter
<1>1. Words * WordBits \in Nat \ {0} /\ MaxPn \in Nat
  BY SizeType, WordsAssumption DEF Size
<1>2. FlatProofs!Spec => FlatProofs!ImplementsFilter
  BY <1>1, FlatProofs!WindowImplementsFilter, PTL
<1> QED
  BY <1>2, SameInstance, SameFilter, WordsImplementWindow, PTL
     DEF ImplementsWindow, ImplementsFilter, Flat!Spec, FlatProofs!Spec,
         Flat!ImplementsFilter, FlatProofs!ImplementsFilter,
         Flat!Filter!Spec, FlatProofs!Filter!Spec

=============================================================================
