------------------------------- MODULE PnWords -------------------------------
(***************************************************************************)
(* pnWindowCheck as it is written: the bitmap is an array of PN_WIN_WORDS  *)
(* machine words (1 today, 32 in an earlier tuning), bit by bit within the *)
(* words, shifted in place from the top word down.  A word is the set of   *)
(* its bits that are 1.                                                    *)
(***************************************************************************)
EXTENDS Integers

CONSTANTS
  Words,        \* PN_WIN_WORDS
  WordBits,     \* 64
  MaxPn         \* bound: packet numbers are 0 .. MaxPn

ASSUME WordsAssumption ==
  Words \in Nat \ {0} /\ WordBits \in Nat \ {0} /\ MaxPn \in Nat

VARIABLES highest, win, verdict, accepted

vars == <<highest, win, verdict, accepted>>

Index == 0 .. Words - 1
Word == SUBSET (0 .. WordBits - 1)
Pn == 0 .. MaxPn

\* v << n and v >> n on one word.
ShiftLeft(v, n) == {b + n : b \in {c \in v : c + n < WordBits}}
ShiftRight(v, n) == {b - n : b \in {c \in v : c >= n}}

WinClear == [i \in Index |-> {}]

WinTest(a, bit) == bit % WordBits \in a[bit \div WordBits]

WinSet(a, bit) == [a EXCEPT ![bit \div WordBits] = @ \cup {bit % WordBits}]

\* Variant: the bits carried over from the word below are forgotten.
ShiftedWordNoCarry(a, i, n) ==
  LET words == n \div WordBits
      bits  == n % WordBits
  IN IF i - words >= 0 THEN ShiftLeft(a[i - words], bits) ELSE {}

\* Word i of array a after a shift by n: the word n \div WordBits below, and
\* the top bits of the one under that.
ShiftedWord(a, i, n) ==
  LET words == n \div WordBits
      bits  == n % WordBits
      v  == IF i - words >= 0 THEN a[i - words] ELSE {}
      lo == IF bits # 0 /\ i - words - 1 >= 0
            THEN ShiftRight(a[i - words - 1], WordBits - bits) ELSE {}
  IN ShiftLeft(v, bits) \cup lo

\* winShift: in place, from the last word down to the first.
WinShift(a, n) ==
  IF n >= Words * WordBits THEN WinClear
  ELSE LET from[i \in 0 .. Words] ==
             IF i = Words THEN a
             ELSE [from[i + 1] EXCEPT ![i] = ShiftedWord(from[i + 1], i, n)]
       IN from[0]

Init ==
  /\ highest = 0 /\ win = WinClear
  /\ verdict = <<"none", 0>> /\ accepted = {}

Accept(p, newHighest, newWin) ==
  /\ highest' = newHighest
  /\ win' = newWin
  /\ verdict' = <<"accept", p>>
  /\ accepted' = accepted \cup {p}

Reject(p) == verdict' = <<"reject", p>> /\ UNCHANGED <<highest, win, accepted>>

\* Variant: a late packet number is accepted but not recorded.
PnWindowCheckForgets(p) ==
  IF highest = 0 /\ win = WinClear THEN Accept(p, p, WinSet(win, 0))
  ELSE IF p > highest THEN Accept(p, p, WinSet(WinShift(win, p - highest), 0))
  ELSE IF highest - p >= Words * WordBits THEN Reject(p)
  ELSE IF WinTest(win, highest - p) THEN Reject(p)
  ELSE Accept(p, highest, win)

\* Variant: the oldest packet number of the window is refused.
PnWindowCheckShort(p) ==
  IF highest = 0 /\ win = WinClear THEN Accept(p, p, WinSet(win, 0))
  ELSE IF p > highest THEN Accept(p, p, WinSet(WinShift(win, p - highest), 0))
  ELSE IF highest - p >= Words * WordBits - 1 THEN Reject(p)
  ELSE IF WinTest(win, highest - p) THEN Reject(p)
  ELSE Accept(p, highest, WinSet(win, highest - p))

PnWindowCheck(p) ==
  IF highest = 0 /\ win = WinClear THEN Accept(p, p, WinSet(win, 0))
  ELSE IF p > highest THEN Accept(p, p, WinSet(WinShift(win, p - highest), 0))
  ELSE IF highest - p >= Words * WordBits THEN Reject(p)
  ELSE IF WinTest(win, highest - p) THEN Reject(p)
  ELSE Accept(p, highest, WinSet(win, highest - p))

Rekey ==
  /\ highest' = 0 /\ win' = WinClear
  /\ verdict' = <<"none", 0>> /\ accepted' = {}

Next == (\E p \in Pn : PnWindowCheck(p)) \/ Rekey

Spec == Init /\ [][Next]_vars

-----------------------------------------------------------------------------
\* The array read as one bitmap.
Bitmap == {i \in 0 .. Words * WordBits - 1 : WinTest(win, i)}

Flat == INSTANCE PnWindow
  WITH WinSize <- Words * WordBits,
       w <- [highest |-> highest, win |-> Bitmap]

(***************************************************************************)
(* The word array implements the flat window: shifting across words loses, *)
(* moves or invents no bit, for every distance and every bitmap.           *)
(***************************************************************************)
ImplementsWindow == Flat!Spec

(***************************************************************************)
(* The bitmap is exact: after any mix of reordered, repeated and skipped   *)
(* packet numbers, bit i of the array is set iff highest - i was accepted. *)
(***************************************************************************)
WindowExact == Flat!WindowExact

(***************************************************************************)
(* pnWindowCheck accepts no packet number twice under a key, and refuses   *)
(* none that is new and within the window.                                 *)
(***************************************************************************)
ImplementsFilter == Flat!ImplementsFilter

=============================================================================
