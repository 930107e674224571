------------------------------- MODULE PnCheck -------------------------------
(***************************************************************************)
(* The CCMP replay window of Wpa2Supplicant (pnWindowCheck), as operators  *)
(* on a window value.  A window is the highest packet number accepted and  *)
(* the bitmap below it, here the set of its positions that are 1: position *)
(* i stands for packet number highest - i.                                 *)
(***************************************************************************)
EXTENDS Integers

CONSTANTS
  WinSize,      \* PN_WIN_WORDS * 64
  MaxPn         \* bound: packet numbers are 0 .. MaxPn (48 bits on air)

ASSUME WinSizeAssumption == WinSize \in Nat \ {0}
ASSUME MaxPnAssumption == MaxPn \in Nat

Pn == 0 .. MaxPn

Window == [highest : Nat, win : SUBSET (0 .. WinSize - 1)]

\* What begin, beginCached and a key installation leave behind.
EmptyWindow == [highest |-> 0, win |-> {}]

\* Variant: nothing falls off.
WinShiftUnbounded(win, n) == {i + n : i \in win}

\* winShift: every position moves up, and falls off past the end.
WinShift(win, n) == {i + n : i \in {j \in win : j + n < WinSize}}

PnFirst(w) == w.highest = 0 /\ w.win = {}

PnAccepts(w, p) ==
  \/ PnFirst(w)
  \/ p > w.highest
  \/ /\ w.highest - p < WinSize          \* not older than the window
     /\ w.highest - p \notin w.win       \* not received yet

\* The window after an accepted packet number.
PnUpdate(w, p) ==
  IF PnFirst(w) THEN [highest |-> p, win |-> {0}]
  ELSE IF p > w.highest
       THEN [highest |-> p, win |-> WinShift(w.win, p - w.highest) \cup {0}]
       ELSE [w EXCEPT !.win = @ \cup {w.highest - p}]

-----------------------------------------------------------------------------
\* Window v and the set A of packet numbers accepted determine each other
\* over the WinSize numbers at and below the highest.
Tracks(v, A) ==
  /\ PnFirst(v) <=> A = {}
  /\ A # {} => v.highest \in A
  /\ \A q \in A : q <= v.highest
  /\ \A i \in 0 .. WinSize - 1 : i \in v.win <=> v.highest - i \in A

=============================================================================
