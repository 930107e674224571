---------------------------- MODULE PnCheckProofs ----------------------------
(***************************************************************************)
(* What pnWindowCheck does to a window, for every window size.             *)
(***************************************************************************)
EXTENDS PnCheck, TLAPS

\* pnWindowCheck returns a window: the shift keeps positions below WinSize.
LEMMA UpdateType ==
  ASSUME NEW v \in Window, NEW p \in Nat, PnAccepts(v, p)
  PROVE  PnUpdate(v, p) \in Window
<1> USE WinSizeAssumption
<1>1. 0 \in 0 .. WinSize - 1
  OBVIOUS
<1>2. CASE PnFirst(v)
  BY <1>1, <1>2 DEF PnUpdate, Window
<1>3. CASE ~PnFirst(v) /\ p > v.highest
  <2>1. WinShift(v.win, p - v.highest) \in SUBSET (0 .. WinSize - 1)
    BY <1>3 DEF WinShift, Window
  <2> QED
    BY <1>1, <1>3, <2>1 DEF PnUpdate, Window
<1>4. CASE ~PnFirst(v) /\ ~(p > v.highest)
  <2>1. v.highest - p \in 0 .. WinSize - 1
    BY <1>4 DEF PnAccepts, Window
  <2> QED
    BY <1>4, <2>1 DEF PnUpdate, Window
<1> QED
  BY <1>2, <1>3, <1>4

\* An accepted packet number is new and recent, and is recorded exactly.
LEMMA AcceptTracks ==
  ASSUME NEW v \in Window, NEW A \in SUBSET Nat, NEW p \in Nat,
         Tracks(v, A), PnAccepts(v, p)
  PROVE  /\ p \notin A
         /\ \A q \in A : q - p < WinSize
         /\ Tracks(PnUpdate(v, p), A \cup {p})
<1> USE WinSizeAssumption
<1>0. v.highest \in Nat /\ v.win \in SUBSET (0 .. WinSize - 1)
  BY DEF Window
<1>1. CASE PnFirst(v)
  <2>1. A = {}
    BY <1>1 DEF Tracks
  <2>2. PnUpdate(v, p) = [highest |-> p, win |-> {0}]
    BY <1>1 DEF PnUpdate
  <2>3. \A i \in 0 .. WinSize - 1 : i \in {0} <=> p - i \in {p}
    OBVIOUS
  <2> QED
    BY <2>1, <2>2, <2>3 DEF Tracks, PnFirst
<1>2. CASE ~PnFirst(v) /\ p > v.highest
  <2> DEFINE n == p - v.highest
             u == [highest |-> p, win |-> WinShift(v.win, n) \cup {0}]
  <2>1. PnUpdate(v, p) = u
    BY <1>2 DEF PnUpdate
  <2>2. \A q \in A : q <= v.highest
    BY DEF Tracks
  <2>3. \A i \in 0 .. WinSize - 1 : i \in u.win <=> p - i \in A \cup {p}
    <3> TAKE i \in 0 .. WinSize - 1
    <3>1. CASE i = 0
      BY <3>1
    <3>2. CASE i # 0 /\ i < n
      <4>1. i \notin WinShift(v.win, n)
        BY <3>2, <1>0 DEF WinShift
      <4>2. p - i \notin A /\ p - i # p
        BY <3>2, <1>0, <2>2
      <4> QED
        BY <3>2, <4>1, <4>2
    <3>3. CASE i # 0 /\ i >= n
      <4>1. i - n \in 0 .. WinSize - 1 /\ v.highest - (i - n) = p - i
        BY <3>3, <1>0, <1>2
      <4>2. i \in WinShift(v.win, n) <=> i - n \in v.win
        BY <3>3, <4>1, <1>0 DEF WinShift
      <4>3. i - n \in v.win <=> p - i \in A
        BY <4>1 DEF Tracks
      <4> QED
        BY <3>3, <4>2, <4>3
    <3> QED
      BY <1>0, <1>2, <3>1, <3>2, <3>3
  <2>4. p \notin A /\ (\A q \in A : q - p < WinSize)
    BY <1>0, <1>2, <2>2
  <2>5. ~PnFirst(u)
    BY DEF PnFirst
  <2>6. u.highest \in A \cup {p} /\ \A q \in A \cup {p} : q <= u.highest
    BY <1>0, <1>2, <2>2
  <2> HIDE DEF u
  <2>7. u.highest = p
    BY DEF u
  <2> QED
    BY <2>1, <2>3, <2>4, <2>5, <2>6, <2>7 DEF Tracks
<1>3. CASE ~PnFirst(v) /\ ~(p > v.highest)
  <2> DEFINE d == v.highest - p
             u == [v EXCEPT !.win = @ \cup {d}]
  <2>1. d \in 0 .. WinSize - 1 /\ d \notin v.win /\ v.highest - d = p
    BY <1>0, <1>3 DEF PnAccepts
  <2>2. PnUpdate(v, p) = u
    BY <1>3 DEF PnUpdate
  <2>3. u.highest = v.highest /\ u.win = v.win \cup {d}
    BY DEF Window
  <2>4. p \notin A
    BY <2>1 DEF Tracks
  <2>5. A # {} /\ v.highest \in A /\ \A q \in A : q <= v.highest
    BY <1>3 DEF Tracks
  <2>6. \A q \in A : q - p < WinSize
    BY <1>0, <2>1, <2>5
  <2>7. \A i \in 0 .. WinSize - 1 : i \in u.win <=> u.highest - i \in A \cup {p}
    BY <1>0, <2>1, <2>3 DEF Tracks
  <2>8. ~PnFirst(u)
    BY <2>3 DEF PnFirst
  <2>9. \A q \in A \cup {p} : q <= u.highest
    BY <1>0, <1>3, <2>3, <2>5
  <2> HIDE DEF u
  <2> QED
    BY <2>2, <2>3, <2>4, <2>5, <2>6, <2>7, <2>8, <2>9 DEF Tracks
<1> QED
  BY <1>1, <1>2, <1>3

\* A refused packet number was accepted before, or is too old.
LEMMA RejectReason ==
  ASSUME NEW v \in Window, NEW A \in SUBSET Nat, NEW p \in Nat,
         Tracks(v, A), ~PnAccepts(v, p)
  PROVE  p \in A \/ \E q \in A : ~(q - p < WinSize)
<1>0. v.highest \in Nat
  BY DEF Window
<1>1. v.highest \in A /\ p <= v.highest
  BY <1>0 DEF PnAccepts, Tracks
<1>2. CASE v.highest - p < WinSize
  <2>1. v.highest - p \in v.win /\ v.highest - p \in 0 .. WinSize - 1
    BY <1>0, <1>1, <1>2, WinSizeAssumption DEF PnAccepts
  <2>2. v.highest - (v.highest - p) = p
    BY <1>0
  <2> QED
    BY <2>1, <2>2 DEF Tracks
<1> QED
  BY <1>1, <1>2

\* The empty window has accepted nothing.
LEMMA EmptyTracks == EmptyWindow \in Window /\ Tracks(EmptyWindow, {})
<1>1. EmptyWindow.highest = 0 /\ EmptyWindow.win = {}
  BY DEF EmptyWindow
<1>2. EmptyWindow \in Window
  BY DEF EmptyWindow, Window
<1> QED
  BY <1>1, <1>2 DEF Tracks, PnFirst

=============================================================================
