--------------------------- MODULE PnWindowProofs ---------------------------
(***************************************************************************)
(* The replay window, for every window size and every bound on packet      *)
(* numbers: its bitmap is exact and it implements the unbounded filter.    *)
(***************************************************************************)
EXTENDS PnWindow, PnCheckProofs, TLAPS

PnInv == TypeOK /\ WindowExact

\* The window and its exactness are preserved by every frame and rekey.
LEMMA PnInductive == Spec => []PnInv
<1> USE MaxPnAssumption
<1>1. Init => PnInv
  <2>1. Init => verdict \in {"none", "accept", "reject"} \X Pn
    BY DEF Init, Pn
  <2> QED
    BY <2>1, EmptyTracks DEF Init, PnInv, TypeOK, WindowExact
<1>2. PnInv /\ [Next]_vars => PnInv'
  <2> SUFFICES ASSUME PnInv, [Next]_vars PROVE PnInv'
    OBVIOUS
  <2> USE DEF PnInv, TypeOK, WindowExact, Pn
  <2>1. ASSUME NEW p \in Pn, PnWindowCheck(p) PROVE PnInv'
    <3>0. verdict' \in {"none", "accept", "reject"} \X Pn
      BY <2>1 DEF PnWindowCheck
    <3>1. CASE PnAccepts(w, p)
      <4>1. PnUpdate(w, p) \in Window /\ Tracks(PnUpdate(w, p), accepted \cup {p})
        BY <3>1, UpdateType, AcceptTracks
      <4> QED
        BY <2>1, <3>0, <3>1, <4>1 DEF PnWindowCheck
    <3>2. CASE ~PnAccepts(w, p)
      BY <2>1, <3>0, <3>2 DEF PnWindowCheck
    <3> QED
      BY <3>1, <3>2
  <2>2. CASE Rekey
    BY <2>2, EmptyTracks DEF Rekey
  <2>3. CASE UNCHANGED vars
    BY <2>3 DEF vars
  <2> QED
    BY <2>1, <2>2, <2>3 DEF Next
<1> QED
  BY <1>1, <1>2, PTL DEF Spec

\* Bit i of the window is set exactly when packet number highest - i was
\* accepted, whatever the order, gaps and repeats of what arrived.
THEOREM WindowIsExact == Spec => []WindowExact
<1>1. PnInv => WindowExact
  BY DEF PnInv
<1> QED
  BY <1>1, PnInductive, PTL

\* pnWindowCheck accepts a packet number at most once under a key, and never
\* refuses one that is new and within the window.
THEOREM WindowImplementsFilter == Spec => ImplementsFilter
<1>1. Init => Filter!Init
  BY DEF Init, Filter!Init
<1>2. PnInv /\ [Next]_vars => [Filter!Next]_(Filter!vars)
  <2> SUFFICES ASSUME PnInv, [Next]_vars PROVE [Filter!Next]_(Filter!vars)
    OBVIOUS
  <2> USE MaxPnAssumption DEF PnInv, TypeOK, WindowExact
  <2>1. ASSUME NEW p \in Pn, PnWindowCheck(p) PROVE Filter!Receive(p)
    <3>1. accepted \in SUBSET Nat /\ p \in Nat
      BY DEF Pn
    <3>2. CASE PnAccepts(w, p)
      <4>1. p \notin accepted /\ \A q \in accepted : q - p < WinSize
        BY <3>1, <3>2, AcceptTracks
      <4> QED
        BY <2>1, <3>2, <4>1 DEF PnWindowCheck, Filter!Receive, Filter!Recent
    <3>3. CASE ~PnAccepts(w, p)
      <4>1. p \in accepted \/ \E q \in accepted : ~(q - p < WinSize)
        BY <3>1, <3>3, RejectReason
      <4> QED
        BY <2>1, <3>3, <4>1 DEF PnWindowCheck, Filter!Receive, Filter!Recent
    <3> QED
      BY <3>2, <3>3
  <2>2. CASE Rekey
    BY <2>2 DEF Rekey, Filter!Rekey, Filter!Next
  <2>3. CASE UNCHANGED vars
    BY <2>3 DEF vars, Filter!vars
  <2> QED
    BY <2>1, <2>2, <2>3 DEF Next, Filter!Next, Pn, Filter!Pn
<1> QED
  BY <1>1, <1>2, PnInductive, PTL DEF Spec, ImplementsFilter, Filter!Spec

=============================================================================
