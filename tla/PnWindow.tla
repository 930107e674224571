------------------------------ MODULE PnWindow -------------------------------
(***************************************************************************)
(* One replay window of Wpa2Supplicant as a state machine: decryptData     *)
(* runs pnWindowCheck on every frame whose MIC is right, and begin or a    *)
(* rekey clears the window.  accepted is history: the packet numbers       *)
(* accepted since the last clear.                                          *)
(***************************************************************************)
EXTENDS PnCheck

VARIABLES w, verdict, accepted

vars == <<w, verdict, accepted>>

Init == w = EmptyWindow /\ verdict = <<"none", 0>> /\ accepted = {}

PnWindowCheck(p) ==
  IF PnAccepts(w, p)
  THEN /\ w' = PnUpdate(w, p)
       /\ verdict' = <<"accept", p>>
       /\ accepted' = accepted \cup {p}
  ELSE verdict' = <<"reject", p>> /\ UNCHANGED <<w, accepted>>

Rekey == w' = EmptyWindow /\ verdict' = <<"none", 0>> /\ accepted' = {}

Next == (\E p \in Pn : PnWindowCheck(p)) \/ Rekey

Spec == Init /\ [][Next]_vars

-----------------------------------------------------------------------------
TypeOK ==
  /\ w \in Window
  /\ verdict \in {"none", "accept", "reject"} \X Pn
  /\ accepted \in SUBSET Pn

(***************************************************************************)
(* The bitmap is exact: after any mix of reordered, repeated and skipped   *)
(* packet numbers, bit i is set iff highest - i was accepted.              *)
(***************************************************************************)
WindowExact == Tracks(w, accepted)

Filter == INSTANCE PnFilter

(***************************************************************************)
(* The window implements the unbounded filter: no packet number is         *)
(* accepted twice under a key, and none that is new and recent is refused. *)
(***************************************************************************)
ImplementsFilter == Filter!Spec

=============================================================================
