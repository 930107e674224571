-------------------------- MODULE MCWpa2Supplicant --------------------------
(***************************************************************************)
(* Wpa2Supplicant for TLC.                                                 *)
(***************************************************************************)
EXTENDS Wpa2Supplicant

\* One group key is enough when the pairwise key is the question.
OneGtk == {[id |-> 1, no |-> 1]}

\* The frames the handler tells apart: it reads the nonce of a frame without
\* a MIC only (and every SNonce is new, so one ANonce will do), and the key
\* data of one with a MIC only.
DistinctEapol ==
  {f \in EapolKey :
     /\ f.nonce = 1
     /\ IF f.mic THEN f.kek.anonce = 1 ELSE f.kek = NoPtk /\ f.gtk = NoGtk}

\* Every unicast frame, and one group frame for each group key.
MixedData ==
  {f \in DataFrame :
     IF f.key \in Gtk THEN f.pn = 0 ELSE f.key.anonce = 1}

=============================================================================
