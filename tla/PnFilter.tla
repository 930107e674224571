------------------------------- MODULE PnFilter ------------------------------
(***************************************************************************)
(* What a CCMP replay filter promises, with no window at all: it remembers *)
(* every packet number accepted under the current key, and accepts one iff *)
(* it is new and not too far behind the highest.                           *)
(***************************************************************************)
EXTENDS Integers

CONSTANTS WinSize, MaxPn

VARIABLES
  accepted,      \* the packet numbers accepted
  verdict        \* the last verdict, and the packet number it was about

vars == <<accepted, verdict>>

Pn == 0 .. MaxPn

\* Within WinSize of everything accepted so far.
Recent(p) == \A q \in accepted : q - p < WinSize

Init == accepted = {} /\ verdict = <<"none", 0>>

Receive(p) ==
  IF p \notin accepted /\ Recent(p)
  THEN accepted' = accepted \cup {p} /\ verdict' = <<"accept", p>>
  ELSE verdict' = <<"reject", p>> /\ UNCHANGED accepted

Rekey == accepted' = {} /\ verdict' = <<"none", 0>>

Next == (\E p \in Pn : Receive(p)) \/ Rekey

Spec == Init /\ [][Next]_vars

=============================================================================
