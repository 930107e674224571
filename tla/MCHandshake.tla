----------------------------- MODULE MCHandshake -----------------------------
(***************************************************************************)
(* Handshake for TLC: the group keys of up to two group rekeys.            *)
(***************************************************************************)
EXTENDS Handshake

MCGtk == {GtkNo(n) : n \in 0 .. GroupRekeys}

=============================================================================
