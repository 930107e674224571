------------------------------- MODULE WfbFec --------------------------------
(***************************************************************************)
(* The parameters of the FEC code that transmitter and receiver share.     *)
(***************************************************************************)
EXTENDS Integers, Sequences

CONSTANTS FecK, FecN      \* data fragments, and all fragments, of a block

ASSUME FecAssumption == FecK \in Nat \ {0} /\ FecN \in Nat /\ FecK <= FecN

Fill == 0                 \* the empty packet, WFB_PACKET_FEC_ONLY

=============================================================================
