--------------------------- MODULE MCRadioChannel ----------------------------
(***************************************************************************)
(* The channels asked for: both bands, every width, two requests with one   *)
(* centre and width, two with one primary, and a width that is not          *)
(* supported.                                                              *)
(***************************************************************************)
EXTENDS RadioChannel

MCRequests ==
  {[ch |-> 36,  off |-> 0, bw |-> 20], [ch |-> 36,  off |-> 1, bw |-> 40],
   [ch |-> 40,  off |-> 2, bw |-> 40], [ch |-> 44,  off |-> 0, bw |-> 80],
   [ch |-> 6,   off |-> 0, bw |-> 20], [ch |-> 36,  off |-> 0, bw |-> 160]}

=============================================================================
