---------------------------- MODULE MCStationMode ----------------------------
(***************************************************************************)
(* The session for TLC: the network is on channel 6, heard on channel 1 by *)
(* bleed, and on channel 36 by an AP whose beacons do not name their       *)
(* channel; another network shares channel 6.  With the hint 1 a sweep     *)
(* changes the band twice.                                                 *)
(***************************************************************************)
EXTENDS StationWatchdog

MCAp ==
  {[ssid |-> "ours",  channel |-> 6, ds |-> TRUE],
   [ssid |-> "ours",  channel |-> 36, ds |-> FALSE],
   [ssid |-> "other", channel |-> 6, ds |-> TRUE]}

MCBleed == {<<1, 6>>}

MCSweep == <<36, 6>>

\* One that ends off the channel of the network.
MCLongSweep == <<36, 6, 1>>

=============================================================================
