------------------------------ MODULE Handshake ------------------------------
(***************************************************************************)
(* The supplicant against an access point over an unreliable link.         *)
(*                                                                         *)
(* The AP is external; it behaves as the supplicant expects of it: one     *)
(* replay counter per association, raised by every message it sends;       *)
(* message 1 and message 3 repeated until answered; a reply accepted when  *)
(* it echoes a counter of the exchange under way and its MIC is right;     *)
(* group and pairwise rekeys once the handshake is done, each group key    *)
(* under the other key id.                                                 *)
(*                                                                         *)
(* Whatever was sent towards the station stays in down: it may arrive      *)
(* late, out of order, more than once, or never.  A reply is lost, as      *)
(* _send's failure is ignored and nothing is acknowledged on the air, or   *)
(* reaches up, which the AP reads in any order.                            *)
(***************************************************************************)
EXTENDS Wpa2Supplicant

CONSTANTS
  MaxTries,       \* bound: transmissions of one AP message
  MaxAssoc,       \* bound: associations
  GroupRekeys,    \* bound: group rekeys the AP starts
  PtkRekeys,      \* bound: pairwise rekeys the AP starts
  MaxRounds,      \* bound: associations and rekeys together
  StaleFrames     \* frames of an earlier association may still arrive

ASSUME HandshakeAssumption ==
  /\ MaxTries \in Nat \ {0} /\ MaxAssoc \in Nat \ {0}
  /\ GroupRekeys \in Nat /\ PtkRekeys \in Nat /\ MaxRounds \in Nat
  /\ StaleFrames \in BOOLEAN

VARIABLES
  ap,             \* "off", "m1", "m3", "done", "g1"
  apRc,           \* the AP's replay counter
  apFloor,        \* its value when the exchange under way began
  apTries,        \* transmissions of the message under way
  apANonce, apPtk,
  apGtk, apGtkPrev,
  down, up,       \* frames sent to the station, and to the AP
  assoc, groupRekeys, ptkRekeys,     \* how often each has happened
  held,           \* history: group keys installed since begin
  replyLost       \* history: a message 2 or 4 was lost since begin

apVars == <<ap, apRc, apFloor, apTries, apANonce, apPtk, apGtk, apGtkPrev>>
counts == <<assoc, groupRekeys, ptkRekeys>>

allVars == <<vars, apVars, counts, down, up, held, replyLost>>

MoreRounds == assoc + groupRekeys + ptkRekeys < MaxRounds

GtkNo(n) == [id |-> 1 + (n % 2), no |-> n]

HInit ==
  /\ Init
  /\ ap = "off" /\ apRc = 0 /\ apFloor = 0 /\ apTries = 0
  /\ apANonce = 0 /\ apPtk = NoPtk /\ apGtk = GtkNo(0) /\ apGtkPrev = GtkNo(0)
  /\ down = {} /\ up = {}
  /\ assoc = 0 /\ groupRekeys = 0 /\ ptkRekeys = 0
  /\ held = {} /\ replyLost = FALSE

-----------------------------------------------------------------------------
(***************************************************************************)
(* The station associates (again): begin runs, and the AP starts a new     *)
(* handshake with a new ANonce and a counter from zero.                    *)
(***************************************************************************)
Associate ==
  /\ assoc < MaxAssoc /\ MoreRounds
  /\ assoc' = assoc + 1
  /\ Begin
  /\ held' = {} /\ replyLost' = FALSE
  /\ ap' = "m1" /\ apRc' = 0 /\ apFloor' = 0 /\ apTries' = 0
  /\ apANonce' = apANonce + 1
  /\ down' = IF StaleFrames THEN down ELSE {}
  /\ up' = {}
  /\ UNCHANGED <<apPtk, apGtk, apGtkPrev, groupRekeys, ptkRekeys>>

Message(mic, pairwise) ==
  [rc |-> apRc + 1, mic |-> mic, pairwise |-> pairwise,
   nonce |-> IF mic THEN 1 ELSE apANonce,
   kek |-> IF mic THEN apPtk ELSE NoPtk,
   gtk |-> IF mic THEN apGtk ELSE NoGtk]

\* The AP sends, or repeats, the message it waits an answer for.
ApSend ==
  /\ ap \in {"m1", "m3", "g1"}
  /\ apTries < MaxTries /\ apRc < MaxRc
  /\ down' = down \cup {Message(ap # "m1", ap # "g1")}
  /\ apRc' = apRc + 1 /\ apTries' = apTries + 1
  /\ UNCHANGED <<vars, ap, apFloor, apANonce, apPtk, apGtk, apGtkPrev, counts,
                 up, held, replyLost>>

Answers(m, kind) == m.kind = kind /\ m.rc > apFloor

\* The next exchange; no reply sent so far echoes a counter of it.
Await(next) == ap' = next /\ apFloor' = apRc /\ apTries' = 0 /\ up' = {}

ApRecvMsg2(m) ==
  /\ ap = "m1" /\ Answers(m, "M2") /\ m.ptk.anonce = apANonce
  /\ apPtk' = m.ptk
  /\ Await("m3")
  /\ UNCHANGED <<vars, apRc, apANonce, apGtk, apGtkPrev, counts, down,
                 held, replyLost>>

ApRecvFinal(m) ==
  /\ \/ ap = "m3" /\ Answers(m, "M4")
     \/ ap = "g1" /\ Answers(m, "G2")
  /\ m.ptk = apPtk
  /\ Await("done")
  /\ UNCHANGED <<vars, apRc, apANonce, apPtk, apGtk, apGtkPrev, counts, down,
                 held, replyLost>>

ApGroupRekey ==
  /\ ap = "done" /\ groupRekeys < GroupRekeys /\ MoreRounds
  /\ groupRekeys' = groupRekeys + 1
  /\ apGtk' = GtkNo(groupRekeys + 1) /\ apGtkPrev' = apGtk
  /\ Await("g1")
  /\ UNCHANGED <<vars, apRc, apANonce, apPtk, assoc, ptkRekeys, down,
                 held, replyLost>>

ApPtkRekey ==
  /\ ap = "done" /\ ptkRekeys < PtkRekeys /\ MoreRounds
  /\ ptkRekeys' = ptkRekeys + 1
  /\ apANonce' = apANonce + 1
  /\ Await("m1")
  /\ UNCHANGED <<vars, apRc, apPtk, apGtk, apGtkPrev, assoc, groupRekeys, down,
                 held, replyLost>>

\* The reply to f, unless the AP would refuse it by its counter.
Awaited(f) == {m \in Replies(f) : m.rc > apFloor}

\* A frame reaches onEapolKey, and stays in the air; the reply, if there is
\* one, gets through or is lost.  A repeated group message is answered again;
\* a message 1 is not in WaitMsg3, nor a message 3 in Done.
StationReceives(f, through) ==
  /\ OnEapolKey(f)
  /\ up' = IF through THEN up \cup Awaited(f) ELSE up
  /\ replyLost' =
       (replyLost \/ (~through /\ \E m \in Awaited(f) : m.kind \in {"M2", "M4"}))
  /\ held' = IF gtk' # gtk \/ gtkKeyId' # gtkKeyId THEN held \cup {gtk'} ELSE held
  /\ UNCHANGED <<apVars, counts, down>>

HNext ==
  \/ Associate
  \/ ApSend
  \/ \E m \in up : ApRecvMsg2(m) \/ ApRecvFinal(m)
  \/ ApGroupRekey \/ ApPtkRekey
  \/ \E f \in down, through \in BOOLEAN : StationReceives(f, through)

HSpec == HInit /\ [][HNext]_allVars

-----------------------------------------------------------------------------
(***************************************************************************)
(* When both sides have finished, they hold the same pairwise key.         *)
(***************************************************************************)
KeysAgree == state = "Done" /\ ap \in {"done", "g1"} => ptk = apPtk

(***************************************************************************)
(* The station leaves Done for a rekey only while the AP runs one: an old  *)
(* message 1 that arrives again does not take the data path down.          *)
(***************************************************************************)
NoSpuriousRekey ==
  [][state = "Done" /\ state' = "WaitMsg3" => ap \in {"m1", "m3"}]_allVars

\* Group frames under key g decrypt.
Usable(g) == KeyFor([key |-> g, pn |-> 0]) = g

(***************************************************************************)
(* Once the station holds the AP's group key it decrypts with it, and with *)
(* the key before it for the frames still in flight.                       *)
(***************************************************************************)
GroupKeysUsable ==
  state = "Done" /\ apGtk \in held =>
    Usable(apGtk) /\ (apGtkPrev \in held => Usable(apGtkPrev))

(***************************************************************************)
(* Fairness: the AP repeats its message until its tries are used up; of    *)
(* the last repetition one copy arrives whose reply, if the station sends  *)
(* one, gets through; and the AP acts on a reply that has reached it.      *)
(* The reply to an earlier copy may be lost all the same, and with it the  *)
(* only one there is.                                                      *)
(***************************************************************************)
LatestArrives == \E f \in down : f.rc = apRc /\ StationReceives(f, TRUE)

ApReads == \E m \in up : ApRecvMsg2(m) \/ ApRecvFinal(m)

HFairSpec ==
  HSpec /\ WF_allVars(ApSend) /\ WF_allVars(LatestArrives) /\ WF_allVars(ApReads)

(***************************************************************************)
(* The handshake of every association, and every group rekey after it, end *)
(* with both sides done, as long as the AP has started no pairwise rekey;  *)
(* the one thing that stops them is a lost message 2 or 4, which the       *)
(* station does not repeat.  A lost answer to a group message does not.    *)
(***************************************************************************)
CompletesUntilRekey ==
  (ap \in {"m1", "m3", "g1"} /\ ptkRekeys = 0)
    ~> (ptkRekeys > 0 \/ replyLost \/ (ap = "done" /\ state = "Done"))

(***************************************************************************)
(* A handshake or rekey the AP has started ends with both sides done,      *)
(* unless a message 2 or 4 was lost.                                       *)
(***************************************************************************)
HandshakeCompletes ==
  (ap \in {"m1", "m3", "g1"}) ~> (replyLost \/ (ap = "done" /\ state = "Done"))

=============================================================================
