--------------------------- MODULE Wpa2Supplicant ---------------------------
(***************************************************************************)
(* Wpa2Supplicant: the station's side of the 4-way and group handshakes,   *)
(* the keys they install, and the CCMP packet numbers used and accepted    *)
(* under those keys.  The caller may pass it any EAPOL-Key frame and any   *)
(* data frame in any state, as the code allows.                            *)
(*                                                                         *)
(* A pairwise key (KCK, KEK and TK together) is the pair of nonces it is   *)
(* derived from; two keys differ when their nonces do, and every SNonce is *)
(* new.  A group key is a record with the key id the AP gave it.           *)
(***************************************************************************)
EXTENDS PnCheck

CONSTANTS
  Gtk,          \* group keys: records with a field id in 0 .. 3
  MaxRc,        \* bound: replay counters are 0 .. MaxRc (64 bits on air)
  MaxNonce,     \* bound: nonces are 1 .. MaxNonce
  Eapol, Data   \* the frames the caller may pass: EAPOL-Key and data

ASSUME SupplicantAssumption ==
  /\ \A g \in Gtk : g.id \in 0 .. 3
  /\ Gtk \cap [anonce : Nat, snonce : Nat] = {}
  /\ MaxRc \in Nat /\ MaxNonce \in Nat

KeyId == 0 .. 3
Unset == 255                  \* 0xff
NoGtk == [id |-> Unset]       \* the zeroed _gtk, and key data without a GTK
Nonce == 1 .. MaxNonce
Ptk == [anonce : 0 .. MaxNonce, snonce : 0 .. MaxNonce]
NoPtk == [anonce |-> 0, snonce |-> 0]       \* the zeroed _kck, _kek, _tk

VARIABLES
  state,                    \* Idle, WaitMsg1, WaitMsg3, Done
  replay,                   \* _replay: highest replay counter seen
  ptk,                      \* _kck, _kek, _tk
  txPn,                     \* _txPn
  pair, group,              \* replay windows: pairwise, and one per key id
  gtk, gtkKeyId,            \* current group key
  gtkPrev, gtkPrevId        \* the one before it, under another key id

\* History, read by the properties only.
VARIABLES
  snonces,                  \* SNonces drawn
  sent,                     \* <<key, PN>> of the frames encrypted
  got,                      \* <<key, PN>> of the frames delivered
  again                     \* those of them delivered more than once

keys     == <<ptk, txPn, pair>>
groupKey == <<group, gtk, gtkKeyId, gtkPrev, gtkPrevId>>
history  == <<sent, got, again>>

vars == <<state, replay, keys, groupKey, snonces, history>>

State == {"Idle", "WaitMsg1", "WaitMsg3", "Done"}

(***************************************************************************)
(* An EAPOL-Key frame: its replay counter, the MIC and Pairwise bits of    *)
(* its key information, its nonce, and its key data: a group key wrapped   *)
(* with the KEK of some pairwise key.                                      *)
(***************************************************************************)
EapolKey ==
  [rc : 0 .. MaxRc, mic : BOOLEAN, pairwise : BOOLEAN, nonce : Nonce,
   kek : Ptk, gtk : Gtk \cup {NoGtk}]

\* A data frame, encrypted under a key.
DataFrame == [key : Ptk \cup Gtk, pn : Pn]

ASSUME FramesAssumption == Eapol \subseteq EapolKey /\ Data \subseteq DataFrame

Init ==
  /\ state = "Idle" /\ replay = 0
  /\ ptk = NoPtk /\ txPn = 1 /\ pair = EmptyWindow
  /\ group = [k \in KeyId |-> EmptyWindow]
  /\ gtk = NoGtk /\ gtkKeyId = Unset
  /\ gtkPrev = NoGtk /\ gtkPrevId = Unset
  /\ snonces = 0 /\ sent = {} /\ got = {} /\ again = {}

-----------------------------------------------------------------------------
(***************************************************************************)
(* begin and beginCached: counters, windows and key ids are reset; the     *)
(* keys themselves stay until the handshake replaces them.                 *)
(***************************************************************************)
Begin ==
  /\ state' = "WaitMsg1"
  /\ replay' = 0
  /\ txPn' = 1 /\ pair' = EmptyWindow
  /\ group' = [k \in KeyId |-> EmptyWindow]
  /\ gtkKeyId' = Unset /\ gtkPrevId' = Unset
  /\ UNCHANGED <<ptk, gtk, gtkPrev, snonces, history>>

\* derivePtk: a new SNonce makes a new pairwise key.
DerivePtk(nonce) ==
  /\ snonces < MaxNonce
  /\ snonces' = snonces + 1
  /\ ptk' = [anonce |-> nonce, snonce |-> snonces + 1]

\* Variant: a new key id does not save the key it replaces.
InstallGtkLosesPrev(f) ==
  IF f.kek = ptk /\ f.gtk # NoGtk
  THEN /\ gtk' = f.gtk /\ gtkKeyId' = f.gtk.id
       /\ group' = [group EXCEPT ![f.gtk.id] = EmptyWindow]
       /\ UNCHANGED <<gtkPrev, gtkPrevId>>
  ELSE UNCHANGED groupKey

\* Variant: the new key id is stored before the old one is saved.
InstallGtkSwapped(f) ==
  IF f.kek = ptk /\ f.gtk # NoGtk
  THEN /\ IF gtkKeyId # Unset /\ gtkKeyId # f.gtk.id
          THEN gtkPrev' = gtk /\ gtkPrevId' = f.gtk.id
          ELSE UNCHANGED <<gtkPrev, gtkPrevId>>
       /\ gtk' = f.gtk /\ gtkKeyId' = f.gtk.id
       /\ group' = [group EXCEPT ![f.gtk.id] = EmptyWindow]
  ELSE UNCHANGED groupKey

(***************************************************************************)
(* installGtkFromKeyData: nothing happens when the key data does not       *)
(* unwrap with our KEK or holds no group key.                              *)
(***************************************************************************)
InstallGtk(f) ==
  IF f.kek = ptk /\ f.gtk # NoGtk
  THEN /\ IF gtkKeyId # Unset /\ gtkKeyId # f.gtk.id
          THEN gtkPrev' = gtk /\ gtkPrevId' = gtkKeyId
          ELSE UNCHANGED <<gtkPrev, gtkPrevId>>
       /\ gtk' = f.gtk /\ gtkKeyId' = f.gtk.id
       /\ group' = [group EXCEPT ![f.gtk.id] = EmptyWindow]
  ELSE UNCHANGED groupKey

(***************************************************************************)
(* onEapolKey.  The counter is recorded whatever becomes of the frame; the *)
(* replay check applies in Done only.  Frames below 95 bytes return first  *)
(* and change nothing.                                                     *)
(***************************************************************************)
\* Variant: no replay check.
EapolReplayNever(f) == FALSE /\ f.rc < replay

EapolReplay(f) == state = "Done" /\ f.rc < replay

\* Variant: a group message is serviced before the handshake only.
IsGroupRekeyIdle(f) == state = "Idle" /\ f.mic /\ ~f.pairwise

IsMsg1(f) == state = "WaitMsg1" /\ ~f.mic /\ f.pairwise
IsMsg3(f) == state = "WaitMsg3" /\ f.mic /\ f.pairwise
IsGroupRekey(f) == state \in {"Idle", "Done"} /\ f.mic /\ ~f.pairwise
IsPtkRekey(f) == state \in {"Idle", "Done"} /\ ~f.mic /\ f.pairwise

\* _replayCtr, overwritten here too, is read by the replies of this call only.
RecordCounter(f) == replay' = IF f.rc > replay THEN f.rc ELSE replay

Msg1(f) ==
  /\ ~EapolReplay(f) /\ IsMsg1(f)
  /\ RecordCounter(f)
  /\ DerivePtk(f.nonce)
  /\ state' = "WaitMsg3"
  /\ UNCHANGED <<txPn, pair, groupKey, history>>

\* Done, even when no group key could be installed.
Msg3(f) ==
  /\ ~EapolReplay(f) /\ IsMsg3(f)
  /\ RecordCounter(f)
  /\ InstallGtk(f)
  /\ state' = "Done"
  /\ UNCHANGED <<keys, snonces, history>>

GroupRekey(f) ==
  /\ ~EapolReplay(f) /\ IsGroupRekey(f)
  /\ RecordCounter(f)
  /\ InstallGtk(f)
  /\ UNCHANGED <<state, keys, snonces, history>>

PtkRekey(f) ==
  /\ ~EapolReplay(f) /\ IsPtkRekey(f)
  /\ RecordCounter(f)
  /\ DerivePtk(f.nonce)
  /\ txPn' = 1 /\ pair' = EmptyWindow
  /\ state' = "WaitMsg3"
  /\ UNCHANGED <<groupKey, history>>

\* Variant: a repeated message 3 installs the pairwise key once more.
EapolIgnoredReinstalls(f) ==
  /\ ~EapolReplay(f)
  /\ ~(IsMsg1(f) \/ IsMsg3(f) \/ IsGroupRekey(f) \/ IsPtkRekey(f))
  /\ RecordCounter(f)
  /\ IF state = "Done" /\ f.mic THEN txPn' = 1 /\ pair' = EmptyWindow
                                ELSE UNCHANGED <<txPn, pair>>
  /\ UNCHANGED <<state, ptk, groupKey, snonces, history>>

\* A frame this state does not expect: only its counter is recorded.
EapolIgnored(f) ==
  /\ ~EapolReplay(f)
  /\ ~(IsMsg1(f) \/ IsMsg3(f) \/ IsGroupRekey(f) \/ IsPtkRekey(f))
  /\ RecordCounter(f)
  /\ UNCHANGED <<state, keys, groupKey, snonces, history>>

EapolDropped(f) == EapolReplay(f) /\ UNCHANGED vars

OnEapolKey(f) ==
  Msg1(f) \/ Msg3(f) \/ GroupRekey(f) \/ PtkRekey(f) \/ EapolIgnored(f)
  \/ EapolDropped(f)

\* What onEapolKey passes to _send, as the AP reads it: the message, the
\* counter echoed, and the key of its MIC.
Replies(f) ==
  {[kind |-> k, rc |-> f.rc, ptk |-> ptk'] :
     k \in IF EapolReplay(f) THEN {}
           ELSE IF IsMsg1(f) \/ IsPtkRekey(f) THEN {"M2"}
           ELSE IF IsMsg3(f) THEN {"M4"}
           ELSE IF IsGroupRekey(f) THEN {"G2"} ELSE {}}

-----------------------------------------------------------------------------
\* The key decryptData tries on a frame: unicast uses the TK, and a group
\* frame the slot its key id names.
KeyFor(f) ==
  IF f.key \in Ptk THEN ptk
  ELSE IF f.key.id = gtkPrevId THEN gtkPrev ELSE gtk

Deliver(f) ==
  /\ got' = got \cup {<<f.key, f.pn>>}
  /\ again' = again \cup ({<<f.key, f.pn>>} \cap got)

\* decryptData on a frame whose MIC is right under the key it picks.
DecryptUnicast(f) ==
  /\ state = "Done" /\ f.key \in Ptk /\ KeyFor(f) = f.key
  /\ PnAccepts(pair, f.pn)
  /\ pair' = PnUpdate(pair, f.pn)
  /\ Deliver(f)
  /\ UNCHANGED <<state, replay, ptk, txPn, groupKey, snonces, sent>>

DecryptGroup(f) ==
  /\ state = "Done" /\ f.key \in Gtk /\ KeyFor(f) = f.key
  /\ PnAccepts(group[f.key.id], f.pn)
  /\ group' = [group EXCEPT ![f.key.id] = PnUpdate(@, f.pn)]
  /\ Deliver(f)
  /\ UNCHANGED <<state, replay, keys, gtk, gtkKeyId, gtkPrev,
                 gtkPrevId, snonces, sent>>

BuildEncryptedData ==
  /\ state = "Done" /\ txPn <= MaxPn
  /\ sent' = sent \cup {<<ptk, txPn>>}
  /\ txPn' = txPn + 1
  /\ UNCHANGED <<state, replay, ptk, pair, groupKey, snonces, got,
                 again>>

Next ==
  \/ Begin
  \/ \E f \in Eapol : OnEapolKey(f)
  \/ \E f \in Data : DecryptUnicast(f) \/ DecryptGroup(f)
  \/ BuildEncryptedData

Spec == Init /\ [][Next]_vars

-----------------------------------------------------------------------------
TypeOK ==
  /\ state \in State
  /\ replay \in 0 .. MaxRc
  /\ ptk \in Ptk /\ txPn \in 1 .. MaxPn + 1
  /\ pair \in Window /\ group \in [KeyId -> Window]
  /\ gtk \in Gtk \cup {NoGtk} /\ gtkKeyId \in KeyId \cup {Unset}
  /\ gtkPrev \in Gtk \cup {NoGtk} /\ gtkPrevId \in KeyId \cup {Unset}
  /\ snonces \in 0 .. MaxNonce
  /\ sent \in SUBSET (Ptk \X Pn)
  /\ got \in SUBSET ((Ptk \cup Gtk) \X Pn)
  /\ again \subseteq got

(***************************************************************************)
(* buildEncryptedData never uses a packet number twice under one pairwise  *)
(* key, across reconnects, rekeys and repeated handshake messages.         *)
(***************************************************************************)
TxNonceFresh == [][BuildEncryptedData => <<ptk, txPn>> \notin sent]_vars

(***************************************************************************)
(* A unicast frame is delivered at most once under a pairwise key.         *)
(***************************************************************************)
PairAtMostOnce == \A x \in again : x[1] \notin Ptk

(***************************************************************************)
(* The same of a group frame.                                              *)
(***************************************************************************)
GroupAtMostOnce == \A x \in again : x[1] \notin Gtk

(***************************************************************************)
(* The two slots never claim the same key id, so decryptData, which looks  *)
(* at the previous slot first, cannot miss the current key.                *)
(***************************************************************************)
SlotsDistinct == gtkPrevId # Unset => gtkPrevId # gtkKeyId

-----------------------------------------------------------------------------
(***************************************************************************)
(* The inductive invariant behind the properties above.                    *)
(***************************************************************************)
\* No pairwise key has an SNonce that is still to be drawn.
KeysDrawn ==
  /\ ptk.snonce <= snonces
  /\ \A x \in sent : x[1].snonce <= snonces
  /\ \A x \in got : x[1] \in Ptk => x[1].snonce <= snonces

\* While a handshake is awaited, counters and window are at their start.
StartsClean == state = "WaitMsg1" => txPn = 1 /\ pair = EmptyWindow

\* The PNs delivered under the current pairwise key.
Delivered == {p \in Pn : <<ptk, p>> \in got}

\* The counter is past every PN used under the key, and the window knows
\* every PN delivered under it.
CurrentKey ==
  state \in {"WaitMsg3", "Done"} =>
    /\ \A p \in Pn : <<ptk, p>> \in sent => p < txPn
    /\ Tracks(pair, Delivered)

SlotOrder == gtkKeyId = Unset => gtkPrevId = Unset

SInv ==
  /\ TypeOK /\ KeysDrawn /\ StartsClean /\ CurrentKey /\ SlotOrder
  /\ PairAtMostOnce /\ SlotsDistinct

=============================================================================
