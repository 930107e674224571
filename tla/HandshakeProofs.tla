--------------------------- MODULE HandshakeProofs ---------------------------
(***************************************************************************)
(* The supplicant alone, for every set of frames its caller may pass,      *)
(* every window size and every bound; then the supplicant against the AP,  *)
(* for any number of associations, rekeys and repetitions: whatever is     *)
(* delayed, reordered, repeated or lost, keys agree, group keys stay       *)
(* usable and the replay counter is not ahead.                             *)
(***************************************************************************)
EXTENDS Handshake, PnCheckProofs, TLAPS

USE DEF keys, groupKey, history, vars

\* The zeroed keys the supplicant starts with have their types.
LEMMA Zeroed == NoPtk \in Ptk /\ NoPtk.snonce = 0
BY SupplicantAssumption DEF NoPtk, Ptk

\* A derived key has its type, and an SNonce no earlier key has.
LEMMA DeriveFresh ==
  ASSUME TypeOK, KeysDrawn, NEW n \in Nonce, DerivePtk(n)
  PROVE  /\ ptk' \in Ptk /\ snonces' \in 0 .. MaxNonce
         /\ ptk'.snonce = snonces' /\ snonces' = snonces + 1
         /\ \A p : <<ptk', p>> \notin sent
         /\ \A p : <<ptk', p>> \notin got
<1> USE SupplicantAssumption, MaxPnAssumption
<1>1. ptk' \in Ptk /\ snonces' \in 0 .. MaxNonce
  BY DEF DerivePtk, TypeOK, Ptk, Nonce
<1>2. ptk'.snonce = snonces' /\ snonces' = snonces + 1 /\ snonces \in Nat
  BY DEF DerivePtk, TypeOK
<1>3. ASSUME NEW p, <<ptk', p>> \in sent PROVE FALSE
  <2>1. <<ptk', p>>[1].snonce <= snonces
    BY <1>3 DEF KeysDrawn
  <2> QED
    BY <1>2, <2>1
<1>4. ASSUME NEW p, <<ptk', p>> \in got PROVE FALSE
  <2>1. <<ptk', p>>[1].snonce <= snonces
    BY <1>1, <1>4 DEF KeysDrawn
  <2> QED
    BY <1>2, <2>1
<1> QED
  BY <1>1, <1>2, <1>3, <1>4

\* A newly derived key satisfies CurrentKey with counter and window reset.
LEMMA DeriveCurrent ==
  ASSUME SInv, NEW n \in Nonce, DerivePtk(n), UNCHANGED <<sent, got>>,
         txPn' = 1, pair' = EmptyWindow
  PROVE  KeysDrawn' /\ CurrentKey'
<1>1. TypeOK /\ KeysDrawn
  BY DEF SInv
<1>2. /\ ptk'.snonce = snonces' /\ snonces' = snonces + 1
      /\ \A p : <<ptk', p>> \notin sent
      /\ \A p : <<ptk', p>> \notin got
  BY <1>1, DeriveFresh
<1>3. snonces \in Nat
  BY <1>1, SupplicantAssumption DEF TypeOK
<1>4. KeysDrawn'
  <2>1. ptk'.snonce <= snonces'
    BY <1>2, <1>3
  <2>2. ASSUME NEW x \in sent PROVE x[1].snonce <= snonces'
    <3>1. x[1] \in Ptk
      BY <1>1 DEF TypeOK
    <3>2. x[1].snonce \in Int
      BY <3>1, SupplicantAssumption DEF Ptk
    <3>3. x[1].snonce <= snonces
      BY <1>1 DEF KeysDrawn
    <3> QED
      BY <1>2, <1>3, <3>2, <3>3
  <2>3. ASSUME NEW x \in got, x[1] \in Ptk PROVE x[1].snonce <= snonces'
    <3>1. x[1].snonce \in Int
      BY <2>3, SupplicantAssumption DEF Ptk
    <3>2. x[1].snonce <= snonces
      BY <1>1, <2>3 DEF KeysDrawn
    <3> QED
      BY <1>2, <1>3, <3>1, <3>2
  <2> QED
    BY <2>1, <2>2, <2>3 DEF KeysDrawn
<1>5. Delivered' = {}
  BY <1>2 DEF Delivered
<1>6. Tracks(pair', Delivered')
  BY <1>5, EmptyTracks
<1>7. \A p \in Pn : <<ptk', p>> \notin sent'
  BY <1>2
<1> QED
  BY <1>4, <1>6, <1>7 DEF CurrentKey

\* The invariant holds before anything has happened.
LEMMA InitSInv == Init => SInv
<1> SUFFICES ASSUME Init PROVE SInv
  OBVIOUS
<1> USE SupplicantAssumption, MaxPnAssumption DEF Init
<1>1. TypeOK
  BY Zeroed, EmptyTracks DEF TypeOK, State, KeyId
<1>2. KeysDrawn
  BY Zeroed DEF KeysDrawn
<1>3. StartsClean /\ CurrentKey /\ SlotOrder /\ PairAtMostOnce /\ SlotsDistinct
  BY DEF StartsClean, CurrentKey, SlotOrder, PairAtMostOnce, SlotsDistinct
<1> QED
  BY <1>1, <1>2, <1>3 DEF SInv

\* The unchanged pairwise part: keys, counter, window and history.
PairPart == <<ptk, txPn, pair, snonces, sent, got, again>>

\* A step that leaves the pairwise part alone keeps what is said of it, if
\* it does not enter WaitMsg1 or leave it.
LEMMA PairKept ==
  ASSUME SInv, UNCHANGED PairPart,
         state' = state \/ (state = "WaitMsg3" /\ state' = "Done")
  PROVE  (KeysDrawn /\ StartsClean /\ CurrentKey /\ PairAtMostOnce)'
<1> USE DEF SInv, PairPart
<1>1. KeysDrawn' /\ PairAtMostOnce'
  BY DEF KeysDrawn, PairAtMostOnce
<1>2. StartsClean'
  BY DEF StartsClean
<1>3. Delivered' = Delivered
  BY DEF Delivered
<1>4. CurrentKey'
  BY <1>3 DEF CurrentKey
<1> QED
  BY <1>1, <1>2, <1>4

\* Installing a group key keeps the slots well-typed and apart.
LEMMA InstallSlots ==
  ASSUME SInv, NEW f \in EapolKey, InstallGtk(f)
  PROVE  /\ group' \in [KeyId -> Window]
         /\ gtk' \in Gtk \cup {NoGtk} /\ gtkKeyId' \in KeyId \cup {Unset}
         /\ gtkPrev' \in Gtk \cup {NoGtk} /\ gtkPrevId' \in KeyId \cup {Unset}
         /\ SlotOrder' /\ SlotsDistinct'
<1> USE SupplicantAssumption, MaxPnAssumption DEF SInv, TypeOK
<1>1. CASE f.kek = ptk /\ f.gtk # NoGtk
  <2>1. f.gtk \in Gtk /\ f.gtk.id \in KeyId /\ f.gtk.id # Unset
    BY <1>1 DEF EapolKey, KeyId, Unset
  <2>2. group' \in [KeyId -> Window]
    BY <1>1, <2>1, EmptyTracks DEF InstallGtk
  <2>3. gtk' = f.gtk /\ gtkKeyId' = f.gtk.id
    BY <1>1 DEF InstallGtk
  <2>4. CASE gtkKeyId # Unset /\ gtkKeyId # f.gtk.id
    <3>1. gtkPrev' = gtk /\ gtkPrevId' = gtkKeyId
      BY <1>1, <2>4 DEF InstallGtk
    <3> QED
      BY <2>1, <2>2, <2>3, <2>4, <3>1 DEF SlotOrder, SlotsDistinct
  <2>5. CASE ~(gtkKeyId # Unset /\ gtkKeyId # f.gtk.id)
    <3>1. gtkPrev' = gtkPrev /\ gtkPrevId' = gtkPrevId
      BY <1>1, <2>5 DEF InstallGtk
    <3> QED
      BY <2>1, <2>2, <2>3, <2>5, <3>1 DEF SlotOrder, SlotsDistinct
  <2> QED
    BY <2>4, <2>5
<1>2. CASE ~(f.kek = ptk /\ f.gtk # NoGtk)
  <2>1. UNCHANGED groupKey
    BY <1>2 DEF InstallGtk
  <2> QED
    BY <2>1 DEF SlotOrder, SlotsDistinct
<1> QED
  BY <1>1, <1>2

\* The counter of any frame keeps replay in range.
LEMMA CounterType ==
  ASSUME TypeOK, NEW f \in EapolKey, RecordCounter(f)
  PROVE  replay' \in 0 .. MaxRc
BY DEF TypeOK, EapolKey, RecordCounter

\* onEapolKey preserves the invariant.
LEMMA EapolStep ==
  ASSUME SInv, NEW f \in EapolKey, OnEapolKey(f)
  PROVE  SInv'
<1> USE SupplicantAssumption, MaxPnAssumption
<1>t. TypeOK /\ KeysDrawn /\ f.nonce \in Nonce
  BY DEF SInv, EapolKey
<1>1. CASE Msg1(f)
  <2>1. DerivePtk(f.nonce) /\ RecordCounter(f) /\ state' = "WaitMsg3"
        /\ UNCHANGED <<txPn, pair, groupKey, history>>
    BY <1>1 DEF Msg1
  <2>2. txPn' = 1 /\ pair' = EmptyWindow
    BY <1>1, <2>1 DEF Msg1, IsMsg1, SInv, StartsClean
  <2>3. KeysDrawn' /\ CurrentKey'
    BY <1>t, <2>1, <2>2, DeriveCurrent
  <2>4. ptk' \in Ptk /\ snonces' \in 0 .. MaxNonce /\ replay' \in 0 .. MaxRc
    BY <1>t, <2>1, DeriveFresh, CounterType
  <2>5. TypeOK'
    BY <1>t, <2>1, <2>4 DEF TypeOK, State
  <2> QED
    BY <2>1, <2>3, <2>5 DEF SInv, StartsClean, SlotOrder, SlotsDistinct,
       PairAtMostOnce
<1>2. CASE PtkRekey(f)
  <2>1. DerivePtk(f.nonce) /\ RecordCounter(f) /\ state' = "WaitMsg3"
        /\ txPn' = 1 /\ pair' = EmptyWindow /\ UNCHANGED <<groupKey, history>>
    BY <1>2 DEF PtkRekey
  <2>3. KeysDrawn' /\ CurrentKey'
    BY <1>t, <2>1, DeriveCurrent
  <2>4. ptk' \in Ptk /\ snonces' \in 0 .. MaxNonce /\ replay' \in 0 .. MaxRc
    BY <1>t, <2>1, DeriveFresh, CounterType
  <2>5. TypeOK'
    BY <1>t, <2>1, <2>4, EmptyTracks DEF TypeOK, State
  <2> QED
    BY <2>1, <2>3, <2>5 DEF SInv, StartsClean, SlotOrder, SlotsDistinct,
       PairAtMostOnce
<1>3. CASE Msg3(f)
  <2>1. InstallGtk(f) /\ RecordCounter(f) /\ state = "WaitMsg3" /\ state' = "Done"
        /\ UNCHANGED <<keys, snonces, history>>
    BY <1>3 DEF Msg3, IsMsg3
  <2>2. (KeysDrawn /\ StartsClean /\ CurrentKey /\ PairAtMostOnce)'
    BY <2>1, PairKept DEF PairPart
  <2>3. replay' \in 0 .. MaxRc
    BY <1>t, <2>1, CounterType
  <2>4. TypeOK' /\ SlotOrder' /\ SlotsDistinct'
    BY <1>t, <2>1, <2>3, InstallSlots DEF TypeOK, State
  <2> QED
    BY <2>2, <2>4 DEF SInv
<1>4. CASE GroupRekey(f)
  <2>1. InstallGtk(f) /\ RecordCounter(f)
        /\ UNCHANGED <<state, keys, snonces, history>>
    BY <1>4 DEF GroupRekey
  <2>2. (KeysDrawn /\ StartsClean /\ CurrentKey /\ PairAtMostOnce)'
    BY <2>1, PairKept DEF PairPart
  <2>3. replay' \in 0 .. MaxRc
    BY <1>t, <2>1, CounterType
  <2>4. TypeOK' /\ SlotOrder' /\ SlotsDistinct'
    BY <1>t, <2>1, <2>3, InstallSlots DEF TypeOK
  <2> QED
    BY <2>2, <2>4 DEF SInv
<1>5. CASE EapolIgnored(f)
  <2>1. RecordCounter(f) /\ UNCHANGED <<state, keys, groupKey, snonces, history>>
    BY <1>5 DEF EapolIgnored
  <2>2. (KeysDrawn /\ StartsClean /\ CurrentKey /\ PairAtMostOnce)'
    BY <2>1, PairKept DEF PairPart
  <2>3. replay' \in 0 .. MaxRc
    BY <1>t, <2>1, CounterType
  <2>4. TypeOK'
    BY <1>t, <2>1, <2>3 DEF TypeOK
  <2> QED
    BY <2>1, <2>2, <2>4 DEF SInv, SlotOrder, SlotsDistinct
<1>6. CASE EapolDropped(f)
  <2>1. UNCHANGED vars
    BY <1>6 DEF EapolDropped
  <2>2. (KeysDrawn /\ StartsClean /\ CurrentKey /\ PairAtMostOnce)'
    BY <2>1, PairKept DEF PairPart
  <2> QED
    BY <1>t, <2>1, <2>2 DEF SInv, TypeOK, SlotOrder, SlotsDistinct
<1> QED
  BY <1>1, <1>2, <1>3, <1>4, <1>5, <1>6 DEF OnEapolKey

\* begin preserves the invariant.
LEMMA BeginStep ==
  ASSUME SInv, Begin
  PROVE  SInv'
<1> USE SupplicantAssumption, MaxPnAssumption DEF Begin
<1>1. TypeOK'
  BY EmptyTracks DEF SInv, TypeOK, State
<1>2. KeysDrawn' /\ PairAtMostOnce'
  BY DEF SInv, KeysDrawn, PairAtMostOnce
<1>3. StartsClean' /\ CurrentKey' /\ SlotOrder' /\ SlotsDistinct'
  BY DEF StartsClean, CurrentKey, SlotOrder, SlotsDistinct
<1> QED
  BY <1>1, <1>2, <1>3 DEF SInv

\* decryptData on a unicast frame preserves the invariant: the window refuses
\* a packet number already delivered under the key.
LEMMA UnicastStep ==
  ASSUME SInv, NEW f \in DataFrame, DecryptUnicast(f)
  PROVE  SInv'
<1> USE SupplicantAssumption, MaxPnAssumption
<1>1. /\ state = "Done" /\ f.key = ptk /\ PnAccepts(pair, f.pn)
      /\ pair' = PnUpdate(pair, f.pn)
      /\ got' = got \cup {<<f.key, f.pn>>}
      /\ again' = again \cup ({<<f.key, f.pn>>} \cap got)
      /\ UNCHANGED <<state, replay, ptk, txPn, groupKey, snonces, sent>>
  BY DEF DecryptUnicast, KeyFor, Deliver
<1>2. f.pn \in Pn /\ f.pn \in Nat /\ Delivered \in SUBSET Nat
  BY DEF DataFrame, Pn, Delivered
<1>3. TypeOK /\ pair \in Window /\ Tracks(pair, Delivered) /\ ptk \in Ptk
  BY <1>1 DEF SInv, TypeOK, CurrentKey
<1>4. f.pn \notin Delivered /\ Tracks(pair', Delivered \cup {f.pn})
  BY <1>1, <1>2, <1>3, AcceptTracks
<1>5. pair' \in Window
  BY <1>1, <1>2, <1>3, UpdateType
<1>6. again' = again
  BY <1>1, <1>2, <1>4 DEF Delivered
<1>7. Delivered' = Delivered \cup {f.pn}
  BY <1>1, <1>2 DEF Delivered
<1>8. TypeOK'
  BY <1>1, <1>2, <1>3, <1>5, <1>6 DEF TypeOK
<1>9. KeysDrawn'
  <2>1. ASSUME NEW x \in got', x[1] \in Ptk PROVE x[1].snonce <= snonces
    <3>1. x \in got \/ x = <<ptk, f.pn>>
      BY <1>1
    <3> QED
      BY <2>1, <3>1 DEF SInv, KeysDrawn
  <2> QED
    BY <1>1, <2>1 DEF SInv, KeysDrawn
<1>10. CurrentKey'
  BY <1>1, <1>4, <1>7 DEF SInv, CurrentKey
<1>11. StartsClean' /\ SlotOrder' /\ PairAtMostOnce' /\ SlotsDistinct'
  BY <1>1, <1>6 DEF SInv, StartsClean, SlotOrder, PairAtMostOnce, SlotsDistinct
<1> QED
  BY <1>8, <1>9, <1>10, <1>11 DEF SInv

\* decryptData on a group frame leaves the pairwise part alone.
LEMMA GroupStep ==
  ASSUME SInv, NEW f \in DataFrame, DecryptGroup(f)
  PROVE  SInv'
<1> USE SupplicantAssumption, MaxPnAssumption
<1>1. /\ state = "Done" /\ f.key \in Gtk /\ PnAccepts(group[f.key.id], f.pn)
      /\ group' = [group EXCEPT ![f.key.id] = PnUpdate(@, f.pn)]
      /\ got' = got \cup {<<f.key, f.pn>>}
      /\ again' = again \cup ({<<f.key, f.pn>>} \cap got)
      /\ UNCHANGED <<state, replay, keys, gtk, gtkKeyId, gtkPrev, gtkPrevId,
                     snonces, sent>>
  BY DEF DecryptGroup, Deliver
<1>2. f.pn \in Pn /\ f.pn \in Nat /\ f.key.id \in KeyId
  BY <1>1 DEF DataFrame, Pn, KeyId
<1>3. TypeOK /\ group[f.key.id] \in Window /\ ptk \in Ptk
  BY <1>2 DEF SInv, TypeOK
<1>4. f.key \notin Ptk
  BY <1>1 DEF Ptk
<1>5. PnUpdate(group[f.key.id], f.pn) \in Window
  BY <1>1, <1>2, <1>3, UpdateType
<1>6. TypeOK'
  <2>1. group' \in [KeyId -> Window]
    BY <1>1, <1>2, <1>3, <1>5 DEF TypeOK
  <2>2. got' \in SUBSET ((Ptk \cup Gtk) \X Pn) /\ again' \subseteq got'
    BY <1>1, <1>2, <1>3 DEF TypeOK
  <2> QED
    BY <1>1, <1>3, <2>1, <2>2 DEF TypeOK
<1>7. Delivered' = Delivered
  BY <1>1, <1>3, <1>4 DEF Delivered
<1>8. KeysDrawn'
  BY <1>1, <1>4 DEF SInv, KeysDrawn
<1>9. CurrentKey'
  BY <1>1, <1>7 DEF SInv, CurrentKey
<1>10. PairAtMostOnce'
  BY <1>1, <1>4 DEF SInv, PairAtMostOnce
<1>11. StartsClean' /\ SlotOrder' /\ SlotsDistinct'
  BY <1>1 DEF SInv, StartsClean, SlotOrder, SlotsDistinct
<1> QED
  BY <1>6, <1>8, <1>9, <1>10, <1>11 DEF SInv

\* buildEncryptedData preserves the invariant: the counter moves past the
\* packet number it used.
LEMMA EncryptStep ==
  ASSUME SInv, BuildEncryptedData
  PROVE  SInv'
<1> USE SupplicantAssumption, MaxPnAssumption
<1>1. /\ state = "Done" /\ txPn <= MaxPn
      /\ sent' = sent \cup {<<ptk, txPn>>} /\ txPn' = txPn + 1
      /\ UNCHANGED <<state, replay, ptk, pair, groupKey, snonces, got, again>>
  BY DEF BuildEncryptedData
<1>2. TypeOK /\ ptk \in Ptk /\ txPn \in 1 .. MaxPn + 1
  BY DEF SInv, TypeOK
<1>3. txPn \in Pn /\ txPn' \in 1 .. MaxPn + 1
  BY <1>1, <1>2 DEF Pn
<1>4. TypeOK'
  BY <1>1, <1>2, <1>3 DEF TypeOK
<1>5. KeysDrawn'
  <2>1. ASSUME NEW x \in sent' PROVE x[1].snonce <= snonces
    <3>1. x \in sent \/ x = <<ptk, txPn>>
      BY <1>1
    <3> QED
      BY <3>1 DEF SInv, KeysDrawn
  <2> QED
    BY <1>1, <2>1 DEF SInv, KeysDrawn
<1>6. \A p \in Pn : <<ptk, p>> \in sent' => p < txPn'
  <2> SUFFICES ASSUME NEW p \in Pn, <<ptk, p>> \in sent' PROVE p < txPn'
    OBVIOUS
  <2>1. CASE <<ptk, p>> \in sent
    <3>1. p < txPn
      BY <1>1, <2>1 DEF SInv, CurrentKey
    <3> QED
      BY <1>1, <1>2, <3>1 DEF Pn
  <2>2. CASE <<ptk, p>> = <<ptk, txPn>>
    BY <1>1, <1>2, <2>2
  <2> QED
    BY <1>1, <2>1, <2>2
<1>7. Delivered' = Delivered
  BY <1>1 DEF Delivered
<1>8. CurrentKey'
  BY <1>1, <1>6, <1>7 DEF SInv, CurrentKey
<1>9. StartsClean' /\ SlotOrder' /\ PairAtMostOnce' /\ SlotsDistinct'
  BY <1>1 DEF SInv, StartsClean, SlotOrder, PairAtMostOnce, SlotsDistinct
<1> QED
  BY <1>4, <1>5, <1>8, <1>9 DEF SInv

\* SInv is inductive.
LEMMA StepSInv == SInv /\ [Next]_vars => SInv'
<1> SUFFICES ASSUME SInv, [Next]_vars PROVE SInv'
  OBVIOUS
<1>1. CASE Begin
  BY <1>1, BeginStep
<1>2. ASSUME NEW f \in Eapol, OnEapolKey(f) PROVE SInv'
  BY <1>2, EapolStep, FramesAssumption
<1>3. ASSUME NEW f \in Data, DecryptUnicast(f) PROVE SInv'
  BY <1>3, UnicastStep, FramesAssumption
<1>4. ASSUME NEW f \in Data, DecryptGroup(f) PROVE SInv'
  BY <1>4, GroupStep, FramesAssumption
<1>5. CASE BuildEncryptedData
  BY <1>5, EncryptStep
<1>6. CASE UNCHANGED vars
  <2>1. (KeysDrawn /\ StartsClean /\ CurrentKey /\ PairAtMostOnce)'
    BY <1>6, PairKept DEF PairPart
  <2> QED
    BY <1>6, <2>1 DEF SInv, TypeOK, SlotOrder, SlotsDistinct
<1> QED
  BY <1>1, <1>2, <1>3, <1>4, <1>5, <1>6 DEF Next

\* SInv holds throughout every run of the supplicant.
THEOREM SupplicantInv == Spec => []SInv
BY InitSInv, StepSInv, PTL DEF Spec

\* The supplicant's state keeps its types.
THEOREM SupplicantType == Spec => []TypeOK
<1>1. SInv => TypeOK
  BY DEF SInv
<1> QED
  BY <1>1, SupplicantInv, PTL

\* decryptData delivers a unicast frame at most once under a pairwise key,
\* whatever handshake frames come in between.
THEOREM UnicastOnce == Spec => []PairAtMostOnce
<1>1. SInv => PairAtMostOnce
  BY DEF SInv
<1> QED
  BY <1>1, SupplicantInv, PTL

\* The two group key slots never claim the same key id.
THEOREM SlotsApart == Spec => []SlotsDistinct
<1>1. SInv => SlotsDistinct
  BY DEF SInv
<1> QED
  BY <1>1, SupplicantInv, PTL

\* buildEncryptedData never repeats a packet number under a pairwise key.
THEOREM TxNonceNeverRepeats == Spec => TxNonceFresh
<1>1. SInv /\ [Next]_vars => [BuildEncryptedData => <<ptk, txPn>> \notin sent]_vars
  <2> SUFFICES ASSUME SInv, BuildEncryptedData, <<ptk, txPn>> \in sent
               PROVE  FALSE
    OBVIOUS
  <2>1. state = "Done" /\ txPn \in Pn
    BY SupplicantAssumption, MaxPnAssumption DEF BuildEncryptedData, SInv, TypeOK, Pn
  <2>2. txPn < txPn
    BY <2>1 DEF SInv, CurrentKey
  <2> QED
    BY <2>1, <2>2, SupplicantAssumption, MaxPnAssumption DEF Pn
<1> QED
  BY <1>1, SupplicantInv, PTL DEF Spec, TxNonceFresh

HIDE DEF keys, groupKey, history, vars

-----------------------------------------------------------------------------
(***************************************************************************)
(* The supplicant against the AP.  The one hypothesis is that no frame of  *)
(* an earlier association arrives after begin, which resets the replay     *)
(* counter.                                                                *)
(***************************************************************************)
\* The AP's counter, and what is in the air: nothing has a counter the AP has
\* not reached, a key not yet drawn or a group key not yet made.
AirOK ==
  /\ ap \in {"off", "m1", "m3", "done", "g1"} /\ state \in State
  /\ apRc \in Nat /\ apFloor \in 0 .. apRc /\ replay \in 0 .. apRc
  /\ snonces \in Nat /\ groupRekeys \in Nat
  /\ apPtk.snonce \in 0 .. snonces /\ ptk.snonce \in 0 .. snonces
  /\ \A f \in down :
       /\ f.rc \in 0 .. apRc /\ f.mic \in BOOLEAN /\ f.pairwise \in BOOLEAN
       /\ f.mic => /\ f.kek.snonce \in 0 .. snonces
                   /\ f.gtk.no \in 0 .. groupRekeys /\ f.gtk = GtkNo(f.gtk.no)
  /\ \A m \in up : m.rc \in 0 .. apRc /\ m.ptk.snonce \in 0 .. snonces
  /\ state = "Idle" <=> ap = "off"
  /\ ap = "off" => down = {} /\ up = {}

\* Message 3 closes the door on message 1: once the station has answered the
\* AP's message 3 no message 1 in the air passes the replay check.
PairOK ==
  /\ ap = "m3" =>
       /\ \A f \in down : ~f.mic => f.rc <= apFloor
       /\ \A m \in up : m.kind = "M4" /\ m.rc > apFloor =>
            state = "Done" /\ ptk = m.ptk /\ replay > apFloor
  /\ ap \in {"done", "g1"} =>
       /\ state = "Done" /\ ptk = apPtk
       /\ \A f \in down : ~f.mic => f.rc < replay

\* Group keys come in order: what the replay check or a new pairwise key lets
\* in is not older than what is installed.
InOrder ==
  /\ \A f, g \in down : f.mic /\ g.mic /\ f.rc <= g.rc => f.gtk.no <= g.gtk.no
  /\ gtkKeyId # Unset =>
       \A f \in down : f.mic =>
         /\ f.rc >= replay => f.gtk.no >= gtk.no
         /\ state = "WaitMsg3" /\ f.kek = ptk => f.gtk.no >= gtk.no

\* The slots hold the newest of the keys installed, and the one before it.
SlotsOK ==
  /\ apGtk = GtkNo(groupRekeys)
  /\ apGtkPrev = GtkNo(IF groupRekeys = 0 THEN 0 ELSE groupRekeys - 1)
  /\ gtkKeyId = Unset => held = {} /\ gtkPrevId = Unset
  /\ gtkKeyId # Unset =>
       /\ gtk.no \in 0 .. groupRekeys /\ gtk = GtkNo(gtk.no) /\ gtkKeyId = gtk.id
       /\ gtkPrevId # gtkKeyId
       /\ \A h \in held :
            /\ h.no \in 0 .. gtk.no /\ h = GtkNo(h.no)
            /\ h.no + 1 = gtk.no => gtkPrev = h /\ gtkPrevId = h.id

HInv == AirOK /\ PairOK /\ InOrder /\ SlotsOK

-----------------------------------------------------------------------------
(***************************************************************************)
(* Group keys.                                                             *)
(***************************************************************************)
\* The AP's group keys take the two key ids in turn, and are no pairwise key.
LEMMA GroupKeys ==
  ASSUME NEW n \in Nat
  PROVE  /\ GtkNo(n).no = n /\ GtkNo(n).id \in {1, 2} /\ GtkNo(n).id # Unset
         /\ GtkNo(n).id # GtkNo(n + 1).id
         /\ GtkNo(n) # NoGtk /\ GtkNo(n) \notin Ptk
<1>1. GtkNo(n).no = n /\ GtkNo(n).id = 1 + (n % 2) /\ GtkNo(n + 1).id = 1 + ((n + 1) % 2)
  BY DEF GtkNo
<1>2. n % 2 \in 0 .. 1 /\ (n + 1) % 2 # n % 2
  OBVIOUS
<1>3. GtkNo(n).id # NoGtk.id
  BY <1>1, <1>2 DEF NoGtk, Unset
<1>4. GtkNo(n) \notin Ptk
  BY DEF GtkNo, Ptk
<1> QED
  BY <1>1, <1>2, <1>3, <1>4 DEF Unset

LEMMA InitHInv == HInit => HInv
<1> SUFFICES ASSUME HInit PROVE HInv
  OBVIOUS
<1> USE DEF HInit, Init
<1>1. AirOK
  BY DEF AirOK, State, NoPtk
<1> QED
  BY <1>1 DEF HInv, PairOK, InOrder, SlotsOK

-----------------------------------------------------------------------------
(***************************************************************************)
(* The steps of the AP.                                                    *)
(***************************************************************************)
LEMMA AssociateHInv ==
  ASSUME ~StaleFrames, HInv, Associate
  PROVE  HInv'
<1> USE DEF HInv
<1>1. /\ state' = "WaitMsg1" /\ replay' = 0 /\ gtkKeyId' = Unset /\ gtkPrevId' = Unset
      /\ ptk' = ptk /\ snonces' = snonces /\ held' = {} /\ ap' = "m1"
      /\ apRc' = 0 /\ apFloor' = 0 /\ down' = {} /\ up' = {}
      /\ UNCHANGED <<apPtk, apGtk, apGtkPrev, groupRekeys>>
  BY DEF Associate, Begin
<1>2. AirOK'
  BY <1>1 DEF AirOK, State
<1>3. PairOK' /\ InOrder'
  BY <1>1 DEF PairOK, InOrder
<1>4. SlotsOK'
  BY <1>1 DEF SlotsOK
<1> QED
  BY <1>2, <1>3, <1>4

\* A step of the AP leaves the station alone.
LEMMA StationKept ==
  ASSUME UNCHANGED vars
  PROVE  UNCHANGED <<state, replay, ptk, snonces, gtk, gtkKeyId, gtkPrev, gtkPrevId>>
BY DEF vars, keys, groupKey

LEMMA ApSendHInv ==
  ASSUME HInv, ApSend
  PROVE  HInv'
<1> USE DEF HInv
<1> DEFINE new == Message(ap # "m1", ap # "g1")
<1>1. /\ ap \in {"m1", "m3", "g1"} /\ down' = down \cup {new} /\ apRc' = apRc + 1
      /\ UNCHANGED <<ap, apFloor, apPtk, apGtk, apGtkPrev, groupRekeys, up, held>>
      /\ UNCHANGED <<state, replay, ptk, snonces, gtk, gtkKeyId, gtkPrev, gtkPrevId>>
  BY StationKept DEF ApSend, counts
<1>2. /\ new.rc = apRc + 1 /\ new.mic = (ap # "m1") /\ new.pairwise = (ap # "g1")
      /\ new.mic => new.kek = apPtk /\ new.gtk = GtkNo(groupRekeys)
  BY DEF Message, SlotsOK
<1>3. apRc \in Nat /\ groupRekeys \in Nat /\ GtkNo(groupRekeys).no = groupRekeys
  BY GroupKeys DEF AirOK
<1> HIDE DEF new
<1>4. AirOK'
  <2>1. ASSUME NEW f \in down'
        PROVE  /\ f.rc \in 0 .. apRc' /\ f.mic \in BOOLEAN /\ f.pairwise \in BOOLEAN
               /\ f.mic => /\ f.kek.snonce \in 0 .. snonces
                           /\ f.gtk.no \in 0 .. groupRekeys /\ f.gtk = GtkNo(f.gtk.no)
    <3>1. CASE f \in down
      BY <1>1, <1>3, <3>1 DEF AirOK
    <3>2. CASE f = new
      <4>1. new.mic \in BOOLEAN /\ new.pairwise \in BOOLEAN
        BY <1>2, Zenon
      <4>2. apPtk.snonce \in 0 .. snonces
        BY DEF AirOK
      <4>3. new.rc \in 0 .. apRc'
        BY <1>1, <1>2, <1>3
      <4>4. new.mic => /\ new.kek.snonce \in 0 .. snonces
                       /\ new.gtk.no \in 0 .. groupRekeys
                       /\ new.gtk = GtkNo(new.gtk.no)
        BY <1>2, <1>3, <4>2
      <4> QED
        BY <3>2, <4>1, <4>3, <4>4
    <3> QED
      BY <1>1, <3>1, <3>2
  <2>2. \A m \in up' : m.rc \in 0 .. apRc' /\ m.ptk.snonce \in 0 .. snonces
    BY <1>1, <1>3 DEF AirOK
  <2> QED
    BY <1>1, <1>3, <2>1, <2>2 DEF AirOK
<1>5. PairOK'
  BY <1>1, <1>2, <1>3 DEF PairOK
<1>6. InOrder'
  <2>1. ASSUME NEW f \in down', NEW g \in down', f.mic, g.mic, f.rc <= g.rc
        PROVE  f.gtk.no <= g.gtk.no
    <3>1. CASE g = new
      <4>1. f.gtk.no \in 0 .. groupRekeys
        BY <1>1, <1>2, <1>3, <2>1 DEF AirOK
      <4> QED
        BY <1>2, <1>3, <2>1, <3>1, <4>1
    <3>2. CASE g \in down
      <4>1. f \in down
        BY <1>1, <1>2, <1>3, <2>1, <3>2 DEF AirOK
      <4> QED
        BY <2>1, <3>2, <4>1 DEF InOrder
    <3> QED
      BY <1>1, <3>1, <3>2
  <2>2. gtkKeyId # Unset /\ new.mic => new.gtk.no >= gtk.no
    BY <1>2, <1>3 DEF SlotsOK
  <2> QED
    BY <1>1, <2>1, <2>2 DEF InOrder
<1>7. SlotsOK'
  BY <1>1 DEF SlotsOK
<1> QED
  BY <1>4, <1>5, <1>6, <1>7

LEMMA ApRecvHInv ==
  ASSUME HInv, NEW m \in up, ApRecvMsg2(m) \/ ApRecvFinal(m)
  PROVE  HInv'
<1> USE DEF HInv
<1>1. /\ apFloor' = apRc
      /\ up' = {} /\ UNCHANGED <<apRc, apGtk, apGtkPrev, groupRekeys, down, held>>
      /\ UNCHANGED <<state, replay, ptk, snonces, gtk, gtkKeyId, gtkPrev, gtkPrevId>>
  BY StationKept DEF ApRecvMsg2, ApRecvFinal, Await, counts
<1>2. /\ ap \in {"m1", "m3", "g1"} /\ ap' \in {"m3", "done"}
      /\ apPtk' = m.ptk \/ apPtk' = apPtk
  BY DEF ApRecvMsg2, ApRecvFinal, Await
<1>3. AirOK'
  BY <1>1, <1>2 DEF AirOK
<1>4. PairOK'
  <2>1. CASE ApRecvMsg2(m)
    <3>1. ap' = "m3"
      BY <2>1 DEF ApRecvMsg2, Await
    <3>2. \A f \in down : f.rc <= apRc
      BY DEF AirOK
    <3> QED
      BY <1>1, <3>1, <3>2 DEF PairOK
  <2>2. CASE ApRecvFinal(m) /\ ap = "m3"
    <3>1. ap' = "done" /\ apPtk' = apPtk /\ m.kind = "M4" /\ m.rc > apFloor /\ m.ptk = apPtk
      BY <2>2 DEF ApRecvFinal, Await, Answers
    <3>2. state = "Done" /\ ptk = apPtk /\ replay > apFloor
      BY <2>2, <3>1 DEF PairOK
    <3>3. \A f \in down : ~f.mic => f.rc < replay
      BY <2>2, <3>2 DEF PairOK, AirOK
    <3> QED
      BY <1>1, <3>1, <3>2, <3>3 DEF PairOK
  <2>3. CASE ApRecvFinal(m) /\ ap = "g1"
    <3>1. ap' = "done" /\ apPtk' = apPtk
      BY <2>3 DEF ApRecvFinal, Await
    <3> QED
      BY <1>1, <2>3, <3>1 DEF PairOK
  <2> QED
    BY <2>1, <2>2, <2>3 DEF ApRecvFinal
<1>5. InOrder' /\ SlotsOK'
  BY <1>1 DEF InOrder, SlotsOK
<1> QED
  BY <1>3, <1>4, <1>5

LEMMA ApRekeyHInv ==
  ASSUME HInv, ApGroupRekey \/ ApPtkRekey
  PROVE  HInv'
<1> USE DEF HInv
<1>1. /\ ap = "done" /\ apFloor' = apRc
      /\ up' = {} /\ UNCHANGED <<apRc, apPtk, down, held>>
      /\ UNCHANGED <<state, replay, ptk, snonces, gtk, gtkKeyId, gtkPrev, gtkPrevId>>
      /\ \/ /\ ap' = "g1" /\ groupRekeys' = groupRekeys + 1
            /\ apGtk' = GtkNo(groupRekeys + 1) /\ apGtkPrev' = apGtk
         \/ ap' = "m1" /\ UNCHANGED <<groupRekeys, apGtk, apGtkPrev>>
  BY StationKept DEF ApGroupRekey, ApPtkRekey, Await
<1>2. groupRekeys \in Nat /\ groupRekeys' \in Nat /\ groupRekeys <= groupRekeys'
  BY <1>1 DEF AirOK
<1>3. AirOK'
  BY <1>1, <1>2 DEF AirOK
<1>4. PairOK' /\ InOrder'
  BY <1>1 DEF PairOK, InOrder
<1>5. SlotsOK'
  BY <1>1, <1>2 DEF SlotsOK
<1> QED
  BY <1>3, <1>4, <1>5

-----------------------------------------------------------------------------
(***************************************************************************)
(* The step of the station, by what onEapolKey does with the frame.        *)
(***************************************************************************)
\* A message 1 makes a new pairwise key.
Derives(f) ==
  /\ ~f.mic /\ state' = "WaitMsg3"
  /\ state = "WaitMsg1" \/ (state = "Done" /\ f.rc >= replay)
  /\ snonces' = snonces + 1 /\ ptk'.snonce = snonces + 1
  /\ UNCHANGED <<gtk, gtkKeyId, gtkPrev, gtkPrevId, held>>

\* A message 3 or a group message installs a group key ...
Installs(f) ==
  /\ f.mic /\ f.kek = ptk /\ InstallGtk(f) /\ state' = "Done"
  /\ state = "WaitMsg3" \/ (state = "Done" /\ f.rc >= replay)
  /\ held' = held \/ held' = held \cup {gtk'}
  /\ UNCHANGED <<ptk, snonces>>

\* ... or none, and a frame not expected or too old changes no key either.
Passes(f) ==
  /\ state' = state \/ (state = "WaitMsg3" /\ state' = "Done" /\ f.mic)
  /\ UNCHANGED <<ptk, snonces, gtk, gtkKeyId, gtkPrev, gtkPrevId, held>>

\* The counter recorded, and the replies sent.
Records(f) ==
  /\ replay' = IF f.rc > replay THEN f.rc ELSE replay
  /\ up \subseteq up'
  /\ \A m \in up' \ up :
       /\ m.rc = f.rc /\ m.ptk = ptk'
       /\ m.kind = "M4" => state = "WaitMsg3" /\ state' = "Done" /\ ptk' = ptk
  /\ UNCHANGED <<ap, apRc, apFloor, apPtk, apGtk, apGtkPrev, groupRekeys, down>>

LEMMA StationEffect ==
  ASSUME HInv, NEW f \in down, NEW through \in BOOLEAN, StationReceives(f, through)
  PROVE  Records(f) /\ (Derives(f) \/ Installs(f) \/ Passes(f))
<1> USE DEF HInv, vars, keys, groupKey, history
<1>0. /\ ap # "off" /\ state # "Idle" /\ state \in State
      /\ f.rc \in Nat /\ replay \in Nat /\ f.mic \in BOOLEAN /\ f.pairwise \in BOOLEAN
  BY DEF AirOK
<1>1. f.mic => f.gtk # NoGtk
  <2>1. f.mic => f.gtk.no \in Nat /\ f.gtk = GtkNo(f.gtk.no)
    BY DEF AirOK
  <2> QED
    BY <2>1, GroupKeys
<1>2. /\ OnEapolKey(f) /\ (up' = up \/ up' = up \cup Awaited(f))
      /\ held' = IF gtk' # gtk \/ gtkKeyId' # gtkKeyId THEN held \cup {gtk'} ELSE held
      /\ UNCHANGED <<ap, apRc, apFloor, apPtk, apGtk, apGtkPrev, groupRekeys, down>>
  BY DEF StationReceives, apVars, counts
<1>3. ASSUME NEW m \in up' \ up
      PROVE  /\ m.rc = f.rc /\ m.ptk = ptk'
             /\ m.kind = "M4" => IsMsg3(f) /\ ~EapolReplay(f)
  <2>1. m \in Replies(f)
    BY <1>2, <1>3 DEF Awaited
  <2>2. PICK k : m = [kind |-> k, rc |-> f.rc, ptk |-> ptk'] /\
                 k \in IF EapolReplay(f) THEN {}
                       ELSE IF IsMsg1(f) \/ IsPtkRekey(f) THEN {"M2"}
                       ELSE IF IsMsg3(f) THEN {"M4"}
                       ELSE IF IsGroupRekey(f) THEN {"G2"} ELSE {}
    BY <2>1 DEF Replies
  <2> QED
    BY <2>2
<1>4. CASE Msg1(f) \/ PtkRekey(f)
  <2>1. /\ DerivePtk(f.nonce) /\ RecordCounter(f) /\ state' = "WaitMsg3"
        /\ ~EapolReplay(f) /\ (IsMsg1(f) \/ IsPtkRekey(f))
        /\ UNCHANGED groupKey
    BY <1>4 DEF Msg1, PtkRekey
  <2>2. Derives(f)
    BY <1>0, <1>2, <2>1 DEF Derives, DerivePtk, EapolReplay, IsMsg1, IsPtkRekey
  <2>3. ~IsMsg3(f)
    BY <2>1 DEF IsMsg1, IsPtkRekey, IsMsg3
  <2>4. Records(f)
    BY <1>2, <1>3, <2>1, <2>3 DEF Records, RecordCounter
  <2> QED
    BY <2>2, <2>4
<1>5. CASE Msg3(f) \/ GroupRekey(f)
  <2>1. /\ InstallGtk(f) /\ RecordCounter(f) /\ state' = "Done" /\ f.mic
        /\ state = "WaitMsg3" \/ (state = "Done" /\ f.rc >= replay)
        /\ UNCHANGED <<ptk, snonces>>
    BY <1>0, <1>5 DEF Msg3, GroupRekey, IsMsg3, IsGroupRekey, EapolReplay
  <2>2. Records(f)
    BY <1>2, <1>3, <2>1 DEF Records, RecordCounter, IsMsg3
  <2>3. CASE f.kek = ptk
    BY <1>2, <2>1, <2>2, <2>3 DEF Installs
  <2>4. CASE f.kek # ptk
    <3>1. UNCHANGED groupKey
      BY <2>1, <2>4 DEF InstallGtk
    <3>2. Passes(f)
      BY <1>2, <2>1, <3>1 DEF Passes
    <3> QED
      BY <2>2, <3>2
  <2> QED
    BY <2>3, <2>4
<1>6. CASE EapolIgnored(f) \/ EapolDropped(f)
  <2>1. UNCHANGED <<state, keys, groupKey, snonces>> /\ (~IsMsg3(f) \/ EapolReplay(f))
    BY <1>6 DEF EapolIgnored, EapolDropped
  <2>2. replay' = IF f.rc > replay THEN f.rc ELSE replay
    BY <1>0, <1>6 DEF EapolIgnored, EapolDropped, RecordCounter, EapolReplay
  <2>3. Records(f)
    BY <1>2, <1>3, <2>1, <2>2 DEF Records
  <2>4. Passes(f)
    BY <1>2, <2>1 DEF Passes
  <2> QED
    BY <2>3, <2>4
<1> QED
  BY <1>2, <1>4, <1>5, <1>6 DEF OnEapolKey

\* Nothing gets ahead of the AP: not the counter, and not the keys drawn.
LEMMA StationAirOK ==
  ASSUME HInv, NEW f \in down, Records(f), Derives(f) \/ Installs(f) \/ Passes(f)
  PROVE  AirOK'
<1> USE DEF HInv
<1>1. /\ f.rc \in 0 .. apRc /\ ap # "off" /\ state # "Idle"
      /\ replay \in 0 .. apRc /\ apRc \in Nat /\ snonces \in Nat
  BY DEF AirOK
<1>2. /\ state' \in State /\ state' # "Idle" /\ replay' \in 0 .. apRc
      /\ UNCHANGED <<ap, apRc, apFloor, apPtk, groupRekeys, down>>
  BY <1>1 DEF Records, Derives, Installs, Passes, State, AirOK
<1>3. snonces' \in Nat /\ snonces <= snonces' /\ ptk'.snonce \in 0 .. snonces'
  BY <1>1 DEF Derives, Installs, Passes, AirOK
<1>4. \A m \in up' : m.rc \in 0 .. apRc /\ m.ptk.snonce \in 0 .. snonces'
  <2> SUFFICES ASSUME NEW m \in up'
               PROVE  m.rc \in 0 .. apRc /\ m.ptk.snonce \in 0 .. snonces'
    OBVIOUS
  <2>1. CASE m \in up
    BY <1>1, <1>3, <2>1 DEF AirOK
  <2>2. CASE m \notin up
    BY <1>1, <1>3, <2>2 DEF Records
  <2> QED
    BY <2>1, <2>2
<1>5. \A g \in down : g.mic => g.kek.snonce \in 0 .. snonces'
  BY <1>1, <1>3 DEF AirOK
<1>6. apPtk.snonce \in 0 .. snonces'
  BY <1>1, <1>3 DEF AirOK
<1> QED
  BY <1>1, <1>2, <1>3, <1>4, <1>5, <1>6 DEF AirOK

\* The station that has answered the message 3 of the AP keeps its key until
\* the AP starts over.
LEMMA StationPairOK ==
  ASSUME HInv, NEW f \in down, Records(f), Derives(f) \/ Installs(f) \/ Passes(f)
  PROVE  PairOK'
<1> USE DEF HInv
<1>1. /\ f.rc \in Nat /\ replay \in Nat /\ apFloor \in Nat
      /\ \A g \in down : g.rc \in Nat
  BY DEF AirOK
<1>2. /\ replay' = IF f.rc > replay THEN f.rc ELSE replay
      /\ UNCHANGED <<ap, apFloor, apPtk, down>>
  BY DEF Records
<1>3. replay' \in Nat /\ replay' >= replay /\ replay' >= f.rc
  BY <1>1, <1>2
<1>4. CASE ap = "m3"
  <2>1. ASSUME NEW m \in up', m.kind = "M4", m.rc > apFloor
        PROVE  state' = "Done" /\ ptk' = m.ptk /\ replay' > apFloor
    <3>1. CASE m \in up
      <4>1. state = "Done" /\ ptk = m.ptk /\ replay > apFloor
        BY <1>4, <2>1, <3>1 DEF PairOK
      <4>2. ~Derives(f)
        BY <1>1, <1>4, <4>1 DEF Derives, PairOK
      <4>3. state' = "Done" /\ ptk' = ptk
        BY <4>1, <4>2 DEF Installs, Passes
      <4> QED
        BY <1>1, <1>3, <4>1, <4>3
    <3>2. CASE m \notin up
      BY <1>1, <1>3, <2>1, <3>2 DEF Records
    <3> QED
      BY <3>1, <3>2
  <2>2. \A g \in down : ~g.mic => g.rc <= apFloor
    BY <1>4 DEF PairOK
  <2> QED
    BY <1>2, <1>4, <2>1, <2>2 DEF PairOK
<1>5. CASE ap \in {"done", "g1"}
  <2>1. /\ state = "Done" /\ ptk = apPtk
        /\ \A g \in down : ~g.mic => g.rc < replay
    BY <1>5 DEF PairOK
  <2>2. ~Derives(f)
    BY <1>1, <2>1 DEF Derives
  <2>3. state' = "Done" /\ ptk' = ptk
    BY <2>1, <2>2 DEF Installs, Passes
  <2>4. \A g \in down : ~g.mic => g.rc < replay'
    BY <1>1, <1>3, <2>1
  <2> QED
    BY <1>2, <1>5, <2>1, <2>3, <2>4 DEF PairOK
<1> QED
  BY <1>2, <1>4, <1>5 DEF PairOK

\* No frame already in the air is wrapped with a key not yet drawn.
LEMMA StationInOrder ==
  ASSUME HInv, NEW f \in down, Records(f), Derives(f) \/ Installs(f) \/ Passes(f)
  PROVE  InOrder'
<1> USE DEF HInv
<1>1. /\ f.rc \in Nat /\ replay \in Nat /\ snonces \in Nat
      /\ \A g \in down : /\ g.rc \in Nat
                         /\ g.mic => g.gtk.no \in Nat /\ g.kek.snonce \in 0 .. snonces
  BY DEF AirOK
<1>2. down' = down /\ replay' = IF f.rc > replay THEN f.rc ELSE replay
  BY DEF Records
<1>3. replay' \in Nat /\ replay' >= replay /\ replay' >= f.rc
  BY <1>1, <1>2
<1>4. \A g, h \in down : g.mic /\ h.mic /\ g.rc <= h.rc => g.gtk.no <= h.gtk.no
  BY DEF InOrder
<1>5. SUFFICES ASSUME gtkKeyId' # Unset, NEW g \in down, g.mic
               PROVE  /\ g.rc >= replay' => g.gtk.no >= gtk'.no
                      /\ state' = "WaitMsg3" /\ g.kek = ptk' => g.gtk.no >= gtk'.no
  BY <1>2, <1>4 DEF InOrder
<1>6. CASE Derives(f)
  <2>1. gtk' = gtk /\ gtkKeyId' = gtkKeyId /\ g.kek # ptk'
    BY <1>1, <1>5, <1>6 DEF Derives
  <2>2. g.rc >= replay => g.gtk.no >= gtk.no
    BY <1>5, <2>1 DEF InOrder
  <2> QED
    BY <1>1, <1>3, <2>1, <2>2
<1>7. CASE Passes(f)
  <2>1. gtk' = gtk /\ gtkKeyId' = gtkKeyId /\ ptk' = ptk
        /\ (state' = "WaitMsg3" => state = "WaitMsg3")
    BY <1>7 DEF Passes
  <2>2. /\ g.rc >= replay => g.gtk.no >= gtk.no
        /\ state = "WaitMsg3" /\ g.kek = ptk => g.gtk.no >= gtk.no
    BY <1>5, <2>1 DEF InOrder
  <2> QED
    BY <1>1, <1>3, <2>1, <2>2
<1>8. CASE Installs(f)
  <2>1. f.mic /\ f.gtk # NoGtk
    <3>1. f.mic /\ f.gtk.no \in Nat /\ f.gtk = GtkNo(f.gtk.no)
      BY <1>1, <1>8 DEF AirOK, Installs
    <3> QED
      BY <3>1, GroupKeys
  <2>2. gtk' = f.gtk /\ state' = "Done"
    BY <1>8, <2>1 DEF Installs, InstallGtk
  <2>3. g.rc >= f.rc => g.gtk.no >= f.gtk.no
    BY <1>1, <1>4, <1>5, <2>1
  <2> QED
    BY <1>1, <1>3, <2>2, <2>3
<1> QED
  BY <1>6, <1>7, <1>8

\* A group key installed is not older than the one it replaces, which is kept
\* if it is the one before.
LEMMA StationSlotsOK ==
  ASSUME HInv, NEW f \in down, Records(f), Derives(f) \/ Installs(f) \/ Passes(f)
  PROVE  SlotsOK'
<1> USE DEF HInv
<1>1. UNCHANGED <<apGtk, apGtkPrev, groupRekeys>>
  BY DEF Records
<1>2. CASE Derives(f) \/ Passes(f)
  <2>1. UNCHANGED <<gtk, gtkKeyId, gtkPrev, gtkPrevId, held>>
    BY <1>2 DEF Derives, Passes
  <2> QED
    BY <1>1, <2>1 DEF SlotsOK
<1>3. CASE Installs(f)
  <2> DEFINE n == f.gtk.no
  <2>1. /\ f.mic /\ n \in 0 .. groupRekeys /\ groupRekeys \in Nat
        /\ f.gtk = GtkNo(n) /\ f.rc \in Nat /\ replay \in Nat
    BY <1>3 DEF AirOK, Installs
  <2>2. f.gtk # NoGtk /\ f.gtk.id # Unset
    BY <2>1, GroupKeys
  <2>3. gtk' = f.gtk /\ gtkKeyId' = f.gtk.id
    BY <1>3, <2>2 DEF Installs, InstallGtk
  <2>4. gtkKeyId # Unset => n >= gtk.no
    BY <1>3, <2>1 DEF Installs, InOrder
  <2> HIDE DEF n
  <2>5. CASE gtkKeyId = Unset
    <3>1. gtkPrevId' = Unset /\ held = {}
      BY <1>3, <2>2, <2>5 DEF Installs, InstallGtk, SlotsOK
    <3>2. \A h \in held' : h = gtk'
      BY <1>3, <3>1 DEF Installs
    <3>3. gtk'.no = n
      BY <2>3 DEF n
    <3> QED
      BY <1>1, <2>1, <2>2, <2>3, <3>1, <3>2, <3>3 DEF SlotsOK
  <2>6. CASE gtkKeyId # Unset
    <3> DEFINE k == gtk.no
    <3>1. /\ k \in 0 .. n /\ gtk = GtkNo(k) /\ gtkKeyId = gtk.id
          /\ gtkPrevId # gtkKeyId
          /\ \A h \in held : /\ h.no \in 0 .. k /\ h = GtkNo(h.no)
                             /\ h.no + 1 = k => gtkPrev = h /\ gtkPrevId = h.id
      BY <2>1, <2>4, <2>6 DEF SlotsOK
    <3>2. gtk'.no = n
      BY <2>3 DEF n
    <3> HIDE DEF k
    <3>3. gtkPrevId' # gtkKeyId'
      BY <1>3, <2>2, <2>3, <2>6, <3>1 DEF Installs, InstallGtk
    <3>4. ASSUME NEW h \in held'
          PROVE  /\ h.no \in 0 .. n /\ h = GtkNo(h.no)
                 /\ h.no + 1 = n => gtkPrev' = h /\ gtkPrevId' = h.id
      <4>1. CASE h = gtk'
        BY <2>1, <2>3, <3>2, <4>1
      <4>2. CASE h \in held
        <5>1. h.no \in 0 .. k /\ h = GtkNo(h.no)
          BY <3>1, <4>2
        <5>2. ASSUME h.no + 1 = n PROVE gtkPrev' = h /\ gtkPrevId' = h.id
          <6>1. CASE k = n
            <7>1. gtkKeyId = f.gtk.id
              BY <2>1, <3>1, <6>1
            <7>2. gtkPrev' = gtkPrev /\ gtkPrevId' = gtkPrevId
              BY <1>3, <2>2, <7>1 DEF Installs, InstallGtk
            <7> QED
              BY <3>1, <4>2, <5>2, <6>1, <7>2
          <6>2. CASE k # n
            <7>1. h.no = k /\ h = gtk /\ n = k + 1 /\ k \in Nat
              BY <2>1, <3>1, <5>1, <5>2, <6>2
            <7>2. gtkKeyId # f.gtk.id
              BY <2>1, <3>1, <7>1, GroupKeys
            <7>3. gtkPrev' = gtk /\ gtkPrevId' = gtkKeyId
              BY <1>3, <2>2, <2>6, <7>2 DEF Installs, InstallGtk
            <7> QED
              BY <3>1, <7>1, <7>3
          <6> QED
            BY <6>1, <6>2
        <5> QED
          BY <2>1, <3>1, <5>1, <5>2
      <4> QED
        BY <1>3, <4>1, <4>2 DEF Installs
    <3> QED
      BY <1>1, <2>1, <2>2, <2>3, <3>2, <3>3, <3>4 DEF SlotsOK
  <2> QED
    BY <2>5, <2>6
<1> QED
  BY <1>2, <1>3

-----------------------------------------------------------------------------
(***************************************************************************)
(* The theorems.                                                           *)
(***************************************************************************)
LEMMA NextHInv ==
  ASSUME ~StaleFrames, HInv, [HNext]_allVars
  PROVE  HInv'
<1>1. CASE Associate
  BY <1>1, AssociateHInv
<1>2. CASE ApSend
  BY <1>2, ApSendHInv
<1>3. CASE \E m \in up : ApRecvMsg2(m) \/ ApRecvFinal(m)
  BY <1>3, ApRecvHInv
<1>4. CASE ApGroupRekey \/ ApPtkRekey
  BY <1>4, ApRekeyHInv
<1>5. CASE \E f \in down, through \in BOOLEAN : StationReceives(f, through)
  <2>1. PICK f \in down, through \in BOOLEAN : StationReceives(f, through)
    BY <1>5
  <2>2. Records(f) /\ (Derives(f) \/ Installs(f) \/ Passes(f))
    BY <2>1, StationEffect
  <2> QED
    BY <2>2, StationAirOK, StationPairOK, StationInOrder, StationSlotsOK DEF HInv
<1>6. CASE UNCHANGED allVars
  <2>1. /\ UNCHANGED <<ap, apRc, apFloor, apPtk, apGtk, apGtkPrev, groupRekeys>>
        /\ UNCHANGED <<down, up, held>>
        /\ UNCHANGED <<state, replay, ptk, snonces, gtk, gtkKeyId, gtkPrev, gtkPrevId>>
    BY <1>6, StationKept DEF allVars, apVars, counts
  <2> QED
    BY <2>1 DEF HInv, AirOK, PairOK, InOrder, SlotsOK
<1> QED
  BY <1>1, <1>2, <1>3, <1>4, <1>5, <1>6 DEF HNext

\* HInv is an inductive invariant of supplicant, AP and link, as long as begin
\* finds no frame of an earlier association still on its way.
THEOREM HandshakeInv ==
  ASSUME ~StaleFrames
  PROVE  HSpec => []HInv
<1>1. HInv /\ [HNext]_allVars => HInv'
  BY NextHInv
<1> QED
  BY <1>1, InitHInv, PTL DEF HSpec

\* When supplicant and AP both take the handshake for finished they hold the
\* same pairwise key, although onEapolKey draws a new SNonce for every message
\* 1 it takes and checks no MIC before it leaves WaitMsg3.
THEOREM KeysAlwaysAgree ==
  ASSUME ~StaleFrames
  PROVE  HSpec => []KeysAgree
<1>1. HInv => KeysAgree
  BY DEF HInv, PairOK, KeysAgree
<1> QED
  BY <1>1, HandshakeInv, PTL

\* The station decrypts under the AP's group key once it holds it, and under
\* the one before it: installGtkFromKeyData never puts an older key over a
\* newer one, nor loses the one it replaces.
THEOREM GroupKeysAlwaysUsable ==
  ASSUME ~StaleFrames
  PROVE  HSpec => []GroupKeysUsable
<1>1. HInv => GroupKeysUsable
  <2> SUFFICES ASSUME HInv, apGtk \in held
               PROVE  Usable(apGtk) /\ (apGtkPrev \in held => Usable(apGtkPrev))
    BY DEF GroupKeysUsable
  <2> DEFINE R == groupRekeys
             P == IF R = 0 THEN 0 ELSE R - 1
  <2>1. /\ R \in Nat /\ P \in Nat /\ apGtk = GtkNo(R) /\ apGtkPrev = GtkNo(P)
        /\ gtkKeyId # Unset
    BY DEF HInv, AirOK, SlotsOK
  <2>2. /\ gtk.no \in 0 .. R /\ gtk = GtkNo(gtk.no) /\ gtkKeyId = gtk.id
        /\ gtkPrevId # gtkKeyId
        /\ \A h \in held : /\ h.no \in 0 .. gtk.no
                           /\ h.no + 1 = gtk.no => gtkPrev = h /\ gtkPrevId = h.id
    BY <2>1 DEF HInv, SlotsOK
  <2>3. apGtk.no = R /\ apGtkPrev.no = P
    BY <2>1, GroupKeys
  <2>4. gtk = apGtk
    BY <2>1, <2>2, <2>3
  <2>5. \A g : g \notin Ptk => (Usable(g) <=> (IF g.id = gtkPrevId THEN gtkPrev ELSE gtk) = g)
    BY DEF Usable, KeyFor
  <2>6. apGtk \notin Ptk /\ apGtkPrev \notin Ptk
    BY <2>1, GroupKeys
  <2>7. Usable(apGtk)
    BY <2>2, <2>4, <2>5, <2>6
  <2>8. ASSUME apGtkPrev \in held PROVE Usable(apGtkPrev)
    <3>1. CASE R = 0
      BY <2>1, <2>7, <3>1
    <3>2. CASE R # 0
      <4>1. gtkPrev = apGtkPrev /\ gtkPrevId = apGtkPrev.id
        BY <2>1, <2>2, <2>3, <2>4, <2>8, <3>2
      <4> QED
        BY <2>5, <2>6, <4>1
    <3> QED
      BY <3>1, <3>2
  <2> QED
    BY <2>7, <2>8
<1> QED
  BY <1>1, HandshakeInv, PTL

\* The station leaves Done for a rekey only while the AP runs one: a message 1
\* that arrives again is refused by the replay check of onEapolKey.
THEOREM NeverRekeysSpuriously ==
  ASSUME ~StaleFrames
  PROVE  HSpec => NoSpuriousRekey
<1>1. HInv /\ [HNext]_allVars =>
        [state = "Done" /\ state' = "WaitMsg3" => ap \in {"m1", "m3"}]_allVars
  <2> SUFFICES ASSUME HInv, HNext, state = "Done", state' = "WaitMsg3"
               PROVE  ap \in {"m1", "m3"}
    OBVIOUS
  <2>1. CASE Associate
    BY <2>1 DEF Associate, Begin
  <2>2. CASE \/ ApSend \/ ApGroupRekey \/ ApPtkRekey
             \/ \E m \in up : ApRecvMsg2(m) \/ ApRecvFinal(m)
    BY <2>2 DEF ApSend, ApGroupRekey, ApPtkRekey, ApRecvMsg2, ApRecvFinal, vars
  <2>3. CASE \E f \in down, through \in BOOLEAN : StationReceives(f, through)
    <3>1. PICK f \in down, through \in BOOLEAN : StationReceives(f, through)
      BY <2>3
    <3>2. ~f.mic /\ f.rc >= replay
      BY <3>1, StationEffect DEF Derives, Installs, Passes
    <3>3. f.rc \in Nat /\ replay \in Nat /\ ap \in {"m1", "m3", "done", "g1"}
      BY DEF HInv, AirOK
    <3> QED
      BY <3>2, <3>3 DEF HInv, PairOK
  <2> QED
    BY <2>1, <2>2, <2>3 DEF HNext
<1> QED
  BY <1>1, HandshakeInv, PTL DEF HSpec, NoSpuriousRekey

=============================================================================
