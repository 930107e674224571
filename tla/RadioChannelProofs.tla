------------------------- MODULE RadioChannelProofs --------------------------
(***************************************************************************)
(* Whatever channels are asked for, and wherever exceptions cut a request  *)
(* short, a request that returns has the radio where it was asked to be.   *)
(***************************************************************************)
EXTENDS RadioChannel, TLAPS

\* Inside phy_SwChnlAndSetBwMode8812.
Setting == {"swchnl", "tune", "bw", "iqk", "lck"}

\* RF, BB and sub-channel are at the width the members say.
Agrees ==
  /\ hw.rfBw = drv.bw /\ hw.bbBw = drv.bw
  /\ hw.dataSc = Secondary(drv)

\* The members are those of target t.
Meant(t) ==
  /\ drv.rfCenterCh = t.centre
  /\ drv.bw = t.bw /\ drv.sc40 = t.sc40 /\ drv.sc80 = t.sc80

\* _swChannel stays up until the synthesiser is on _rfCenterCh, and
\* _setChannelBw until the width is set: later, and never without it.
FlagsSticky ==
  /\ drv.swChannel \/ drv.rfCenterCh = 0 \/ hw.rfChannel = drv.rfCenterCh
  /\ drv.swChannel => drv.setBw
  /\ drv.setBw => drv.bwInitialized
  /\ drv.bwInitialized =>
       /\ drv.rfCenterCh # 0 /\ drv.centreIndex = drv.rfCenterCh
       /\ drv.setBw \/ drv.bw = WidthMax \/ Agrees

\* Where a request is, and what it has done by then.
Progress ==
  /\ pc \in {"off", "idle"} <=> todo = <<>>
  /\ pc \in {"off", "idle"} \/ (outcome = "running" /\ asked \in Requests)
  /\ pc = "off" => ~drv.bwInitialized /\ outcome # "ok"
  /\ pc = "band" => drv.swChannel \/ ~drv.bwInitialized
  /\ pc = "band" /\ ~drv.swChannel => todo # <<"set">> /\ todo # <<"set", "set">>
  /\ pc = "band" => drv.bandType \in Bands
  /\ pc = "tune" => drv.swChannel
  /\ pc \in {"bw", "iqk", "lck"} => ~drv.swChannel
  /\ pc \in {"iqk", "lck"} => ~drv.setBw
  /\ pc \in Setting \/ (pc = "band" /\ drv.swChannel) =>
       /\ drv.bwInitialized /\ drv.bw \in Width
       /\ drv.swChannel => drv.channel = drv.rfCenterCh
       /\ Head(todo) = "set" => asked.bw \in Width /\ Meant(Target(asked))
       /\ Head(todo) # "mlme"

RInv == TypeOK /\ Tuned /\ FlagsSticky /\ Progress

-----------------------------------------------------------------------------
(***************************************************************************)
(* The arithmetic of channels.                                             *)
(***************************************************************************)
\* A target of set_channel_bwmode, or of the bring-up at 20 MHz.
IsTarget(t) ==
  /\ t.centre \in Centres /\ t.centre # 0
  /\ t.bw \in Width
  /\ t.sc40 \in 0 .. 2 /\ t.sc80 \in 0 .. 2

LEMMA CentrePositive ==
  ASSUME NEW ch \in Nat \ {0}, NEW bw
  PROVE  Centre(ch, bw) \in Nat \ {0}
<1>1. Centre40(ch) \in Nat \ {0}
  BY DEF Centre40, Below40, Above40
<1>2. Centre80(ch) \in Nat \ {0}
  <2>1. CASE \E c \in Blocks80 : ch \in {c - 6, c - 2, c + 2, c + 6}
    <3>1. Centre80(ch) \in Blocks80
      BY <2>1 DEF Centre80
    <3> QED
      BY <3>1 DEF Blocks80
  <2>2. CASE ~\E c \in Blocks80 : ch \in {c - 6, c - 2, c + 2, c + 6}
    BY <2>2 DEF Centre80
  <2> QED
    BY <2>1, <2>2
<1> QED
  BY <1>1, <1>2 DEF Centre

LEMMA RequestTarget ==
  ASSUME NEW r \in Requests, r.bw \in Width
  PROVE  IsTarget(Target(r))
<1>1. r.ch \in Nat \ {0} /\ r.off \in 0 .. 2
  BY RequestsAssumption
<1>2. Centre(r.ch, r.bw) \in Centres /\ Centre(r.ch, r.bw) # 0
  BY <1>1, CentrePositive DEF Centres
<1>3. \A a, b : Offset(a, b) \in 0 .. 2
  BY DEF Offset
<1> QED
  BY <1>1, <1>2, <1>3 DEF Target, IsTarget

LEMMA HalTarget ==
  ASSUME NEW r \in Requests
  PROVE  IsTarget(Target([ch |-> r.ch, off |-> 0, bw |-> 20]))
<1>1. r.ch \in Nat \ {0}
  BY RequestsAssumption
<1> QED
  BY <1>1 DEF Target, IsTarget, Centre, Centres, Width

LEMMA SecondaryType ==
  ASSUME NEW t
  PROVE  Secondary(t) \in {0, 9, 10, Torn} \X {0, 1, 2, 3, 4, Torn}
BY DEF Secondary

-----------------------------------------------------------------------------
(***************************************************************************)
(* Every step preserves the invariant.                                     *)
(***************************************************************************)
LEMMA InitRInv == Init => RInv
<1> SUFFICES ASSUME Init PROVE RInv
  OBVIOUS
<1> USE DEF Init
<1>1. <<Torn, Torn>> \in {0, 9, 10, Torn} \X {0, 1, 2, 3, 4, Torn}
  OBVIOUS
<1>2. drv \in Members /\ hw \in Registers
  BY <1>1 DEF Members, Registers, Bands
<1>3. TypeOK
  BY <1>2 DEF TypeOK, Todo
<1> QED
  BY <1>3 DEF RInv, Tuned, FlagsSticky, Progress, Setting

\* A request begins.
LEMMA BeginRInv ==
  ASSUME RInv, NEW r \in Requests, HalInit(r) \/ SetChannel(r)
  PROVE  RInv'
<1> USE DEF RInv, TypeOK
<1>1. drv' \in Members /\ hw' \in Registers
  BY DEF HalInit, SetChannel, Members, Bands, Band
<1>2. TypeOK'
  BY <1>1 DEF HalInit, SetChannel, Todo, history
<1>3. Tuned'
  BY DEF HalInit, SetChannel, Tuned
<1>4. CASE HalInit(r)
  <2>1. /\ drv'.rfCenterCh = drv.rfCenterCh /\ drv'.swChannel = drv.swChannel
        /\ drv'.setBw = drv.setBw /\ drv'.bwInitialized = drv.bwInitialized
        /\ hw' = hw /\ pc = "off" /\ pc' = "band" /\ outcome' = "running"
        /\ todo' = <<"halset", "mlme", "set">> /\ asked' = r
    BY <1>4 DEF HalInit, Members
  <2>2. ~drv.bwInitialized /\ ~drv.setBw /\ ~drv.swChannel
    BY <2>1 DEF Progress, FlagsSticky, Members
  <2>3. FlagsSticky'
    BY <2>1, <2>2 DEF FlagsSticky
  <2>4. todo' # <<>> /\ todo' # <<"set">> /\ todo' # <<"set", "set">>
    BY <2>1
  <2>5. drv'.bandType \in Bands
    BY <1>4 DEF HalInit, Members, Band, Bands
  <2>6. Progress'
    BY <2>1, <2>2, <2>4, <2>5 DEF Progress, Setting
  <2> QED
    BY <1>2, <1>3, <2>3, <2>6
<1>5. CASE SetChannel(r)
  <2>1. drv' = drv /\ hw' = hw /\ pc' = "call" /\ outcome' = "running" /\ asked' = r
    BY <1>5 DEF SetChannel
  <2>2. todo' # <<>>
    BY <1>5 DEF SetChannel
  <2>3. FlagsSticky'
    BY <2>1 DEF FlagsSticky, Agrees, Secondary
  <2>4. Progress'
    BY <2>1, <2>2 DEF Progress, Setting
  <2> QED
    BY <1>2, <1>3, <2>3, <2>4
<1> QED
  BY <1>4, <1>5

\* An I/Q calibration, complete or cut short, leaves channel and width alone.
LEMMA IqkLeaves ==
  ASSUME hw \in Registers, drv \in Members,
         NEW h,
         \/ h = Calibrated8812 \/ h = [hw EXCEPT !.iqkFor = IqkBand]
         \/ h \in IqkCutShort
  PROVE  /\ h \in Registers
         /\ h.rfChannel = hw.rfChannel /\ h.rfBw = hw.rfBw
         /\ h.bbBw = hw.bbBw /\ h.dataSc = hw.dataSc
<1>1. IqkBand \in Bands
  BY DEF IqkBand, Bands
<1>2. CASE h = Calibrated8812
  BY <1>1, <1>2 DEF Calibrated8812, Registers
<1>3. CASE h = [hw EXCEPT !.iqkFor = IqkBand]
  BY <1>1, <1>3 DEF Registers
<1>4. CASE h \in IqkCutShort
  <2>1. PICK i \in {hw.iqkFor, "torn"}, t \in {hw.txPause, TRUE} :
          h = [hw EXCEPT !.iqkFor = i, !.txPause = t]
    BY <1>4 DEF IqkCutShort
  <2>2. i \in Bands \cup {"none", "torn"} /\ t \in BOOLEAN
    BY DEF Registers
  <2> QED
    BY <2>1, <2>2 DEF Registers
<1> QED
  BY <1>2, <1>3, <1>4

\* The calls between requests leave channel and width alone.
LEMMA IdleRInv ==
  ASSUME RInv,
         ArmIQKOnNextChannelSet \/ (\E s \in BOOLEAN : SetScanMode(s)) \/ RunIQK
  PROVE  RInv'
<1> USE DEF RInv, TypeOK
<1>1. /\ pc = "idle"
      /\ UNCHANGED <<chip, pc, todo, asked, outcome>>
      /\ drv' \in Members
  BY DEF ArmIQKOnNextChannelSet, SetScanMode, RunIQK, Members
<1>2. /\ drv'.rfCenterCh = drv.rfCenterCh /\ drv'.centreIndex = drv.centreIndex
      /\ drv'.swChannel = drv.swChannel /\ drv'.setBw = drv.setBw
      /\ drv'.bwInitialized = drv.bwInitialized
      /\ drv'.bw = drv.bw /\ drv'.sc40 = drv.sc40 /\ drv'.sc80 = drv.sc80
  BY DEF ArmIQKOnNextChannelSet, SetScanMode, RunIQK, Members
<1>3. /\ hw' \in Registers
      /\ hw'.rfChannel = hw.rfChannel /\ hw'.rfBw = hw.rfBw
      /\ hw'.bbBw = hw.bbBw /\ hw'.dataSc = hw.dataSc
  <2>1. CASE RunIQK
    <3>1. hw' = Calibrated8812 \/ hw' \in IqkCutShort
      BY <2>1 DEF RunIQK
    <3> QED
      BY <3>1, IqkLeaves
  <2>2. CASE ~RunIQK
    BY <2>2 DEF ArmIQKOnNextChannelSet, SetScanMode
  <2> QED
    BY <2>1, <2>2
<1>4. TypeOK'
  BY <1>1, <1>3 DEF ArmIQKOnNextChannelSet, SetScanMode, RunIQK, history
<1>5. Tuned'
  BY <1>1, <1>3 DEF Tuned
<1>6. FlagsSticky'
  <2>1. Secondary(drv)' = Secondary(drv)
    BY <1>2 DEF Secondary
  <2> QED
    BY <1>2, <1>3, <2>1 DEF FlagsSticky, Agrees
<1>7. Progress'
  BY <1>1 DEF Progress, Setting
<1> QED
  BY <1>4, <1>5, <1>6, <1>7

-----------------------------------------------------------------------------
\* A d that has the channel, width and flags of the members.
SameSetting(d) ==
  /\ d \in Members
  /\ d.rfCenterCh = drv.rfCenterCh /\ d.centreIndex = drv.centreIndex
  /\ d.swChannel = drv.swChannel /\ d.setBw = drv.setBw
  /\ d.bwInitialized = drv.bwInitialized
  /\ d.bw = drv.bw /\ d.sc40 = drv.sc40 /\ d.sc80 = drv.sc80

\* An h that has the channel and the width of the registers.
SameRadio(h) ==
  /\ h \in Registers
  /\ h.rfChannel = hw.rfChannel /\ h.rfBw = hw.rfBw
  /\ h.bbBw = hw.bbBw /\ h.dataSc = hw.dataSc

\* Nothing is left to do for target t.
Reached(t) ==
  /\ Meant(t) /\ Agrees
  /\ hw.rfChannel = drv.rfCenterCh

LEMMA SameKeepsFlags ==
  ASSUME FlagsSticky, SameSetting(drv'), SameRadio(hw')
  PROVE  FlagsSticky'
<1>1. Secondary(drv)' = Secondary(drv)
  BY DEF Secondary, SameSetting
<1> QED
  BY <1>1 DEF FlagsSticky, Agrees, SameSetting, SameRadio

\* What is left of the calls of Init when one has returned.
LEMMA TailTodo ==
  ASSUME NEW t \in Todo, t # <<>>
  PROVE  Tail(t) \in Todo /\ (Tail(t) = <<>> <=> t = <<"set">>)
<1>1. CASE t = <<"set">>
  <2>1. Tail(t) = <<>>
    BY <1>1
  <2> QED
    BY <1>1, <2>1 DEF Todo
<1>2. CASE t = <<"set", "set">>
  <2>1. Tail(t) = <<"set">> /\ Len(t) = 2 /\ Len(<<"set">>) = 1
    BY <1>2
  <2>2. t # <<"set">> /\ <<"set">> # <<>>
    BY <2>1
  <2> QED
    BY <2>1, <2>2 DEF Todo
<1>3. CASE t = <<"mlme", "set">>
  <2>1. Tail(t) = <<"set">> /\ Len(t) = 2 /\ Len(<<"set">>) = 1
    BY <1>3
  <2>2. t # <<"set">> /\ <<"set">> # <<>>
    BY <2>1
  <2> QED
    BY <2>1, <2>2 DEF Todo
<1>4. CASE t = <<"halset", "mlme", "set">>
  <2>1. Tail(t) = <<"mlme", "set">> /\ Len(t) = 3 /\ Len(<<"set">>) = 1
    BY <1>4
  <2>2. t # <<"set">> /\ <<"mlme", "set">> # <<>>
    BY <2>1
  <2> QED
    BY <2>1, <2>2 DEF Todo
<1> QED
  BY <1>1, <1>2, <1>3, <1>4 DEF Todo

\* A call of todo returns.
LEMMA ReturnsRInv ==
  ASSUME RInv, NEW d, Returns(d), SameSetting(d), SameRadio(hw'),
         pc \notin {"off", "idle"},
         todo = <<"set">> => Reached(Target(asked)),
         todo # <<>>,
         switchCut' \in BOOLEAN, calCut' \in BOOLEAN, iqkDropped' \in BOOLEAN
  PROVE  RInv'
<1> USE DEF RInv, TypeOK
<1>1. asked \in Requests /\ outcome = "running"
  BY DEF Progress
<1>2. asked.ch \in Centres
  BY <1>1 DEF Centres
<1>3. SameSetting(drv')
  BY <1>2 DEF Returns, SameSetting, Members
<1>4. Tail(todo) \in Todo /\ (Tail(todo) = <<>> <=> todo = <<"set">>)
  BY TailTodo
<1>5. /\ todo' = Tail(todo) /\ chip' = chip /\ asked' = asked
      /\ \/ Tail(todo) = <<>> /\ pc' = "idle" /\ outcome' = "ok"
         \/ Tail(todo) # <<>> /\ pc' = "call" /\ outcome' = "running"
  BY <1>1 DEF Returns
<1>6. TypeOK'
  BY <1>3, <1>4, <1>5 DEF SameSetting, SameRadio
<1>7. FlagsSticky'
  BY <1>3, SameKeepsFlags
<1>8. Tuned'
  <2>1. SUFFICES ASSUME outcome' = "ok" PROVE Tuned'
    BY DEF Tuned
  <2>2. Reached(Target(asked))
    BY <1>4, <1>5, <2>1
  <2>3. Target(asked).bw = asked.bw
    BY DEF Target
  <2>4. Secondary(drv) = Secondary(Target(asked))
    BY <2>2 DEF Reached, Meant, Secondary
  <2> QED
    BY <1>5, <2>2, <2>3, <2>4 DEF Tuned, Reached, Meant, Agrees, SameRadio
<1>9. Progress'
  BY <1>1, <1>5 DEF Progress, Setting
<1> QED
  BY <1>6, <1>7, <1>8, <1>9

\* PHY_HandleSwChnlAndSetBW8812 notes the target, or finds it reached.
LEMMA HandleRInv ==
  ASSUME RInv, NEW t, IsTarget(t), pc = "call",
         Handle(t), UNCHANGED <<hw, history>>,
         Head(todo) \in {"set", "halset"},
         Head(todo) = "set" => asked.bw \in Width /\ t = Target(asked)
  PROVE  RInv'
<1> USE DEF RInv, TypeOK
<1>1. hw' = hw /\ switchCut' = switchCut /\ calCut' = calCut /\ iqkDropped' = iqkDropped
  BY DEF history
<1>2. todo # <<>> /\ asked \in Requests /\ outcome = "running"
  BY DEF Progress
<1>3. CASE Retunes(drv, t) \/ Rewidens(drv, t) \/ drv.needIQK
  <2>1. /\ drv' = Handled(drv, t) /\ pc' = "swchnl"
        /\ UNCHANGED <<chip, todo, asked, outcome>>
    BY <1>3 DEF Handle
  <2>2. Retunes(drv, t) \in BOOLEAN /\ Rewidens(drv, t) \in BOOLEAN
    BY DEF Retunes, Rewidens, Members
  <2>3. /\ drv'.swChannel = Retunes(drv, t) /\ drv'.setBw = Rewidens(drv, t)
        /\ drv'.bwInitialized = TRUE
        /\ drv'.channel = IF Retunes(drv, t) THEN t.centre ELSE drv.channel
        /\ drv'.rfCenterCh = IF Retunes(drv, t) THEN t.centre ELSE drv.rfCenterCh
        /\ drv'.centreIndex = IF Retunes(drv, t) \/ Rewidens(drv, t)
                              THEN t.centre ELSE drv.centreIndex
        /\ drv'.bw = IF Rewidens(drv, t) THEN t.bw ELSE drv.bw
        /\ drv'.sc40 = IF Rewidens(drv, t) THEN t.sc40 ELSE drv.sc40
        /\ drv'.sc80 = IF Rewidens(drv, t) THEN t.sc80 ELSE drv.sc80
    BY <2>1 DEF Handled, Members
  <2>4. drv' \in Members
    <3>1. CASE Retunes(drv, t) = TRUE /\ Rewidens(drv, t) = TRUE
      BY <2>1, <3>1 DEF Handled, Members, IsTarget
    <3>2. CASE Retunes(drv, t) = TRUE /\ Rewidens(drv, t) = FALSE
      BY <2>1, <3>2 DEF Handled, Members, IsTarget
    <3>3. CASE Retunes(drv, t) = FALSE /\ Rewidens(drv, t) = TRUE
      BY <2>1, <3>3 DEF Handled, Members, IsTarget
    <3>4. CASE Retunes(drv, t) = FALSE /\ Rewidens(drv, t) = FALSE
      BY <2>1, <3>4 DEF Handled, Members
    <3> QED
      BY <2>2, <3>1, <3>2, <3>3, <3>4
  <2>5. TypeOK'
    BY <1>1, <2>1, <2>4
  <2>6. Tuned'
    BY <1>2, <2>1 DEF Tuned
  <2>7. /\ drv'.rfCenterCh = t.centre /\ drv'.centreIndex = t.centre
        /\ drv'.bw = t.bw /\ drv'.sc40 = t.sc40 /\ drv'.sc80 = t.sc80
    BY <2>3 DEF Retunes, Rewidens
  <2>8. drv'.swChannel => drv'.setBw
    BY <2>3 DEF Retunes, Rewidens, FlagsSticky
  <2>9. drv'.swChannel \/ hw.rfChannel = drv'.rfCenterCh
    BY <2>3 DEF Retunes, FlagsSticky, IsTarget
  <2>10. drv'.setBw \/ Agrees'
    <3>1. SUFFICES ASSUME ~Rewidens(drv, t) PROVE Agrees'
      BY <2>3
    <3>2. /\ drv.bwInitialized /\ ~drv.setBw
          /\ drv'.bw = drv.bw /\ drv'.sc40 = drv.sc40 /\ drv'.sc80 = drv.sc80
          /\ drv.bw \in Width
      BY <2>3, <3>1 DEF Rewidens, IsTarget
    <3>3. Agrees
      BY <3>2 DEF FlagsSticky, Width, WidthMax
    <3>4. Secondary(drv)' = Secondary(drv)
      BY <3>2 DEF Secondary
    <3> QED
      BY <1>1, <3>2, <3>3, <3>4 DEF Agrees
  <2>11. FlagsSticky'
    BY <1>1, <2>3, <2>7, <2>8, <2>9, <2>10 DEF FlagsSticky, IsTarget
  <2>12. Progress'
    <3>1. Head(todo)' = "set" => asked'.bw \in Width /\ Meant(Target(asked))'
      BY <2>1, <2>7 DEF Meant
    <3>2. drv'.swChannel => drv'.channel = drv'.rfCenterCh
      BY <2>3
    <3>3. drv'.bwInitialized /\ drv'.bw \in Width
      BY <2>3, <2>7 DEF IsTarget
    <3> QED
      BY <1>2, <2>1, <3>1, <3>2, <3>3 DEF Progress
  <2> QED
    BY <2>5, <2>6, <2>11, <2>12
<1>4. CASE ~(Retunes(drv, t) \/ Rewidens(drv, t) \/ drv.needIQK)
  <2>1. Returns(drv)
    BY <1>4 DEF Handle
  <2>2. Reached(t)
    BY <1>4 DEF Reached, Meant, FlagsSticky, Retunes, Rewidens, IsTarget, Width, WidthMax
  <2>3. todo = <<"set">> => Reached(Target(asked))
    BY <2>2
  <2>4. SameSetting(drv) /\ SameRadio(hw')
    BY <1>1 DEF SameSetting, SameRadio
  <2> QED
    BY <1>1, <1>2, <2>1, <2>3, <2>4, ReturnsRInv
<1> QED
  BY <1>3, <1>4

LEMMA CallRInv ==
  ASSUME RInv, CallHalSet \/ MlmeSkip \/ MlmeReset \/ CallSet
  PROVE  RInv'
<1> USE DEF RInv, TypeOK
<1>1. pc = "call" /\ todo # <<>> /\ asked \in Requests /\ outcome = "running"
  BY DEF Progress, CallHalSet, MlmeSkip, MlmeReset, CallSet
<1>2. CASE CallHalSet
  <2>1. Head(todo) = "halset" /\ Head(todo) # "set"
    BY <1>2 DEF CallHalSet
  <2> QED
    BY <1>1, <1>2, <2>1, HalTarget, HandleRInv DEF CallHalSet
<1>3. CASE CallSet
  <2>1. asked.bw \in Width /\ Head(todo) = "set" /\ IsTarget(Target(asked))
    BY <1>1, <1>3, RequestTarget DEF CallSet
  <2> QED
    BY <1>1, <1>3, <2>1, HandleRInv DEF CallSet
<1>4. CASE MlmeSkip
  <2>1. todo # <<"set">> /\ Returns(drv)
    BY <1>4 DEF MlmeSkip
  <2>2. /\ hw' = hw /\ switchCut' = switchCut /\ calCut' = calCut
        /\ iqkDropped' = iqkDropped
    BY <1>4 DEF MlmeSkip, history
  <2>3. SameSetting(drv) /\ SameRadio(hw')
    BY <2>2 DEF SameSetting, SameRadio
  <2> QED
    BY <1>1, <2>1, <2>2, <2>3, ReturnsRInv
<1>5. CASE MlmeReset
  <2>1. /\ hw' = hw /\ switchCut' = switchCut /\ calCut' = calCut
        /\ iqkDropped' = iqkDropped
        /\ chip' = chip /\ pc' = pc /\ asked' = asked /\ outcome' = outcome
    BY <1>5 DEF MlmeReset, history
  <2>2. todo' \in Todo /\ todo' # <<>>
    <3>1. Head(todo) = "mlme" /\ todo' = [todo EXCEPT ![1] = "set"]
      BY <1>5 DEF MlmeReset
    <3>2. /\ Head(<<"set">>) = "set" /\ Head(<<"set", "set">>) = "set"
          /\ Head(<<"halset", "mlme", "set">>) = "halset"
      OBVIOUS
    <3>3. todo = <<"mlme", "set">>
      BY <1>1, <3>1, <3>2 DEF Todo
    <3>4. todo' = <<"set", "set">>
      BY <3>1, <3>3
    <3> QED
      BY <3>4 DEF Todo
  <2>3. drv' \in Members
    BY <1>5 DEF MlmeReset, Members
  <2>4. /\ drv'.rfCenterCh = drv.rfCenterCh /\ drv'.centreIndex = drv.centreIndex
        /\ drv'.swChannel = drv.swChannel /\ drv'.setBw = drv.setBw
        /\ drv'.bwInitialized = drv.bwInitialized /\ drv'.bw = WidthMax
    BY <1>5 DEF MlmeReset, Members
  <2>5. TypeOK'
    BY <2>1, <2>2, <2>3
  <2>6. Tuned'
    BY <1>1, <2>1 DEF Tuned
  <2>7. FlagsSticky'
    BY <2>1, <2>4 DEF FlagsSticky
  <2>8. Progress'
    BY <1>1, <2>1, <2>2 DEF Progress, Setting
  <2> QED
    BY <2>5, <2>6, <2>7, <2>8
<1> QED
  BY <1>2, <1>3, <1>4, <1>5

-----------------------------------------------------------------------------
\* A band switch keeps the registers in their ranges and leaves the
\* synthesiser, the RF width and the sub-channel alone.
LEMMA SwitchLeaves ==
  ASSUME drv \in Members, hw \in Registers, drv.bandType \in Bands,
         NEW h, h = Switched(drv.bandType) \/ h \in BandCutShort
  PROVE  /\ h \in Registers
         /\ h.rfChannel = hw.rfChannel /\ h.rfBw = hw.rfBw /\ h.dataSc = hw.dataSc
<1>1. PICK w \in Width \cup {Torn} : w = BandWidth(drv.bandType)
  <2>1. hw.bbBw \in Width \cup {Torn}
    BY DEF Registers
  <2>2. BandWidth(drv.bandType) \in Width \cup {Torn}
    BY <2>1 DEF BandWidth, Width
  <2> QED
    BY <2>2
<1>2. CASE h = Switched(drv.bandType)
  BY <1>1, <1>2 DEF Switched, Registers
<1>3. CASE h \in BandCutShort
  <2> DEFINE torn == [hw EXCEPT !.frontEnd = "torn"]
             wide == [torn EXCEPT !.bbBw = w]
             Same(g) == /\ g \in Registers
                        /\ g.rfChannel = hw.rfChannel /\ g.rfBw = hw.rfBw
                        /\ g.dataSc = hw.dataSc
  <2>1. Same(hw) /\ Same(torn)
    BY DEF Registers
  <2>2. Same(wide)
    BY <2>1 DEF Registers
  <2>3. ASSUME NEW g, Same(g), NEW b \in Bands
        PROVE  Same([g EXCEPT !.cckCheck = b])
    BY <2>3 DEF Registers
  <2>4. \/ h \in {hw, torn, wide}
        \/ \E g \in {hw, torn, wide}, b \in Bands : h = [g EXCEPT !.cckCheck = b]
    BY <1>1, <1>3 DEF BandCutShort, Bands
  <2> HIDE DEF Same, torn, wide
  <2>5. Same(h)
    BY <2>1, <2>2, <2>3, <2>4
  <2> QED
    BY <2>5 DEF Same
<1> QED
  BY <1>2, <1>3

\* The band switches, the one of the bring-up too.  While one is under way
\* the width is still to be set, so what it does to the BB width is undone.
LEMMA BandRInv ==
  ASSUME RInv, HalBandDone \/ BandDone
  PROVE  RInv'
<1> USE DEF RInv, TypeOK
<1>1. /\ pc = "band" /\ UNCHANGED <<chip, todo, asked, outcome>>
      /\ pc' \in {"call", "tune"} /\ (pc' = "tune" => drv.swChannel)
      /\ hw' = Switched(drv.bandType)
      /\ switchCut' = FALSE /\ calCut' = calCut /\ iqkDropped' = iqkDropped
  BY DEF HalBandDone, BandDone, Step
<1>2. SameSetting(drv') /\ drv'.channel = drv.channel
  BY DEF HalBandDone, BandDone, SameSetting, Members
<1>3. drv.bandType \in Bands
  BY <1>1 DEF Progress
<1>4. /\ hw' \in Registers
      /\ hw'.rfChannel = hw.rfChannel /\ hw'.rfBw = hw.rfBw /\ hw'.dataSc = hw.dataSc
  BY <1>1, <1>3, SwitchLeaves
<1>5. drv.setBw \/ ~drv.bwInitialized
  BY <1>1 DEF Progress, FlagsSticky
<1>6. outcome = "running" /\ asked \in Requests /\ todo # <<>>
  BY <1>1 DEF Progress
<1>7. TypeOK'
  BY <1>1, <1>2, <1>4 DEF SameSetting
<1>8. Tuned'
  BY <1>1, <1>6 DEF Tuned
<1>9. FlagsSticky'
  BY <1>2, <1>4, <1>5 DEF FlagsSticky, SameSetting
<1>10. Progress'
  <2>1. CASE pc' = "call"
    BY <1>1, <1>6, <2>1 DEF Progress, Setting
  <2>2. CASE pc' = "tune"
    <3>1. Meant(Target(asked))' <=> Meant(Target(asked))
      BY <1>1, <1>2 DEF Meant, SameSetting
    <3> QED
      BY <1>1, <1>2, <1>6, <2>2, <3>1 DEF Progress, Setting, SameSetting
  <2> QED
    BY <1>1, <2>1, <2>2
<1> QED
  BY <1>7, <1>8, <1>9, <1>10

-----------------------------------------------------------------------------
\* The steps of phy_SwChnlAndSetBwMode8812 that change no channel and no width.
LEMMA PassRInv ==
  ASSUME RInv, SwChnlSkip \/ SwBandSame \/ SwBand \/ SetBwSkip \/ Iqk8812
  PROVE  RInv'
<1> USE DEF RInv, TypeOK
<1>1. /\ UNCHANGED <<chip, todo, asked, outcome>> /\ pc \in Setting
      /\ \/ pc = "swchnl" /\ pc' = "bw" /\ ~drv.swChannel
         \/ pc = "swchnl" /\ pc' = "tune" /\ drv.swChannel
         \/ pc = "swchnl" /\ pc' = "band" /\ drv.swChannel
         \/ pc = "bw" /\ pc' = "iqk" /\ ~drv.setBw
         \/ pc = "iqk" /\ pc' = "lck"
  BY DEF SwChnlSkip, SwBandSame, SwBand, SetBwSkip, Iqk8812, Step, Setting
<1>2. SameSetting(drv') /\ drv'.channel = drv.channel
  <2>1. Band(drv.channel) \in Bands
    BY DEF Band, Bands
  <2> QED
    BY <2>1 DEF SwChnlSkip, SwBandSame, SwBand, SetBwSkip, Iqk8812, IqkDone,
                SameSetting, Members
<1>3. SameRadio(hw')
  <2>1. CASE Iqk8812
    BY <2>1, IqkLeaves DEF Iqk8812, SameRadio
  <2>2. CASE ~Iqk8812
    BY <2>2 DEF SwChnlSkip, SwBandSame, SwBand, SetBwSkip, SameRadio
  <2> QED
    BY <2>1, <2>2
<1>4. pc' = "band" => drv'.bandType \in Bands
  <2>1. Band(drv.channel) \in Bands
    BY DEF Band, Bands
  <2> QED
    BY <2>1 DEF SwChnlSkip, SwBandSame, SwBand, SetBwSkip, Iqk8812, Step, Members
<1>5. switchCut' \in BOOLEAN /\ calCut' \in BOOLEAN /\ iqkDropped' \in BOOLEAN
  BY DEF SwChnlSkip, SwBandSame, SwBand, SetBwSkip, Iqk8812, history
<1>6. TypeOK'
  BY <1>1, <1>2, <1>3, <1>5 DEF SameSetting, SameRadio, Setting
<1>7. outcome = "running" /\ asked \in Requests /\ todo # <<>>
  BY <1>1 DEF Progress, Setting
<1>8. Tuned'
  BY <1>1, <1>7 DEF Tuned
<1>9. FlagsSticky'
  BY <1>2, <1>3, SameKeepsFlags
<1>10. Progress'
  <2>1. Meant(Target(asked))' <=> Meant(Target(asked))
    BY <1>1, <1>2 DEF Meant, SameSetting
  <2>2. /\ drv.bwInitialized /\ drv.bw \in Width
        /\ drv.swChannel => drv.channel = drv.rfCenterCh
        /\ Head(todo) = "set" => asked.bw \in Width /\ Meant(Target(asked))
        /\ Head(todo) # "mlme"
        /\ pc \in {"bw", "iqk", "lck"} => ~drv.swChannel
        /\ pc \in {"iqk", "lck"} => ~drv.setBw
    BY <1>1 DEF Progress
  <2> QED
    BY <1>1, <1>2, <1>4, <1>7, <2>1, <2>2 DEF Progress, Setting, SameSetting
<1> QED
  BY <1>6, <1>8, <1>9, <1>10

\* Tuning takes the synthesiser to _rfCenterCh.
LEMMA TuneRInv ==
  ASSUME RInv, Tune
  PROVE  RInv'
<1> USE DEF RInv, TypeOK
<1>1. /\ pc = "tune" /\ pc' = "bw" /\ UNCHANGED <<chip, todo, asked, outcome>>
      /\ switchCut' = switchCut /\ calCut' = calCut /\ iqkDropped' = iqkDropped
  BY DEF Tune, Step, history
<1>2. /\ drv.swChannel /\ drv.setBw /\ drv.bwInitialized /\ drv.bw \in Width
      /\ drv.channel = drv.rfCenterCh /\ drv.rfCenterCh # 0
      /\ outcome = "running" /\ asked \in Requests /\ todo # <<>>
      /\ Head(todo) = "set" => asked.bw \in Width /\ Meant(Target(asked))
      /\ Head(todo) # "mlme"
  BY <1>1 DEF Progress, FlagsSticky, Setting
<1>3. /\ drv' \in Members
      /\ drv'.rfCenterCh = drv.rfCenterCh /\ drv'.centreIndex = drv.centreIndex
      /\ drv'.swChannel = FALSE /\ drv'.setBw = drv.setBw
      /\ drv'.bwInitialized = drv.bwInitialized
      /\ drv'.bw = drv.bw /\ drv'.sc40 = drv.sc40 /\ drv'.sc80 = drv.sc80
  BY DEF Tune, Members
<1>4. drv.channel \in Centres
  BY <1>2 DEF Members
<1>5. hw' \in Registers /\ hw'.rfChannel = drv.channel
  BY <1>4 DEF Tune, Registers
<1>6. TypeOK'
  BY <1>1, <1>3, <1>5
<1>7. Tuned'
  BY <1>1, <1>2 DEF Tuned
<1>8. FlagsSticky'
  BY <1>2, <1>3, <1>5 DEF FlagsSticky
<1>9. Progress'
  <2>1. Meant(Target(asked))' <=> Meant(Target(asked))
    BY <1>1, <1>3 DEF Meant
  <2> QED
    BY <1>1, <1>2, <1>3, <2>1 DEF Progress, Setting
<1> QED
  BY <1>6, <1>7, <1>8, <1>9

\* Setting the width takes RF, BB and sub-channel to that of the members.
LEMMA PostSetBwRInv ==
  ASSUME RInv, PostSetBw
  PROVE  RInv'
<1> USE DEF RInv, TypeOK
<1>1. /\ pc = "bw" /\ pc' = "iqk" /\ UNCHANGED <<chip, todo, asked, outcome>>
      /\ switchCut' = switchCut /\ calCut' = calCut /\ iqkDropped' = iqkDropped
  BY DEF PostSetBw, Step, history
<1>2. /\ ~drv.swChannel /\ drv.setBw /\ drv.bwInitialized /\ drv.bw \in Width
      /\ outcome = "running" /\ asked \in Requests /\ todo # <<>>
      /\ Head(todo) = "set" => asked.bw \in Width /\ Meant(Target(asked))
      /\ Head(todo) # "mlme"
  BY <1>1 DEF Progress, Setting, PostSetBw
<1>3. /\ drv' \in Members
      /\ drv'.rfCenterCh = drv.rfCenterCh /\ drv'.centreIndex = drv.centreIndex
      /\ drv'.swChannel = drv.swChannel /\ drv'.setBw = FALSE
      /\ drv'.bwInitialized = drv.bwInitialized
      /\ drv'.bw = drv.bw /\ drv'.sc40 = drv.sc40 /\ drv'.sc80 = drv.sc80
  BY DEF PostSetBw, Members
<1>4. PICK c \in {0, 9, 10, Torn} \X {0, 1, 2, 3, 4, Torn} : c = Secondary(drv)
  BY SecondaryType
<1>5. /\ hw' \in Registers /\ hw'.rfChannel = hw.rfChannel
      /\ hw'.rfBw = drv.bw /\ hw'.bbBw = drv.bw /\ hw'.dataSc = c
  BY <1>2, <1>4 DEF PostSetBw, Registers
<1>6. TypeOK'
  BY <1>1, <1>3, <1>5
<1>7. Tuned'
  BY <1>1, <1>2 DEF Tuned
<1>8. Agrees'
  <2>1. Secondary(drv)' = Secondary(drv)
    BY <1>3 DEF Secondary
  <2> QED
    BY <1>3, <1>4, <1>5, <2>1 DEF Agrees
<1>9. FlagsSticky'
  BY <1>2, <1>3, <1>5, <1>8 DEF FlagsSticky
<1>10. Progress'
  <2>1. Meant(Target(asked))' <=> Meant(Target(asked))
    BY <1>1, <1>3 DEF Meant
  <2> QED
    BY <1>1, <1>2, <1>3, <2>1 DEF Progress, Setting
<1> QED
  BY <1>6, <1>7, <1>9, <1>10

\* The last step of a request: with both flags down the target is reached.
LEMMA LastRInv ==
  ASSUME RInv, IqkSkip \/ Iqk8814 \/ Lck
  PROVE  RInv'
<1> USE DEF RInv, TypeOK
<1>1. pc \in {"iqk", "lck"} /\ (Returns(IqkDone) \/ Returns(drv))
  BY DEF IqkSkip, Iqk8814, Lck
<1>2. SameSetting(drv) /\ SameSetting(IqkDone)
  BY DEF SameSetting, IqkDone, Members
<1>3. SameRadio(hw')
  <2>1. CASE Iqk8814
    BY <2>1, IqkLeaves DEF Iqk8814, SameRadio
  <2>2. CASE IqkSkip \/ Lck
    BY <2>2 DEF IqkSkip, Lck, SameRadio, Registers
  <2> QED
    BY <2>1, <2>2
<1>4. switchCut' \in BOOLEAN /\ calCut' \in BOOLEAN /\ iqkDropped' \in BOOLEAN
  BY DEF IqkSkip, Iqk8814, Lck, history, Members
<1>5. /\ todo # <<>> /\ ~drv.swChannel /\ ~drv.setBw
      /\ drv.bwInitialized /\ drv.bw \in Width
      /\ Head(todo) = "set" => Meant(Target(asked))
  BY <1>1 DEF Progress, Setting
<1>6. Agrees /\ hw.rfChannel = drv.rfCenterCh
  BY <1>5 DEF FlagsSticky, Width, WidthMax
<1>7. todo = <<"set">> => Reached(Target(asked))
  BY <1>5, <1>6 DEF Reached
<1> QED
  BY <1>1, <1>2, <1>3, <1>4, <1>5, <1>7, ReturnsRInv

\* An exception leaves the flags up for all that was not done.
LEMMA ThrowsRInv ==
  ASSUME RInv, Throws
  PROVE  RInv'
<1> USE DEF RInv, TypeOK
<1>1. /\ pc \notin {"off", "idle"} /\ pc' = "idle" /\ todo' = <<>>
      /\ asked' = Nothing /\ outcome' = "threw" /\ chip' = chip /\ drv' = drv
      /\ hw' \in CutShort
      /\ switchCut' \in BOOLEAN /\ calCut' \in BOOLEAN /\ iqkDropped' \in BOOLEAN
  BY DEF Throws
<1>2. hw' \in Registers /\ FlagsSticky'
  <2>1. CASE SameRadio(hw')
    <3>1. SameSetting(drv')
      BY <1>1 DEF SameSetting
    <3> QED
      BY <2>1, <3>1, SameKeepsFlags DEF SameRadio
  <2>2. CASE pc = "band"
    <3>1. hw' \in BandCutShort
      BY <1>1, <2>2 DEF CutShort
    <3>2. drv.bandType \in Bands /\ (drv.setBw \/ ~drv.bwInitialized)
      BY <2>2 DEF Progress, FlagsSticky
    <3>3. hw' \in Registers /\ hw'.rfChannel = hw.rfChannel
      BY <3>1, <3>2, SwitchLeaves
    <3> QED
      BY <1>1, <3>2, <3>3 DEF FlagsSticky
  <2>3. CASE pc = "tune"
    <3>1. drv.swChannel /\ drv.setBw
      BY <2>3 DEF Progress, FlagsSticky
    <3>2. hw' \in {hw, [hw EXCEPT !.rfChannel = Torn]}
      BY <1>1, <2>3 DEF CutShort
    <3>3. hw' \in Registers
      BY <3>2 DEF Registers
    <3> QED
      BY <1>1, <3>1, <3>3 DEF FlagsSticky
  <2>4. CASE pc = "bw" /\ drv.setBw
    <3>1. PICK c \in {0, 9, 10, Torn} \X {0, 1, 2, 3, 4, Torn} : c = Secondary(drv)
      BY SecondaryType
    <3>2. hw' \in {hw, [hw EXCEPT !.rfBw = Torn, !.bbBw = drv.bw, !.dataSc = c]}
      BY <1>1, <2>4, <3>1 DEF CutShort
    <3>3. drv.bw \in Width
      BY <2>4 DEF Progress, Setting
    <3>4. hw' \in Registers /\ hw'.rfChannel = hw.rfChannel
      BY <3>2, <3>3 DEF Registers
    <3> QED
      BY <1>1, <2>4, <3>4 DEF FlagsSticky
  <2>5. CASE pc = "iqk"
    <3>1. hw' = hw \/ hw' \in IqkCutShort
      BY <1>1, <2>5 DEF CutShort
    <3> QED
      BY <3>1, <2>1, IqkLeaves DEF SameRadio
  <2>6. CASE pc \notin {"band", "tune", "iqk"} /\ ~(pc = "bw" /\ drv.setBw)
    <3>1. hw' = hw \/ hw' = [hw EXCEPT !.txPause = TRUE]
      BY <1>1, <2>6 DEF CutShort
    <3> QED
      BY <3>1, <2>1 DEF SameRadio, Registers
  <2> QED
    BY <2>2, <2>3, <2>4, <2>5, <2>6
<1>3. TypeOK'
  BY <1>1, <1>2 DEF Todo
<1>4. Tuned'
  BY <1>1 DEF Tuned
<1>5. Progress'
  BY <1>1 DEF Progress, Setting
<1> QED
  BY <1>2, <1>3, <1>4, <1>5

-----------------------------------------------------------------------------
(***************************************************************************)
(* The theorems.                                                           *)
(***************************************************************************)
LEMMA NextRInv == RInv /\ [Next]_vars => RInv'
<1> SUFFICES ASSUME RInv, [Next]_vars PROVE RInv'
  OBVIOUS
<1>1. CASE UNCHANGED vars
  <2>1. /\ chip' = chip /\ pc' = pc /\ todo' = todo /\ asked' = asked
        /\ outcome' = outcome /\ drv' = drv /\ hw' = hw
        /\ switchCut' = switchCut /\ calCut' = calCut /\ iqkDropped' = iqkDropped
    BY <1>1 DEF vars, history
  <2>2. SameSetting(drv') /\ SameRadio(hw')
    BY <2>1 DEF RInv, TypeOK, SameSetting, SameRadio
  <2>3. FlagsSticky'
    BY <2>2, SameKeepsFlags DEF RInv
  <2>4. TypeOK' /\ Tuned'
    BY <2>1 DEF RInv, TypeOK, Tuned
  <2>5. Progress'
    <3>1. Meant(Target(asked))' <=> Meant(Target(asked))
      BY <2>1 DEF Meant
    <3> QED
      BY <2>1, <3>1 DEF RInv, Progress
  <2> QED
    BY <2>3, <2>4, <2>5 DEF RInv
<1>2. CASE \E r \in Requests : HalInit(r) \/ SetChannel(r)
  BY <1>2, BeginRInv
<1>3. CASE ArmIQKOnNextChannelSet \/ (\E s \in BOOLEAN : SetScanMode(s)) \/ RunIQK
  BY <1>3, IdleRInv
<1>4. CASE CallHalSet \/ MlmeSkip \/ MlmeReset \/ CallSet
  BY <1>4, CallRInv
<1>5. CASE HalBandDone \/ BandDone
  BY <1>5, BandRInv
<1>6. CASE SwChnlSkip \/ SwBandSame \/ SwBand \/ SetBwSkip \/ Iqk8812
  BY <1>6, PassRInv
<1>7. CASE Tune
  BY <1>7, TuneRInv
<1>8. CASE PostSetBw
  BY <1>8, PostSetBwRInv
<1>9. CASE IqkSkip \/ Iqk8814 \/ Lck
  BY <1>9, LastRInv
<1>10. CASE Throws
  BY <1>10, ThrowsRInv
<1> QED
  BY <1>1, <1>2, <1>3, <1>4, <1>5, <1>6, <1>7, <1>8, <1>9, <1>10 DEF Next

\* RInv is an inductive invariant of the channel setting, for any set of
\* channels asked for and any placing of the exceptions.
THEOREM RadioInv == Spec => []RInv
BY InitRInv, NextRInv, PTL DEF Spec

\* Members and registers stay in their ranges.
THEOREM RadioType == Spec => []TypeOK
<1>1. RInv => TypeOK
  BY DEF RInv
<1> QED
  BY <1>1, RadioInv, PTL

\* A set_channel_bwmode that returns has the radio on the channel and at the
\* width asked for, whatever was asked and cut short before: the skip checks
\* of PHY_HandleSwChnlAndSetBW8812 never skip what is needed.
THEOREM AlwaysTuned == Spec => []Tuned
<1>1. RInv => Tuned
  BY DEF RInv
<1> QED
  BY <1>1, RadioInv, PTL

-----------------------------------------------------------------------------
(***************************************************************************)
(* The sub-channel of the primary.                                         *)
(***************************************************************************)
\* Each quarter of an 80 MHz block has that block's centre: the blocks of
\* get_80mhz_center_channel do not overlap.
LEMMA QuarterCentre ==
  ASSUME NEW c \in Blocks80, NEW ch \in {c - 6, c - 2, c + 2, c + 6}
  PROVE  Centre80(ch) = c
<1>1. \A b \in Blocks80 : ch \in {b - 6, b - 2, b + 2, b + 6} => b = c
  BY DEF Blocks80
<1> QED
  BY <1>1 DEF Centre80

\* At 80 MHz the sub-channel code of a set_channel_bwmode that returns is that
\* of the quarter and of the half the primary is in, in every block but for
\* the primaries get_40mhz_center_channel does not pair up.
THEOREM SubchannelIsPrimary == Spec => []SubchannelOfPrimary
<1>1. RInv => SubchannelOfPrimary
  <2> DEFINE Quarters == UNION {{c - 6, c - 2, c + 2, c + 6} : c \in Blocks80}
             Unpaired == {153, 161, 165, 169, 173, 177}
             Code == [d \in {-6, -2, 2, 6} |->
                        CASE d = -6 -> <<10, 4>> [] d = -2 -> <<10, 2>>
                          [] d = 2  -> <<9, 1>>  [] d = 6  -> <<9, 3>>]
  <2>1. SUFFICES ASSUME RInv, outcome = "ok", asked.bw = 80,
                        asked.ch \in Quarters \ Unpaired
                 PROVE  hw.dataSc = Code[asked.ch - hw.rfChannel]
    BY DEF SubchannelOfPrimary
  <2>2. PICK c \in Blocks80 : asked.ch \in {c - 6, c - 2, c + 2, c + 6}
    BY <2>1
  <2>3. Centre80(asked.ch) = c
    BY <2>2, QuarterCentre
  <2>4. hw.rfChannel = c /\ hw.dataSc = Secondary(Target(asked))
    BY <2>1, <2>3 DEF RInv, Tuned, Target, Centre
  <2>5. /\ Target(asked).bw = 80
        /\ Target(asked).sc80 = Offset(asked.ch, c)
        /\ Target(asked).sc40 = Offset(asked.ch, Centre40(asked.ch))
    BY <2>1, <2>3 DEF Target
  <2>6. asked.ch \notin Unpaired
    BY <2>1
  <2>7. CASE asked.ch = c - 6
    <3>1. Target(asked).sc80 = 1 /\ Target(asked).sc40 = 1
      BY <2>2, <2>5, <2>6, <2>7 DEF Offset, Centre40, Below40, Above40, Blocks80
    <3>2. hw.dataSc = <<10, 4>>
      BY <2>4, <2>5, <3>1 DEF Secondary
    <3>3. asked.ch - hw.rfChannel = -6
      BY <2>4, <2>7 DEF Blocks80
    <3> QED
      BY <3>2, <3>3
  <2>8. CASE asked.ch = c - 2
    <3>1. Target(asked).sc80 = 1 /\ Target(asked).sc40 = 2
      BY <2>2, <2>5, <2>6, <2>8 DEF Offset, Centre40, Below40, Above40, Blocks80
    <3>2. hw.dataSc = <<10, 2>>
      BY <2>4, <2>5, <3>1 DEF Secondary
    <3>3. asked.ch - hw.rfChannel = -2
      BY <2>4, <2>8 DEF Blocks80
    <3> QED
      BY <3>2, <3>3
  <2>9. CASE asked.ch = c + 2
    <3>1. Target(asked).sc80 = 2 /\ Target(asked).sc40 = 1
      BY <2>2, <2>5, <2>6, <2>9 DEF Offset, Centre40, Below40, Above40, Blocks80
    <3>2. hw.dataSc = <<9, 1>>
      BY <2>4, <2>5, <3>1 DEF Secondary
    <3>3. asked.ch - hw.rfChannel = 2
      BY <2>4, <2>9 DEF Blocks80
    <3> QED
      BY <3>2, <3>3
  <2>10. CASE asked.ch = c + 6
    <3>1. Target(asked).sc80 = 2 /\ Target(asked).sc40 = 2
      BY <2>2, <2>5, <2>6, <2>10 DEF Offset, Centre40, Below40, Above40, Blocks80
    <3>2. hw.dataSc = <<9, 3>>
      BY <2>4, <2>5, <3>1 DEF Secondary
    <3>3. asked.ch - hw.rfChannel = 6
      BY <2>4, <2>10 DEF Blocks80
    <3> QED
      BY <3>2, <3>3
  <2> QED
    BY <2>2, <2>7, <2>8, <2>9, <2>10
<1> QED
  BY <1>1, RadioInv, PTL

-----------------------------------------------------------------------------
(***************************************************************************)
(* The band: front end and calibration.  RInv says nothing of them, and is *)
(* a hypothesis of what follows.                                           *)
(***************************************************************************)
\* CCK_CHECK names the band of the channel once _swChannel is down, and the
\* front end and current_band_type follow it but for a switch cut short.
BandKept ==
  /\ drv.bwInitialized \/ drv.rfCenterCh = 0
  /\ drv.swChannel \/ drv.rfCenterCh = 0 \/ hw.cckCheck = Band(drv.rfCenterCh)
  /\ pc = "tune" => hw.cckCheck = Band(drv.channel)
  /\ pc = "band" /\ drv.swChannel => drv.bandType = Band(drv.channel)
  /\ \/ pc \in {"off", "band"} \/ switchCut
     \/ hw.frontEnd = hw.cckCheck /\ drv.bandType \in {hw.cckCheck, "MAX"}
  /\ outcome = "ok" =>
       /\ pc = "idle" /\ asked \in Requests
       /\ ~drv.swChannel /\ drv.rfCenterCh = Centre(asked.ch, asked.bw)

\* An IQK that is needed stays armed until it is run or dropped.
CalKept ==
  /\ pc = "band" /\ ~drv.swChannel /\ chip = "8812" => drv.needIQK
  /\ pc = "lck" => ~drv.needIQK
  /\ chip = "8812" =>
       /\ \/ pc \in {"off", "band"} \/ drv.bandType = "MAX"
          \/ iqkDropped \/ calCut \/ switchCut \/ drv.needIQK
          \/ hw.iqkFor = drv.bandType
       /\ hw.txPause => calCut \/ iqkDropped \/ drv.needIQK

BInv == BandKept /\ CalKept /\ Recalibrated /\ TxReleased

\* The centre of a channel is in the channel's band.
LEMMA BandOfCentre ==
  ASSUME NEW ch \in Nat \ {0}, NEW bw
  PROVE  Band(Centre(ch, bw)) = Band(ch)
<1>1. Band(Centre40(ch)) = Band(ch)
  BY DEF Band, Centre40, Below40, Above40
<1>2. Band(Centre80(ch)) = Band(ch)
  <2>1. CASE \E c \in Blocks80 : ch \in {c - 6, c - 2, c + 2, c + 6}
    <3>1. PICK c \in Blocks80 : ch \in {c - 6, c - 2, c + 2, c + 6}
      BY <2>1
    <3>2. Centre80(ch) = c
      BY <3>1, QuarterCentre
    <3> QED
      BY <3>1, <3>2 DEF Band, Blocks80
  <2>2. CASE ~\E c \in Blocks80 : ch \in {c - 6, c - 2, c + 2, c + 6}
    BY <2>2 DEF Centre80, Band
  <2> QED
    BY <2>1, <2>2
<1> QED
  BY <1>1, <1>2 DEF Centre

LEMMA BandKeptMatches ==
  ASSUME RInv, BandKept
  PROVE  FrontEndMatches
<1>1. SUFFICES ASSUME outcome = "ok", ~switchCut
               PROVE  hw.frontEnd = Band(asked.ch) /\ drv.bandType \in {Band(asked.ch), "MAX"}
  BY DEF FrontEndMatches
<1>2. asked.ch \in Nat \ {0} /\ pc = "idle" /\ ~drv.swChannel
      /\ drv.rfCenterCh = Centre(asked.ch, asked.bw)
  BY <1>1, RequestsAssumption DEF BandKept
<1>3. drv.rfCenterCh # 0 /\ Band(drv.rfCenterCh) = Band(asked.ch)
  BY <1>2, CentrePositive, BandOfCentre
<1> QED
  BY <1>1, <1>2, <1>3 DEF BandKept

LEMMA InitBInv == Init => BInv
BY DEF Init, BInv, BandKept, CalKept, Recalibrated, TxReleased

-----------------------------------------------------------------------------
\* A request begins; the bring-up of an 8812 arms the IQK.
LEMMA BeginBInv ==
  ASSUME RInv, BInv, NEW r \in Requests, HalInit(r) \/ SetChannel(r)
  PROVE  BInv'
<1> USE DEF RInv, TypeOK, BInv
<1>1. /\ UNCHANGED <<chip, hw, switchCut, calCut, iqkDropped>>
      /\ outcome' = "running"
  BY DEF HalInit, SetChannel, history
<1>2. Recalibrated' /\ TxReleased'
  BY <1>1 DEF Recalibrated, TxReleased
<1>3. CASE HalInit(r)
  <2>1. /\ pc = "off" /\ pc' = "band"
        /\ drv'.bwInitialized = drv.bwInitialized
        /\ drv'.rfCenterCh = drv.rfCenterCh /\ drv'.swChannel = drv.swChannel
        /\ drv'.needIQK = (chip = "8812")
    BY <1>3 DEF HalInit, Members
  <2>2. ~drv.swChannel /\ ~drv.bwInitialized
    BY <2>1 DEF Progress, FlagsSticky, Members
  <2>3. BandKept'
    BY <1>1, <2>1, <2>2 DEF BandKept
  <2>4. CalKept'
    BY <1>1, <2>1 DEF CalKept
  <2> QED
    BY <1>2, <2>3, <2>4
<1>4. CASE SetChannel(r)
  <2>1. pc = "idle" /\ pc' = "call" /\ drv' = drv
    BY <1>4 DEF SetChannel
  <2>2. BandKept' /\ CalKept'
    BY <1>1, <2>1 DEF BandKept, CalKept
  <2> QED
    BY <1>2, <2>2
<1> QED
  BY <1>3, <1>4

\* An I/Q calibration, complete or cut short, leaves the band alone.
LEMMA IqkBandLeaves ==
  ASSUME hw \in Registers,
         NEW h,
         \/ h = Calibrated8812 \/ h = [hw EXCEPT !.iqkFor = IqkBand]
         \/ h \in IqkCutShort
  PROVE  /\ h.cckCheck = hw.cckCheck /\ h.frontEnd = hw.frontEnd
         /\ h = Calibrated8812 => h.iqkFor = IqkBand /\ ~h.txPause
         /\ h = [hw EXCEPT !.iqkFor = IqkBand] => h.iqkFor = IqkBand
<1>1. CASE h = Calibrated8812
  BY <1>1 DEF Calibrated8812, Registers
<1>2. CASE h = [hw EXCEPT !.iqkFor = IqkBand]
  BY <1>1, <1>2 DEF Registers
<1>3. CASE h \in IqkCutShort
  <2>1. PICK i \in {hw.iqkFor, "torn"}, t \in {hw.txPause, TRUE} :
          h = [hw EXCEPT !.iqkFor = i, !.txPause = t]
    BY <1>3 DEF IqkCutShort
  <2>2. h.cckCheck = hw.cckCheck /\ h.frontEnd = hw.frontEnd
    BY <2>1 DEF Registers
  <2> QED
    BY <1>1, <1>2, <2>2
<1> QED
  BY <1>1, <1>2, <1>3

\* The calls between requests: RunIQK calibrates for current_band_type.
LEMMA IdleBInv ==
  ASSUME RInv, BInv,
         ArmIQKOnNextChannelSet \/ (\E s \in BOOLEAN : SetScanMode(s)) \/ RunIQK
  PROVE  BInv'
<1> USE DEF RInv, TypeOK, BInv
<1>1. /\ pc = "idle" /\ UNCHANGED <<chip, pc, asked, outcome, switchCut, iqkDropped>>
      /\ drv'.bwInitialized = drv.bwInitialized
      /\ drv'.rfCenterCh = drv.rfCenterCh /\ drv'.swChannel = drv.swChannel
      /\ drv'.bandType = drv.bandType
      /\ drv.needIQK => drv'.needIQK
  BY DEF ArmIQKOnNextChannelSet, SetScanMode, RunIQK, Members, history
<1>2. hw'.cckCheck = hw.cckCheck /\ hw'.frontEnd = hw.frontEnd
  <2>1. CASE RunIQK
    BY <2>1, IqkBandLeaves DEF RunIQK
  <2>2. CASE ~RunIQK
    BY <2>2 DEF ArmIQKOnNextChannelSet, SetScanMode
  <2> QED
    BY <2>1, <2>2
<1>3. BandKept'
  BY <1>1, <1>2 DEF BandKept
<1>4. CASE ~RunIQK
  <2>1. hw' = hw /\ calCut' = calCut
    BY <1>4 DEF ArmIQKOnNextChannelSet, SetScanMode, history
  <2> QED
    BY <1>1, <1>3, <2>1 DEF CalKept, Recalibrated, TxReleased
<1>5. CASE RunIQK /\ calCut'
  BY <1>1, <1>3, <1>5 DEF CalKept, Recalibrated, TxReleased
<1>6. CASE RunIQK /\ ~calCut'
  <2>1. hw' = Calibrated8812 /\ drv' = drv
    BY <1>6 DEF RunIQK
  <2>2. hw'.iqkFor = IqkBand /\ ~hw'.txPause
    BY <2>1, IqkBandLeaves
  <2>3. drv.bandType # "MAX" => hw'.iqkFor = drv.bandType
    BY <2>2 DEF IqkBand, Members, Bands
  <2>4. FrontEndMatches
    BY BandKeptMatches
  <2>5. CalKept' /\ TxReleased'
    BY <1>1, <2>1, <2>2, <2>3 DEF CalKept, TxReleased
  <2>6. Recalibrated'
    BY <1>1, <2>1, <2>3, <2>4 DEF Recalibrated, FrontEndMatches
  <2> QED
    BY <1>3, <2>5, <2>6
<1> QED
  BY <1>4, <1>5, <1>6

\* The members a request goes by in d are those of drv.
SameBand(d) ==
  /\ d.bwInitialized = drv.bwInitialized
  /\ d.rfCenterCh = drv.rfCenterCh /\ d.swChannel = drv.swChannel
  /\ d.bandType = drv.bandType

\* A call of todo returns, with no IQK left to run.
LEMMA ReturnsBInv ==
  ASSUME RInv, RInv', BInv, NEW d \in Members, Returns(d), SameBand(d),
         hw'.cckCheck = hw.cckCheck, hw'.frontEnd = hw.frontEnd,
         switchCut' = switchCut,
         pc \notin {"off", "idle", "band"}, todo # <<>>,
         todo = <<"set">> =>
           ~drv.swChannel /\ drv.rfCenterCh = Centre(asked.ch, asked.bw),
         chip = "8812" =>
           /\ ~d.needIQK
           /\ \/ drv.bandType = "MAX" \/ iqkDropped' \/ calCut' \/ switchCut
              \/ hw'.iqkFor = drv.bandType
           /\ hw'.txPause => calCut' \/ iqkDropped'
  PROVE  BInv'
<1> USE DEF RInv, TypeOK, BInv
<1>1. asked \in Requests /\ outcome = "running"
  BY DEF Progress
<1>2. SameBand(drv') /\ drv'.needIQK = d.needIQK
  BY DEF Returns, SameBand, Members
<1>3. Tail(todo) = <<>> <=> todo = <<"set">>
  BY TailTodo
<1>4. /\ chip' = chip /\ asked' = asked
      /\ \/ todo = <<"set">> /\ pc' = "idle" /\ outcome' = "ok"
         \/ pc' = "call" /\ outcome' = "running"
  BY <1>1, <1>3 DEF Returns
<1>5. BandKept'
  BY <1>1, <1>2, <1>4 DEF BandKept, SameBand
<1>6. CalKept'
  BY <1>2, <1>4 DEF CalKept, SameBand
<1>7. FrontEndMatches'
  BY <1>5, BandKeptMatches, PTL
<1>8. Recalibrated'
  BY <1>2, <1>4, <1>7 DEF Recalibrated, FrontEndMatches, SameBand
<1>9. TxReleased'
  BY <1>4 DEF TxReleased
<1> QED
  BY <1>5, <1>6, <1>8, <1>9

LEMMA HandledFields ==
  ASSUME drv \in Members, NEW t
  PROVE  LET d == Handled(drv, t) IN
         /\ d.swChannel = Retunes(drv, t) /\ d.bwInitialized = TRUE
         /\ d.rfCenterCh = IF Retunes(drv, t) THEN t.centre ELSE drv.rfCenterCh
         /\ d.bandType = drv.bandType /\ d.needIQK = drv.needIQK
BY DEF Handled, Members

\* PHY_HandleSwChnlAndSetBW8812 returns at once only if no IQK is due.
LEMMA HandleBInv ==
  ASSUME RInv, RInv', BInv, NEW t, IsTarget(t), pc = "call",
         Handle(t), UNCHANGED <<hw, history>>,
         todo = <<"set">> => t.centre = Centre(asked.ch, asked.bw)
  PROVE  BInv'
<1> USE DEF RInv, TypeOK, BInv
<1>1. hw' = hw /\ switchCut' = switchCut /\ calCut' = calCut /\ iqkDropped' = iqkDropped
  BY DEF history
<1>2. todo # <<>> /\ asked \in Requests /\ outcome = "running"
  BY DEF Progress
<1>3. CASE Retunes(drv, t) \/ Rewidens(drv, t) \/ drv.needIQK
  <2>1. /\ drv' = Handled(drv, t) /\ pc' = "swchnl"
        /\ UNCHANGED <<chip, todo, asked, outcome>>
    BY <1>3 DEF Handle
  <2>2. /\ drv'.swChannel = Retunes(drv, t) /\ drv'.bwInitialized = TRUE
        /\ drv'.rfCenterCh = IF Retunes(drv, t) THEN t.centre ELSE drv.rfCenterCh
        /\ drv'.bandType = drv.bandType /\ drv'.needIQK = drv.needIQK
    BY <2>1, HandledFields
  <2>3. drv'.swChannel \/ (drv'.rfCenterCh = drv.rfCenterCh /\ ~drv.swChannel)
    BY <2>2 DEF Retunes
  <2>4. BandKept'
    BY <1>1, <1>2, <2>1, <2>2, <2>3 DEF BandKept
  <2>5. CalKept'
    BY <1>1, <2>1, <2>2 DEF CalKept
  <2>6. Recalibrated' /\ TxReleased'
    BY <1>2, <2>1 DEF Recalibrated, TxReleased
  <2> QED
    BY <2>4, <2>5, <2>6
<1>4. CASE ~(Retunes(drv, t) \/ Rewidens(drv, t) \/ drv.needIQK)
  <2>1. Returns(drv) /\ SameBand(drv)
    BY <1>4 DEF Handle, SameBand
  <2>2. ~drv.swChannel /\ drv.rfCenterCh = t.centre /\ ~drv.needIQK
    BY <1>4 DEF Retunes
  <2>3. chip = "8812" =>
          /\ ~drv.needIQK
          /\ \/ drv.bandType = "MAX" \/ iqkDropped' \/ calCut' \/ switchCut
             \/ hw'.iqkFor = drv.bandType
          /\ hw'.txPause => calCut' \/ iqkDropped'
    BY <1>1, <2>2 DEF CalKept
  <2> QED
    BY <1>1, <1>2, <2>1, <2>2, <2>3, ReturnsBInv
<1> QED
  BY <1>3, <1>4

LEMMA CallBInv ==
  ASSUME RInv, RInv', BInv, CallHalSet \/ MlmeSkip \/ MlmeReset \/ CallSet
  PROVE  BInv'
<1> USE DEF RInv, TypeOK, BInv
<1>1. pc = "call" /\ todo # <<>> /\ asked \in Requests /\ outcome = "running"
  BY DEF Progress, CallHalSet, MlmeSkip, MlmeReset, CallSet
<1>2. CASE CallHalSet
  <2>1. Head(todo) = "halset" /\ Head(<<"set">>) = "set"
    BY <1>2 DEF CallHalSet
  <2> QED
    BY <1>1, <1>2, <2>1, HalTarget, HandleBInv DEF CallHalSet
<1>3. CASE CallSet
  <2>1. IsTarget(Target(asked)) /\ Target(asked).centre = Centre(asked.ch, asked.bw)
    BY <1>1, <1>3, RequestTarget DEF CallSet, Target
  <2> QED
    BY <1>1, <1>3, <2>1, HandleBInv DEF CallSet
<1>4. CASE MlmeSkip
  <2>1. Head(todo) = "mlme" /\ Head(<<"set">>) = "set" /\ Returns(drv) /\ chip = "8821"
    BY <1>4 DEF MlmeSkip
  <2>2. hw' = hw /\ switchCut' = switchCut /\ SameBand(drv)
    BY <1>4 DEF MlmeSkip, history, SameBand
  <2>3. todo # <<"set">> /\ chip # "8812"
    BY <2>1
  <2> QED
    BY <1>1, <2>1, <2>2, <2>3, ReturnsBInv
<1>5. CASE MlmeReset
  <2>1. /\ hw' = hw /\ switchCut' = switchCut /\ calCut' = calCut
        /\ iqkDropped' = iqkDropped
        /\ chip' = chip /\ pc' = pc /\ asked' = asked /\ outcome' = outcome
    BY <1>5 DEF MlmeReset, history
  <2>2. /\ drv'.bwInitialized = drv.bwInitialized
        /\ drv'.rfCenterCh = drv.rfCenterCh /\ drv'.swChannel = drv.swChannel
        /\ drv'.bandType = "MAX" /\ drv'.needIQK = drv.needIQK
    BY <1>5 DEF MlmeReset, Members
  <2>3. BandKept'
    BY <1>1, <2>1, <2>2 DEF BandKept
  <2> QED
    BY <1>1, <2>1, <2>2, <2>3 DEF CalKept, Recalibrated, TxReleased
<1> QED
  BY <1>2, <1>3, <1>4, <1>5

\* A band switch that completes brings CCK_CHECK, the front end and
\* current_band_type together, and has an IQK armed.
LEMMA BandBInv ==
  ASSUME RInv, BInv, HalBandDone \/ BandDone
  PROVE  BInv'
<1> USE DEF RInv, TypeOK, BInv
<1>1. /\ pc = "band" /\ UNCHANGED <<chip, asked, outcome, calCut, iqkDropped>>
      /\ \/ pc' = "call" /\ ~drv.swChannel /\ drv' = drv
         \/ pc' = "tune" /\ drv.swChannel /\ drv' = [drv EXCEPT !.needIQK = TRUE]
      /\ hw' = Switched(drv.bandType) /\ switchCut' = FALSE
  BY DEF HalBandDone, BandDone, Step
<1>2. /\ hw'.cckCheck = drv.bandType /\ hw'.frontEnd = drv.bandType
      /\ hw'.iqkFor = hw.iqkFor /\ hw'.txPause = hw.txPause
  BY <1>1 DEF Switched, Registers
<1>3. SameBand(drv') /\ drv'.channel = drv.channel
  BY <1>1 DEF SameBand, Members
<1>4. chip = "8812" => drv'.needIQK
  BY <1>1 DEF CalKept, Members
<1>5. outcome = "running" /\ (drv.swChannel \/ ~drv.bwInitialized)
  BY <1>1 DEF Progress
<1>6. BandKept'
  BY <1>1, <1>2, <1>3, <1>5 DEF BandKept, SameBand
<1>7. CalKept'
  BY <1>1, <1>4 DEF CalKept
<1> QED
  BY <1>1, <1>5, <1>6, <1>7 DEF Recalibrated, TxReleased

\* The steps that neither switch the band nor calibrate.
LEMMA PassBInv ==
  ASSUME RInv, BInv,
         SwChnlSkip \/ SwBandSame \/ SwBand \/ Tune \/ SetBwSkip \/ PostSetBw
  PROVE  BInv'
<1> USE DEF RInv, TypeOK, BInv
<1>1. /\ pc \in Setting /\ pc # "lck"
      /\ UNCHANGED <<chip, asked, outcome, switchCut, calCut, iqkDropped>>
      /\ pc' \in {"bw", "tune", "band", "iqk"}
  BY DEF SwChnlSkip, SwBandSame, SwBand, Tune, SetBwSkip, PostSetBw, Step,
         Setting, history
<1>2. outcome = "running"
  BY <1>1 DEF Progress, Setting
<1>3. Recalibrated' /\ TxReleased'
  BY <1>1, <1>2 DEF Recalibrated, TxReleased
<1>4. /\ hw'.cckCheck = hw.cckCheck /\ hw'.frontEnd = hw.frontEnd
      /\ hw'.iqkFor = hw.iqkFor /\ hw'.txPause = hw.txPause
  BY DEF SwChnlSkip, SwBandSame, SwBand, Tune, SetBwSkip, PostSetBw, Registers
<1>5. CASE SwChnlSkip \/ SwBandSame \/ SetBwSkip
  <2>1. drv' = drv /\ (pc' = "tune" => hw.cckCheck = Band(drv.channel)) /\ pc' # "band"
    BY <1>5 DEF SwChnlSkip, SwBandSame, SetBwSkip, Step
  <2>2. BandKept' /\ CalKept'
    BY <1>1, <1>2, <1>4, <2>1 DEF BandKept, CalKept, Setting
  <2> QED
    BY <1>3, <2>2
<1>6. CASE SwBand
  <2>1. /\ drv'.bwInitialized = drv.bwInitialized
        /\ drv'.rfCenterCh = drv.rfCenterCh /\ drv'.swChannel = drv.swChannel
        /\ drv'.channel = drv.channel /\ drv'.bandType = Band(drv.channel)
        /\ drv'.needIQK = drv.needIQK
        /\ drv.swChannel /\ pc' = "band"
    BY <1>6 DEF SwBand, Step, Members
  <2>2. BandKept' /\ CalKept'
    BY <1>1, <1>2, <1>4, <2>1 DEF BandKept, CalKept
  <2> QED
    BY <1>3, <2>2
<1>7. CASE Tune
  <2>1. /\ drv'.bwInitialized = drv.bwInitialized
        /\ drv'.rfCenterCh = drv.rfCenterCh /\ drv'.bandType = drv.bandType
        /\ drv'.needIQK = drv.needIQK /\ pc = "tune" /\ pc' = "bw"
    BY <1>7 DEF Tune, Step, Members
  <2>2. drv.channel = drv.rfCenterCh /\ hw.cckCheck = Band(drv.channel)
    BY <2>1 DEF Progress, Setting, BandKept
  <2>3. BandKept' /\ CalKept'
    BY <1>1, <1>2, <1>4, <2>1, <2>2 DEF BandKept, CalKept
  <2> QED
    BY <1>3, <2>3
<1>8. CASE PostSetBw
  <2>1. /\ SameBand(drv') /\ drv'.needIQK = drv.needIQK
        /\ pc = "bw" /\ pc' = "iqk"
    BY <1>8 DEF PostSetBw, Step, Members, SameBand
  <2>2. BandKept' /\ CalKept'
    BY <1>1, <1>2, <1>4, <2>1 DEF BandKept, CalKept, SameBand
  <2> QED
    BY <1>3, <2>2
<1> QED
  BY <1>5, <1>6, <1>7, <1>8

\* An IQK of the 8812 is for current_band_type, and releases TXPAUSE.
LEMMA Iqk8812BInv ==
  ASSUME RInv, BInv, Iqk8812
  PROVE  BInv'
<1> USE DEF RInv, TypeOK, BInv
<1>1. /\ pc = "iqk" /\ pc' = "lck" /\ hw' = Calibrated8812
      /\ UNCHANGED <<chip, asked, outcome, switchCut>>
      /\ ~calCut' /\ ~iqkDropped' /\ drv' = IqkDone
  BY DEF Iqk8812, Step
<1>2. /\ hw'.cckCheck = hw.cckCheck /\ hw'.frontEnd = hw.frontEnd
      /\ hw'.iqkFor = IqkBand /\ ~hw'.txPause
  BY <1>1, IqkBandLeaves
<1>3. SameBand(drv') /\ ~drv'.needIQK
  BY <1>1 DEF IqkDone, SameBand, Members
<1>4. drv.bandType # "MAX" => hw'.iqkFor = drv.bandType
  BY <1>2 DEF IqkBand, Members, Bands
<1>5. outcome = "running"
  BY <1>1 DEF Progress
<1>6. BandKept'
  BY <1>1, <1>2, <1>3, <1>5 DEF BandKept, SameBand
<1>7. CalKept'
  BY <1>1, <1>2, <1>3, <1>4 DEF CalKept, SameBand
<1> QED
  BY <1>1, <1>5, <1>6, <1>7 DEF Recalibrated, TxReleased

\* The last step of a request leaves no IQK armed: it has run or been dropped.
LEMMA LastBInv ==
  ASSUME RInv, RInv', BInv, IqkSkip \/ Iqk8814 \/ Lck
  PROVE  BInv'
<1> USE DEF RInv, TypeOK, BInv
<1>1. pc \in {"iqk", "lck"} /\ switchCut' = switchCut
  BY DEF IqkSkip, Iqk8814, Lck, history
<1>2. todo # <<>> /\ ~drv.swChannel
  BY <1>1 DEF Progress
<1>3. todo = <<"set">> => drv.rfCenterCh = Centre(asked.ch, asked.bw)
  <2>1. Head(<<"set">>) = "set"
    OBVIOUS
  <2> QED
    BY <1>1, <2>1 DEF Progress, Setting, Meant, Target
<1>4. IqkDone \in Members /\ SameBand(IqkDone) /\ ~IqkDone.needIQK
  BY DEF IqkDone, SameBand, Members
<1>5. CASE IqkSkip
  <2>1. /\ Returns(IqkDone) /\ hw' = hw /\ calCut' = calCut
        /\ iqkDropped' = (iqkDropped \/ drv.needIQK) /\ pc = "iqk"
    BY <1>5 DEF IqkSkip
  <2>2. chip = "8812" =>
          /\ \/ drv.bandType = "MAX" \/ iqkDropped' \/ calCut' \/ switchCut
             \/ hw'.iqkFor = drv.bandType
          /\ hw'.txPause => calCut' \/ iqkDropped'
    BY <2>1 DEF CalKept
  <2> QED
    BY <1>1, <1>2, <1>3, <1>4, <2>1, <2>2, ReturnsBInv
<1>6. CASE Iqk8814
  <2>1. Returns(IqkDone) /\ hw' = [hw EXCEPT !.iqkFor = IqkBand] /\ chip = "8814"
    BY <1>6 DEF Iqk8814
  <2>2. hw'.cckCheck = hw.cckCheck /\ hw'.frontEnd = hw.frontEnd /\ chip # "8812"
    BY <2>1, IqkBandLeaves
  <2> QED
    BY <1>1, <1>2, <1>3, <1>4, <2>1, <2>2, ReturnsBInv
<1>7. CASE Lck
  <2>1. /\ Returns(drv) /\ hw' = [hw EXCEPT !.txPause = FALSE] /\ pc = "lck"
        /\ calCut' = calCut /\ iqkDropped' = iqkDropped
    BY <1>7 DEF Lck, history
  <2>2. /\ hw'.cckCheck = hw.cckCheck /\ hw'.frontEnd = hw.frontEnd
        /\ hw'.iqkFor = hw.iqkFor /\ ~hw'.txPause
    BY <2>1 DEF Registers
  <2>3. ~drv.needIQK /\ SameBand(drv)
    BY <2>1 DEF CalKept, SameBand
  <2>4. chip = "8812" =>
          /\ \/ drv.bandType = "MAX" \/ iqkDropped' \/ calCut' \/ switchCut
             \/ hw'.iqkFor = drv.bandType
          /\ hw'.txPause => calCut' \/ iqkDropped'
    BY <2>1, <2>2, <2>3 DEF CalKept
  <2> QED
    BY <1>1, <1>2, <1>3, <2>1, <2>2, <2>3, <2>4, ReturnsBInv
<1> QED
  BY <1>5, <1>6, <1>7

\* An exception: only inside a band switch does it touch CCK_CHECK or the
\* front end, and only inside a calibration the rest, with the IQK still armed.
LEMMA ThrowsBInv ==
  ASSUME RInv, BInv, Throws
  PROVE  BInv'
<1> USE DEF RInv, TypeOK, BInv
<1>1. /\ pc \notin {"off", "idle"} /\ pc' = "idle" /\ outcome' = "threw"
      /\ chip' = chip /\ drv' = drv /\ iqkDropped' = iqkDropped
      /\ hw' \in CutShort
      /\ switchCut' = (switchCut \/ pc = "band")
      /\ calCut' = (calCut \/ pc = "lck")
  BY DEF Throws
<1>2. Recalibrated' /\ TxReleased'
  BY <1>1 DEF Recalibrated, TxReleased
<1>3. CASE pc = "band"
  <2>1. hw' \in BandCutShort
    BY <1>1, <1>3 DEF CutShort
  <2>2. hw'.txPause = hw.txPause
    BY <2>1 DEF BandCutShort, Registers
  <2>3. drv.swChannel \/ ~drv.bwInitialized
    BY <1>3 DEF Progress
  <2>4. BandKept'
    BY <1>1, <1>3, <2>3 DEF BandKept
  <2>5. CalKept'
    BY <1>1, <1>3, <2>2 DEF CalKept
  <2> QED
    BY <1>2, <2>4, <2>5
<1>4. CASE pc # "band"
  <2>1. /\ hw'.cckCheck = hw.cckCheck /\ hw'.frontEnd = hw.frontEnd
        /\ hw'.iqkFor = hw.iqkFor \/ (pc = "iqk" /\ drv.needIQK)
        /\ \/ hw'.txPause = hw.txPause
           \/ pc = "iqk" /\ drv.needIQK
           \/ pc = "lck"
    <3>1. CASE pc = "iqk" /\ WillIqk /\ chip \in {"8812", "8814"}
      <4>1. hw' \in IqkCutShort
        BY <1>1, <3>1 DEF CutShort
      <4> QED
        BY <3>1, <4>1, IqkBandLeaves DEF WillIqk
    <3>2. CASE pc = "lck"
      <4>1. hw' \in {hw, [hw EXCEPT !.txPause = TRUE]}
        BY <1>1, <3>2 DEF CutShort
      <4> QED
        BY <3>2, <4>1 DEF Registers
    <3>3. CASE pc # "lck" /\ ~(pc = "iqk" /\ WillIqk /\ chip \in {"8812", "8814"})
      <4>1. PICK c : c = Secondary(drv)
        OBVIOUS
      <4>2. \/ hw' \in {hw, [hw EXCEPT !.rfChannel = Torn]}
            \/ hw' = [hw EXCEPT !.rfBw = Torn, !.bbBw = drv.bw, !.dataSc = c]
        BY <1>1, <1>4, <3>3, <4>1 DEF CutShort
      <4> QED
        BY <4>2 DEF Registers
    <3> QED
      BY <3>1, <3>2, <3>3
  <2>2. BandKept'
    BY <1>1, <1>4, <2>1 DEF BandKept
  <2>3. CalKept'
    BY <1>1, <1>4, <2>1 DEF CalKept
  <2> QED
    BY <1>2, <2>2, <2>3
<1> QED
  BY <1>3, <1>4

LEMMA NextBInv == RInv /\ RInv' /\ BInv /\ [Next]_vars => BInv'
<1> SUFFICES ASSUME RInv, RInv', BInv, [Next]_vars PROVE BInv'
  OBVIOUS
<1>1. CASE UNCHANGED vars
  BY <1>1 DEF vars, history, BInv, BandKept, CalKept, Recalibrated, TxReleased
<1>2. CASE \E r \in Requests : HalInit(r) \/ SetChannel(r)
  BY <1>2, BeginBInv
<1>3. CASE ArmIQKOnNextChannelSet \/ (\E s \in BOOLEAN : SetScanMode(s)) \/ RunIQK
  BY <1>3, IdleBInv
<1>4. CASE CallHalSet \/ MlmeSkip \/ MlmeReset \/ CallSet
  BY <1>4, CallBInv
<1>5. CASE HalBandDone \/ BandDone
  BY <1>5, BandBInv
<1>6. CASE SwChnlSkip \/ SwBandSame \/ SwBand \/ Tune \/ SetBwSkip \/ PostSetBw
  BY <1>6, PassBInv
<1>7. CASE Iqk8812
  BY <1>7, Iqk8812BInv
<1>8. CASE IqkSkip \/ Iqk8814 \/ Lck
  BY <1>8, LastBInv
<1>9. CASE Throws
  BY <1>9, ThrowsBInv
<1> QED
  BY <1>1, <1>2, <1>3, <1>4, <1>5, <1>6, <1>7, <1>8, <1>9 DEF Next

\* BInv holds throughout, by induction on top of RInv.
THEOREM RadioBandInv == Spec => []BInv
BY InitBInv, NextBInv, RadioInv, PTL DEF Spec

\* A set_channel_bwmode that returns has the front end set up for the band of
\* the channel, unless an exception cut a band switch short and none has
\* completed since: CCK_CHECK is not ahead of the rest for any other reason.
THEOREM FrontEndAlwaysMatches == Spec => []FrontEndMatches
<1>1. RInv /\ BInv => FrontEndMatches
  BY BandKeptMatches DEF BInv
<1> QED
  BY <1>1, RadioInv, RadioBandInv, PTL

\* An 8812 that has crossed from one band to the other is calibrated for the
\* one it is on: the armed IQK survives every exception and every skip.
THEOREM AlwaysRecalibrated == Spec => []Recalibrated
<1>1. BInv => Recalibrated
  BY DEF BInv
<1> QED
  BY <1>1, RadioBandInv, PTL

\* A channel set that returns leaves an 8812's queues paused only after a
\* calibration that threw and that nothing repeats, or one a scan dropped.
THEOREM TxAlwaysReleased == Spec => []TxReleased
<1>1. BInv => TxReleased
  BY DEF BInv
<1> QED
  BY <1>1, RadioBandInv, PTL

=============================================================================
