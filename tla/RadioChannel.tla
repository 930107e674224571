---------------------------- MODULE RadioChannel -----------------------------
(***************************************************************************)
(* RadioManagementModule: bringing the radio to a channel and a width, from *)
(* the bring-up in HalModule on.  One thread calls it.  Any register read   *)
(* may throw and leave the rest of a call undone; the exception goes to the *)
(* caller, who may ask for another channel.  A register write that fails is *)
(* not noticed by the code, and is left out, as are the register values     *)
(* that do not depend on the channel, the TX power indices and the          *)
(* environment switches.                                                    *)
(***************************************************************************)
EXTENDS Integers, Sequences

CONSTANTS
  Chips,         \* the chips considered, of "8812", "8814" and "8821"
  Requests       \* the channels asked for: [ch, off, bw]

ASSUME RequestsAssumption ==
  /\ Chips \subseteq {"8812", "8814", "8821"}
  /\ Requests \subseteq [ch : Nat \ {0}, off : 0 .. 2, bw : Nat]

VARIABLES
  chip,
  pc, todo,      \* the step under way, and the calls of Init still to make
  asked,         \* the channel asked for; Nothing after an exception
  outcome,       \* how the last request ended
  drv,           \* the members of RadioManagementModule
  hw             \* the registers of the radio

\* History: a band switch was cut short by an exception and none completed
\* since; so was a calibration that nothing repeats; an IQK that was due was
\* dropped in a scan.
VARIABLES switchCut, calCut, iqkDropped

history == <<switchCut, calCut, iqkDropped>>
vars == <<chip, pc, todo, asked, outcome, drv, hw, history>>

-----------------------------------------------------------------------------
(***************************************************************************)
(* Channel arithmetic.                                                     *)
(***************************************************************************)
Width == {20, 40, 80}
WidthMax == 7                       \* CHANNEL_WIDTH_MAX
Torn == 255                         \* a register group written in part

Nothing == [ch |-> 0, off |-> 0, bw |-> 0]

Band(ch) == IF ch > 14 THEN "5G" ELSE "2.4G"

\* get_40mhz_center_channel: the primaries it places below and above the
\* centre of their pair; any other is its own centre.
Below40 == {4, 36, 44, 52, 60, 100, 108, 116, 124, 132, 140, 149, 153, 157, 161}
Above40 == {8, 40, 48, 56, 64, 104, 112, 120, 128, 136, 144}

Centre40(ch) ==
  IF ch \in Below40 THEN ch + 2 ELSE IF ch \in Above40 THEN ch - 2 ELSE ch

Blocks80 == {42, 58, 106, 122, 138, 155, 171}

Centre80(ch) ==
  IF \E c \in Blocks80 : ch \in {c - 6, c - 2, c + 2, c + 6}
  THEN CHOOSE c \in Blocks80 : ch \in {c - 6, c - 2, c + 2, c + 6}
  ELSE IF ch <= 14 THEN 7 ELSE ch

\* rtw_get_center_ch
Centre(ch, bw) ==
  CASE bw = 80 -> Centre80(ch) [] bw = 40 -> Centre40(ch) [] OTHER -> ch

\* HAL_PRIME_CHNL_OFFSET_DONT_CARE, _LOWER and _UPPER
Offset(ch, centre) == IF centre > ch THEN 1 ELSE IF centre < ch THEN 2 ELSE 0

\* Variant: the 40 MHz offset within an 80 MHz block is the caller's.
TargetNoHalf(r) ==
  [centre |-> Centre(r.ch, r.bw), bw |-> r.bw, sc40 |-> r.off,
   sc80 |-> IF r.bw = 80 THEN Offset(r.ch, Centre80(r.ch)) ELSE 0]

\* What set_channel_bwmode passes down.
Target(r) ==
  [centre |-> Centre(r.ch, r.bw),
   bw     |-> r.bw,
   sc40   |-> IF r.bw = 80 THEN Offset(r.ch, Centre40(r.ch)) ELSE r.off,
   sc80   |-> IF r.bw = 80 THEN Offset(r.ch, Centre80(r.ch)) ELSE 0]

\* phy_GetSecondaryChnl_8812: the VHT_DATA_SC of the 40 MHz half and of the
\* primary; 0 is undefined.
Secondary(t) ==
  CASE t.bw = 80 ->
         << CASE t.sc80 = 1 -> 10 [] t.sc80 = 2 -> 9 [] OTHER -> 0,
            CASE t.sc40 = 1 /\ t.sc80 = 1 -> 4
              [] t.sc40 = 2 /\ t.sc80 = 1 -> 2
              [] t.sc40 = 1 /\ t.sc80 = 2 -> 1
              [] t.sc40 = 2 /\ t.sc80 = 2 -> 3
              [] OTHER -> 0 >>
    [] t.bw = 40 -> << 0, CASE t.sc40 = 2 -> 1 [] t.sc40 = 1 -> 2 [] OTHER -> 0 >>
    [] OTHER -> << 0, 0 >>

-----------------------------------------------------------------------------
\* The members that have no initialiser (channel, bw, centreIndex, sc40, sc80,
\* bandType) are assigned before anything below reads them.
Init ==
  /\ chip \in Chips
  /\ pc = "off" /\ todo = <<>>
  /\ asked = Nothing /\ outcome = "none"
  /\ drv = [channel |-> 0, bw |-> WidthMax, rfCenterCh |-> 0,
            centreIndex |-> 0, sc40 |-> 0, sc80 |-> 0, bandType |-> "MAX",
            swChannel |-> FALSE, setBw |-> FALSE, bwInitialized |-> FALSE,
            needIQK |-> FALSE, scanMode |-> FALSE]
  /\ hw = [cckCheck |-> "2.4G", frontEnd |-> "torn", rfChannel |-> Torn,
           rfBw |-> Torn, bbBw |-> Torn, dataSc |-> <<Torn, Torn>>,
           iqkFor |-> "none", txPause |-> FALSE]
  /\ switchCut = FALSE /\ calCut = FALSE /\ iqkDropped = FALSE

(***************************************************************************)
(* The bring-up.  rtl8812au_hal_init arms the IQK (8812 only) and switches *)
(* to the band of the channel, whatever the registers say; it then sets    *)
(* the channel at 20 MHz.  init_hw_mlme_ext and SetMonitorChannel follow.  *)
(***************************************************************************)
HalInit(r) ==
  /\ pc = "off"
  /\ asked' = r /\ outcome' = "running"
  /\ drv' = [drv EXCEPT !.needIQK = (chip = "8812"), !.bandType = Band(r.ch)]
  /\ todo' = <<"halset", "mlme", "set">>
  /\ pc' = "band"
  /\ UNCHANGED <<chip, hw, history>>

\* SetMonitorChannel, and the callers of set_channel_bwmode in StationMode.
\* An application that catches the exception of Init may go on with this.
SetChannel(r) ==
  /\ pc = "idle"
  /\ asked' = r /\ outcome' = "running"
  /\ todo' = <<"set">>
  /\ pc' = "call"
  /\ UNCHANGED <<chip, drv, hw, history>>

ArmIQKOnNextChannelSet ==
  /\ pc = "idle"
  /\ drv' = [drv EXCEPT !.needIQK = TRUE]
  /\ UNCHANGED <<chip, pc, todo, asked, outcome, hw, history>>

\* setScanMode, for the application: nothing in the repository calls it.
SetScanMode(s) ==
  /\ pc = "idle"
  /\ drv' = [drv EXCEPT !.scanMode = s]
  /\ UNCHANGED <<chip, pc, todo, asked, outcome, hw, history>>

-----------------------------------------------------------------------------
\* The call at the head of todo returns; set_channel_bwmode ends by making
\* the primary the current channel.
Returns(d) ==
  /\ todo' = Tail(todo)
  /\ drv' = IF Head(todo) = "set" THEN [d EXCEPT !.channel = asked.ch] ELSE d
  /\ IF Tail(todo) = <<>> THEN pc' = "idle" /\ outcome' = "ok"
                          ELSE pc' = "call" /\ UNCHANGED outcome
  /\ UNCHANGED <<chip, asked>>

\* Variant: the skip check compares the primary channel.
RetunesByPrimary(d, t) == d.swChannel \/ d.channel # t.centre

Retunes(d, t) == d.swChannel \/ d.rfCenterCh # t.centre

Rewidens(d, t) ==
  \/ d.setBw \/ ~d.bwInitialized
  \/ d.bw # t.bw \/ d.sc40 # t.sc40 \/ d.sc80 # t.sc80
  \/ d.centreIndex # t.centre

\* PHY_HandleSwChnlAndSetBW8812: what it notes before any register is written.
Handled(d, t) ==
  LET sw == Retunes(d, t)
      sb == Rewidens(d, t)
  IN [d EXCEPT
        !.swChannel = sw, !.setBw = sb, !.bwInitialized = TRUE,
        !.channel     = IF sw THEN t.centre ELSE @,
        !.rfCenterCh  = IF sw THEN t.centre ELSE @,
        !.centreIndex = IF sw \/ sb THEN t.centre ELSE @,
        !.bw   = IF sb THEN t.bw ELSE @,
        !.sc40 = IF sb THEN t.sc40 ELSE @,
        !.sc80 = IF sb THEN t.sc80 ELSE @]

\* Nothing differs and no IQK is due: return, else do it.
Handle(t) ==
  IF Retunes(drv, t) \/ Rewidens(drv, t) \/ drv.needIQK
  THEN /\ drv' = Handled(drv, t)
       /\ pc' = "swchnl"
       /\ UNCHANGED <<chip, todo, asked, outcome>>
  ELSE Returns(drv)

CallHalSet ==
  /\ pc = "call" /\ Head(todo) = "halset"
  /\ Handle(Target([ch |-> asked.ch, off |-> 0, bw |-> 20]))
  /\ UNCHANGED <<hw, history>>

SameTarget ==
  /\ drv.channel = asked.ch /\ drv.bw = asked.bw /\ drv.sc40 = asked.off
  /\ drv.bandType # "MAX"

\* init_hw_mlme_ext: an 8821 that is there already is left alone.
MlmeSkip ==
  /\ pc = "call" /\ Head(todo) = "mlme"
  /\ SameTarget /\ chip = "8821"
  /\ Returns(drv)
  /\ UNCHANGED <<hw, history>>

\* Else the members are reset, and set_channel_bwmode is called.
MlmeReset ==
  /\ pc = "call" /\ Head(todo) = "mlme"
  /\ ~(SameTarget /\ chip = "8821")
  /\ drv' = [drv EXCEPT !.channel = 0, !.bw = WidthMax, !.bandType = "MAX"]
  /\ todo' = [todo EXCEPT ![1] = "set"]
  /\ UNCHANGED <<chip, pc, asked, outcome, hw, history>>

\* set_channel_bwmode
CallSet ==
  /\ pc = "call" /\ Head(todo) = "set" /\ asked.bw \in Width
  /\ Handle(Target(asked))
  /\ UNCHANGED <<hw, history>>

-----------------------------------------------------------------------------
(***************************************************************************)
(* phy_SwChnlAndSetBwMode8812, step by step.                               *)
(***************************************************************************)
Step(from, to) ==
  /\ pc = from /\ pc' = to
  /\ UNCHANGED <<chip, todo, asked, outcome>>

SwChnlSkip ==
  /\ ~drv.swChannel
  /\ Step("swchnl", "bw")
  /\ UNCHANGED <<drv, hw, history>>

\* phy_SwBand8812 asks the radio which band it is on.
SwBandSame ==
  /\ drv.swChannel /\ hw.cckCheck = Band(drv.channel)
  /\ Step("swchnl", "tune")
  /\ UNCHANGED <<drv, hw, history>>

SwBand ==
  /\ drv.swChannel /\ hw.cckCheck # Band(drv.channel)
  /\ Step("swchnl", "band")
  /\ drv' = [drv EXCEPT !.bandType = Band(drv.channel)]
  /\ UNCHANGED <<hw, history>>

\* Variant: the 8814's width is written without a look at it.
BandWidthUnchecked(b) ==
  CASE chip = "8812" -> IF b = "5G" THEN 80 ELSE 40
    [] chip = "8814" -> drv.bw
    [] OTHER -> hw.bbBw

\* PHY_SwitchWirelessBand8812 sets the BB width too, to 80 on 5 GHz and to
\* 40 else (not on an 8821); PHY_SwitchWirelessBand8814A to the current one.
BandWidth(b) ==
  CASE chip = "8812" -> IF b = "5G" THEN 80 ELSE 40
    [] chip = "8814" /\ drv.bw \in Width -> drv.bw
    [] OTHER -> hw.bbBw

\* Variant: CCK_CHECK is not written.
SwitchedNoCheck(b) == [hw EXCEPT !.frontEnd = b, !.bbBw = BandWidth(b)]

Switched(b) ==
  [hw EXCEPT !.cckCheck = b, !.frontEnd = b, !.bbBw = BandWidth(b)]

\* What an exception leaves of it: CCK_CHECK is written first for 5 GHz, and
\* for 2.4 GHz after the front end and, but for the 8814, the width.
BandCutShort ==
  LET torn == [hw EXCEPT !.frontEnd = "torn"]
      wide == [torn EXCEPT !.bbBw = BandWidth(drv.bandType)]
  IN IF drv.bandType = "5G"
     THEN {hw} \cup {[h EXCEPT !.cckCheck = "5G"] : h \in {hw, torn, wide}}
     ELSE {hw, torn, wide} \cup
          {[h EXCEPT !.cckCheck = "2.4G"] :
             h \in {wide} \cup (IF chip = "8814" THEN {torn} ELSE {})}

\* rtl8812au_hal_init has switched, an 8814 too with the 8812's sequence ...
HalBandDone ==
  /\ ~drv.swChannel
  /\ Step("band", "call")
  /\ hw' = Switched(drv.bandType)
  /\ switchCut' = FALSE
  /\ UNCHANGED <<drv, calCut, iqkDropped>>

\* Variant: a band switch does not ask for an IQK.
BandDoneNoIqk ==
  /\ drv.swChannel
  /\ Step("band", "tune")
  /\ hw' = Switched(drv.bandType)
  /\ switchCut' = FALSE
  /\ UNCHANGED <<drv, calCut, iqkDropped>>

\* ... or phy_SwBand8812 has.
BandDone ==
  /\ drv.swChannel
  /\ Step("band", "tune")
  /\ hw' = Switched(drv.bandType)
  /\ drv' = [drv EXCEPT !.needIQK = TRUE]
  /\ switchCut' = FALSE
  /\ UNCHANGED <<calCut, iqkDropped>>

\* phy_SwChnl8812 and phy_SwChnl8814A: RF 0x18 on every path.
Tune ==
  /\ Step("tune", "bw")
  /\ hw' = [hw EXCEPT !.rfChannel = drv.channel]
  /\ drv' = [drv EXCEPT !.swChannel = FALSE]
  /\ UNCHANGED history

SetBwSkip ==
  /\ ~drv.setBw
  /\ Step("bw", "iqk")
  /\ UNCHANGED <<drv, hw, history>>

\* phy_PostSetBwMode8812 and phy_PostSetBwMode8814A
PostSetBw ==
  /\ drv.setBw
  /\ Step("bw", "iqk")
  /\ hw' = [hw EXCEPT !.rfBw = drv.bw, !.bbBw = drv.bw,
                      !.dataSc = Secondary(drv)]
  /\ drv' = [drv EXCEPT !.setBw = FALSE]
  /\ UNCHANGED history

\* The TX power indices and the thermal-meter tick are left out; what follows
\* is the calibration, if one is due.
WillIqk == drv.needIQK /\ ~drv.scanMode

IqkDone == [drv EXCEPT !.needIQK = FALSE]

\* No IQK is due, one is due in a scan, or the chip has none.
IqkSkip ==
  /\ pc = "iqk" /\ ~(WillIqk /\ chip \in {"8812", "8814"})
  /\ iqkDropped' = (iqkDropped \/ drv.needIQK)
  /\ Returns(IqkDone)
  /\ UNCHANGED <<hw, switchCut, calCut>>

\* What an exception leaves of an I/Q calibration.
IqkCutShort ==
  {[hw EXCEPT !.iqkFor = i, !.txPause = t] :
     i \in {hw.iqkFor, "torn"}, t \in {hw.txPause, TRUE}}

\* Both Calibrate procedures take any band that is not BAND_ON_5G for 2.4 GHz.
IqkBand == IF drv.bandType = "5G" THEN "5G" ELSE "2.4G"

\* Variant: TXPAUSE comes back as it was found.
Calibrated8812Restoring == [hw EXCEPT !.iqkFor = IqkBand]

\* Iqk8812a::Calibrate ends by releasing TXPAUSE.
Calibrated8812 == [hw EXCEPT !.iqkFor = IqkBand, !.txPause = FALSE]

Iqk8812 ==
  /\ WillIqk /\ chip = "8812"
  /\ Step("iqk", "lck")
  /\ hw' = Calibrated8812
  /\ drv' = IqkDone
  /\ calCut' = FALSE /\ iqkDropped' = FALSE
  /\ UNCHANGED switchCut

\* Iqk8814a::Calibrate restores TXPAUSE as it found it.
Iqk8814 ==
  /\ pc = "iqk" /\ WillIqk /\ chip = "8814"
  /\ hw' = [hw EXCEPT !.iqkFor = IqkBand]
  /\ iqkDropped' = FALSE
  /\ Returns(IqkDone)
  /\ UNCHANGED <<switchCut, calCut>>

\* RunIQK: StationMode calls it while the calibration has not converged, and
\* swallows its exception.  It is the 8812's; on another chip it is left out.
RunIQK ==
  /\ pc = "idle" /\ chip = "8812"
  /\ \/ /\ hw' = Calibrated8812
        /\ calCut' = FALSE
     \/ /\ hw' \in IqkCutShort
        /\ calCut' = TRUE
  /\ UNCHANGED <<chip, pc, todo, asked, outcome, drv, switchCut, iqkDropped>>

\* phy_lc_calibrate_8812a pauses TX and releases it.
Lck ==
  /\ pc = "lck"
  /\ hw' = [hw EXCEPT !.txPause = FALSE]
  /\ Returns(drv)
  /\ UNCHANGED history

-----------------------------------------------------------------------------
(***************************************************************************)
(* A register read throws.  CutShort: what may have been written by then.  *)
(***************************************************************************)
CutShort ==
  CASE pc = "band" -> BandCutShort
    [] pc = "tune" -> {hw, [hw EXCEPT !.rfChannel = Torn]}
    [] pc = "bw" /\ drv.setBw ->
         {hw, [hw EXCEPT !.rfBw = Torn, !.bbBw = drv.bw, !.dataSc = Secondary(drv)]}
    [] pc = "iqk" /\ WillIqk /\ chip \in {"8812", "8814"} -> IqkCutShort
    [] pc = "lck" -> {hw, [hw EXCEPT !.txPause = TRUE]}
    [] OTHER -> {hw}

\* Also std::logic_error, of a width that is none of Width.
Throws ==
  /\ pc \notin {"off", "idle"}
  /\ pc' = "idle" /\ todo' = <<>>
  /\ asked' = Nothing /\ outcome' = "threw"
  /\ hw' \in CutShort
  /\ switchCut' = (switchCut \/ pc = "band")
  /\ calCut' = (calCut \/ pc = "lck")
  /\ UNCHANGED <<chip, drv, iqkDropped>>

Next ==
  \/ \E r \in Requests : HalInit(r) \/ SetChannel(r)
  \/ ArmIQKOnNextChannelSet \/ \E s \in BOOLEAN : SetScanMode(s)
  \/ CallHalSet \/ MlmeSkip \/ MlmeReset \/ CallSet
  \/ SwChnlSkip \/ SwBandSame \/ SwBand \/ HalBandDone \/ BandDone \/ Tune
  \/ SetBwSkip \/ PostSetBw
  \/ IqkSkip \/ Iqk8812 \/ Iqk8814 \/ Lck \/ RunIQK
  \/ Throws

Spec == Init /\ [][Next]_vars

-----------------------------------------------------------------------------
(***************************************************************************)
(* Properties.                                                             *)
(***************************************************************************)
Bands == {"2.4G", "5G"}

Centres == {Centre(r.ch, r.bw) : r \in Requests} \cup {r.ch : r \in Requests}

Members ==
  [channel : Centres \cup {0}, bw : Width \cup {WidthMax},
   rfCenterCh : Centres \cup {0}, centreIndex : Centres \cup {0},
   sc40 : 0 .. 2, sc80 : 0 .. 2, bandType : Bands \cup {"MAX"},
   swChannel : BOOLEAN, setBw : BOOLEAN, bwInitialized : BOOLEAN,
   needIQK : BOOLEAN, scanMode : BOOLEAN]

Registers ==
  [cckCheck : Bands, frontEnd : Bands \cup {"torn"},
   rfChannel : Centres \cup {Torn}, rfBw : Width \cup {Torn},
   bbBw : Width \cup {Torn}, dataSc : {0, 9, 10, Torn} \X {0, 1, 2, 3, 4, Torn},
   iqkFor : Bands \cup {"none", "torn"}, txPause : BOOLEAN]

Todo == {<<>>, <<"set">>, <<"set", "set">>, <<"mlme", "set">>,
         <<"halset", "mlme", "set">>}

\* The members and registers stay in their ranges: 255 and "torn" stand for
\* what an exception has left half written.
TypeOK ==
  /\ chip \in Chips
  /\ pc \in {"off", "idle", "call", "swchnl", "band", "tune", "bw", "iqk", "lck"}
  /\ todo \in Todo
  /\ asked \in Requests \cup {Nothing}
  /\ outcome \in {"none", "running", "ok", "threw"}
  /\ drv \in Members
  /\ hw \in Registers
  /\ switchCut \in BOOLEAN /\ calCut \in BOOLEAN /\ iqkDropped \in BOOLEAN

\* Whatever was asked before, and however often a request was cut short by an
\* exception, a set_channel_bwmode that returns has the synthesiser on the
\* centre of the channel asked for, and RF, BB and sub-channel at its width:
\* the skip checks of PHY_HandleSwChnlAndSetBW8812 never skip what is needed.
Tuned ==
  outcome = "ok" =>
    /\ hw.rfChannel = Target(asked).centre
    /\ hw.rfBw = asked.bw /\ hw.bbBw = asked.bw
    /\ hw.dataSc = Secondary(Target(asked))

\* ... and the front end is set up for its band, unless an exception cut a
\* band switch short: CCK_CHECK, from which phy_SwBand8812 tells the band,
\* may then be ahead of the rest, and a retry does not repeat the switch.
FrontEndMatches ==
  outcome = "ok" /\ ~switchCut =>
    /\ hw.frontEnd = Band(asked.ch)
    /\ drv.bandType \in {Band(asked.ch), "MAX"}

\* A band switch invalidates the I/Q calibration: an 8812 is calibrated for
\* the band it is on once it has crossed from one to the other, unless the IQK
\* fell into a scan or a calibration or a switch was cut short.  (Before it
\* has, current_band_type is BAND_MAX, which the IQK takes for 2.4 GHz.)
Recalibrated ==
  outcome = "ok" /\ chip = "8812" /\ drv.bandType # "MAX"
    /\ ~(iqkDropped \/ calCut \/ switchCut)
  => hw.iqkFor = Band(asked.ch)

\* A channel set never hands an 8812 back with its queues paused, so that
\* nothing would radiate, but for a calibration that threw and that nothing
\* repeats.
TxReleased ==
  outcome = "ok" /\ chip = "8812" /\ hw.txPause => calCut \/ iqkDropped

\* At 80 MHz the sub-channel code is that of the 20 MHz quarter the primary is
\* in, and of its 40 MHz half.  Not so for the primaries of the UNII-3 block
\* above 149 and beyond: get_40mhz_center_channel does not pair them up.
SubchannelOfPrimary ==
  LET Unpaired == {153, 161, 165, 169, 173, 177}
      Code == [d \in {-6, -2, 2, 6} |->
                 CASE d = -6 -> <<10, 4>> [] d = -2 -> <<10, 2>>
                   [] d = 2  -> <<9, 1>>  [] d = 6  -> <<9, 3>>]
      Quarters == UNION {{c - 6, c - 2, c + 2, c + 6} : c \in Blocks80}
  IN outcome = "ok" /\ asked.bw = 80 /\ asked.ch \in Quarters \ Unpaired
     => hw.dataSc = Code[asked.ch - hw.rfChannel]

=============================================================================
