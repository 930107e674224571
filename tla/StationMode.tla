----------------------------- MODULE StationMode -----------------------------
(***************************************************************************)
(* StationMode: finding the access point (scanForSsid) and joining it      *)
(* (runProbe), from the construction of one StationMode object to the end  *)
(* of its probe.  The control thread runs both; the RX thread meanwhile    *)
(* calls onScanFrame and onMgmtFrame with what the radio hears.            *)
(*                                                                         *)
(* A register access is a USB control transfer and throws when it fails.   *)
(* TX-power, RFE and EDCA values and the contents of the frames sent are   *)
(* left out; so is the DIG desensitisation in arm, which is never reached: *)
(* no parser sets ApInfo::rssi, so _lastBeaconRssi keeps its initial 0.    *)
(* For the same reason a second beacon is never stronger than the first.   *)
(* The environment has its defaults, DEVOURER_PWRTRACK_IQK apart.          *)
(***************************************************************************)
EXTENDS BaseBand, Sequences

CONSTANTS
  Ap,             \* access points: [ssid, channel, ds]; ds: its beacons name
                  \* their channel (the DS parameter)
  Ssid,           \* the network asked for
  Bleed,          \* <<tuned, channel>>: channel is heard when tuned there
  Hints,          \* channel hints the caller may pass (0: none)
  Sweep,          \* the fixed channels of scanForSsid, in order
  MaxIqkTries,    \* IQK retries (6)
  MaxSends,       \* immediate retries of the first auth request (5)
  MaxRetx         \* retransmissions of the auth request (8)

ASSUME StationAssumption ==
  /\ \A a \in Ap : a.channel \in Nat \ {0} /\ a.ds \in BOOLEAN
  /\ Hints \subseteq Nat /\ Sweep \in Seq(Nat \ {0})
  /\ MaxIqkTries \in Nat /\ MaxSends \in Nat \ {0} /\ MaxRetx \in Nat

NoAp == [found |-> FALSE]      \* ApInfo{}
NoFrame == [none |-> TRUE]
Kind == {"auth", "assoc", "deauth"}

VARIABLES
  ctl,             \* the control thread's step
  list, pos,       \* channels to scan, and the position in them
  chan,            \* the channel the radio is tuned to
  scanResult,      \* _scanResult
  beacon,          \* the beacon onScanFrame has parsed and not yet stored
  found, inSweep,  \* what scanForSsid returned, and whether from its loop
  expecting,       \* _expectSelf and _expectBssid are set
  got,             \* _gotAuthResp, _gotAssocOk, _gotDeauth
  saved,           \* the registers as its calibration or a look at another page
                   \* found them
  tries,           \* the loop counter of the step under way
  outcome,         \* the Result of runProbe, or "threw"
  apView,          \* the AP's state for our station
  air              \* the frames the AP has sent us

scanning == <<list, pos, chan, scanResult, found, inSweep>>
joining  == <<expecting, saved, tries, outcome>>
radio    == <<shared, history>>
outside  == <<apView, air>>

staVars == <<ctl, scanning, beacon, joining, got, outside>>
vars == <<staVars, radio>>

ScanStep == {"idle", "reset", "tune", "scanIqk", "scanCal", "poll", "scanned"}
DumpStep == {"authDump", "authRfe", "authIqc", "failDump", "failRfe"}
ProbeStep ==
  {"pauseRx", "arm", "armCal", "iqk", "look", "retry", "retryCal", "resume",
   "unwind", "deauth", "auth", "resend", "waitAuth", "retx", "assocReq",
   "waitAssoc", "become", "hold", "end"} \cup DumpStep

NoRegisters == [none |-> TRUE]

StaInit ==
  /\ ctl = "idle"
  /\ list = <<>> /\ pos = 1 /\ chan = 0
  /\ scanResult = NoAp /\ beacon = NoFrame
  /\ found = NoAp /\ inSweep = FALSE
  /\ expecting = FALSE /\ got = {}
  /\ saved = NoRegisters
  /\ tries = 0 /\ outcome = "none"
  /\ apView \in {"none", "assoc"} /\ air = {}

Init == StaInit /\ SharedInit

Goto(step) ==
  /\ ctl' = step
  /\ UNCHANGED <<scanning, beacon, got>>

-----------------------------------------------------------------------------
(***************************************************************************)
(* scanForSsid                                                             *)
(***************************************************************************)
ScanForSsid(hint) ==
  /\ ctl = "idle"
  /\ list' = <<hint>> \o Sweep
  /\ pos' = 1
  /\ scanResult' = NoAp
  /\ ctl' = "reset"
  /\ UNCHANGED <<chan, beacon, found, inSweep, joining, got, outside, radio>>

\* A hint that is not a channel is skipped.
ScanSkip ==
  /\ ctl = "reset" /\ pos <= Len(list) /\ list[pos] = 0
  /\ pos' = pos + 1
  /\ UNCHANGED <<ctl, list, chan, scanResult, beacon, found, inSweep, joining,
                 got, outside, radio>>

\* "don't carry a bleed match over"
ScanReset ==
  /\ ctl = "reset" /\ pos <= Len(list) /\ list[pos] # 0
  /\ scanResult' = NoAp
  /\ ctl' = "tune"
  /\ UNCHANGED <<list, pos, chan, beacon, found, inSweep, joining, got, outside, radio>>

\* phy_SwBand8812: whether set_channel_bwmode switches the band, which sets
\* _needIQK.  Either band may be the one the bring-up left (channel 0).
Crosses ==
  IF chan = 0 THEN BOOLEAN ELSE {(chan > 14) # (list[pos] > 14)}

\* The radio is tuned; calibrations may be due before set_channel_bwmode
\* returns: setScanMode, which would suppress them, is never called.
ScanTune ==
  /\ ctl = "tune"
  /\ chan' = list[pos]
  /\ \E crosses \in Crosses : tries' \in IqksDue(crosses)
  /\ ctl' = IF tries' = 0 THEN "poll" ELSE "scanIqk"
  /\ UNCHANGED <<list, pos, scanResult, beacon, found, inSweep, expecting,
                 saved, outcome, got, outside, radio>>

\* RX goes on during the calibrations of a sweep.
ScanIqk(calibrating) ==
  /\ ctl = "scanIqk"
  /\ saved' = Backup /\ chip' = Configured
  /\ overlapped' = (overlapped \/ calibrating)
  /\ Goto("scanCal")
  /\ UNCHANGED <<expecting, tries, outcome, outside, rxPaused, calThrew>>

\* The IQK has ended, and after the one of _needIQK the LC calibration, which
\* pauses TX and releases it.
ScanCalibrated ==
  /\ ctl = "scanCal"
  /\ chip' = Restored(saved) /\ saved' = NoRegisters
  /\ tries' = tries - 1
  /\ Goto(IF tries = 1 THEN "poll" ELSE "scanIqk")
  /\ UNCHANGED <<expecting, outcome, outside, rxPaused, history>>

ScanThrows ==
  /\ outcome' = "threw" /\ tries' = 0
  /\ ctl' = "end"
  /\ list' = <<>> /\ pos' = 1
  /\ UNCHANGED <<scanResult, beacon, found, inSweep, expecting, got, outside,
                 rxPaused, overlapped>>

\* A register access fails while tuning: the exception leaves scanForSsid.
ScanTuneThrows ==
  /\ ctl = "tune"
  /\ chan' \in {chan, list[pos]}
  /\ ScanThrows
  /\ UNCHANGED <<chip, saved, calThrew>>

\* The same in a calibration, or in the LC calibration after it.
ScanCalThrows ==
  /\ ctl \in {"scanIqk", "scanCal"}
  /\ chip' \in IF ctl = "scanIqk" THEN BackupCutShort ELSE CutShort(saved)
  /\ saved' = NoRegisters
  /\ calThrew' = TRUE
  /\ ScanThrows
  /\ UNCHANGED chan

\* Variant: any match is taken.
OnChannelAny(r) == r.found

\* A reception whose DS parameter, if it has one, names this channel.
OnChannel(r) == r.found /\ r.channel \in {list[pos], 0}

Return(r, loop) ==
  /\ found' = r /\ inSweep' = loop
  /\ list' = <<>> /\ pos' = 1
  /\ ctl' = "scanned"
  /\ UNCHANGED <<chan, beacon, joining, got, outside, radio>>

ScanHit ==
  /\ ctl = "poll" /\ OnChannel(scanResult)
  /\ scanResult' = [scanResult EXCEPT !.channel = list[pos]]
  /\ Return(scanResult', TRUE)

\* Variant: the position advances in the body of the loop as well.
ScanNextTwice ==
  /\ ctl = "poll"
  /\ pos' = pos + 2
  /\ ctl' = "reset"
  /\ UNCHANGED <<list, chan, scanResult, beacon, found, inSweep, joining, got,
                 outside, radio>>

\* Variant: the same channel is scanned again.
ScanNextSame ==
  /\ ctl = "poll"
  /\ ctl' = "reset"
  /\ UNCHANGED <<list, pos, chan, scanResult, beacon, found, inSweep, joining,
                 got, outside, radio>>

\* perChannelMs have passed without one.
ScanNext ==
  /\ ctl = "poll"
  /\ pos' = pos + 1
  /\ ctl' = "reset"
  /\ UNCHANGED <<list, chan, scanResult, beacon, found, inSweep, joining, got,
                 outside, radio>>

\* After the last channel: whatever the last reception was.
ScanEnd ==
  /\ ctl = "reset" /\ pos > Len(list)
  /\ Return(scanResult, FALSE)
  /\ UNCHANGED scanResult

\* calibrating: another thread is in a calibration.
Scan(calibrating) ==
  \/ \E h \in Hints : ScanForSsid(h)
  \/ ScanSkip \/ ScanReset \/ ScanTune \/ ScanTuneThrows
  \/ ScanIqk(calibrating) \/ ScanCalibrated \/ ScanCalThrows
  \/ ScanHit \/ ScanNext \/ ScanEnd

-----------------------------------------------------------------------------
(***************************************************************************)
(* onScanFrame: the frame is parsed without _scanMtx, and the result       *)
(* updated under it, maybe after a reset and a retune.                     *)
(***************************************************************************)
Hears(a) ==
  chip.rxAnt /\ (chan = a.channel \/ <<chan, a.channel>> \in Bleed)

\* parseBeacon: no DS parameter leaves channel 0.
ParseBeacon(a) ==
  [found |-> TRUE, ap |-> a, channel |-> IF a.ds THEN a.channel ELSE 0]

OnScanFrame(a) ==
  /\ ctl \in ScanStep /\ beacon = NoFrame
  /\ Hears(a) /\ a.ssid = Ssid
  /\ beacon' = ParseBeacon(a)
  /\ UNCHANGED <<ctl, scanning, joining, got, outside, radio>>

StoreBeacon ==
  /\ beacon # NoFrame
  /\ scanResult' = IF scanResult.found THEN scanResult ELSE beacon
  /\ beacon' = NoFrame
  /\ UNCHANGED <<ctl, list, pos, chan, found, inSweep, joining, got, outside, radio>>

\* Variant: the addresses of a frame are not looked at.
OnMgmtFrameAny(k, forUs) ==
  /\ got' = got \cup {k}
  /\ UNCHANGED <<ctl, scanning, beacon, joining, outside, radio>>

(***************************************************************************)
(* onMgmtFrame: authentication, association response, deauthentication.    *)
(* forUs: addressed to us, from the AP we join; others are overheard.      *)
(***************************************************************************)
OnMgmtFrame(k, forUs) ==
  /\ got' = IF expecting /\ forUs THEN got \cup {k} ELSE got
  /\ UNCHANGED <<ctl, scanning, beacon, joining, outside, radio>>

Receive ==
  \/ \E a \in Ap : OnScanFrame(a)
  \/ StoreBeacon
  \/ chip.rxAnt /\ \E k \in air : OnMgmtFrame(k, TRUE)
  \/ chip.rxAnt /\ \E k \in Kind : OnMgmtFrame(k, FALSE)

-----------------------------------------------------------------------------
(***************************************************************************)
(* runProbe.  The caller joins the AP the scan returned.                   *)
(***************************************************************************)
\* Nothing below reads the result of the scan again, nor what onScanFrame may
\* still store there: they are dropped from the state.
RunProbe ==
  /\ ctl = "scanned" /\ found.found
  /\ expecting' = TRUE
  /\ scanResult' = NoAp /\ beacon' = NoFrame /\ inSweep' = FALSE
  /\ ctl' = "pauseRx"
  /\ UNCHANGED <<list, pos, chan, found, got, saved, tries, outcome, outside>>

\* ArmIQKOnNextChannelSet: one calibration at least.
PauseRx ==
  /\ ctl = "pauseRx"
  /\ rxPaused' = TRUE
  /\ tries' \in IqksDue(TRUE)
  /\ Goto("arm")
  /\ UNCHANGED <<expecting, saved, outcome, outside, chip, history>>

\* arm: an IQK on the operating channel begins.
ArmIqk(calibrating) ==
  /\ ctl = "arm"
  /\ saved' = Backup /\ chip' = Configured
  /\ overlapped' = (overlapped \/ calibrating)
  /\ Goto("armCal")
  /\ UNCHANGED <<expecting, tries, outcome, outside, rxPaused, calThrew>>

\* The thermal IQK has ended, the one arm asked for follows.
ArmThermalEnd ==
  /\ ctl = "armCal" /\ tries = 2
  /\ chip' = Restored(saved) /\ saved' = NoRegisters
  /\ tries' = 1
  /\ Goto("arm")
  /\ UNCHANGED <<expecting, outcome, outside, rxPaused, history>>

\* Variant: arm relies on the IQK to release the TX queues; one that only
\* restores what it found (8814) leaves them as they were.
ArmNoRelease ==
  /\ ctl = "armCal" /\ tries = 1
  /\ chip' = [Restored(saved) EXCEPT !.txPause = saved.txPause]
  /\ saved' = NoRegisters
  /\ tries' = 0
  /\ Goto("iqk")
  /\ UNCHANGED <<expecting, outcome, outside, rxPaused, history>>

\* The IQK has ended; MACID, MSR, BSSID, RCR, and at last TXPAUSE released.
Arm ==
  /\ ctl = "armCal" /\ tries = 1
  /\ chip' = Restored(saved) /\ saved' = NoRegisters
  /\ tries' = 0
  /\ Goto("iqk")
  /\ UNCHANGED <<expecting, outcome, outside, rxPaused, history>>

\* A register access failed in arm, before the IQK, in it or after it: the
\* exception leaves runProbe through ResumeGuard.
ArmThrows ==
  /\ ctl \in {"arm", "armCal"}
  /\ chip' \in IF ctl = "arm" THEN BackupCutShort
               ELSE CutShort(saved) \cup {Restored(saved)}
  /\ saved' = NoRegisters
  /\ calThrew' = TRUE
  /\ Goto("unwind")
  /\ UNCHANGED <<expecting, tries, outcome, outside, rxPaused, overlapped>>

\* The measurement of an IQK.
IqkPage ==
  /\ ctl \in {"scanCal", "armCal", "retryCal"}
  /\ \E p \in {"C", "C1"} : chip' = Measuring(p)
  /\ Goto(ctl)
  /\ UNCHANGED <<joining, outside, rxPaused, history>>

\* readTxIqcX looks at page C1 (the calls whose result is only logged are left
\* out) ...
Look(calibrating) ==
  /\ ctl = "iqk"
  /\ saved' = Selected
  /\ chip' = [chip EXCEPT !.page = "C1"]
  /\ overlapped' = (overlapped \/ calibrating)
  /\ Goto("look")
  /\ UNCHANGED <<expecting, tries, outcome, outside, rxPaused, calThrew>>

\* Variant: ... and leaves it selected.
LookedStays(step) ==
  /\ ctl = "look"
  /\ saved' = NoRegisters
  /\ Goto(step)
  /\ UNCHANGED <<expecting, tries, outcome, outside, radio>>

\* ... and puts back what 0x82c held.
Looked(step) ==
  /\ ctl = "look"
  /\ chip' = [chip EXCEPT !.page = saved.page] /\ saved' = NoRegisters
  /\ Goto(step)
  /\ UNCHANGED <<expecting, tries, outcome, outside, rxPaused, history>>

\* TXiqcX is off its default, or the tries are used up.
IqkConverged == Looked("resume")

IqkNotConverged == tries < MaxIqkTries /\ Looked("retry")

\* Its exception is swallowed and reads as not converged, with page C1 left
\* selected or not.
LookThrows ==
  /\ ctl = "look"
  /\ chip' \in {chip, [chip EXCEPT !.page = saved.page]} /\ saved' = NoRegisters
  /\ calThrew' = TRUE
  /\ Goto(IF tries < MaxIqkTries THEN "retry" ELSE "resume")
  /\ UNCHANGED <<expecting, tries, outcome, outside, rxPaused, overlapped>>

\* RunIQK, whatever the chip the calibration of the 8812.
IqkRetry(calibrating) ==
  /\ ctl = "retry"
  /\ saved' = Backup /\ chip' = Configured
  /\ overlapped' = (overlapped \/ calibrating)
  /\ tries' = tries + 1
  /\ Goto("retryCal")
  /\ UNCHANGED <<expecting, outcome, outside, rxPaused, calThrew>>

IqkRetried ==
  /\ ctl = "retryCal"
  /\ chip' = Restored(saved) /\ saved' = NoRegisters
  /\ Goto("iqk")
  /\ UNCHANGED <<expecting, tries, outcome, outside, rxPaused, history>>

\* Its exception is swallowed.
IqkRetryThrows ==
  /\ ctl \in {"retry", "retryCal"}
  /\ chip' \in IF ctl = "retry" THEN BackupCutShort ELSE CutShort(saved)
  /\ saved' = NoRegisters
  /\ calThrew' = TRUE
  /\ tries' = IF ctl = "retry" THEN tries + 1 ELSE tries
  /\ Goto("iqk")
  /\ UNCHANGED <<expecting, outcome, outside, rxPaused, overlapped>>

\* The destructor of ResumeGuard at the end of its block.
ResumeRx ==
  /\ ctl = "resume"
  /\ rxPaused' = FALSE
  /\ Goto("deauth")
  /\ UNCHANGED <<joining, outside, chip, history>>

Finish(r) ==
  /\ outcome' = r
  /\ tries' = 0
  /\ Goto("end")
  /\ UNCHANGED <<expecting, saved, outside>>

\* Variant: RX is resumed on the normal path only.
UnwindPaused ==
  /\ ctl = "unwind"
  /\ Finish("threw")
  /\ UNCHANGED radio

\* The same destructor when arm threw.
Unwind ==
  /\ ctl = "unwind"
  /\ rxPaused' = FALSE
  /\ Finish("threw")
  /\ UNCHANGED <<chip, history>>

-----------------------------------------------------------------------------
(***************************************************************************)
(* A frame is sent: _send reports it (sent), and it radiates only when the *)
(* TX queues are released and the radio is on the AP's channel.            *)
(***************************************************************************)
Radiates(sent) == sent /\ ~chip.txPause /\ chan = found.ap.channel

\* The AP (external) takes a request it receives, and answers it.
ApHears(sent, from, view, answer) ==
  \/ /\ Radiates(sent) /\ apView \in from
     /\ apView' = view /\ air' = air \cup answer
  \/ UNCHANGED outside

\* "clear any stale association the AP still holds"; the result is ignored.
SendDeauth(sent) ==
  /\ ctl = "deauth"
  /\ ApHears(sent, {"none", "auth", "assoc"}, "none", {})
  /\ tries' = 0
  /\ Goto("auth")
  /\ UNCHANGED <<expecting, saved, outcome>>

\* Its answer grants the request or refuses it: onMgmtFrame cannot tell, it
\* is not given the status code.
ApAuth(sent) ==
  \/ ApHears(sent, {"none", "auth"}, "auth", {"auth"})
  \/ ApHears(sent, {"none", "auth"}, "none", {"auth"})

ApAssociate ==
  \/ ApHears(TRUE, {"auth"}, "assoc", {"assoc"})
  \/ ApHears(TRUE, {"auth"}, "auth", {"assoc"})

\* The first auth request; tries tells whether _send failed.
SendAuth(sent) ==
  /\ ctl = "auth"
  /\ ApAuth(sent)
  /\ tries' = IF sent THEN 0 ELSE 1
  /\ Goto("authDump")
  /\ UNCHANGED <<expecting, saved, outcome>>

\* Up to MaxSends immediate retries; then the wait begins whatever came of
\* them.
ResendAuth(sent) ==
  /\ ctl = "resend"
  /\ ApAuth(sent)
  /\ IF sent \/ tries = MaxSends
     THEN Goto("waitAuth") /\ tries' = 0
     ELSE Goto("resend") /\ tries' = tries + 1
  /\ UNCHANGED <<expecting, saved, outcome>>

(***************************************************************************)
(* The register dumps after the first auth request and after a failed      *)
(* wait: page C for the RFE registers, after the request page C1 for the   *)
(* TX-IQC matrix, and what 0x82c held again.                               *)
(***************************************************************************)
DumpRfe(calibrating) ==
  /\ ctl \in {"authDump", "failDump"}
  /\ saved' = Selected
  /\ chip' = [chip EXCEPT !.page = "C"]
  /\ overlapped' = (overlapped \/ calibrating)
  /\ Goto(IF ctl = "authDump" THEN "authRfe" ELSE "failRfe")
  /\ UNCHANGED <<expecting, tries, outcome, outside, rxPaused, calThrew>>

DumpIqc ==
  /\ ctl = "authRfe"
  /\ chip' = [chip EXCEPT !.page = "C1"]
  /\ Goto("authIqc")
  /\ UNCHANGED <<joining, outside, rxPaused, history>>

\* What follows a dump, sent or not, complete or not.
AfterDump ==
  /\ saved' = NoRegisters
  /\ IF ctl \in {"failDump", "failRfe"}
     THEN Goto("end") /\ outcome' = "TXFAIL_NoAuthResp" /\ tries' = 0
     ELSE /\ Goto(IF tries = 0 THEN "waitAuth" ELSE "resend")
          /\ UNCHANGED <<outcome, tries>>
  /\ UNCHANGED <<expecting, outside, rxPaused, overlapped>>

\* Variant: 0x82c is not put back.
DumpedStays ==
  /\ ctl \in {"authIqc", "failRfe"}
  /\ AfterDump
  /\ UNCHANGED <<chip, calThrew>>

Dumped ==
  /\ ctl \in {"authIqc", "failRfe"}
  /\ chip' = [chip EXCEPT !.page = saved.page]
  /\ AfterDump
  /\ UNCHANGED calThrew

\* A read throws and is swallowed: the page stays as it is.
DumpThrows ==
  /\ ctl \in DumpStep
  /\ calThrew' = (calThrew \/ ctl \notin {"authDump", "failDump"})
  /\ AfterDump
  /\ UNCHANGED chip

Answered == "auth" \in got

\* The wait goes on, and after its 50 ms of sleep a retransmission is due.
\* Iterations that only sleep are not told apart.
RetransmitDue ==
  /\ ctl = "waitAuth" /\ ~Answered /\ "deauth" \notin got
  /\ tries < MaxRetx
  /\ Goto("retx")
  /\ UNCHANGED <<joining, outside>>

\* After the sleep only the answer is looked at again.
RetransmitSkipped ==
  /\ ctl = "retx" /\ Answered
  /\ Goto("waitAuth")
  /\ UNCHANGED <<joining, outside>>

Retransmit(sent) ==
  /\ ctl = "retx" /\ ~Answered
  /\ ApAuth(sent)
  /\ tries' = tries + 1
  /\ Goto("waitAuth")
  /\ UNCHANGED <<expecting, saved, outcome>>

AuthAnswered ==
  /\ ctl = "waitAuth" /\ Answered
  /\ Goto("assocReq")
  /\ UNCHANGED <<joining, outside>>

\* A deauthentication or the 3 s, and no answer.
AuthFails ==
  /\ ctl = "waitAuth" /\ ~Answered
  /\ Goto("failDump")
  /\ UNCHANGED <<joining, outside>>

SendAssoc ==
  /\ ctl = "assocReq"
  /\ ApAssociate
  /\ Goto("waitAssoc")
  /\ UNCHANGED joining

SendAssocFails ==
  /\ ctl = "assocReq"
  /\ Finish("Error")

\* The wait ends at an answer, a deauthentication or 3 s; the flags are read
\* again, the deauthentication first.
AssocWaited ==
  /\ ctl = "waitAssoc"
  /\ IF "deauth" \in got THEN Finish("NOGO_Deauthed")
     ELSE IF "assoc" \notin got THEN Finish("NOGO_NoAssocResp")
     ELSE Goto("become") /\ UNCHANGED <<joining, outside>>

\* becomeStation: MSR, the station H2C commands, the RX filter.
BecomeStation ==
  /\ ctl = "become"
  /\ Goto("hold")
  /\ UNCHANGED <<joining, outside>>

BecomeStationThrows ==
  /\ ctl = "become"
  /\ Finish("threw")

HoldDeauthed ==
  /\ ctl = "hold" /\ "deauth" \in got
  /\ Finish("NOGO_Deauthed")

\* holdSeconds have passed since the last look at _gotDeauth.
HoldEnds ==
  /\ ctl = "hold"
  /\ Finish("GO_LinkHeld")

Calibrate(calibrating) ==
  \/ PauseRx \/ ArmIqk(calibrating) \/ ArmThermalEnd \/ Arm \/ ArmThrows
  \/ Look(calibrating) \/ IqkConverged \/ IqkNotConverged \/ LookThrows
  \/ IqkRetry(calibrating) \/ IqkRetried \/ IqkRetryThrows
  \/ ResumeRx \/ Unwind

Dump(calibrating) == DumpRfe(calibrating) \/ DumpIqc \/ Dumped \/ DumpThrows

Join ==
  \/ RunProbe
  \/ \E sent \in BOOLEAN :
       SendDeauth(sent) \/ SendAuth(sent) \/ ResendAuth(sent) \/ Retransmit(sent)
  \/ RetransmitDue \/ RetransmitSkipped \/ AuthAnswered \/ AuthFails
  \/ SendAssoc \/ SendAssocFails \/ AssocWaited
  \/ BecomeStation \/ BecomeStationThrows \/ HoldDeauthed \/ HoldEnds

Probe(calibrating) ==
  Calibrate(calibrating) \/ Dump(calibrating) \/ (Join /\ UNCHANGED radio)

\* The AP (external) may drop the station it knows, at any time.
ApDeauth ==
  /\ apView # "none"
  /\ apView' = "none" /\ air' = air \cup {"deauth"}
  /\ UNCHANGED <<ctl, scanning, beacon, joining, got, radio>>

-----------------------------------------------------------------------------
Outcome ==
  {"none", "threw", "GO_LinkHeld", "NOGO_Deauthed", "NOGO_NoAssocResp",
   "TXFAIL_NoAuthResp", "Error"}

ApInfo == {NoAp} \cup [found : {TRUE}, ap : Ap, channel : Nat]

TypeOK ==
  /\ ctl \in ScanStep \cup ProbeStep
  /\ list \in Seq(Nat) /\ pos \in 1 .. Len(list) + 1 /\ chan \in Nat
  /\ scanResult \in ApInfo /\ found \in ApInfo
  /\ beacon \in {NoFrame} \cup ApInfo
  /\ got \subseteq Kind /\ air \subseteq Kind
  /\ chip \in Registers /\ saved \in {NoRegisters} \cup Backups \cup Selections
  /\ tries \in 0 .. 2 + MaxIqkTries + MaxSends + MaxRetx
  /\ outcome \in Outcome
  /\ apView \in {"none", "auth", "assoc"}

(***************************************************************************)
(* The join only advances on the AP's own answers: overheard responses to  *)
(* other stations, in any order, never start an association request or     *)
(* pass for the answer to ours.                                            *)
(***************************************************************************)
NoFalseJoin ==
  /\ ctl \in {"assocReq", "waitAssoc", "become", "hold"} => "auth" \in air
  /\ ctl \in {"become", "hold"} \/ outcome = "GO_LinkHeld" => "assoc" \in air

\* In a calibration, or with 0x82c to be put back.
Calibrating ==
  ctl \in {"scanCal", "armCal", "retryCal", "look", "authRfe", "authIqc", "failRfe"}

\* Between pauseAsyncRx and resumeAsyncRx.
HoldsRx ==
  ctl \in {"arm", "armCal", "iqk", "look", "retry", "retryCal", "resume", "unwind"}

Sending == ctl \in {"deauth", "auth", "resend", "retx", "assocReq"}

(***************************************************************************)
(* A match taken during the sweep leaves the radio on the AP's channel,    *)
(* when its beacons name their channel: neither bleed from a neighbour nor *)
(* a beacon parsed before the retune is mistaken for it.                   *)
(***************************************************************************)
SweepOnChannel ==
  ctl = "scanned" /\ inSweep /\ found.ap.ds => chan = found.ap.channel

(***************************************************************************)
(* The same of everything scanForSsid returns as found.                    *)
(***************************************************************************)
ScanTuned == ctl = "scanned" /\ found.found => chan = found.ap.channel

=============================================================================
