------------------------ MODULE StationWatchdogProofs ------------------------
(***************************************************************************)
(* Proofs about StationWatchdog, for every set of access points, hints and *)
(* channels and every bound on the retries.                                *)
(*                                                                         *)
(* The base band: one inductive invariant, CalInv, carries the properties  *)
(* of the shared registers and the RX pool.  What they need beside         *)
(* themselves is what a calibration or a look at another page under way    *)
(* will put back, that two under way have been seen to overlap, and that   *)
(* the TX queues stay released from the end of arm on.                     *)
(*                                                                         *)
(* The join: the flags of onMgmtFrame are answers the AP has sent.         *)
(* The scan: a stored beacon that names a channel names its AP's.          *)
(***************************************************************************)
EXTENDS StationWatchdog, TLAPS

Clean == ~calThrew /\ ~overlapped

Good(r) == r.rxAnt = TRUE /\ r.page = "C"

\* The two ways to be Calibrating: an IQK, and 0x82c to be put back.
Iqking == ctl \in {"scanCal", "armCal", "retryCal"}

Paging == ctl \in {"look", "authRfe", "authIqc", "failRfe"}

\* What is to be put back is the registers as they should be.
SavedGood ==
  /\ Iqking => saved \in Backups /\ (Clean => saved.rxAnt = TRUE)
  /\ Paging => saved \in Selections /\ (Clean => saved.page = "C")

WdSavedGood ==
  WdCalibrating => wdSaved \in Backups /\ (Clean => wdSaved.rxAnt = TRUE)

OverlapSeen == Calibrating /\ WdCalibrating => overlapped

FrontEndGood == ~Calibrating /\ ~WdCalibrating /\ Clean => Good(chip)

\* A look at another page touches nothing else.
LookedAnt == Paging /\ ~WdCalibrating /\ Clean => chip.rxAnt = TRUE

\* arm has released the TX queues and no IQK of the control thread is under way.
Armed ==
  ctl \in {"iqk", "look", "retry", "resume", "deauth", "auth", "resend", "waitAuth",
           "retx", "assocReq", "waitAssoc", "become", "hold"} \cup DumpStep

TxGood == Armed /\ ~WdCalibrating /\ ~calThrew => chip.txPause = FALSE

RunningUp == running => owner = "up"

CalInv ==
  /\ chip \in Registers
  /\ SavedGood /\ WdSavedGood /\ OverlapSeen
  /\ FrontEndGood /\ LookedAnt /\ TxGood /\ RxResumed /\ RunningUp

-----------------------------------------------------------------------------
(***************************************************************************)
(* What the steps of a calibration make of the registers.                  *)
(***************************************************************************)
LEMMA ConfiguredChip ==
  ASSUME chip \in Registers
  PROVE  Configured \in Registers /\ Backup \in Backups /\ Backup.rxAnt = chip.rxAnt
BY DEF Configured, Backup, Registers, Backups

LEMMA PagedChip ==
  ASSUME chip \in Registers, NEW p \in {"C", "C1"}
  PROVE  /\ Measuring(p) \in Registers /\ Measuring(p).page = p
         /\ Measuring(p).rxAnt = chip.rxAnt /\ Measuring(p).txPause = chip.txPause
         /\ Selected \in Selections /\ Selected.page = chip.page
BY DEF Measuring, Registers, Selected, Selections

LEMMA RestoredChip ==
  ASSUME chip \in Registers, NEW r \in Backups
  PROVE  /\ Restored(r) \in Registers
         /\ Restored(r).page = "C" /\ Restored(r).rxAnt = r.rxAnt
         /\ Restored(r).txPause = FALSE
BY DEF Restored, Registers, Backups

LEMMA CutShortChip ==
  ASSUME chip \in Registers, NEW r \in Backups, NEW c \in CutShort(r)
  PROVE  c \in Registers
<1>1. r.rxAnt \in BOOLEAN
  BY DEF Backups
<1>2. CASE c = [chip EXCEPT !.page = "C", !.rxAnt = r.rxAnt, !.txPause = TRUE]
  BY <1>1, <1>2 DEF Registers
<1>3. ASSUME NEW p \in {"C", "C1"},
             c = [chip EXCEPT !.page = p, !.rxAnt = FALSE, !.txPause = TRUE]
      PROVE  c \in Registers
  BY <1>3 DEF Registers
<1> QED BY <1>2, <1>3 DEF CutShort

LEMMA BackupCutShortChip ==
  ASSUME chip \in Registers, NEW c \in BackupCutShort
  PROVE  c \in Registers
BY DEF BackupCutShort, Registers

LEMMA IgiChip ==
  ASSUME chip \in Registers, NEW c \in IgiWritten
  PROVE  /\ c \in Registers /\ c.page = chip.page
         /\ c.rxAnt = chip.rxAnt /\ c.txPause = chip.txPause
         /\ chip.page = "C" => c.igi = "current"
BY DEF IgiWritten, Registers

LEMMA CalibratingSplit ==
  /\ (Calibrating <=> Iqking \/ Paging) /\ (Calibrating' <=> Iqking' \/ Paging')
  /\ ~(Iqking /\ (Paging \/ Armed)) /\ ~(Iqking' /\ (Paging' \/ Armed'))
  /\ (Paging => Armed)
BY DEF Calibrating, Iqking, Paging, Armed, DumpStep

\* A step that leaves the shared state and both backups alone, and the control
\* thread outside of its calibrations or where it was.
LEMMA Frame ==
  ASSUME CalInv, UNCHANGED <<chip, rxPaused, overlapped, wdVars>>,
         calThrew' <=> calThrew, saved' = saved \/ ~Calibrating',
         \/ ctl' = ctl
         \/ /\ ~Calibrating /\ ~Calibrating'
            /\ (HoldsRx => HoldsRx') /\ (Armed' => Armed)
  PROVE  CalInv'
<1>1. /\ chip' = chip /\ rxPaused' = rxPaused /\ overlapped' = overlapped
      /\ owner' = owner /\ wd' = wd /\ wdSaved' = wdSaved /\ running' = running
  BY DEF wdVars
<1>2. /\ (HoldsRx => HoldsRx') /\ (Calibrating' <=> Calibrating) /\ (Armed' => Armed)
      /\ (Iqking' <=> Iqking) /\ (Paging' <=> Paging)
  <2>1. CASE ctl' = ctl
    BY <2>1 DEF HoldsRx, Calibrating, Armed, Iqking, Paging
  <2>2. CASE ctl' # ctl
    BY <2>2, CalibratingSplit
  <2> QED BY <2>1, <2>2
<1>3. (WdCalibrating' <=> WdCalibrating) /\ (Clean' <=> Clean)
  BY <1>1 DEF WdCalibrating, Clean
<1>4. SavedGood' /\ WdSavedGood'
  BY <1>1, <1>2, <1>3, CalibratingSplit DEF CalInv, SavedGood, WdSavedGood
<1>5. OverlapSeen' /\ FrontEndGood' /\ LookedAnt' /\ TxGood'
  BY <1>1, <1>2, <1>3 DEF CalInv, OverlapSeen, FrontEndGood, LookedAnt, TxGood, Good
<1>6. RxResumed' /\ RunningUp'
  BY <1>1, <1>2 DEF CalInv, RxResumed, RunningUp
<1> QED BY <1>1, <1>4, <1>5, <1>6 DEF CalInv

-----------------------------------------------------------------------------
(***************************************************************************)
(* The control thread: its calibrations and its looks at another page.     *)
(***************************************************************************)
LEMMA BeginStep ==
  ASSUME CalInv, ~Calibrating, Iqking', HoldsRx => HoldsRx',
         saved' = Backup, chip' = Configured,
         overlapped' = (overlapped \/ WdCalibrating),
         UNCHANGED <<rxPaused, calThrew, wdVars>>
  PROVE  CalInv'
<1>0. (overlapped => overlapped') /\ (WdCalibrating => overlapped')
  BY Zenon
<1>1. /\ chip' \in Registers
      /\ saved' \in Backups /\ saved'.rxAnt = chip.rxAnt
  BY ConfiguredChip DEF CalInv
<1>2. /\ rxPaused' = rxPaused /\ calThrew' = calThrew
      /\ owner' = owner /\ wd' = wd /\ wdSaved' = wdSaved /\ running' = running
  BY DEF wdVars
<1>3. Calibrating' /\ ~Paging' /\ ~Armed'
  BY CalibratingSplit
<1>4. WdCalibrating' <=> WdCalibrating
  BY <1>2 DEF WdCalibrating
<1>5. Clean' => Clean /\ ~WdCalibrating
  BY <1>0, <1>2 DEF Clean
<1>6. SavedGood' /\ WdSavedGood'
  BY <1>1, <1>2, <1>3, <1>4, <1>5
     DEF CalInv, SavedGood, WdSavedGood, FrontEndGood, Good
<1>7. OverlapSeen' /\ FrontEndGood' /\ LookedAnt' /\ TxGood'
  BY <1>0, <1>3, <1>4 DEF OverlapSeen, FrontEndGood, LookedAnt, TxGood
<1>8. RxResumed' /\ RunningUp'
  BY <1>2 DEF CalInv, RxResumed, RunningUp
<1> QED BY <1>1, <1>6, <1>7, <1>8 DEF CalInv

\* An IQK that ends.
LEMMA EndStep ==
  ASSUME CalInv, Iqking, ~Calibrating', HoldsRx => HoldsRx',
         chip' = Restored(saved),
         UNCHANGED <<rxPaused, history, wdVars>>
  PROVE  CalInv'
<1>0. saved \in Backups /\ (Clean => saved.rxAnt = TRUE)
  BY DEF CalInv, SavedGood
<1>1. /\ chip' \in Registers /\ chip'.page = "C" /\ chip'.rxAnt = saved.rxAnt
      /\ chip'.txPause = FALSE
  BY <1>0, RestoredChip DEF CalInv
<1>2. /\ rxPaused' = rxPaused /\ calThrew' = calThrew /\ overlapped' = overlapped
      /\ owner' = owner /\ wd' = wd /\ wdSaved' = wdSaved /\ running' = running
  BY DEF wdVars, history
<1>3. ~Iqking' /\ ~Paging'
  BY CalibratingSplit
<1>4. (WdCalibrating' <=> WdCalibrating) /\ (Clean' <=> Clean)
  BY <1>2 DEF WdCalibrating, Clean
<1>6. SavedGood' /\ WdSavedGood'
  BY <1>2, <1>3, <1>4 DEF CalInv, SavedGood, WdSavedGood
<1>7. OverlapSeen' /\ FrontEndGood' /\ LookedAnt' /\ TxGood'
  BY <1>0, <1>1, <1>3, <1>4 DEF OverlapSeen, FrontEndGood, LookedAnt, TxGood, Good
<1>8. RxResumed' /\ RunningUp'
  BY <1>2 DEF CalInv, RxResumed, RunningUp
<1> QED BY <1>1, <1>6, <1>7, <1>8 DEF CalInv

\* An exception in a calibration, or in a look at another page.
LEMMA ThrowStep ==
  ASSUME CalInv, HoldsRx => HoldsRx', ~Calibrating',
         chip' \in Registers, calThrew',
         UNCHANGED <<rxPaused, overlapped, wdVars>>
  PROVE  CalInv'
<1>2. /\ rxPaused' = rxPaused
      /\ owner' = owner /\ wd' = wd /\ wdSaved' = wdSaved /\ running' = running
  BY DEF wdVars
<1>3. ~Iqking' /\ ~Paging'
  BY CalibratingSplit
<1>4. (WdCalibrating' <=> WdCalibrating) /\ ~Clean'
  BY <1>2 DEF WdCalibrating, Clean
<1>6. SavedGood' /\ WdSavedGood'
  BY <1>2, <1>3, <1>4 DEF CalInv, SavedGood, WdSavedGood
<1>7. OverlapSeen' /\ FrontEndGood' /\ LookedAnt' /\ TxGood'
  BY <1>4 DEF OverlapSeen, FrontEndGood, LookedAnt, TxGood
<1>8. RxResumed' /\ RunningUp'
  BY <1>2 DEF CalInv, RxResumed, RunningUp
<1> QED BY <1>6, <1>7, <1>8 DEF CalInv

\* The page is selected and nothing else changes.
LEMMA PageStep ==
  ASSUME CalInv, UNCHANGED <<rxPaused, history, saved, wdVars>>,
         ctl' = ctl \/ (ctl = "authRfe" /\ ctl' = "authIqc"),
         Calibrating \/ WdCalibrating,
         NEW p \in {"C", "C1"}, chip' = Measuring(p)
  PROVE  CalInv'
<1>1. /\ chip' \in Registers
      /\ chip'.rxAnt = chip.rxAnt /\ chip'.txPause = chip.txPause
  BY PagedChip DEF CalInv
<1>2. /\ rxPaused' = rxPaused /\ calThrew' = calThrew
      /\ overlapped' = overlapped /\ saved' = saved
      /\ owner' = owner /\ wd' = wd /\ wdSaved' = wdSaved /\ running' = running
  BY DEF wdVars, history
<1>3. /\ (Calibrating' <=> Calibrating) /\ (HoldsRx' <=> HoldsRx) /\ (Armed' <=> Armed)
      /\ (Iqking' <=> Iqking) /\ (Paging' <=> Paging)
  BY DEF Calibrating, HoldsRx, Armed, Iqking, Paging, DumpStep
<1>4. (WdCalibrating' <=> WdCalibrating) /\ (Clean' <=> Clean)
  BY <1>2 DEF WdCalibrating, Clean
<1>6. SavedGood' /\ WdSavedGood'
  BY <1>2, <1>3, <1>4 DEF CalInv, SavedGood, WdSavedGood
<1>7. OverlapSeen' /\ FrontEndGood' /\ LookedAnt' /\ TxGood'
  BY <1>1, <1>2, <1>3, <1>4 DEF CalInv, OverlapSeen, FrontEndGood, LookedAnt, TxGood
<1>8. RxResumed' /\ RunningUp'
  BY <1>2, <1>3 DEF CalInv, RxResumed, RunningUp
<1> QED BY <1>1, <1>6, <1>7, <1>8 DEF CalInv

\* Another page is selected, what 0x82c held kept ...
LEMMA LookStep ==
  ASSUME CalInv, ~Calibrating, Armed, Paging', HoldsRx => HoldsRx',
         saved' = Selected, NEW p \in {"C", "C1"}, chip' = Measuring(p),
         overlapped' = (overlapped \/ WdCalibrating),
         UNCHANGED <<rxPaused, calThrew, wdVars>>
  PROVE  CalInv'
<1>0. (overlapped => overlapped') /\ (WdCalibrating => overlapped')
  BY Zenon
<1>1. /\ chip' \in Registers /\ chip'.txPause = chip.txPause /\ chip'.rxAnt = chip.rxAnt
      /\ saved' \in Selections /\ saved'.page = chip.page
  BY PagedChip DEF CalInv
<1>2. /\ rxPaused' = rxPaused /\ calThrew' = calThrew
      /\ owner' = owner /\ wd' = wd /\ wdSaved' = wdSaved /\ running' = running
  BY DEF wdVars
<1>3. Calibrating' /\ ~Iqking'
  BY CalibratingSplit
<1>4. WdCalibrating' <=> WdCalibrating
  BY <1>2 DEF WdCalibrating
<1>5. Clean' => Clean /\ ~WdCalibrating
  BY <1>0, <1>2 DEF Clean
<1>6. SavedGood' /\ WdSavedGood'
  BY <1>1, <1>2, <1>3, <1>4, <1>5
     DEF CalInv, SavedGood, WdSavedGood, FrontEndGood, Good
<1>7. OverlapSeen' /\ FrontEndGood' /\ LookedAnt' /\ TxGood'
  BY <1>0, <1>1, <1>2, <1>3, <1>4, <1>5
     DEF CalInv, OverlapSeen, FrontEndGood, LookedAnt, TxGood, Good
<1>8. RxResumed' /\ RunningUp'
  BY <1>2 DEF CalInv, RxResumed, RunningUp
<1> QED BY <1>1, <1>6, <1>7, <1>8 DEF CalInv

\* ... and put back.
LEMMA LookedStep ==
  ASSUME CalInv, Paging, ~Calibrating', HoldsRx => HoldsRx',
         chip' = [chip EXCEPT !.page = saved.page],
         UNCHANGED <<rxPaused, history, wdVars>>
  PROVE  CalInv'
<1>0. /\ saved \in Selections /\ saved.page \in {"C", "C1"}
      /\ (Clean => saved.page = "C")
  BY DEF CalInv, SavedGood, Selections
<1>1. /\ chip' \in Registers /\ chip'.txPause = chip.txPause
      /\ chip'.page = saved.page /\ chip'.rxAnt = chip.rxAnt
  BY <1>0, PagedChip DEF CalInv, Measuring
<1>2. /\ rxPaused' = rxPaused /\ calThrew' = calThrew /\ overlapped' = overlapped
      /\ owner' = owner /\ wd' = wd /\ wdSaved' = wdSaved /\ running' = running
  BY DEF wdVars, history
<1>3. Armed /\ ~Iqking' /\ ~Paging'
  BY CalibratingSplit
<1>4. (WdCalibrating' <=> WdCalibrating) /\ (Clean' <=> Clean)
  BY <1>2 DEF WdCalibrating, Clean
<1>5. Clean /\ ~WdCalibrating => chip.rxAnt = TRUE
  BY DEF CalInv, LookedAnt
<1>6. SavedGood' /\ WdSavedGood'
  BY <1>2, <1>3, <1>4 DEF CalInv, SavedGood, WdSavedGood
<1>7. OverlapSeen' /\ FrontEndGood' /\ LookedAnt' /\ TxGood'
  BY <1>0, <1>1, <1>2, <1>3, <1>4, <1>5
     DEF CalInv, OverlapSeen, FrontEndGood, LookedAnt, TxGood, Good
<1>8. RxResumed' /\ RunningUp'
  BY <1>2 DEF CalInv, RxResumed, RunningUp
<1> QED BY <1>1, <1>6, <1>7, <1>8 DEF CalInv

\* The RX pool is paused, or resumed, and nothing else changes.
LEMMA RxStep ==
  ASSUME CalInv, PauseRx \/ ResumeRx \/ Unwind, UNCHANGED wdVars
  PROVE  CalInv'
<1>1. /\ chip' = chip /\ calThrew' = calThrew /\ overlapped' = overlapped
      /\ owner' = owner /\ wd' = wd /\ wdSaved' = wdSaved /\ running' = running
  BY DEF PauseRx, ResumeRx, Unwind, wdVars, history
<1>2. /\ ~Calibrating /\ ~Calibrating' /\ (Armed' => Armed)
      /\ rxPaused' = FALSE \/ HoldsRx'
  BY DEF PauseRx, ResumeRx, Unwind, Finish, Goto, Calibrating, Armed, HoldsRx, DumpStep
<1>3. (WdCalibrating' <=> WdCalibrating) /\ (Clean' <=> Clean)
  BY <1>1 DEF WdCalibrating, Clean
<1>4. SavedGood' /\ WdSavedGood'
  BY <1>1, <1>2, <1>3, CalibratingSplit DEF CalInv, SavedGood, WdSavedGood
<1>5. OverlapSeen' /\ FrontEndGood' /\ LookedAnt' /\ TxGood'
  BY <1>1, <1>2, <1>3, CalibratingSplit
     DEF CalInv, OverlapSeen, FrontEndGood, LookedAnt, TxGood, Good
<1>6. RxResumed' /\ RunningUp'
  BY <1>1, <1>2 DEF CalInv, RxResumed, RunningUp
<1> QED BY <1>1, <1>4, <1>5, <1>6 DEF CalInv

LEMMA CalibrateStep ==
  ASSUME CalInv, Calibrate(WdCalibrating), UNCHANGED wdVars
  PROVE  CalInv'
<1>0. chip \in Registers
  BY DEF CalInv
<1> USE DEF Goto, HoldsRx, Calibrating, Iqking, Paging, Armed
<1>1. CASE PauseRx \/ ResumeRx \/ Unwind
  BY <1>1, RxStep
<1>2. CASE ArmIqk(WdCalibrating)
  BY <1>2, BeginStep DEF ArmIqk
<1>3. CASE Arm
  BY <1>3, EndStep DEF Arm
<1>4. CASE ArmThermalEnd
  BY <1>4, EndStep DEF ArmThermalEnd
<1>5. CASE ArmThrows
  <2>1. chip' \in Registers
    <3>1. CASE ctl = "arm"
      BY <1>0, <1>5, <3>1, BackupCutShortChip DEF ArmThrows
    <3>2. CASE ctl = "armCal"
      <4>1. saved \in Backups
        BY <3>2 DEF CalInv, SavedGood
      <4> QED BY <1>0, <1>5, <3>2, <4>1, CutShortChip, RestoredChip DEF ArmThrows
    <3> QED BY <1>5, <3>1, <3>2 DEF ArmThrows
  <2> QED BY <1>5, <2>1, ThrowStep DEF ArmThrows
<1>6. CASE Look(WdCalibrating)
  BY <1>6, LookStep DEF Look, Measuring
<1>7. CASE IqkConverged \/ IqkNotConverged
  BY <1>7, LookedStep DEF IqkConverged, IqkNotConverged, Looked
<1>8. CASE LookThrows
  <2>1. saved.page \in {"C", "C1"}
    BY <1>8 DEF LookThrows, CalInv, SavedGood, Selections
  <2>2. chip' \in Registers
    BY <1>0, <1>8, <2>1, PagedChip DEF LookThrows, Measuring
  <2>3. HoldsRx /\ HoldsRx' /\ ~Calibrating'
    BY <1>8 DEF LookThrows
  <2> QED BY <1>8, <2>2, <2>3, ThrowStep DEF LookThrows
<1>9. CASE IqkRetry(WdCalibrating)
  BY <1>9, BeginStep DEF IqkRetry
<1>10. CASE IqkRetried
  BY <1>10, EndStep DEF IqkRetried
<1>11. CASE IqkRetryThrows
  <2>1. chip' \in Registers
    <3>1. CASE ctl = "retry"
      BY <1>0, <1>11, <3>1, BackupCutShortChip DEF IqkRetryThrows
    <3>2. CASE ctl = "retryCal"
      <4>1. saved \in Backups
        BY <3>2 DEF CalInv, SavedGood
      <4> QED BY <1>0, <1>11, <3>2, <4>1, CutShortChip DEF IqkRetryThrows
    <3> QED BY <1>11, <3>1, <3>2 DEF IqkRetryThrows
  <2> QED BY <1>11, <2>1, ThrowStep DEF IqkRetryThrows
<1> QED
  BY <1>1, <1>2, <1>3, <1>4, <1>5, <1>6, <1>7, <1>8, <1>9, <1>10, <1>11
     DEF Calibrate

\* The register dumps around the wait for the auth response.
LEMMA DumpKeepsInv ==
  ASSUME CalInv, Dump(WdCalibrating), UNCHANGED wdVars
  PROVE  CalInv'
<1> USE DEF Goto, HoldsRx, Calibrating, Iqking, Paging, Armed, DumpStep
<1>1. CASE DumpRfe(WdCalibrating)
  BY <1>1, LookStep DEF DumpRfe, Measuring
<1>2. CASE DumpIqc
  BY <1>2, PageStep DEF DumpIqc, Measuring, joining
<1>3. CASE Dumped
  <2>1. /\ Paging /\ ~Calibrating' /\ ~HoldsRx
        /\ chip' = [chip EXCEPT !.page = saved.page]
        /\ UNCHANGED <<rxPaused, history>>
    BY <1>3 DEF Dumped, AfterDump, history
  <2> QED BY <2>1, LookedStep
<1>4. CASE DumpThrows
  <2>1. /\ ~HoldsRx /\ ~Calibrating' /\ Armed
        /\ UNCHANGED <<chip, rxPaused, overlapped>>
    BY <1>4 DEF DumpThrows, AfterDump
  <2>2. CASE ctl \in {"authDump", "failDump"}
    <3>1. calThrew' <=> calThrew
      BY <1>4, <2>2 DEF DumpThrows
    <3>2. ~Calibrating
      BY <2>2
    <3> QED BY <2>1, <3>1, <3>2, Frame
  <2>3. CASE ctl \notin {"authDump", "failDump"}
    <3>1. calThrew'
      BY <1>4, <2>3 DEF DumpThrows
    <3>2. chip' \in Registers
      BY <2>1 DEF CalInv
    <3> QED BY <2>1, <3>1, <3>2, ThrowStep
  <2> QED BY <2>2, <2>3
<1> QED BY <1>1, <1>2, <1>3, <1>4 DEF Dump

-----------------------------------------------------------------------------
(***************************************************************************)
(* The watchdog thread.                                                    *)
(***************************************************************************)
\* What a step of the watchdog leaves of the station's predicates.
LEMMA StaKept ==
  ASSUME UNCHANGED staVars
  PROVE  /\ ctl' = ctl /\ saved' = saved
         /\ (Calibrating' <=> Calibrating) /\ (HoldsRx' <=> HoldsRx) /\ (Armed' <=> Armed)
         /\ (Iqking' <=> Iqking) /\ (Paging' <=> Paging)
<1>1. ctl' = ctl /\ saved' = saved
  BY DEF staVars, joining
<1> QED BY <1>1 DEF Calibrating, HoldsRx, Armed, Iqking, Paging

\* A step that moves the watchdog, outside of a calibration of its own, and
\* leaves the shared state alone.
LEMMA WdFrame ==
  ASSUME CalInv, UNCHANGED <<shared, history, staVars>>,
         ~WdCalibrating, ~WdCalibrating', RunningUp'
  PROVE  CalInv'
<1>1. /\ chip' = chip /\ rxPaused' = rxPaused
      /\ calThrew' = calThrew /\ overlapped' = overlapped
  BY DEF shared, history
<1>2. /\ saved' = saved
      /\ (Calibrating' <=> Calibrating) /\ (HoldsRx' <=> HoldsRx) /\ (Armed' <=> Armed)
      /\ (Iqking' <=> Iqking) /\ (Paging' <=> Paging)
  BY StaKept
<1>3. Clean' <=> Clean
  BY <1>1 DEF Clean
<1>4. SavedGood' /\ WdSavedGood'
  BY <1>2, <1>3 DEF CalInv, SavedGood, WdSavedGood
<1>5. OverlapSeen' /\ FrontEndGood' /\ LookedAnt' /\ TxGood'
  BY <1>1, <1>2, <1>3 DEF CalInv, OverlapSeen, FrontEndGood, LookedAnt, TxGood, Good
<1>6. RxResumed'
  BY <1>1, <1>2 DEF CalInv, RxResumed
<1> QED BY <1>1, <1>4, <1>5, <1>6 DEF CalInv

LEMMA DigStep ==
  ASSUME CalInv, DigTick, UNCHANGED staVars
  PROVE  CalInv'
<1>0. PICK c \in IgiWritten : chip' = c
  BY DEF DigTick
<1>1. /\ chip' \in Registers /\ chip'.page = chip.page /\ chip'.rxAnt = chip.rxAnt
      /\ chip'.txPause = chip.txPause
  BY <1>0, IgiChip DEF CalInv
<1>2. /\ saved' = saved
      /\ (Calibrating' <=> Calibrating) /\ (HoldsRx' <=> HoldsRx) /\ (Armed' <=> Armed)
      /\ (Iqking' <=> Iqking) /\ (Paging' <=> Paging)
  BY StaKept
<1>3. /\ wd = "tick" /\ wd' = "power" /\ owner' = owner /\ running' = running
      /\ rxPaused' = rxPaused /\ calThrew' = calThrew /\ overlapped' = overlapped
  BY DEF DigTick, history
<1>4. ~WdCalibrating /\ ~WdCalibrating' /\ (Clean' <=> Clean)
  BY <1>3 DEF WdCalibrating, Clean
<1>6. SavedGood' /\ WdSavedGood'
  BY <1>2, <1>4 DEF CalInv, SavedGood, WdSavedGood
<1>7. OverlapSeen' /\ FrontEndGood' /\ LookedAnt' /\ TxGood'
  BY <1>1, <1>2, <1>3, <1>4
     DEF CalInv, OverlapSeen, FrontEndGood, LookedAnt, TxGood, Good
<1>8. RxResumed' /\ RunningUp'
  BY <1>2, <1>3 DEF CalInv, RxResumed, RunningUp
<1> QED BY <1>1, <1>6, <1>7, <1>8 DEF CalInv

LEMMA ThermalBeginStep ==
  ASSUME CalInv, ThermalIqkBegin(Calibrating), UNCHANGED staVars
  PROVE  CalInv'
<1>0. (overlapped => overlapped') /\ (Calibrating => overlapped')
  BY Zenon DEF ThermalIqkBegin
<1>1. /\ chip' \in Registers
      /\ wdSaved' \in Backups /\ wdSaved'.rxAnt = chip.rxAnt
  BY ConfiguredChip DEF CalInv, ThermalIqkBegin
<1>2. /\ saved' = saved
      /\ (Calibrating' <=> Calibrating) /\ (HoldsRx' <=> HoldsRx) /\ (Armed' <=> Armed)
      /\ (Iqking' <=> Iqking) /\ (Paging' <=> Paging)
  BY StaKept
<1>3. /\ wd = "power" /\ wd' = "cal" /\ owner' = owner /\ running' = running
      /\ rxPaused' = rxPaused /\ calThrew' = calThrew
  BY DEF ThermalIqkBegin
<1>4. ~WdCalibrating /\ WdCalibrating' /\ (Clean' => Clean /\ ~Calibrating)
  BY <1>0, <1>3 DEF WdCalibrating, Clean
<1>5. SavedGood' /\ WdSavedGood'
  BY <1>1, <1>2, <1>4 DEF CalInv, SavedGood, WdSavedGood, FrontEndGood, Good
<1>6. OverlapSeen' /\ FrontEndGood' /\ LookedAnt' /\ TxGood'
  BY <1>0, <1>2, <1>4 DEF OverlapSeen, FrontEndGood, LookedAnt, TxGood
<1>7. RxResumed' /\ RunningUp'
  BY <1>2, <1>3 DEF CalInv, RxResumed, RunningUp
<1> QED BY <1>1, <1>5, <1>6, <1>7 DEF CalInv

LEMMA ThermalEndStep ==
  ASSUME CalInv, ThermalIqkEnd, UNCHANGED staVars
  PROVE  CalInv'
<1>0. WdCalibrating /\ wdSaved \in Backups /\ (Clean => wdSaved.rxAnt = TRUE)
  BY DEF CalInv, WdSavedGood, WdCalibrating, ThermalIqkEnd
<1>1. /\ chip' \in Registers /\ chip'.page = "C" /\ chip'.rxAnt = wdSaved.rxAnt
      /\ chip'.txPause = FALSE
  BY <1>0, RestoredChip DEF CalInv, ThermalIqkEnd
<1>2. /\ saved' = saved
      /\ (Calibrating' <=> Calibrating) /\ (HoldsRx' <=> HoldsRx) /\ (Armed' <=> Armed)
      /\ (Iqking' <=> Iqking) /\ (Paging' <=> Paging)
  BY StaKept
<1>3. /\ wd' = "sleep" /\ owner' = owner /\ running' = running
      /\ rxPaused' = rxPaused /\ calThrew' = calThrew /\ overlapped' = overlapped
  BY DEF ThermalIqkEnd, history
<1>4. ~WdCalibrating' /\ (Clean' <=> Clean)
  BY <1>3 DEF WdCalibrating, Clean
<1>5. SavedGood' /\ WdSavedGood'
  BY <1>2, <1>4 DEF CalInv, SavedGood, WdSavedGood
<1>6. OverlapSeen' /\ FrontEndGood' /\ LookedAnt' /\ TxGood'
  BY <1>0, <1>1, <1>2, <1>3, <1>4
     DEF CalInv, OverlapSeen, FrontEndGood, LookedAnt, TxGood, Good
<1>7. RxResumed' /\ RunningUp'
  BY <1>2, <1>3 DEF CalInv, RxResumed, RunningUp
<1> QED BY <1>1, <1>5, <1>6, <1>7 DEF CalInv

\* The thread, or rtw_hal_init, is left.
LEMMA ThreadEnded ==
  ASSUME CalInv, ThreadEnds
  PROVE  /\ running' = running /\ rxPaused' = rxPaused /\ overlapped' = overlapped
         /\ ~WdCalibrating' /\ RunningUp'
<1>1. /\ running' = running /\ rxPaused' = rxPaused /\ overlapped' = overlapped
      /\ \/ owner = "init" /\ owner' = "failed" /\ wd' = "off"
         \/ owner # "init" /\ wd' = "threw" /\ owner' = owner
  BY DEF ThreadEnds
<1> QED BY <1>1 DEF CalInv, RunningUp, WdCalibrating

\* An exception that cuts a thermal calibration short.
LEMMA ThermalThrowStep ==
  ASSUME CalInv, ThermalIqkThrows, UNCHANGED staVars
  PROVE  CalInv'
<1>1. chip' \in Registers
  <2>1. CASE wd = "cal"
    <3>1. wdSaved \in Backups
      BY <2>1 DEF CalInv, WdSavedGood, WdCalibrating
    <3> QED BY <2>1, <3>1, CutShortChip DEF ThermalIqkThrows, CalInv
  <2>2. CASE wd = "power"
    BY <2>2, BackupCutShortChip DEF ThermalIqkThrows, CalInv
  <2> QED BY <2>1, <2>2 DEF ThermalIqkThrows
<1>2. /\ saved' = saved
      /\ (Calibrating' <=> Calibrating) /\ (HoldsRx' <=> HoldsRx) /\ (Armed' <=> Armed)
      /\ (Iqking' <=> Iqking) /\ (Paging' <=> Paging)
  BY StaKept
<1>3. /\ rxPaused' = rxPaused /\ overlapped' = overlapped
      /\ ~WdCalibrating' /\ RunningUp' /\ calThrew' = TRUE
  BY ThreadEnded DEF ThermalIqkThrows
<1>4. ~Clean'
  BY <1>3 DEF Clean
<1>5. SavedGood' /\ WdSavedGood'
  BY <1>2, <1>3, <1>4 DEF CalInv, SavedGood, WdSavedGood
<1>6. OverlapSeen' /\ FrontEndGood' /\ LookedAnt' /\ TxGood'
  BY <1>3, <1>4 DEF OverlapSeen, FrontEndGood, LookedAnt, TxGood
<1>7. RxResumed'
  BY <1>2, <1>3 DEF CalInv, RxResumed
<1> QED BY <1>1, <1>3, <1>5, <1>6, <1>7 DEF CalInv

LEMMA WatchdogKeepsInv ==
  ASSUME CalInv, WatchdogStep
  PROVE  CalInv'
<1>0. UNCHANGED staVars /\ (running => owner = "up")
  BY DEF WatchdogStep, CalInv, RunningUp
<1>1. CASE Start
  BY <1>0, <1>1, WdFrame DEF Start, WdCalibrating, RunningUp
<1>2. CASE TickDue
  BY <1>0, <1>2, WdFrame DEF TickDue, WdCalibrating, RunningUp
<1>3. CASE ThreadStops
  BY <1>0, <1>3, WdFrame DEF ThreadStops, WdCalibrating, RunningUp
<1>4. CASE DigTick
  BY <1>0, <1>4, DigStep
<1>5. CASE PowerTracked
  BY <1>0, <1>5, WdFrame DEF PowerTracked, WdCalibrating, RunningUp
<1>6. CASE ThermalIqkBegin(Calibrating)
  BY <1>0, <1>6, ThermalBeginStep
<1>7. CASE ThermalIqkEnd
  BY <1>0, <1>7, ThermalEndStep
<1>8. CASE ThermalIqkThrows
  BY <1>0, <1>8, ThermalThrowStep
<1>9. CASE TickThrows
  <2>1. ~WdCalibrating /\ ThreadEnds /\ UNCHANGED <<chip, calThrew>>
    BY <1>9 DEF TickThrows, WdCalibrating
  <2> QED BY <1>0, <2>1, ThreadEnded, WdFrame DEF shared, history
<1> QED
  BY <1>1, <1>2, <1>3, <1>4, <1>5, <1>6, <1>7, <1>8, <1>9 DEF WatchdogStep, Thread, Tick

-----------------------------------------------------------------------------
(***************************************************************************)
(* The scan, whose channel sets may calibrate.                             *)
(***************************************************************************)
LEMMA ScanStepKeepsInv ==
  ASSUME CalInv, Scan(WdCalibrating), UNCHANGED wdVars
  PROVE  CalInv'
<1> USE DEF Goto, HoldsRx, Calibrating, Iqking, Armed, DumpStep
<1>1. CASE \/ \E h \in Hints : ScanForSsid(h)
           \/ ScanSkip \/ ScanReset \/ ScanTune \/ ScanTuneThrows
           \/ ScanHit \/ ScanNext \/ ScanEnd
  <2>1. UNCHANGED <<chip, rxPaused, calThrew, overlapped, saved>>
    BY <1>1 DEF ScanForSsid, ScanSkip, ScanReset, ScanTune, ScanTuneThrows, ScanThrows,
           ScanHit, ScanNext, ScanEnd, Return, radio, shared, history, joining
  <2>2. ~HoldsRx /\ ~Calibrating /\ ~Calibrating' /\ ~Armed'
    BY <1>1 DEF ScanForSsid, ScanSkip, ScanReset, ScanTune, ScanTuneThrows, ScanThrows,
           ScanHit, ScanNext, ScanEnd, Return
  <2> QED BY <2>1, <2>2, Frame
<1>2. CASE ScanIqk(WdCalibrating)
  BY <1>2, BeginStep DEF ScanIqk
<1>3. CASE ScanCalibrated
  BY <1>3, EndStep DEF ScanCalibrated
<1>4. CASE ScanCalThrows
  <2>1. chip' \in Registers
    <3>1. CASE ctl = "scanIqk"
      BY <1>4, <3>1, BackupCutShortChip DEF ScanCalThrows, CalInv
    <3>2. CASE ctl = "scanCal"
      <4>1. saved \in Backups
        BY <3>2 DEF CalInv, SavedGood
      <4> QED BY <1>4, <3>2, <4>1, CutShortChip DEF ScanCalThrows, CalInv
    <3> QED BY <1>4, <3>1, <3>2 DEF ScanCalThrows
  <2> QED BY <1>4, <2>1, ThrowStep DEF ScanCalThrows, ScanThrows
<1> QED BY <1>1, <1>2, <1>3, <1>4 DEF Scan

(***************************************************************************)
(* The join and the rest of the world leave the base band alone.           *)
(***************************************************************************)
LEMMA JoinStepKeepsInv ==
  ASSUME CalInv, Join, UNCHANGED <<radio, wdVars>>
  PROVE  CalInv'
<1> DEFINE Aside ==
      UNCHANGED saved /\ ~Calibrating /\ ~Calibrating' /\ ~HoldsRx /\ (Armed' => Armed)
<1>1. UNCHANGED <<chip, rxPaused, calThrew, overlapped>>
  BY DEF radio, shared, history
<1>2. Aside
  <2> USE DEF Goto, HoldsRx, Calibrating, Armed, DumpStep
  <2>1. CASE RunProbe
    BY <2>1 DEF RunProbe
  <2>2. ASSUME NEW sent \in BOOLEAN,
               SendDeauth(sent) \/ SendAuth(sent) \/ ResendAuth(sent) \/ Retransmit(sent)
        PROVE  Aside
    BY <2>2 DEF SendDeauth, SendAuth, ResendAuth, Retransmit
  <2>3. CASE RetransmitDue \/ RetransmitSkipped \/ AuthAnswered \/ AuthFails
    BY <2>3 DEF RetransmitDue, RetransmitSkipped, AuthAnswered, AuthFails, joining
  <2>4. CASE SendAssoc \/ SendAssocFails \/ AssocWaited
    BY <2>4 DEF SendAssoc, SendAssocFails, AssocWaited, Finish, joining
  <2>5. CASE BecomeStation \/ BecomeStationThrows \/ HoldDeauthed \/ HoldEnds
    BY <2>5 DEF BecomeStation, BecomeStationThrows, HoldDeauthed, HoldEnds, Finish, joining
  <2> QED BY <2>1, <2>2, <2>3, <2>4, <2>5 DEF Join
<1> QED BY <1>1, <1>2, Frame

LEMMA OutsideKeepsInv ==
  ASSUME CalInv, Outside
  PROVE  CalInv'
<1>1. UNCHANGED <<radio, ctl, joining, wdVars>>
  BY DEF Outside, Receive, OnScanFrame, StoreBeacon, OnMgmtFrame, ApDeauth
<1>2. UNCHANGED <<chip, rxPaused, calThrew, overlapped, saved>>
  BY <1>1 DEF radio, shared, history, joining
<1> QED BY <1>1, <1>2, Frame

LEMMA MeasureKeepsInv ==
  ASSUME CalInv, Measure
  PROVE  CalInv'
<1>1. CASE IqkPage /\ UNCHANGED wdVars
  BY <1>1, PageStep DEF IqkPage, Goto, joining, Calibrating
<1>2. CASE ThermalIqkPage /\ UNCHANGED staVars
  BY <1>2, PageStep, StaKept DEF ThermalIqkPage, WdCalibrating
<1> QED BY <1>1, <1>2 DEF Measure

\* Stop, and its return.
LEMMA DestroyKeepsInv ==
  ASSUME CalInv, Destroy \/ DestroyJoins
  PROVE  CalInv'
<1>1. /\ UNCHANGED <<chip, rxPaused, calThrew, overlapped, staVars, wdSaved>>
      /\ running => owner = "up"
  BY DEF Destroy, DestroyJoins, Stop, Joined, shared, history, CalInv, RunningUp
<1>2. CASE DestroyJoins
  BY <1>1, <1>2, WdFrame DEF DestroyJoins, Joined, WdCalibrating, RunningUp
<1>3. CASE Destroy
  <2>1. wd' = wd /\ running' = FALSE
    BY <1>1, <1>3 DEF Destroy, Stop
  <2>2. /\ saved' = saved
        /\ (Calibrating' <=> Calibrating) /\ (HoldsRx' <=> HoldsRx) /\ (Armed' <=> Armed)
        /\ (Iqking' <=> Iqking) /\ (Paging' <=> Paging)
    BY <1>1, StaKept
  <2>3. (WdCalibrating' <=> WdCalibrating) /\ (Clean' <=> Clean)
    BY <1>1, <2>1 DEF WdCalibrating, Clean
  <2>4. SavedGood' /\ WdSavedGood'
    BY <1>1, <2>2, <2>3 DEF CalInv, SavedGood, WdSavedGood
  <2>5. OverlapSeen' /\ FrontEndGood' /\ LookedAnt' /\ TxGood'
    BY <1>1, <2>2, <2>3 DEF CalInv, OverlapSeen, FrontEndGood, LookedAnt, TxGood, Good
  <2>6. RxResumed' /\ RunningUp'
    BY <1>1, <2>1, <2>2 DEF CalInv, RxResumed, RunningUp
  <2> QED BY <1>1, <2>4, <2>5, <2>6 DEF CalInv
<1> QED BY <1>2, <1>3

LEMMA StutterKeepsInv ==
  ASSUME CalInv, UNCHANGED allVars
  PROVE  CalInv'
<1>1. UNCHANGED <<chip, rxPaused, calThrew, overlapped, saved, ctl, wdVars>>
  BY DEF allVars, vars, staVars, radio, shared, history, joining
<1> QED BY <1>1, Frame

-----------------------------------------------------------------------------
(***************************************************************************)
(* The inductive invariant of the shared base band.                        *)
(***************************************************************************)
THEOREM SharedInv == SessionSpec => []CalInv
<1>1. SessionInit => CalInv
  <2> SUFFICES ASSUME SessionInit PROVE CalInv
    OBVIOUS
  <2>1. /\ chip \in Registers /\ chip.page = "C" /\ chip.rxAnt = TRUE /\ rxPaused = FALSE
    <3>1. PICK p \in BOOLEAN : chip = [page |-> "C", rxAnt |-> TRUE, txPause |-> p,
                                        igi |-> "current"]
      BY DEF SessionInit, Init, SharedInit
    <3>2. rxPaused = FALSE
      BY DEF SessionInit, Init, SharedInit
    <3> QED BY <3>1, <3>2 DEF Registers
  <2>2. ctl = "idle" /\ wd \in {"off", "tick"} /\ running = FALSE
    BY DEF SessionInit, Init, StaInit, WdInit
  <2> QED
    BY <2>1, <2>2
       DEF CalInv, SavedGood, WdSavedGood, OverlapSeen, FrontEndGood, LookedAnt, TxGood,
           RxResumed, RunningUp, Good, Armed, DumpStep, Iqking, Paging, Calibrating,
           WdCalibrating
<1>2. CalInv /\ [SessionNext]_allVars => CalInv'
  <2> SUFFICES ASSUME CalInv, [SessionNext]_allVars PROVE CalInv'
    OBVIOUS
  <2>1. CASE StationStep
    BY <2>1, ScanStepKeepsInv, CalibrateStep, DumpKeepsInv, JoinStepKeepsInv
       DEF StationStep, Probe
  <2>2. CASE WatchdogStep
    BY <2>2, WatchdogKeepsInv
  <2>3. CASE Measure
    BY <2>3, MeasureKeepsInv
  <2>4. CASE Destroy \/ DestroyJoins
    BY <2>4, DestroyKeepsInv
  <2>5. CASE Outside
    BY <2>5, OutsideKeepsInv
  <2>6. CASE UNCHANGED allVars
    BY <2>6, StutterKeepsInv
  <2> QED BY <2>1, <2>2, <2>3, <2>4, <2>5, <2>6 DEF SessionNext
<1> QED BY <1>1, <1>2, PTL DEF SessionSpec

(***************************************************************************)
(* The RX pool never stays paused, whatever throws in arm, in a retry of   *)
(* the IQK or in a look at its result, for any number of retries.          *)
(***************************************************************************)
THEOREM RxAlwaysResumed == SessionSpec => []RxResumed
<1>1. CalInv => RxResumed
  BY DEF CalInv
<1> QED BY <1>1, SharedInv, PTL

(***************************************************************************)
(* No frame of the join is sent into paused queues.                        *)
(***************************************************************************)
THEOREM TxAlwaysReleased == SessionSpec => []TxReleased
<1>1. CalInv => TxReleased
  BY DEF CalInv, TxGood, TxReleased, Sending, Armed
<1> QED BY <1>1, SharedInv, PTL

(***************************************************************************)
(* Calibrate, in a sweep, in arm or in a tick, readTxIqcX and the register *)
(* dumps hand the antennas and the page back.                              *)
(***************************************************************************)
THEOREM FrontEndAlwaysRestored == SessionSpec => []FrontEndRestored
<1>1. CalInv => FrontEndRestored
  BY DEF CalInv, FrontEndGood, FrontEndRestored, Good, Clean
<1> QED BY <1>1, SharedInv, PTL

(***************************************************************************)
(* DigWriteIgi reaches the gain register in every tick that meets no       *)
(* calibration and no other page selected, whatever came before it.        *)
(***************************************************************************)
THEOREM GainAlwaysRewritten == SessionSpec => GainRewritten
<1> DEFINE Rewrites ==
      wd = "tick" /\ wd' = "power" /\ ~Calibrating /\ ~calThrew /\ ~overlapped
        => chip'.igi = "current"
<1>1. CalInv /\ [SessionNext]_allVars => [Rewrites]_allVars
  <2> SUFFICES ASSUME CalInv, [SessionNext]_allVars, wd = "tick", wd' = "power",
                      ~Calibrating, ~calThrew, ~overlapped
               PROVE  chip'.igi = "current"
    OBVIOUS
  <2>1. CASE UNCHANGED wdVars \/ UNCHANGED allVars
    BY <2>1 DEF wdVars, allVars
  <2>2. CASE WatchdogStep
    <3>1. DigTick
      BY <2>2 DEF WatchdogStep, Start, Thread, TickDue, ThreadStops, Tick, PowerTracked,
         TickThrows, ThermalIqkBegin, ThermalIqkEnd, ThermalIqkThrows, ThreadEnds
    <3>2. PICK c \in IgiWritten : chip' = c
      BY <3>1 DEF DigTick
    <3>3. chip \in Registers /\ chip.page = "C"
      BY DEF CalInv, FrontEndGood, WdCalibrating, Clean, Good
    <3> QED BY <3>2, <3>3, IgiChip
  <2>3. CASE Measure \/ Destroy \/ DestroyJoins
    BY <2>3 DEF Measure, IqkPage, ThermalIqkPage, wdVars, Destroy, Stop, DestroyJoins, Joined
  <2> QED BY <2>1, <2>2, <2>3 DEF SessionNext, StationStep, Outside
<1> QED BY <1>1, SharedInv, PTL DEF SessionSpec, GainRewritten

-----------------------------------------------------------------------------
(***************************************************************************)
(* The join.                                                               *)
(***************************************************************************)
Answering == {"assocReq", "waitAssoc", "become", "hold"}

JoinInv == got \subseteq air /\ NoFalseJoin

\* A step on which no flag is raised, and which does not advance the join.
LEMMA JoinFrame ==
  ASSUME JoinInv, got' = got, air \subseteq air',
         ctl' = ctl \/ ctl' \notin Answering,
         outcome' = outcome \/ outcome' # "GO_LinkHeld"
  PROVE  JoinInv'
BY DEF JoinInv, NoFalseJoin, Answering

LEMMA CalibrateKeepsScan ==
  ASSUME Calibrate(WdCalibrating)
  PROVE  /\ UNCHANGED <<scanning, beacon, got, outside>>
         /\ ctl \notin ScanStep /\ ctl' \notin ScanStep /\ ctl' \notin Answering
         /\ outcome' = outcome \/ outcome' = "threw"
<1> USE DEF Goto, ScanStep, Answering, joining, outside
<1>1. CASE PauseRx \/ ArmIqk(WdCalibrating) \/ ArmThermalEnd \/ Arm \/ ArmThrows
  BY <1>1 DEF PauseRx, ArmIqk, ArmThermalEnd, Arm, ArmThrows
<1>2. CASE Look(WdCalibrating) \/ IqkConverged \/ IqkNotConverged \/ LookThrows
  BY <1>2 DEF Look, IqkConverged, IqkNotConverged, Looked, LookThrows
<1>3. CASE IqkRetry(WdCalibrating) \/ IqkRetried \/ IqkRetryThrows
  BY <1>3 DEF IqkRetry, IqkRetried, IqkRetryThrows
<1>4. CASE ResumeRx \/ Unwind
  BY <1>4 DEF ResumeRx, Unwind, Finish
<1> QED BY <1>1, <1>2, <1>3, <1>4 DEF Calibrate

LEMMA DumpKeepsScan ==
  ASSUME Dump(WdCalibrating)
  PROVE  /\ UNCHANGED <<scanning, beacon, got, outside>>
         /\ ctl \notin ScanStep /\ ctl' \notin ScanStep /\ ctl' \notin Answering
         /\ outcome' = outcome \/ outcome' = "TXFAIL_NoAuthResp"
<1> USE DEF Goto, ScanStep, DumpStep, Answering, joining, outside
<1>1. CASE DumpRfe(WdCalibrating) \/ DumpIqc
  BY <1>1 DEF DumpRfe, DumpIqc
<1>2. CASE Dumped \/ DumpThrows
  BY <1>2 DEF Dumped, DumpThrows, AfterDump
<1> QED BY <1>1, <1>2 DEF Dump

LEMMA AirGrows ==
  ASSUME NEW sent, NEW from, NEW view, NEW answer, ApHears(sent, from, view, answer)
  PROVE  air \subseteq air'
BY DEF ApHears, outside

LEMMA JoinKeepsJoin ==
  ASSUME JoinInv, Join
  PROVE  JoinInv'
<1>1. CASE RunProbe
  BY <1>1, JoinFrame DEF RunProbe, Answering, outside
<1>2. ASSUME NEW sent \in BOOLEAN,
             SendDeauth(sent) \/ SendAuth(sent) \/ ResendAuth(sent) \/ Retransmit(sent)
      PROVE  JoinInv'
  <2>1. air \subseteq air'
    BY <1>2, AirGrows DEF SendDeauth, SendAuth, ResendAuth, Retransmit, ApAuth
  <2>2. got' = got /\ outcome' = outcome /\ ctl' \notin Answering
    BY <1>2 DEF SendDeauth, SendAuth, ResendAuth, Retransmit, Goto, Answering
  <2> QED BY <2>1, <2>2, JoinFrame
<1>3. CASE RetransmitDue \/ RetransmitSkipped \/ AuthFails \/ SendAssocFails
  BY <1>3, JoinFrame
     DEF RetransmitDue, RetransmitSkipped, AuthFails, SendAssocFails, Finish, Goto,
         joining, outside, Answering
<1>4. CASE AuthAnswered
  BY <1>4 DEF AuthAnswered, Answered, Goto, joining, outside, JoinInv, NoFalseJoin
<1>5. CASE SendAssoc
  <2>1. air \subseteq air'
    BY <1>5, AirGrows DEF SendAssoc, ApAssociate
  <2>2. ctl = "assocReq" /\ ctl' = "waitAssoc" /\ got' = got /\ outcome' = outcome
    BY <1>5 DEF SendAssoc, Goto, joining
  <2> QED BY <2>1, <2>2 DEF JoinInv, NoFalseJoin
<1>6. CASE AssocWaited
  <2>1. CASE "deauth" \in got \/ "assoc" \notin got
    BY <1>6, <2>1, JoinFrame DEF AssocWaited, Finish, Goto, outside, Answering
  <2>2. CASE "deauth" \notin got /\ "assoc" \in got
    BY <1>6, <2>2 DEF AssocWaited, Goto, joining, outside, JoinInv, NoFalseJoin
  <2> QED BY <2>1, <2>2
<1>7. CASE BecomeStation
  BY <1>7 DEF BecomeStation, Goto, joining, outside, JoinInv, NoFalseJoin
<1>8. CASE BecomeStationThrows \/ HoldDeauthed
  BY <1>8, JoinFrame DEF BecomeStationThrows, HoldDeauthed, Finish, Goto, outside, Answering
<1>9. CASE HoldEnds
  BY <1>9 DEF HoldEnds, Finish, Goto, outside, JoinInv, NoFalseJoin
<1> QED BY <1>1, <1>2, <1>3, <1>4, <1>5, <1>6, <1>7, <1>8, <1>9 DEF Join

LEMMA ScanKeepsJoin ==
  ASSUME JoinInv, Scan(WdCalibrating)
  PROVE  JoinInv'
<1>1. got' = got /\ air' = air /\ ctl' \notin Answering
  BY DEF Scan, ScanForSsid, ScanSkip, ScanReset, ScanTune, ScanTuneThrows, ScanIqk,
         ScanCalibrated, ScanCalThrows, ScanThrows, ScanHit, ScanNext, ScanEnd, Return,
         Goto, outside, Answering
<1>2. outcome' = outcome \/ outcome' = "threw"
  BY DEF Scan, ScanForSsid, ScanSkip, ScanReset, ScanTune, ScanTuneThrows, ScanIqk,
         ScanCalibrated, ScanCalThrows, ScanThrows, ScanHit, ScanNext, ScanEnd, Return,
         joining
<1> QED BY <1>1, <1>2, JoinFrame

LEMMA OutsideKeepsJoin ==
  ASSUME JoinInv, Outside
  PROVE  JoinInv'
<1>1. CASE \E a \in Ap : OnScanFrame(a)
  BY <1>1, JoinFrame DEF OnScanFrame, joining, outside
<1>2. CASE StoreBeacon
  BY <1>2, JoinFrame DEF StoreBeacon, joining, outside
<1>3. CASE \E k \in air : OnMgmtFrame(k, TRUE)
  BY <1>3 DEF OnMgmtFrame, joining, outside, JoinInv, NoFalseJoin
<1>4. CASE \E k \in Kind : OnMgmtFrame(k, FALSE)
  BY <1>4, JoinFrame DEF OnMgmtFrame, joining, outside
<1>5. CASE ApDeauth
  BY <1>5, JoinFrame DEF ApDeauth, joining
<1> QED BY <1>1, <1>2, <1>3, <1>4, <1>5 DEF Outside, Receive

\* The steps of the watchdog and of the measurements.
LEMMA OthersKeepStation ==
  ASSUME WatchdogStep \/ Measure \/ Destroy \/ DestroyJoins \/ UNCHANGED allVars
  PROVE  UNCHANGED <<ctl, scanning, beacon, outcome, got, air>>
<1>1. CASE IqkPage
  BY <1>1 DEF IqkPage, Goto, joining, outside
<1>2. CASE UNCHANGED staVars
  BY <1>2 DEF staVars, joining, outside
<1> QED BY <1>1, <1>2 DEF WatchdogStep, Measure, Destroy, DestroyJoins, allVars, vars

(***************************************************************************)
(* The join advances on the AP's own answers only, whatever is overheard   *)
(* and in whatever order: onMgmtFrame raises a flag only for what the AP   *)
(* has sent to us.                                                         *)
(***************************************************************************)
THEOREM NeverJoinsFalsely == SessionSpec => []NoFalseJoin
<1>1. SessionInit => JoinInv
  BY DEF SessionInit, Init, StaInit, JoinInv, NoFalseJoin
<1>2. JoinInv /\ [SessionNext]_allVars => JoinInv'
  <2> SUFFICES ASSUME JoinInv, [SessionNext]_allVars PROVE JoinInv'
    OBVIOUS
  <2>1. CASE Scan(WdCalibrating)
    BY <2>1, ScanKeepsJoin
  <2>2. CASE Calibrate(WdCalibrating) \/ Dump(WdCalibrating)
    BY <2>2, CalibrateKeepsScan, DumpKeepsScan, JoinFrame DEF outside
  <2>3. CASE Join
    BY <2>3, JoinKeepsJoin
  <2>4. CASE Outside
    BY <2>4, OutsideKeepsJoin
  <2>5. CASE WatchdogStep \/ Measure \/ Destroy \/ DestroyJoins \/ UNCHANGED allVars
    BY <2>5, OthersKeepStation, JoinFrame
  <2> QED BY <2>1, <2>2, <2>3, <2>4, <2>5 DEF SessionNext, StationStep, Probe
<1>3. JoinInv => NoFalseJoin
  BY DEF JoinInv
<1> QED BY <1>1, <1>2, <1>3, PTL DEF SessionSpec

-----------------------------------------------------------------------------
(***************************************************************************)
(* The scan.                                                               *)
(***************************************************************************)
\* What parseBeacon makes of a frame.
Heard == [found : {TRUE}, ap : Ap, channel : Nat]

Truthful(r) == r \in Heard => (r.ap.ds = TRUE => r.channel = r.ap.channel)

\* Tuned to the channel of the list that is looked at.
Tuned == {"scanIqk", "scanCal", "poll"}

Sweeping == {"idle", "reset", "tune"} \cup Tuned

ScanInv ==
  /\ beacon \in {NoFrame} \cup Heard /\ Truthful(beacon)
  /\ ctl \in Sweeping => scanResult \in {NoAp} \cup Heard /\ Truthful(scanResult)
  /\ ctl \in Tuned => chan = list[pos]
  /\ SweepOnChannel

LEMMA ScanFrame ==
  ASSUME ScanInv, UNCHANGED <<scanning, beacon>>,
         ctl' = ctl \/ ctl' \notin ScanStep
  PROVE  ScanInv'
<1>1. /\ beacon' = beacon /\ scanResult' = scanResult /\ chan' = chan
      /\ list' = list /\ pos' = pos /\ found' = found /\ inSweep' = inSweep
  BY DEF scanning
<1>2. ctl' = ctl \/ ctl' \notin Sweeping \cup {"scanned"}
  BY DEF ScanStep, Sweeping, Tuned
<1> QED BY <1>1, <1>2 DEF ScanInv, SweepOnChannel, Truthful, Sweeping

LEMMA BeaconTruthful ==
  ASSUME NEW a \in Ap
  PROVE  ParseBeacon(a) \in Heard /\ Truthful(ParseBeacon(a))
<1>1. a.channel \in Nat /\ a.ds \in BOOLEAN
  BY StationAssumption
<1> QED BY <1>1 DEF ParseBeacon, Heard, Truthful

LEMMA NobodyTruthful == Truthful(NoAp) /\ Truthful(NoFrame)
BY DEF Truthful, Heard, NoAp, NoFrame

LEMMA ScanHitKeeps ==
  ASSUME ScanInv, ScanHit
  PROVE  ScanInv'
<1>1. /\ ctl = "poll" /\ ctl' = "scanned" /\ chan' = chan /\ beacon' = beacon
      /\ found' = scanResult' /\ inSweep' = TRUE
      /\ scanResult' = [scanResult EXCEPT !.channel = list[pos]]
      /\ chan = list[pos]
  BY DEF ScanHit, Return, ScanInv, Tuned
<1>2. scanResult \in Heard /\ scanResult.channel \in {chan, 0}
  BY <1>1 DEF ScanHit, OnChannel, ScanInv, NoAp, Sweeping, Tuned
<1>3. /\ scanResult.ap \in Ap
      /\ scanResult'.ap = scanResult.ap /\ scanResult'.channel = chan
  BY <1>1, <1>2 DEF Heard
<1>4. scanResult.ap.channel \in Nat \ {0} /\ scanResult.ap.ds \in BOOLEAN
  BY <1>3, StationAssumption
<1>5. scanResult.ap.ds = TRUE => chan = scanResult.ap.channel
  BY <1>1, <1>2, <1>4 DEF ScanInv, Truthful, Sweeping, Tuned
<1>6. SweepOnChannel'
  BY <1>1, <1>3, <1>4, <1>5 DEF SweepOnChannel
<1> QED BY <1>1, <1>6 DEF ScanInv, Sweeping, Tuned

LEMMA ScanKeepsScan ==
  ASSUME ScanInv, Scan(WdCalibrating)
  PROVE  ScanInv'
<1> USE DEF Sweeping, Tuned
<1>1. ASSUME NEW h \in Hints, ScanForSsid(h) PROVE ScanInv'
  BY <1>1, NobodyTruthful DEF ScanForSsid, ScanInv, SweepOnChannel
<1>2. CASE ScanSkip
  BY <1>2 DEF ScanSkip, ScanInv, SweepOnChannel
<1>3. CASE ScanReset
  BY <1>3, NobodyTruthful DEF ScanReset, ScanInv, SweepOnChannel
<1>4. CASE ScanTune
  BY <1>4 DEF ScanTune, ScanInv, SweepOnChannel
<1>5. CASE ScanIqk(WdCalibrating) \/ ScanCalibrated
  <2>1. /\ ctl \in Tuned /\ ctl' \in Tuned /\ beacon' = beacon
        /\ scanResult' = scanResult /\ chan' = chan /\ list' = list /\ pos' = pos
    BY <1>5 DEF ScanIqk, ScanCalibrated, Goto, scanning
  <2> QED BY <2>1 DEF ScanInv, SweepOnChannel
<1>6. CASE ScanTuneThrows \/ ScanCalThrows
  BY <1>6 DEF ScanTuneThrows, ScanCalThrows, ScanThrows, ScanInv, SweepOnChannel
<1>7. CASE ScanHit
  BY <1>7, ScanHitKeeps
<1>8. CASE ScanNext
  BY <1>8 DEF ScanNext, ScanInv, SweepOnChannel
<1>9. CASE ScanEnd
  BY <1>9 DEF ScanEnd, Return, ScanInv, SweepOnChannel
<1> QED BY <1>1, <1>2, <1>3, <1>4, <1>5, <1>6, <1>7, <1>8, <1>9 DEF Scan

LEMMA JoinKeepsScan ==
  ASSUME ScanInv, Join
  PROVE  ScanInv'
<1>1. CASE RunProbe
  BY <1>1, NobodyTruthful DEF RunProbe, ScanInv, SweepOnChannel, Sweeping, Tuned
<1>2. CASE ~RunProbe
  <2>1. UNCHANGED <<scanning, beacon>> /\ ctl' \notin ScanStep
    BY <1>2 DEF Join, SendDeauth, SendAuth, ResendAuth, Retransmit, RetransmitDue,
         RetransmitSkipped, AuthAnswered, AuthFails, SendAssoc, SendAssocFails, AssocWaited, BecomeStation,
         BecomeStationThrows, HoldDeauthed, HoldEnds, Finish, Goto, ScanStep
  <2> QED BY <2>1, ScanFrame
<1> QED BY <1>1, <1>2

LEMMA OutsideKeepsScan ==
  ASSUME ScanInv, Outside
  PROVE  ScanInv'
<1>1. ASSUME NEW a \in Ap, OnScanFrame(a) PROVE ScanInv'
  BY <1>1, BeaconTruthful DEF OnScanFrame, scanning, ScanInv, SweepOnChannel, Truthful
<1>2. CASE StoreBeacon
  BY <1>2, NobodyTruthful DEF StoreBeacon, ScanInv, SweepOnChannel, Truthful
<1>3. CASE \E k \in air \cup Kind, forUs \in BOOLEAN : OnMgmtFrame(k, forUs)
  BY <1>3, ScanFrame DEF OnMgmtFrame
<1>4. CASE ApDeauth
  BY <1>4, ScanFrame DEF ApDeauth
<1> QED BY <1>1, <1>2, <1>3, <1>4 DEF Outside, Receive

(***************************************************************************)
(* scanForSsid never takes a bleed match, or a beacon parsed before the    *)
(* retune, for a match on the channel it is on, when beacons name theirs.  *)
(***************************************************************************)
THEOREM SweepAlwaysOnChannel == SessionSpec => []SweepOnChannel
<1>1. SessionInit => ScanInv
  BY NobodyTruthful DEF SessionInit, Init, StaInit, ScanInv, SweepOnChannel, Tuned
<1>2. ScanInv /\ [SessionNext]_allVars => ScanInv'
  <2> SUFFICES ASSUME ScanInv, [SessionNext]_allVars PROVE ScanInv'
    OBVIOUS
  <2>1. CASE Scan(WdCalibrating)
    BY <2>1, ScanKeepsScan
  <2>2. CASE Calibrate(WdCalibrating) \/ Dump(WdCalibrating)
    BY <2>2, CalibrateKeepsScan, DumpKeepsScan, ScanFrame
  <2>3. CASE Join
    BY <2>3, JoinKeepsScan
  <2>4. CASE Outside
    BY <2>4, OutsideKeepsScan
  <2>5. CASE WatchdogStep \/ Measure \/ Destroy \/ DestroyJoins \/ UNCHANGED allVars
    BY <2>5, OthersKeepStation, ScanFrame
  <2> QED BY <2>1, <2>2, <2>3, <2>4, <2>5 DEF SessionNext, StationStep, Probe
<1>3. ScanInv => SweepOnChannel
  BY DEF ScanInv
<1> QED BY <1>1, <1>2, <1>3, PTL DEF SessionSpec

-----------------------------------------------------------------------------
(***************************************************************************)
(* Types and retry bounds.                                                 *)
(***************************************************************************)
\* The position of the sweep is inside its list while a channel is tuned.
ScanType ==
  /\ list \in Seq(Nat) /\ pos \in 1 .. Len(list) + 1 /\ chan \in Nat
  /\ scanResult \in ApInfo /\ found \in ApInfo /\ beacon \in {NoFrame} \cup ApInfo
  /\ ctl \in {"tune", "scanIqk", "scanCal", "poll"} => pos \in 1 .. Len(list)

\* One loop counter serves five loops, each with its own bound.
TriesType ==
  /\ tries \in 0 .. 2 + MaxIqkTries + MaxSends + MaxRetx
  /\ ctl \in {"scanIqk", "scanCal", "arm", "armCal"} => tries \in 1 .. 2
  /\ ctl \in {"iqk", "look", "retry", "retryCal"} => tries <= MaxIqkTries
  /\ ctl = "retry" => tries < MaxIqkTries
  /\ ctl \in {"authDump", "authRfe", "authIqc"} => tries \in 0 .. 1
  /\ ctl = "resend" => tries \in 1 .. MaxSends
  /\ ctl \in {"waitAuth", "retx"} => tries <= MaxRetx
  /\ ctl = "retx" => tries < MaxRetx

JoinType ==
  /\ ctl \in ScanStep \cup ProbeStep /\ outcome \in Outcome
  /\ got \subseteq Kind /\ air \subseteq Kind
  /\ apView \in {"none", "auth", "assoc"}
  /\ saved \in {NoRegisters} \cup Backups \cup Selections

WdType ==
  /\ rxPaused \in BOOLEAN /\ wdSaved \in {NoBackup} \cup Backups
  /\ running \in BOOLEAN /\ stop \in BOOLEAN

\* A beacon parsed, and the result it becomes, are an ApInfo.
LEMMA ApInfos ==
  /\ NoAp \in ApInfo
  /\ \A a \in Ap : ParseBeacon(a) \in ApInfo
  /\ \A r \in ApInfo, c \in Nat : r.found => [r EXCEPT !.channel = c] \in ApInfo
<1>1. ASSUME NEW a \in Ap PROVE ParseBeacon(a) \in ApInfo
  <2>1. a.channel \in Nat
    BY StationAssumption
  <2> QED BY <2>1 DEF ParseBeacon, ApInfo
<1>2. ASSUME NEW r \in ApInfo, NEW c \in Nat, r.found
      PROVE  [r EXCEPT !.channel = c] \in ApInfo
  <2>1. NoAp.found = FALSE
    BY DEF NoAp
  <2>2. r # NoAp
    BY <1>2, <2>1, Zenon
  <2>3. r \in [found : {TRUE}, ap : Ap, channel : Nat]
    BY <2>2 DEF ApInfo
  <2> QED BY <2>3 DEF ApInfo
<1> QED BY <1>1, <1>2 DEF ApInfo

LEMMA ScanKeepsScanType ==
  ASSUME ScanType, Scan(WdCalibrating)
  PROVE  ScanType'
<1> USE ApInfos DEF ScanType
<1>1. ASSUME NEW h \in Hints, ScanForSsid(h) PROVE ScanType'
  <2>1. h \in Nat /\ Sweep \in Seq(Nat)
    BY StationAssumption
  <2>2. list' \in Seq(Nat) /\ Len(list') \in Nat
    BY <1>1, <2>1 DEF ScanForSsid
  <2> QED BY <1>1, <2>2 DEF ScanForSsid
<1>2. CASE ScanSkip \/ ScanReset \/ ScanTune \/ ScanNext
  <2>1. list' = list /\ beacon' = beacon /\ found' = found
    BY <1>2 DEF ScanSkip, ScanReset, ScanTune, ScanNext
  <2>2. pos' \in 1 .. Len(list) + 1
        /\ (ctl' \in {"tune", "scanIqk", "scanCal", "poll"} => pos' \in 1 .. Len(list))
    BY <1>2 DEF ScanSkip, ScanReset, ScanTune, ScanNext
  <2>3. chan' \in Nat
    <3>1. ctl = "tune" => list[pos] \in Nat
      OBVIOUS
    <3> QED BY <1>2, <3>1 DEF ScanSkip, ScanReset, ScanTune, ScanNext
  <2>4. scanResult' \in ApInfo
    BY <1>2 DEF ScanSkip, ScanReset, ScanTune, ScanNext
  <2> QED BY <2>1, <2>2, <2>3, <2>4
<1>3. CASE ScanTuneThrows \/ ScanCalThrows
  <2>1. ctl = "tune" => list[pos] \in Nat
    OBVIOUS
  <2>2. chan' \in Nat
    BY <1>3, <2>1 DEF ScanTuneThrows, ScanCalThrows
  <2>3. /\ list' = <<>> /\ pos' = 1 /\ ctl' = "end"
        /\ UNCHANGED <<scanResult, found, beacon>>
    BY <1>3 DEF ScanTuneThrows, ScanCalThrows, ScanThrows
  <2> QED BY <2>2, <2>3
<1>4. CASE ScanHit
  <2>1. list[pos] \in Nat /\ scanResult.found
    BY <1>4 DEF ScanHit, OnChannel
  <2>2. scanResult' \in ApInfo
    BY <1>4, <2>1 DEF ScanHit
  <2> QED BY <1>4, <2>2 DEF ScanHit, Return
<1>5. CASE ScanEnd
  BY <1>5 DEF ScanEnd, Return
<1>6. CASE ScanIqk(WdCalibrating) \/ ScanCalibrated
  <2>1. UNCHANGED <<list, pos, chan, scanResult, found, beacon>>
    BY <1>6 DEF ScanIqk, ScanCalibrated, Goto, scanning
  <2>2. ctl \in {"scanIqk", "scanCal"}
    BY <1>6 DEF ScanIqk, ScanCalibrated
  <2> QED BY <2>1, <2>2
<1> QED BY <1>1, <1>2, <1>3, <1>4, <1>5, <1>6 DEF Scan

\* A step that leaves the scan alone.
LEMMA ScanTypeFrame ==
  ASSUME ScanType, UNCHANGED <<scanning, beacon>>,
         ctl' = ctl \/ ctl' \notin ScanStep
  PROVE  ScanType'
<1>1. UNCHANGED <<list, pos, chan, scanResult, found, beacon>>
  BY DEF scanning
<1> QED BY <1>1 DEF ScanType, ScanStep

LEMMA OthersKeepScanType ==
  ASSUME ScanType, Join \/ Outside
  PROVE  ScanType'
<1> USE ApInfos DEF ScanType
<1>1. CASE RunProbe
  BY <1>1 DEF RunProbe
<1>2. CASE Join /\ ~RunProbe
  <2>1. UNCHANGED <<scanning, beacon>> /\ ctl' \notin ScanStep
    BY <1>2 DEF Join, SendDeauth, SendAuth, ResendAuth, Retransmit, RetransmitDue,
       RetransmitSkipped, AuthAnswered, AuthFails, SendAssoc, SendAssocFails,
       AssocWaited, BecomeStation, BecomeStationThrows, HoldDeauthed, HoldEnds,
       Finish, Goto, ScanStep
  <2> QED BY <2>1, ScanTypeFrame
<1>3. ASSUME NEW a \in Ap, OnScanFrame(a) PROVE ScanType'
  BY <1>3 DEF OnScanFrame, scanning
<1>4. CASE StoreBeacon
  BY <1>4 DEF StoreBeacon
<1>5. CASE ApDeauth \/ \E k, u : OnMgmtFrame(k, u)
  <2>1. UNCHANGED <<ctl, scanning, beacon>>
    BY <1>5 DEF ApDeauth, OnMgmtFrame
  <2> QED BY <2>1, ScanTypeFrame
<1> QED BY <1>1, <1>2, <1>3, <1>4, <1>5 DEF Outside, Receive

\* At most the thermal IQK and the one _needIQK asks for.
LEMMA IqksDueBound ==
  ASSUME NEW needIqk \in BOOLEAN, NEW n \in IqksDue(needIqk)
  PROVE  n \in 0 .. 2 /\ (needIqk => n \in 1 .. 2)
<1>1. PICK hot \in BOOLEAN :
        n = (IF hot THEN 1 ELSE 0) + (IF needIqk THEN 1 ELSE 0)
  BY ThermalAssumption DEF IqksDue
<1> QED BY <1>1

LEMMA CalibrateKeepsTypes ==
  ASSUME TriesType, JoinType, WdType, CalInv, Calibrate(WdCalibrating)
  PROVE  TriesType' /\ JoinType' /\ rxPaused' \in BOOLEAN
<1> USE StationAssumption DEF TriesType
<1>1. UNCHANGED <<got, outside>> /\ (outcome' = outcome \/ outcome' = "threw")
  BY CalibrateKeepsScan
<1>2. Backup \in Backups /\ Selected \in Selections
  BY ConfiguredChip, PagedChip DEF CalInv
<1>3. saved' \in {NoRegisters, saved, Backup, Selected} /\ ctl' \in ProbeStep
  BY DEF Calibrate, PauseRx, ArmIqk, ArmThermalEnd, Arm, ArmThrows, Look, IqkConverged,
     IqkNotConverged, Looked, LookThrows, IqkRetry, IqkRetried, IqkRetryThrows,
     ResumeRx, Unwind, Finish, Goto, ProbeStep, joining
<1>4. JoinType'
  BY <1>1, <1>2, <1>3 DEF JoinType, outside, Outcome
<1>5. rxPaused' \in BOOLEAN
  BY DEF WdType, Calibrate, PauseRx, ArmIqk, ArmThermalEnd, Arm, ArmThrows, Look, IqkConverged,
     IqkNotConverged, Looked, LookThrows, IqkRetry, IqkRetried, IqkRetryThrows,
     ResumeRx, Unwind
<1>6. TriesType'
  <2>0. CASE PauseRx
    <3>1. tries' \in 1 .. 2 /\ ctl' = "arm"
      BY <2>0, IqksDueBound DEF PauseRx, Goto
    <3> QED BY <3>1
  <2>1. CASE ArmIqk(WdCalibrating) \/ ArmThermalEnd \/ Arm \/ ArmThrows
    BY <2>1 DEF ArmIqk, ArmThermalEnd, Arm, ArmThrows, Goto, joining
  <2>2. CASE Look(WdCalibrating) \/ IqkConverged \/ IqkNotConverged
    BY <2>2 DEF Look, IqkConverged, IqkNotConverged, Looked, Goto
  <2>3. CASE LookThrows
    BY <2>3 DEF LookThrows, Goto
  <2>4. CASE IqkRetry(WdCalibrating) \/ IqkRetried \/ IqkRetryThrows
    BY <2>4 DEF IqkRetry, IqkRetried, IqkRetryThrows, Goto
  <2>5. CASE ResumeRx \/ Unwind
    BY <2>5 DEF ResumeRx, Unwind, Finish, Goto, joining
  <2> QED BY <2>0, <2>1, <2>2, <2>3, <2>4, <2>5 DEF Calibrate
<1> QED BY <1>4, <1>5, <1>6

LEMMA DumpKeepsTypes ==
  ASSUME TriesType, JoinType, CalInv, Dump(WdCalibrating)
  PROVE  TriesType' /\ JoinType' /\ rxPaused' = rxPaused
<1> USE StationAssumption DEF Goto, DumpStep, joining
<1>1. UNCHANGED <<got, outside>> /\ (outcome' = outcome \/ outcome' = "TXFAIL_NoAuthResp")
  BY DumpKeepsScan
<1>2. Selected \in Selections
  BY PagedChip DEF CalInv
<1>3. CASE DumpRfe(WdCalibrating) \/ DumpIqc
  <2>1. saved' \in {saved, Selected} /\ ctl' \in ProbeStep /\ rxPaused' = rxPaused
    BY <1>3 DEF DumpRfe, DumpIqc, ProbeStep
  <2>2. TriesType'
    BY <1>3 DEF TriesType, DumpRfe, DumpIqc
  <2> QED BY <1>1, <1>2, <2>1, <2>2 DEF JoinType, outside, Outcome
<1>4. CASE Dumped \/ DumpThrows
  <2>1. AfterDump /\ ctl \in DumpStep
    BY <1>4 DEF Dumped, DumpThrows
  <2>2. saved' = NoRegisters /\ ctl' \in ProbeStep /\ rxPaused' = rxPaused
    BY <2>1 DEF AfterDump, ProbeStep
  <2>3. TriesType'
    BY <2>1 DEF TriesType, AfterDump
  <2> QED BY <1>1, <2>2, <2>3 DEF JoinType, outside, Outcome
<1> QED BY <1>3, <1>4 DEF Dump

LEMMA JoinKeepsTypes ==
  ASSUME TriesType, JoinType, Join
  PROVE  TriesType' /\ JoinType'
<1> USE StationAssumption DEF TriesType, Goto, joining
<1>1. got' = got /\ saved' = saved
  BY DEF Join, RunProbe, SendDeauth, SendAuth, ResendAuth, Retransmit, RetransmitDue,
     RetransmitSkipped, AuthAnswered, AuthFails, SendAssoc, SendAssocFails,
     AssocWaited, BecomeStation, BecomeStationThrows, HoldDeauthed, HoldEnds, Finish
<1>2. ctl' \in ProbeStep /\ outcome' \in Outcome
  BY DEF Join, RunProbe, SendDeauth, SendAuth, ResendAuth, Retransmit, RetransmitDue,
     RetransmitSkipped, AuthAnswered, AuthFails, SendAssoc, SendAssocFails,
     AssocWaited, BecomeStation, BecomeStationThrows, HoldDeauthed, HoldEnds, Finish,
     ProbeStep, DumpStep, JoinType, Outcome
<1>3. apView' \in {"none", "auth", "assoc"} /\ air' \subseteq Kind
  <2>1. ASSUME NEW sent, NEW from, NEW view \in {"none", "auth", "assoc"},
               NEW answer \in SUBSET Kind, ApHears(sent, from, view, answer)
        PROVE  apView' \in {"none", "auth", "assoc"} /\ air' \subseteq Kind
    BY <2>1 DEF ApHears, JoinType, outside
  <2>2. {} \in SUBSET Kind /\ {"auth"} \in SUBSET Kind /\ {"assoc"} \in SUBSET Kind
    BY DEF Kind
  <2>3. ASSUME NEW sent \in BOOLEAN,
               SendDeauth(sent) \/ SendAuth(sent) \/ ResendAuth(sent) \/ Retransmit(sent)
        PROVE  apView' \in {"none", "auth", "assoc"} /\ air' \subseteq Kind
    BY <2>1, <2>2, <2>3 DEF SendDeauth, SendAuth, ResendAuth, Retransmit, ApAuth
  <2>4. CASE SendAssoc
    BY <2>1, <2>2, <2>4 DEF SendAssoc, ApAssociate
  <2>5. CASE UNCHANGED outside
    BY <2>5 DEF outside, JoinType
  <2> QED
    BY <2>3, <2>4, <2>5 DEF Join, RunProbe, RetransmitDue, RetransmitSkipped,
       AuthAnswered, AuthFails, SendAssocFails, AssocWaited, BecomeStation,
       BecomeStationThrows, HoldDeauthed, HoldEnds, Finish
<1>4. TriesType'
  <2>1. CASE RunProbe
    BY <2>1 DEF RunProbe
  <2>2. ASSUME NEW sent \in BOOLEAN,
               SendDeauth(sent) \/ SendAuth(sent) \/ ResendAuth(sent) \/ Retransmit(sent)
        PROVE  TriesType'
    BY <2>2 DEF SendDeauth, SendAuth, ResendAuth, Retransmit
  <2>3. CASE RetransmitDue \/ RetransmitSkipped \/ AuthAnswered \/ SendAssoc \/ BecomeStation
    BY <2>3 DEF RetransmitDue, RetransmitSkipped, AuthAnswered, SendAssoc, BecomeStation
  <2>4. CASE \/ AuthFails \/ SendAssocFails \/ AssocWaited
             \/ BecomeStationThrows \/ HoldDeauthed \/ HoldEnds
    BY <2>4 DEF AuthFails, SendAssocFails, AssocWaited, BecomeStationThrows,
       HoldDeauthed, HoldEnds, Finish
  <2> QED BY <2>1, <2>2, <2>3, <2>4 DEF Join
<1> QED BY <1>1, <1>2, <1>3, <1>4 DEF JoinType

LEMMA ScanKeepsTypes ==
  ASSUME TriesType, JoinType, CalInv, Scan(WdCalibrating)
  PROVE  TriesType' /\ JoinType' /\ rxPaused' = rxPaused
<1>1. /\ UNCHANGED <<got, outside, rxPaused>>
      /\ ctl' \in ScanStep \cup {"end"}
      /\ outcome' = outcome \/ outcome' = "threw"
      /\ saved' \in {saved, NoRegisters, Backup}
  BY DEF Scan, ScanForSsid, ScanSkip, ScanReset, ScanTune, ScanTuneThrows, ScanIqk,
     ScanCalibrated, ScanCalThrows, ScanThrows, ScanHit, ScanNext, ScanEnd, Return,
     Goto, ScanStep, joining, radio, shared
<1>2. Backup \in Backups
  BY ConfiguredChip DEF CalInv
<1>3. JoinType'
  BY <1>1, <1>2 DEF JoinType, ScanStep, ProbeStep, outside, Outcome
<1>4. TriesType'
  <2> USE StationAssumption DEF TriesType, Goto, joining
  <2>1. CASE ScanTune
    <3>1. tries' \in 0 .. 2 /\ ctl' = IF tries' = 0 THEN "poll" ELSE "scanIqk"
      <4>1. PICK crosses \in Crosses : tries' \in IqksDue(crosses)
        BY <2>1 DEF ScanTune
      <4>2. crosses \in BOOLEAN
        BY DEF Crosses
      <4> QED BY <2>1, <4>1, <4>2, IqksDueBound DEF ScanTune
    <3> QED BY <3>1
  <2>2. CASE ScanIqk(WdCalibrating) \/ ScanCalibrated
    BY <2>2 DEF ScanIqk, ScanCalibrated
  <2>3. CASE ScanTuneThrows \/ ScanCalThrows
    BY <2>3 DEF ScanTuneThrows, ScanCalThrows, ScanThrows
  <2>4. CASE \/ \E h \in Hints : ScanForSsid(h)
             \/ ScanSkip \/ ScanReset \/ ScanHit \/ ScanNext \/ ScanEnd
    <3>1. tries' = tries /\ ctl' \in {"reset", "tune", "scanned"}
      BY <2>4 DEF ScanForSsid, ScanSkip, ScanReset, ScanHit, ScanNext, ScanEnd, Return
    <3> QED BY <3>1
  <2> QED BY <2>1, <2>2, <2>3, <2>4 DEF Scan
<1> QED BY <1>1, <1>3, <1>4

LEMMA OutsideKeepsTypes ==
  ASSUME TriesType, JoinType, Outside
  PROVE  TriesType' /\ JoinType' /\ rxPaused' = rxPaused
<1>1. UNCHANGED <<ctl, joining, radio>>
  BY DEF Outside, Receive, OnScanFrame, StoreBeacon, OnMgmtFrame, ApDeauth
<1>2. got' \subseteq Kind /\ air' \subseteq Kind /\ apView' \in {"none", "auth", "assoc"}
  <2>1. CASE ApDeauth
    BY <2>1 DEF ApDeauth, JoinType, Kind
  <2>2. CASE Receive
    <3>1. UNCHANGED outside
      BY <2>2 DEF Receive, OnScanFrame, StoreBeacon, OnMgmtFrame
    <3>2. \A k \in air : k \in Kind
      BY DEF JoinType
    <3>3. got' \subseteq Kind
      BY <2>2, <3>2 DEF Receive, OnScanFrame, StoreBeacon, OnMgmtFrame, JoinType
    <3> QED BY <3>1, <3>3 DEF outside, JoinType
  <2> QED BY <2>1, <2>2 DEF Outside
<1> QED BY <1>1, <1>2 DEF TriesType, JoinType, joining, radio, shared

LEMMA WatchdogKeepsTypes ==
  ASSUME WdType, CalInv, WatchdogStep \/ Destroy \/ DestroyJoins \/ ThermalIqkPage
  PROVE  WdType'
<1>1. Backup \in Backups
  BY ConfiguredChip DEF CalInv
<1> USE DEF WdType
<1>2. CASE Start \/ Stop \/ Joined
  BY <1>2 DEF Start, Stop, Joined, shared
<1>3. CASE TickDue \/ ThreadStops \/ PowerTracked \/ DigTick
  BY <1>3 DEF TickDue, ThreadStops, PowerTracked, DigTick, shared
<1>4. CASE TickThrows \/ ThermalIqkThrows \/ ThermalIqkPage
  BY <1>4 DEF TickThrows, ThermalIqkThrows, ThreadEnds, ThermalIqkPage, wdVars
<1>5. CASE ThermalIqkBegin(Calibrating) \/ ThermalIqkEnd
  BY <1>1, <1>5 DEF ThermalIqkBegin, ThermalIqkEnd
<1> QED BY <1>2, <1>3, <1>4, <1>5
        DEF WatchdogStep, Destroy, DestroyJoins, Thread, Tick

(***************************************************************************)
(* The session keeps its types; in particular the one loop counter of      *)
(* runProbe stays below the bound of the loop it is in, the sweep inside   *)
(* its list, and _running is true only while HalModule is up.              *)
(***************************************************************************)
THEOREM SessionType == SessionSpec => []SessionTypeOK
<1> DEFINE TInv == ScanType /\ TriesType /\ JoinType /\ WdType
<1>1. SessionInit => TInv
  <2> SUFFICES ASSUME SessionInit PROVE TInv
    OBVIOUS
  <2>1. ScanType
    BY ApInfos DEF SessionInit, Init, StaInit, ScanType
  <2>2. TriesType
    BY StationAssumption DEF SessionInit, Init, StaInit, TriesType
  <2>3. JoinType
    BY DEF SessionInit, Init, StaInit, JoinType, ScanStep, Outcome
  <2>4. WdType
    BY DEF SessionInit, Init, SharedInit, WdInit, WdType
  <2> QED BY <2>1, <2>2, <2>3, <2>4
<1>2. TInv /\ CalInv /\ [SessionNext]_allVars => TInv'
  <2> SUFFICES ASSUME ScanType, TriesType, JoinType, WdType, CalInv, [SessionNext]_allVars
               PROVE  TInv'
    OBVIOUS
  <2>1. CASE Scan(WdCalibrating) /\ UNCHANGED wdVars
    BY <2>1, ScanKeepsScanType, ScanKeepsTypes DEF WdType, wdVars
  <2>2. CASE Calibrate(WdCalibrating) /\ UNCHANGED wdVars
    BY <2>2, CalibrateKeepsScan, ScanTypeFrame, CalibrateKeepsTypes DEF WdType, wdVars
  <2>3. CASE Join /\ UNCHANGED <<radio, wdVars>>
    BY <2>3, OthersKeepScanType, JoinKeepsTypes DEF WdType, wdVars, radio, shared
  <2>4. CASE Outside
    BY <2>4, OthersKeepScanType, OutsideKeepsTypes DEF WdType, wdVars, Outside
  <2>5. CASE UNCHANGED staVars /\ WdType'
    <3>1. UNCHANGED <<ctl, scanning, beacon, joining, got, outside>>
      BY <2>5 DEF staVars
    <3> QED
      BY <2>5, <3>1, ScanTypeFrame DEF TriesType, JoinType, joining, outside
  <2>6. CASE WatchdogStep \/ Destroy \/ DestroyJoins
    BY <2>5, <2>6, WatchdogKeepsTypes DEF WatchdogStep, Destroy, DestroyJoins
  <2>7. CASE Measure
    <3>1. CASE ThermalIqkPage /\ UNCHANGED staVars
      BY <2>5, <3>1, WatchdogKeepsTypes
    <3>2. CASE IqkPage /\ UNCHANGED wdVars
      <4>1. UNCHANGED <<ctl, scanning, beacon, joining, got, outside, rxPaused>>
        BY <3>2 DEF IqkPage, Goto
      <4> QED
        BY <3>2, <4>1, ScanTypeFrame DEF TriesType, JoinType, WdType, joining, outside, wdVars
    <3> QED BY <2>7, <3>1, <3>2 DEF Measure
  <2>8. CASE UNCHANGED allVars
    BY <2>5, <2>8 DEF allVars, vars, wdVars, radio, shared, WdType
  <2>9. CASE Dump(WdCalibrating) /\ UNCHANGED wdVars
    BY <2>9, DumpKeepsScan, ScanTypeFrame, DumpKeepsTypes DEF WdType, wdVars
  <2> QED
    BY <2>1, <2>2, <2>3, <2>4, <2>6, <2>7, <2>8, <2>9 DEF SessionNext, StationStep, Probe
<1>3. TInv /\ CalInv => SessionTypeOK
  BY DEF CalInv, RunningUp, SessionTypeOK, TypeOK, ScanType, TriesType, JoinType, WdType
<1> QED BY <1>1, <1>2, <1>3, SharedInv, PTL DEF SessionSpec

=============================================================================
