------------------------------ MODULE BaseBand -------------------------------
(***************************************************************************)
(* What the control thread and the watchdog thread share of the radio: the *)
(* registers a calibration takes over, the page they are reached through,  *)
(* and the paused state of the RX pool.  No lock protects any of them.     *)
(*                                                                         *)
(* Registers 0xc00 to 0xeff exist twice; bit 31 of 0x82c selects page C or *)
(* C1.  The gain register 0xc50 that the watchdog writes is one of them.   *)
(*                                                                         *)
(* The chip is an 8812, the one whose channel sets and ticks both call     *)
(* TickThermalMeter.  Its pauseAsyncRx and resumeAsyncRx do nothing:       *)
(* PowerTracking8812a holds a copy of the adapter made before startAsyncRx *)
(* created the pool, whose _asyncRx stays empty.                           *)
(***************************************************************************)
EXTENDS Integers

CONSTANT ThermalIqk      \* DEVOURER_PWRTRACK_IQK is set

ASSUME ThermalAssumption == ThermalIqk \in BOOLEAN

VARIABLES
  chip,        \* the registers
  rxPaused     \* the RX pool is paused

\* History: an exception cut a calibration, or a look at another page, short;
\* two of them overlapped.
VARIABLES calThrew, overlapped

shared == <<chip, rxPaused>>
history == <<calThrew, overlapped>>

\* igi: whether 0xc50 of page C holds the gain the watchdog last chose.
Registers ==
  [page : {"C", "C1"}, rxAnt : BOOLEAN, txPause : BOOLEAN,
   igi : {"current", "stale"}]

\* After the bring-up; a calibration in it may have left TX paused.
SharedInit ==
  /\ chip \in {[page |-> "C", rxAnt |-> TRUE, txPause |-> p, igi |-> "current"] :
                 p \in BOOLEAN}
  /\ rxPaused = FALSE
  /\ calThrew = FALSE /\ overlapped = FALSE

\* The calibrations of one channel set: TickThermalMeter's when the
\* temperature has moved by 8 steps, then the one _needIQK asks for.
IqksDue(needIqk) ==
  {(IF hot THEN 1 ELSE 0) + (IF needIqk THEN 1 ELSE 0) :
     hot \in IF ThermalIqk THEN BOOLEAN ELSE {FALSE}}

\* What a thread holds of them: the backup of an IQK, or the 0x82c to put back.
Backups == [page : {"C"}, rxAnt : BOOLEAN, txPause : BOOLEAN]
Selections == [page : {"C", "C1"}]

-----------------------------------------------------------------------------
(***************************************************************************)
(* Iqk8812a::Calibrate.  The reads of the backup and the writes of         *)
(* ConfigureMac are one step, the measurement another, the restore a third. *)
(***************************************************************************)
\* BackupMacBb selects page C before it reads.
Backup == [page |-> "C", rxAnt |-> chip.rxAnt, txPause |-> chip.txPause]

\* ConfigureMac: TX paused, the RX antennas off.
Configured == [chip EXCEPT !.page = "C", !.txPause = TRUE, !.rxAnt = FALSE]

\* DoTxRxCalibration goes back and forth between the pages.
Measuring(page) == [chip EXCEPT !.page = page]

\* Variant: 0x808 is not among the registers restored.
RestoredDeaf(saved) == [chip EXCEPT !.page = saved.page, !.txPause = FALSE]

\* RestoreMacBb puts back what the backup holds; REG_TXPAUSE is then cleared,
\* "that backup was taken from a chip that may already have had 0x522 = 0x3f".
Restored(saved) ==
  [chip EXCEPT !.page = saved.page, !.rxAnt = saved.rxAnt, !.txPause = FALSE]

\* What an exception leaves, in the backup and after it.  No register is read
\* once the restore has begun, and only reads throw.
BackupCutShort == {[chip EXCEPT !.page = p] : p \in {"C", "C1"}}

CutShort(saved) ==
  {[chip EXCEPT !.page = "C", !.rxAnt = saved.rxAnt, !.txPause = TRUE]} \cup
  {[chip EXCEPT !.page = p, !.rxAnt = FALSE, !.txPause = TRUE] : p \in {"C", "C1"}}

\* 0x82c as a look at another page finds it.
Selected == [page |-> chip.page]

\* DigWriteIgi: in page C1 the byte goes to another register, and the gain in
\* force stays the old one, which may be the one chosen again.
IgiWritten ==
  IF chip.page = "C" THEN {[chip EXCEPT !.igi = "current"]}
  ELSE {chip, [chip EXCEPT !.igi = "stale"]}

=============================================================================
