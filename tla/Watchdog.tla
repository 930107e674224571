------------------------------ MODULE Watchdog -------------------------------
(***************************************************************************)
(* PhydmWatchdog and what a tick of it does to the radio: the gain (DIG),  *)
(* and in TickThermalMeter of PowerTracking8812a an I/Q calibration when   *)
(* the temperature has moved by 8 steps (DEVOURER_PWRTRACK_IQK).           *)
(* rtw_hal_init makes one tick on the control thread and then starts the   *)
(* watchdog's own; the destructor of HalModule stops it.                   *)
(*                                                                         *)
(* Which gain is chosen, the retry table 0x430, the BB swing and the       *)
(* crystal cap are left out: nothing else writes them.  Any register read  *)
(* may throw.                                                              *)
(***************************************************************************)
EXTENDS BaseBand

VARIABLES
  owner,       \* how far HalModule is: "init" (the tick of rtw_hal_init), "up",
               \* "join" (in Stop), "gone"; "failed": that tick threw;
               \* "none": DEVOURER_NO_PHYDM
  wd, wdSaved, \* the step of the tick or of ThreadLoop; the backup of its IQK
  running, stop  \* _running, _stop

wdVars == <<owner, wd, wdSaved, running, stop>>

NoBackup == [none |-> TRUE]

WdInit ==
  /\ \/ owner = "none" /\ wd = "off"
     \/ owner = "init" /\ wd = "tick"
  /\ wdSaved = NoBackup
  /\ running = FALSE /\ stop = FALSE

WdCalibrating == wd = "cal"

-----------------------------------------------------------------------------
\* Start, after the tick of rtw_hal_init.
Start ==
  /\ owner = "init" /\ wd = "sleep"
  /\ ~running
  /\ owner' = "up" /\ running' = TRUE /\ stop' = FALSE
  /\ UNCHANGED <<wd, wdSaved, shared, history>>

\* Variant: _stop is set after the join.
StopLate ==
  /\ owner \in {"up", "failed"}
  /\ running' = FALSE
  /\ owner' = IF running THEN "join" ELSE "gone"
  /\ UNCHANGED <<wd, wdSaved, stop, shared, history>>

\* Stop, in the destructor: nothing unless _running was true.
Stop ==
  /\ owner \in {"up", "failed"}
  /\ running' = FALSE
  /\ stop' = (stop \/ running)
  /\ owner' = IF running THEN "join" ELSE "gone"
  /\ UNCHANGED <<wd, wdSaved, shared, history>>

Joined ==
  /\ owner = "join" /\ wd \in {"left", "threw"}
  /\ owner' = "gone" /\ wd' = "off"
  /\ UNCHANGED <<wdSaved, running, stop, shared, history>>

\* ThreadLoop: the next tick is due, or _stop is seen.
TickDue ==
  /\ owner \in {"up", "join"} /\ wd = "sleep" /\ ~stop
  /\ wd' = "tick"
  /\ UNCHANGED <<owner, wdSaved, running, stop, shared, history>>

ThreadStops ==
  /\ owner \in {"up", "join"} /\ wd = "sleep" /\ stop
  /\ wd' = "left"
  /\ UNCHANGED <<owner, wdSaved, running, stop, shared, history>>

\* TickOnce reads the counters and writes the gain, always.
DigTick ==
  /\ wd = "tick"
  /\ chip' \in IgiWritten
  /\ wd' = "power"
  /\ UNCHANGED <<owner, wdSaved, running, stop, rxPaused, history>>

\* TickThermalMeter: little drift, or no IQK on drift.
PowerTracked ==
  /\ wd = "power"
  /\ wd' = "sleep"
  /\ UNCHANGED <<owner, wdSaved, running, stop, shared, history>>

\* pauseAsyncRx and resumeAsyncRx around it have no effect.
ThermalIqkBegin(calibrating) ==
  /\ wd = "power" /\ ThermalIqk
  /\ wdSaved' = Backup /\ chip' = Configured
  /\ overlapped' = (overlapped \/ calibrating)
  /\ wd' = "cal"
  /\ UNCHANGED <<owner, running, stop, rxPaused, calThrew>>

ThermalIqkPage ==
  /\ wd = "cal"
  /\ \E p \in {"C", "C1"} : chip' = Measuring(p)
  /\ UNCHANGED <<wdVars, rxPaused, history>>

ThermalIqkEnd ==
  /\ wd = "cal"
  /\ chip' = Restored(wdSaved) /\ wdSaved' = NoBackup
  /\ wd' = "sleep"
  /\ UNCHANGED <<owner, running, stop, rxPaused, history>>

\* An exception ends the thread's loop, with _running left true, or leaves
\* rtw_hal_init.
ThreadEnds ==
  /\ IF owner = "init" THEN owner' = "failed" /\ wd' = "off"
                       ELSE wd' = "threw" /\ UNCHANGED owner
  /\ UNCHANGED <<running, stop, rxPaused, overlapped>>

TickThrows ==
  /\ wd \in {"tick", "power"}
  /\ ThreadEnds
  /\ UNCHANGED <<chip, wdSaved, calThrew>>

\* A thermal IQK is cut short.
ThermalIqkThrows ==
  /\ wd = "cal" \/ (wd = "power" /\ ThermalIqk)
  /\ chip' \in IF wd = "cal" THEN CutShort(wdSaved) ELSE BackupCutShort
  /\ wdSaved' = NoBackup
  /\ calThrew' = TRUE
  /\ ThreadEnds

\* calibrating: the control thread is in a calibration or has another page
\* selected.
Tick(calibrating) ==
  \/ DigTick \/ PowerTracked \/ TickThrows
  \/ ThermalIqkBegin(calibrating) \/ ThermalIqkEnd \/ ThermalIqkThrows

Thread(calibrating) == TickDue \/ ThreadStops \/ Tick(calibrating)

=============================================================================
