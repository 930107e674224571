--------------------------- MODULE StationWatchdog ---------------------------
(***************************************************************************)
(* A session as the application sees it: rtw_hal_init has brought the      *)
(* radio up and starts the watchdog; a StationMode then scans and joins on *)
(* the control thread while the watchdog ticks on its own; at the end the  *)
(* device is destroyed.  The two threads share the base band and the RX    *)
(* pool (BaseBand) and nothing orders their accesses.                      *)
(***************************************************************************)
EXTENDS StationMode, Watchdog

allVars == <<vars, wdVars>>

SessionInit == Init /\ WdInit

\* The tick of rtw_hal_init is the control thread's, as are Start and Stop.
WatchdogStep ==
  /\ (wd # "off" /\ Thread(Calibrating)) \/ Start
  /\ UNCHANGED staVars

\* The application goes on once rtw_hal_init has returned.
StationStep ==
  /\ owner \in {"up", "none"}
  /\ Scan(WdCalibrating) \/ Probe(WdCalibrating)
  /\ UNCHANGED wdVars

\* A measurement under way selects the other page.
Measure ==
  \/ IqkPage /\ UNCHANGED wdVars
  \/ ThermalIqkPage /\ UNCHANGED staVars

Destroy ==
  /\ ctl \in {"idle", "end"} /\ Stop
  /\ UNCHANGED staVars

DestroyJoins ==
  /\ Joined
  /\ UNCHANGED staVars

\* What arrives once runProbe has returned is not looked at any more.
Outside ==
  /\ ctl # "end"
  /\ Receive \/ ApDeauth
  /\ UNCHANGED wdVars

SessionNext ==
  StationStep \/ WatchdogStep \/ Measure \/ Destroy \/ DestroyJoins \/ Outside

SessionSpec == SessionInit /\ [][SessionNext]_allVars

\* Fairness: the threads keep running: every wait of the control thread has a
\* deadline, the measurement of an IQK a bound on its retries, and the
\* watchdog sleeps 200 ms at a time.  Nothing is assumed of the AP, of the RX
\* thread or of the application, which need not destroy the device.
FairSpec ==
  /\ SessionSpec
  /\ WF_allVars(StationStep) /\ WF_allVars(WatchdogStep)
  /\ WF_allVars(DestroyJoins)

-----------------------------------------------------------------------------
SessionTypeOK ==
  /\ TypeOK
  /\ rxPaused \in BOOLEAN
  /\ wdSaved \in {NoBackup} \cup Backups
  /\ running \in BOOLEAN /\ stop \in BOOLEAN
  /\ running => owner = "up"

(***************************************************************************)
(* The RX pool is paused only between the pauseAsyncRx of runProbe and its *)
(* resumeAsyncRx: whatever throws in between, RX is resumed.               *)
(***************************************************************************)
RxResumed == rxPaused => HoldsRx

(***************************************************************************)
(* No management frame is sent into paused TX queues, whatever state an    *)
(* earlier calibration left them in and however two of them overlapped,    *)
(* unless one is under way on the watchdog's thread or was cut short.      *)
(***************************************************************************)
TxReleased == Sending /\ ~WdCalibrating /\ ~calThrew => ~chip.txPause

(***************************************************************************)
(* A calibration, of a sweep, of arm or of the watchdog, and a look at     *)
(* another page hand the base band back as it was: the RX antennas on and  *)
(* page C selected, unless one was cut short or two overlapped, when one   *)
(* saves, and later restores, what the other has configured.               *)
(***************************************************************************)
FrontEndRestored ==
  ~Calibrating /\ ~WdCalibrating /\ ~calThrew /\ ~overlapped =>
    chip.rxAnt /\ chip.page = "C"

(***************************************************************************)
(* A tick that meets no calibration and no look at another page puts the   *)
(* gain DIG chose in force, whatever calibrations and dumps came before    *)
(* it, unless one was cut short or two overlapped.                         *)
(***************************************************************************)
GainRewritten ==
  [][wd = "tick" /\ wd' = "power" /\ ~Calibrating /\ ~calThrew /\ ~overlapped
       => chip'.igi = "current"]_allVars

Ticking == owner \in {"init", "up"} /\ wd # "threw"

(***************************************************************************)
(* A gain that was written to the wrong page, in the middle of a           *)
(* calibration or of a look at page C1, is corrected while the watchdog    *)
(* ticks, unless a page was left behind by an exception or an overlap.     *)
(***************************************************************************)
GainRecovers ==
  (chip.igi = "stale") ~>
    (chip.igi = "current" \/ calThrew \/ overlapped \/ ~Ticking)

(***************************************************************************)
(* scanForSsid and runProbe return, whatever the radio hears or misses and *)
(* whatever the watchdog does.                                             *)
(***************************************************************************)
CallsReturn ==
  (ctl = "reset" \/ expecting) ~> (ctl \in {"scanned", "end"})

(***************************************************************************)
(* Stop returns: the thread it joins sees _stop or has left its loop.      *)
(***************************************************************************)
WatchdogStops == (owner = "join") ~> (owner = "gone")

=============================================================================
