------------------------------- MODULE AsyncRx -------------------------------
(***************************************************************************)
(* The asynchronous bulk-IN pool of RtlUsbAdapter: one AsyncRxState from   *)
(* startAsyncRx to its destruction in stopAsyncRx.  Four actors share it:  *)
(*                                                                         *)
(*   - the USB host controller, which completes the URBs in flight;        *)
(*   - the libusb event handler, which runs apfpv_async_rx_cb for one      *)
(*     completed URB at a time (libusb's event lock serialises callbacks,  *)
(*     whichever thread pumps the events);                                 *)
(*   - the recv worker apfpv_rx_worker;                                    *)
(*   - the control thread, which calls start, pause, resume and stop.      *)
(*                                                                         *)
(* Every atomic variable of the code is read and written in a step of its  *)
(* own, except where no other actor could tell (running && !paused is one  *)
(* read: the control thread changes one of them at a time, and paused only *)
(* while running).  freeList is pushed by the worker under qMtx but popped by the     *)
(* callback (and by startAsyncRx) without it, so a push and a pop are each *)
(* a load of the vector's end followed by a store computed from that load: *)
(* the last store wins, which is what the data race does on the builds the *)
(* project ships.                                                          *)
(***************************************************************************)
EXTENDS Integers, Sequences, FiniteSets, Functions

CONSTANTS
  NumUrbs,      \* transfers handed to startAsyncRx (64 in the driver)
  PoolCount,    \* buffers of the pool (256 in the driver)
  MaxRx         \* bound: buffers the device fills in one behaviour

ASSUME PoolAssumption ==
  /\ NumUrbs \in Nat \ {0}
  /\ PoolCount \in Nat
  /\ PoolCount > NumUrbs
  /\ MaxRx \in Nat

Urb == 1 .. NumUrbs
Buf == 1 .. PoolCount
NoBuf == 0
NoUrb == 0

VARIABLES
  running, paused, quiesce,   \* the flags of AsyncRxState, and _rxQuiesce
  inflight,                   \* the aggregate counter
  submitted,                  \* per transfer: "owned by libusb"
  transferBuf,                \* per transfer: the buffer it reads into
  freeList, queue,            \* free buffers; completed buffers to parse
  alive,                      \* the AsyncRxState has not been destroyed
  xfers,                      \* what stopAsyncRx did with the transfers
  urb,                        \* per transfer: libusb's view of it
  ctl, ci, ctlSnap,           \* control thread: step, loop index, pop load
  cb, cbUrb, cbSnap,          \* callback: step, its transfer, pop load
  wk, wkBuf, wkSnap           \* worker: step, the buffer it holds, push load

\* History: what has happened so far, read by the properties only.
VARIABLES
  drained,     \* the pause in force ended because inflight reached 0
  lateDrain,   \* some pause ended at its deadline instead
  degraded,    \* a callback found freeList empty and kept its buffer
  raced,       \* a push and a pop of freeList overlapped
  rx,          \* buffers filled by the device
  excused      \* transfers whose submission failed or whose device is gone

flags   == <<running, paused, quiesce>>
pool    == <<transferBuf, freeList, queue>>
control == <<ctl, ci, ctlSnap>>
handler == <<cb, cbUrb, cbSnap>>
worker  == <<wk, wkBuf, wkSnap>>
life    == <<alive, xfers>>
history == <<drained, lateDrain, degraded, raced, rx, excused>>

vars == <<flags, inflight, submitted, pool, life, urb, control, handler,
          worker, history>>

(***************************************************************************)
(* Libusb's view of a transfer: "idle" (not submitted, or handed back to   *)
(* its callback), "flight", "cancelling" (in flight, cancellation asked    *)
(* for), or completed with its callback still to run: "data" is COMPLETED  *)
(* with a length; "error" a completion without data, a timeout, a stall,   *)
(* an overflow; "cancelled" CANCELLED; "gone" NO_DEVICE.                   *)
(***************************************************************************)
Status == {"data", "error", "cancelled", "gone"}

UrbState == {"idle", "flight", "cancelling"} \cup Status

CtlStep ==
  {"take", "submit", "mark", "count", "run",
   "cancel", "pauseDrain", "cal", "resume", "resubmit", "recount",
   "stopCancel", "stopDrain", "stopQueue", "join", "stopped"}

CbStep == {"none", "queue", "load", "store", "check", "submit", "retire", "dec"}

WkStep == {"wait", "parse", "push", "exit"}

AllButLast(s) == SubSeq(s, 1, Len(s) - 1)
Final(s) == s[Len(s)]

Init ==
  /\ running = TRUE /\ paused = FALSE /\ quiesce = FALSE
  /\ inflight = 0
  /\ submitted = [u \in Urb |-> FALSE]
  /\ transferBuf = [u \in Urb |-> NoBuf]
  /\ freeList = [i \in Buf |-> i]
  /\ queue = <<>>
  /\ alive = TRUE /\ xfers = "live"
  /\ urb = [u \in Urb |-> "idle"]
  /\ ctl = "take" /\ ci = 1 /\ ctlSnap = <<>>
  /\ cb = "none" /\ cbUrb = NoUrb /\ cbSnap = <<>>
  /\ wk = "wait" /\ wkBuf = NoBuf /\ wkSnap = <<>>
  /\ drained = FALSE /\ lateDrain = FALSE
  /\ degraded = FALSE /\ raced = FALSE /\ rx = 0 /\ excused = {}

-----------------------------------------------------------------------------
(***************************************************************************)
(* The two halves of a change to freeList.                                 *)
(***************************************************************************)
StoreFreeList(loaded, new) ==
  /\ freeList' = new
  /\ raced' = (raced \/ freeList # loaded)

-----------------------------------------------------------------------------
(***************************************************************************)
(* The host controller (external).  A transfer in flight completes with    *)
(* data or an error; one whose cancellation was asked for may still do so, *)
(* or complete as cancelled; either may report that the device has gone.   *)
(***************************************************************************)
HcComplete(u, s) ==
  /\ urb[u] \in {"flight", "cancelling"}
  /\ s = "cancelled" => urb[u] = "cancelling"
  /\ s = "data" => rx < MaxRx
  /\ rx' = IF s = "data" THEN rx + 1 ELSE rx
  /\ urb' = [urb EXCEPT ![u] = s]
  /\ excused' = IF s = "gone" THEN excused \cup {u} ELSE excused
  /\ UNCHANGED <<flags, inflight, submitted, pool, life, control, handler,
                 worker, drained, lateDrain, degraded, raced>>

\* libusb_cancel_transfer on every transfer of the pool.
CancelAll ==
  urb' = [u \in Urb |-> IF urb[u] = "flight" THEN "cancelling" ELSE urb[u]]

-----------------------------------------------------------------------------
(***************************************************************************)
(* apfpv_async_rx_cb                                                       *)
(***************************************************************************)
\* Data is queued first; CANCELLED and NO_DEVICE ("fatal") never resubmit.
AfterStatus(s) ==
  CASE s = "data" -> "queue" [] s = "error" -> "check" [] OTHER -> "retire"

CbStart(u) ==
  /\ alive /\ cb = "none" /\ urb[u] \in Status
  /\ urb' = [urb EXCEPT ![u] = "idle"]
  /\ cbUrb' = u
  /\ cb' = AfterStatus(urb[u])
  /\ UNCHANGED <<flags, inflight, submitted, pool, life, control, cbSnap,
                 worker, history>>

\* Hand the completed buffer to the worker, under qMtx.
CbQueue ==
  /\ cb = "queue" /\ wk # "push"
  /\ queue' = Append(queue, transferBuf[cbUrb])
  /\ cb' = "load"
  /\ UNCHANGED <<flags, inflight, submitted, transferBuf, freeList, life, urb,
                 control, cbUrb, cbSnap, worker, history>>

\* freeList.empty() and freeList.back(), without qMtx.
CbLoad ==
  /\ cb = "load"
  /\ cbSnap' = freeList
  /\ cb' = IF freeList = <<>> THEN "check" ELSE "store"
  /\ degraded' = (degraded \/ freeList = <<>>)
  /\ UNCHANGED <<flags, inflight, submitted, pool, life, urb, control, cbUrb,
                 worker, drained, lateDrain, raced, rx, excused>>

\* Variant: back() without pop_back().
CbSwapKeepsTop ==
  /\ cb = "store"
  /\ StoreFreeList(cbSnap, cbSnap)
  /\ transferBuf' = [transferBuf EXCEPT ![cbUrb] = Final(cbSnap)]
  /\ cbSnap' = <<>>
  /\ cb' = "check"
  /\ UNCHANGED <<flags, inflight, submitted, queue, life, urb, control, cbUrb,
                 worker, drained, lateDrain, degraded, rx, excused>>

\* pop_back(), and the fresh buffer swapped into the transfer.
CbSwap ==
  /\ cb = "store"
  /\ StoreFreeList(cbSnap, AllButLast(cbSnap))
  /\ transferBuf' = [transferBuf EXCEPT ![cbUrb] = Final(cbSnap)]
  /\ cbSnap' = <<>>
  /\ cb' = "check"
  /\ UNCHANGED <<flags, inflight, submitted, queue, life, urb, control, cbUrb,
                 worker, drained, lateDrain, degraded, rx, excused>>

\* running && !paused, read before the resubmission.
CbCheck ==
  /\ cb = "check"
  /\ cb' = IF running /\ ~paused THEN "submit" ELSE "retire"
  /\ UNCHANGED <<flags, inflight, submitted, pool, life, urb, control, cbUrb,
                 cbSnap, worker, history>>

\* Variant: a resubmission gives the count back although libusb has the
\* transfer again.
CbSubmitUncounts ==
  /\ cb = "submit"
  /\ urb' = [urb EXCEPT ![cbUrb] = "flight"]
  /\ inflight' = inflight - 1
  /\ cb' = "none" /\ cbUrb' = NoUrb
  /\ UNCHANGED <<flags, submitted, pool, life, control, cbSnap, worker,
                 history>>

CbSubmit ==
  /\ cb = "submit"
  /\ urb' = [urb EXCEPT ![cbUrb] = "flight"]
  /\ cb' = "none" /\ cbUrb' = NoUrb
  /\ UNCHANGED <<flags, inflight, submitted, pool, life, control, cbSnap,
                 worker, history>>

\* Both submissions failed, the second after libusb_clear_halt.
CbSubmitFails ==
  /\ cb = "submit"
  /\ cb' = "retire"
  /\ excused' = excused \cup {cbUrb}
  /\ UNCHANGED <<flags, inflight, submitted, pool, life, urb, control, cbUrb,
                 cbSnap, worker, drained, lateDrain, degraded, raced, rx>>

\* Variant: the callback returns without giving its count back.
CbRetireUncounted ==
  /\ cb = "retire"
  /\ submitted' = [submitted EXCEPT ![cbUrb] = FALSE]
  /\ cb' = "none" /\ cbUrb' = NoUrb
  /\ UNCHANGED <<flags, inflight, pool, life, urb, control, cbSnap, worker,
                 history>>

CbRetire ==
  /\ cb = "retire"
  /\ submitted' = [submitted EXCEPT ![cbUrb] = FALSE]
  /\ cb' = "dec"
  /\ UNCHANGED <<flags, inflight, pool, life, urb, control, cbUrb, cbSnap,
                 worker, history>>

CbDecrement ==
  /\ cb = "dec"
  /\ inflight' = inflight - 1
  /\ cb' = "none" /\ cbUrb' = NoUrb
  /\ UNCHANGED <<flags, submitted, pool, life, urb, control, cbSnap, worker,
                 history>>

Callback ==
  \/ \E u \in Urb : CbStart(u)
  \/ CbQueue \/ CbLoad \/ CbSwap \/ CbCheck
  \/ CbSubmit \/ CbSubmitFails \/ CbRetire \/ CbDecrement

-----------------------------------------------------------------------------
(***************************************************************************)
(* apfpv_rx_worker                                                         *)
(***************************************************************************)
WkPop ==
  /\ wk = "wait" /\ queue # <<>>
  /\ wkBuf' = Head(queue)
  /\ queue' = Tail(queue)
  /\ wk' = "parse"
  /\ UNCHANGED <<flags, inflight, submitted, transferBuf, freeList, life, urb,
                 control, handler, wkSnap, history>>

\* recvbuf2recvframe and proc (exceptions are swallowed), then the load of
\* push_back.
WkParse ==
  /\ wk = "parse"
  /\ wkSnap' = freeList
  /\ wk' = "push"
  /\ UNCHANGED <<flags, inflight, submitted, pool, life, urb, control, handler,
                 wkBuf, history>>

WkPush ==
  /\ wk = "push"
  /\ StoreFreeList(wkSnap, Append(wkSnap, wkBuf))
  /\ wkBuf' = NoBuf
  /\ wkSnap' = <<>>
  /\ wk' = "wait"
  /\ UNCHANGED <<flags, inflight, submitted, transferBuf, queue, life, urb,
                 control, handler, drained, lateDrain, degraded, rx, excused>>

\* Variant: an idle worker exits although RX is still running.
WkExitEarly ==
  /\ wk = "wait" /\ queue = <<>>
  /\ wk' = "exit"
  /\ UNCHANGED <<flags, inflight, submitted, pool, life, urb, control, handler,
                 wkBuf, wkSnap, history>>

WkExit ==
  /\ wk = "wait" /\ ~running /\ queue = <<>>
  /\ wk' = "exit"
  /\ UNCHANGED <<flags, inflight, submitted, pool, life, urb, control, handler,
                 wkBuf, wkSnap, history>>

Worker == WkPop \/ WkParse \/ WkPush \/ WkExit

-----------------------------------------------------------------------------
(***************************************************************************)
(* startAsyncRx: for each transfer take a buffer, submit, then mark it     *)
(* submitted, then count it.  The callback of an earlier transfer, or of   *)
(* this one, may already be running.                                       *)
(***************************************************************************)
\* Variant: the loop runs one transfer too far.
NextStartTooFar(i) ==
  IF i > NumUrbs THEN ctl' = "run" /\ ci' = 1
                 ELSE ctl' = "take" /\ ci' = i + 1

NextStart(i) ==
  IF i = NumUrbs THEN ctl' = "run" /\ ci' = 1
                 ELSE ctl' = "take" /\ ci' = i + 1

StartLoad ==
  /\ ctl = "take"
  /\ freeList # <<>>
  /\ ctlSnap' = freeList
  /\ ctl' = "submit"
  /\ UNCHANGED <<flags, inflight, submitted, pool, life, urb, ci, handler,
                 worker, history>>

\* "shouldn't happen": no buffer is left for this transfer.
StartNoBuffer ==
  /\ ctl = "take"
  /\ freeList = <<>>
  /\ ctl' = "run" /\ ci' = 1
  /\ excused' = excused \cup (ci .. NumUrbs)
  /\ UNCHANGED <<flags, inflight, submitted, pool, life, urb, ctlSnap, handler,
                 worker, drained, lateDrain, degraded, raced, rx>>

StartTake ==
  /\ StoreFreeList(ctlSnap, AllButLast(ctlSnap))
  /\ transferBuf' = [transferBuf EXCEPT ![ci] = Final(ctlSnap)]
  /\ ctlSnap' = <<>>

StartSubmit ==
  /\ ctl = "submit"
  /\ StartTake
  /\ urb' = [urb EXCEPT ![ci] = "flight"]
  /\ ctl' = "mark"
  /\ UNCHANGED <<flags, inflight, submitted, queue, life, ci, handler,
                 worker, drained, lateDrain, degraded, rx, excused>>

StartSubmitFails ==
  /\ ctl = "submit"
  /\ StartTake
  /\ NextStart(ci)
  /\ excused' = excused \cup {ci}
  /\ UNCHANGED <<flags, inflight, submitted, queue, life, urb, handler, worker,
                 drained, lateDrain, degraded, rx>>

StartMark ==
  /\ ctl = "mark"
  /\ submitted' = [submitted EXCEPT ![ci] = TRUE]
  /\ ctl' = "count"
  /\ UNCHANGED <<flags, inflight, pool, life, urb, ci, ctlSnap, handler, worker,
                 history>>

StartCount ==
  /\ ctl = "count"
  /\ inflight' = inflight + 1
  /\ NextStart(ci)
  /\ UNCHANGED <<flags, submitted, pool, life, urb, ctlSnap, handler, worker,
                 history>>

-----------------------------------------------------------------------------
(***************************************************************************)
(* pauseAsyncRx, the section it protects (a calibration or a synchronous   *)
(* TX), and resumeAsyncRx.  A section that throws is resumed all the same, *)
(* by runProbe's ResumeGuard.                                              *)
(***************************************************************************)
Pause ==
  /\ ctl = "run"
  /\ quiesce' = TRUE
  /\ paused' = TRUE
  /\ ctl' = "cancel"
  /\ UNCHANGED <<running, inflight, submitted, pool, life, urb, ci, ctlSnap,
                 handler, worker, history>>

PauseCancel ==
  /\ ctl = "cancel"
  /\ CancelAll
  /\ ctl' = "pauseDrain"
  /\ UNCHANGED <<flags, inflight, submitted, pool, life, ci, ctlSnap,
                 handler, worker, history>>

\* The drain ends when nothing is in flight, or at its 150 ms deadline.
PauseDrained(byDeadline) ==
  /\ ctl = "pauseDrain"
  /\ byDeadline \/ inflight <= 0
  /\ drained' = ~byDeadline
  /\ lateDrain' = (lateDrain \/ byDeadline)
  /\ ctl' = "cal"
  /\ UNCHANGED <<flags, inflight, submitted, pool, life, urb, ci, ctlSnap,
                 handler, worker, degraded, raced, rx, excused>>

Resume ==
  /\ ctl = "cal"
  /\ paused' = FALSE
  /\ ctl' = "resume" /\ ci' = 1
  /\ drained' = FALSE
  /\ UNCHANGED <<running, quiesce, inflight, submitted, pool, life, urb,
                 ctlSnap, handler, worker, lateDrain, degraded, raced, rx, excused>>

\* Variant: the loop stops one transfer early.
LastTransferEarly(i) == i + 1 >= NumUrbs \/ transferBuf[i + 1] = NoBuf

\* The loop visits the transfers startAsyncRx created; quiesce falls at its end.
LastTransfer(i) == i = NumUrbs \/ transferBuf[i + 1] = NoBuf

NextResume(i) ==
  IF LastTransfer(i) THEN ctl' = "run" /\ ci' = 1 /\ quiesce' = FALSE
  ELSE ctl' = "resume" /\ ci' = i + 1 /\ UNCHANGED quiesce

\* compare_exchange_strong fails: still in flight, never double-submit.
ResumeSkip ==
  /\ ctl = "resume" /\ submitted[ci]
  /\ NextResume(ci)
  /\ UNCHANGED <<running, paused, inflight, submitted, pool, life, urb, ctlSnap,
                 handler, worker, history>>

\* Variant: no compare-and-exchange, every transfer is claimed.
ResumeClaimAny ==
  /\ ctl = "resume"
  /\ submitted' = [submitted EXCEPT ![ci] = TRUE]
  /\ ctl' = "resubmit"
  /\ UNCHANGED <<flags, inflight, pool, life, urb, ci, ctlSnap, handler, worker,
                 history>>

ResumeClaim ==
  /\ ctl = "resume" /\ ~submitted[ci]
  /\ submitted' = [submitted EXCEPT ![ci] = TRUE]
  /\ ctl' = "resubmit"
  /\ UNCHANGED <<flags, inflight, pool, life, urb, ci, ctlSnap, handler, worker,
                 history>>

ResumeSubmit ==
  /\ ctl = "resubmit"
  /\ urb' = [urb EXCEPT ![ci] = "flight"]
  /\ ctl' = "recount"
  /\ UNCHANGED <<flags, inflight, submitted, pool, life, ci, ctlSnap,
                 handler, worker, history>>

ResumeSubmitFails ==
  /\ ctl = "resubmit"
  /\ submitted' = [submitted EXCEPT ![ci] = FALSE]
  /\ NextResume(ci)
  /\ excused' = excused \cup {ci}
  /\ UNCHANGED <<running, paused, inflight, pool, life, urb, ctlSnap, handler,
                 worker, drained, lateDrain, degraded, raced, rx>>

ResumeCount ==
  /\ ctl = "recount"
  /\ inflight' = inflight + 1
  /\ NextResume(ci)
  /\ UNCHANGED <<running, paused, submitted, pool, life, urb, ctlSnap, handler,
                 worker, history>>

-----------------------------------------------------------------------------
(***************************************************************************)
(* stopAsyncRx                                                             *)
(***************************************************************************)
Stop ==
  /\ ctl = "run"
  /\ running' = FALSE
  /\ ctl' = "stopCancel"
  /\ UNCHANGED <<paused, quiesce, inflight, submitted, pool, life, urb, ci,
                 ctlSnap, handler, worker, history>>

StopCancel ==
  /\ ctl = "stopCancel"
  /\ CancelAll
  /\ ctl' = "stopDrain"
  /\ UNCHANGED <<flags, inflight, submitted, pool, life, ci, ctlSnap,
                 handler, worker, history>>

\* Variant: the drain has no deadline.
StopDrainedForever(byDeadline) ==
  /\ ctl = "stopDrain"
  /\ inflight <= 0
  /\ ctl' = "stopQueue"
  /\ UNCHANGED <<flags, inflight, submitted, pool, life, urb, ci, ctlSnap,
                 handler, worker, history>>

\* Nothing left in flight, or the 1 s deadline.
StopDrained(byDeadline) ==
  /\ ctl = "stopDrain"
  /\ byDeadline \/ inflight <= 0
  /\ ctl' = "stopQueue"
  /\ UNCHANGED <<flags, inflight, submitted, pool, life, urb, ci, ctlSnap,
                 handler, worker, history>>

\* Recycle what was never parsed (under qMtx) and wake the worker.
StopQueue ==
  /\ ctl = "stopQueue"
  /\ wk # "push"
  /\ freeList' = freeList \o queue
  /\ queue' = <<>>
  /\ ctl' = "join"
  /\ UNCHANGED <<flags, inflight, submitted, transferBuf, life, urb, ci,
                 ctlSnap, handler, worker, history>>

\* Variant: the transfers are freed whatever is in flight.
StopFinishFreesAll ==
  /\ ctl = "join" /\ wk = "exit"
  /\ xfers' = "freed"
  /\ alive' = FALSE
  /\ ctl' = "stopped"
  /\ UNCHANGED <<flags, inflight, submitted, pool, urb, ci, ctlSnap, handler,
                 worker, history>>

\* After the join: free the transfers only if nothing is in flight, else
\* leave them; destroy the AsyncRxState either way, and the pool with it.
StopFinish ==
  /\ ctl = "join" /\ wk = "exit"
  /\ xfers' = IF inflight > 0 THEN "leaked" ELSE "freed"
  /\ alive' = FALSE
  /\ ctl' = "stopped"
  /\ UNCHANGED <<flags, inflight, submitted, pool, urb, ci, ctlSnap, handler,
                 worker, history>>

Control ==
  \/ StartLoad \/ StartNoBuffer \/ StartSubmit \/ StartSubmitFails
  \/ StartMark \/ StartCount
  \/ Pause \/ PauseCancel \/ (\E d \in BOOLEAN : PauseDrained(d))
  \/ Resume \/ ResumeSkip \/ ResumeClaim \/ ResumeSubmit
  \/ ResumeSubmitFails \/ ResumeCount
  \/ Stop \/ StopCancel \/ (\E d \in BOOLEAN : StopDrained(d))
  \/ StopQueue \/ StopFinish

Next ==
  \/ \E u \in Urb, s \in Status : HcComplete(u, s)
  \/ Callback
  \/ Worker
  \/ Control

Spec == Init /\ [][Next]_vars

-----------------------------------------------------------------------------
(***************************************************************************)
(* Properties.                                                             *)
(***************************************************************************)
FlagTypes ==
  /\ running \in BOOLEAN /\ paused \in BOOLEAN /\ quiesce \in BOOLEAN
  /\ alive \in BOOLEAN /\ xfers \in {"live", "freed", "leaked"}
  /\ drained \in BOOLEAN /\ lateDrain \in BOOLEAN
  /\ degraded \in BOOLEAN /\ raced \in BOOLEAN

PoolTypes ==
  /\ freeList \in Seq(Buf) /\ queue \in Seq(Buf)
  /\ transferBuf \in [Urb -> Buf \cup {NoBuf}]
  /\ ctlSnap \in Seq(Buf) /\ cbSnap \in Seq(Buf) /\ wkSnap \in Seq(Buf)
  /\ wkBuf \in Buf \cup {NoBuf}

StepTypes ==
  /\ inflight \in Int
  /\ submitted \in [Urb -> BOOLEAN]
  /\ urb \in [Urb -> UrbState]
  /\ ctl \in CtlStep /\ ci \in Urb
  /\ cb \in CbStep /\ cbUrb \in Urb \cup {NoUrb}
  /\ wk \in WkStep
  /\ rx \in 0 .. MaxRx
  /\ excused \in SUBSET Urb

TypeOK == FlagTypes /\ PoolTypes /\ StepTypes

\* The transfers libusb holds.
Owned == {u \in Urb : urb[u] # "idle"}

(***************************************************************************)
(* The aggregate counter agrees with libusb: it is the number of transfers *)
(* libusb holds, plus the one whose callback is running, minus the one     *)
(* submitted by start or resume and not yet counted.                       *)
(***************************************************************************)
InflightExact ==
  inflight = Cardinality(Owned)
             + (IF cb # "none" THEN 1 ELSE 0)
             - (IF ctl \in {"mark", "count", "recount"} THEN 1 ELSE 0)

(***************************************************************************)
(* No transfer is handed to libusb while libusb, or a callback that may    *)
(* still resubmit it, has it.                                              *)
(***************************************************************************)
NoDoubleSubmit ==
  /\ cb = "submit" => urb[cbUrb] = "idle"
  /\ ctl \in {"submit", "resubmit"} =>
       /\ urb[ci] = "idle"
       /\ ~(cb \notin {"none", "dec"} /\ cbUrb = ci)

(***************************************************************************)
(* When pauseAsyncRx has drained the pool, no transfer is in flight and no *)
(* callback runs until resumeAsyncRx: the calibration it protects has the  *)
(* bus to itself.                                                          *)
(***************************************************************************)
QuietAfterDrain ==
  ctl = "cal" /\ drained => Owned = {} /\ cb = "none"

(***************************************************************************)
(* stopAsyncRx frees the transfers only when libusb holds none of them.    *)
(***************************************************************************)
FreedOnlyWhenIdle ==
  xfers = "freed" => Owned = {} /\ cb = "none"

\* The buffer of transfer u is being exchanged by its callback.
Swapping(u) == cb \in {"load", "store"} /\ cbUrb = u

Distinct(s) == \A i, j \in DOMAIN s : s[i] = s[j] => i = j

(***************************************************************************)
(* Every buffer has one owner: it is free, queued, in the worker's hands,  *)
(* or under one transfer.                                                  *)
(***************************************************************************)
ExclusiveOwner ==
  alive =>
    /\ Distinct(freeList) /\ Distinct(queue)
    /\ Range(freeList) \cap Range(queue) = {}
    /\ wkBuf \notin Range(freeList) \cup Range(queue)
    /\ \A u \in Urb : transferBuf[u] # NoBuf /\ ~Swapping(u) =>
         /\ transferBuf[u] \notin Range(freeList) \cup Range(queue) \cup {wkBuf}
         /\ \A v \in Urb \ {u} : ~Swapping(v) => transferBuf[v] # transferBuf[u]

(***************************************************************************)
(* Only two events break exclusive ownership: a callback that found the    *)
(* free list empty and a push that overlapped a pop.                       *)
(***************************************************************************)
OwnerUnlessDegraded == ~degraded /\ ~raced => ExclusiveOwner

(***************************************************************************)
(* While RX runs, every transfer is in flight, about to be reaped or in    *)
(* its callback, unless its submission failed or the device went away.     *)
(***************************************************************************)
PoolArmed ==
  ctl = "run" =>
    \A u \in Urb \ excused : urb[u] # "idle" \/ (cb # "none" /\ cbUrb = u)

\* The pool is re-armed in full as long as every pause drained in time.
PoolArmedIfDrained == ~lateDrain => PoolArmed

(***************************************************************************)
(* Once the AsyncRxState is destroyed no completion can reach it.          *)
(***************************************************************************)
NoCompletionAfterDestroy == ~alive => Owned = {} /\ cb = "none"

(***************************************************************************)
(* Fairness: the control thread and the worker are ordinary threads, and a *)
(* drain always reaches its deadline.  Nothing is assumed of the device.   *)
(***************************************************************************)
StopSteps ==
  StopCancel \/ (\E d \in BOOLEAN : StopDrained(d)) \/ StopQueue \/ StopFinish

FairSpec == Spec /\ WF_vars(StopSteps) /\ WF_vars(Worker)

\* stopAsyncRx returns, even when the device never completes a transfer.
StopReturns == (ctl = "stopCancel") ~> (ctl = "stopped")

\* A completed buffer reaches the worker, or stopAsyncRx recycles it.
QueuedIsParsed ==
  \A b \in Buf :
    (b \in Range(queue)) ~> (wkBuf = b \/ ctl \in {"join", "stopped"})

-----------------------------------------------------------------------------
(***************************************************************************)
(* The inductive invariant behind the properties above.                    *)
(***************************************************************************)
\* The flags are set by the control thread alone, at these of its steps.
FlagsFollowControl ==
  /\ running <=> ctl \notin {"stopCancel", "stopDrain", "stopQueue", "join", "stopped"}
  /\ paused <=> ctl \in {"cancel", "pauseDrain", "cal"}
  /\ alive <=> ctl # "stopped"
  /\ xfers = "live" <=> ctl # "stopped"

\* A callback that has not retired its transfer: libusb does not hold it.
Holding(u) == cb \notin {"none", "dec"} /\ cbUrb = u

CallbackHolds ==
  /\ cb = "none" <=> cbUrb = NoUrb
  /\ \A u \in Urb : Holding(u) => urb[u] = "idle"
  /\ cb = "store" => cbSnap # <<>>

\* The transfers startAsyncRx has not submitted yet are untouched.
Untouched(u) == urb[u] = "idle" /\ cbUrb # u

NotYetStarted ==
  /\ ctl \in {"take", "submit"} => \A u \in ci .. NumUrbs : Untouched(u)
  /\ ctl \in {"mark", "count"} => \A u \in ci + 1 .. NumUrbs : Untouched(u)
  /\ ctl = "take" /\ ci = 1 => freeList # <<>>
  /\ ctl = "submit" => ctlSnap # <<>>

\* submitted covers every transfer that libusb or a callback has, except the
\* one startAsyncRx is about to mark.
SubmittedCovers ==
  \A u \in Urb :
    urb[u] # "idle" \/ Holding(u) => submitted[u] \/ (ctl = "mark" /\ ci = u)

\* A transfer claimed by resumeAsyncRx is its alone until it is submitted.
ClaimIsExclusive ==
  ctl = "resubmit" => submitted[ci] /\ urb[ci] = "idle" /\ ~Holding(ci)

\* Transfers in use have a buffer, and the first transfer always gets one.
BuffersPresent ==
  /\ \A u \in Urb : urb[u] # "idle" \/ cbUrb = u => transferBuf[u] # NoBuf
  /\ ctl \notin {"take", "submit"} \/ ci > 1 => transferBuf[1] # NoBuf
  /\ ctl \in {"resume", "resubmit", "recount"} => transferBuf[ci] # NoBuf
  /\ wk \in {"parse", "push"} => wkBuf # NoBuf

Flow ==
  /\ FlagsFollowControl /\ CallbackHolds /\ NotYetStarted
  /\ SubmittedCovers /\ ClaimIsExclusive /\ BuffersPresent

IInv == TypeOK /\ Flow /\ InflightExact /\ QuietAfterDrain /\ FreedOnlyWhenIdle

-----------------------------------------------------------------------------
(***************************************************************************)
(* What PoolArmedIfDrained adds to that invariant, as long as no pause has *)
(* ended at its deadline.                                                  *)
(***************************************************************************)
\* RX is on: running && !paused, between the pauses and before the stop.
RxOn ==
  ctl \in {"take", "submit", "mark", "count", "run",
           "resume", "resubmit", "recount"}

Busy(u) == urb[u] # "idle" \/ (cb # "none" /\ cbUrb = u)

\* startAsyncRx gives out buffers in order; it stops where they run out.
BuffersGiven ==
  /\ ctl \in {"take", "submit"} => \A u \in Urb : u < ci => transferBuf[u] # NoBuf
  /\ ctl \in {"mark", "count"} => \A u \in Urb : u <= ci => transferBuf[u] # NoBuf
  /\ ctl \notin {"take", "submit", "mark", "count"} =>
       \A u, v \in Urb : transferBuf[u] = NoBuf /\ u <= v => v \in excused

\* No cancellation outlives the pause that asked for it, and a transfer that
\* a callback retires while RX is on was lost to the device.
CancelsDrained ==
  /\ ctl = "cal" => drained
  /\ RxOn => \A u \in Urb : urb[u] \notin {"cancelling", "cancelled"}

LossExcused ==
  /\ \A u \in Urb : urb[u] = "gone" => u \in excused
  /\ RxOn /\ cb \in {"retire", "dec"} => cbUrb \in excused

\* submitted marks only what libusb or a callback has, or resumeAsyncRx has
\* just claimed; a mark that startAsyncRx made too late is on a lost transfer.
SubmittedOnly ==
  \A u \in Urb \ excused :
    submitted[u] => urb[u] # "idle" \/ Holding(u) \/ (ctl = "resubmit" /\ ci = u)

\* resumeAsyncRx can claim every transfer it has not reached yet.
StillClaimable ==
  \A u \in Urb \ excused :
    /\ ctl \in {"resume", "resubmit", "recount"} /\ u > ci => ~submitted[u]
    /\ ctl = "resume" /\ u = ci => ~submitted[u]

\* start and resume have armed the transfers they have passed.
ArmedSoFar ==
  \A u \in Urb \ excused :
    /\ ctl \in {"take", "submit", "resume", "resubmit"} /\ u < ci => Busy(u)
    /\ ctl \in {"mark", "count", "recount"} /\ u <= ci => Busy(u)
    /\ ctl = "run" => Busy(u)

Armed == CancelsDrained /\ LossExcused /\ SubmittedOnly /\ StillClaimable /\ ArmedSoFar

AInv == BuffersGiven /\ (~lateDrain => Armed)

=============================================================================
