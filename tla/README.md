# WiFiDriver: a TLA+ verification project

WiFiDriver is a userspace libusb driver for the Realtek RTL8812AU, 8814AU and
8821AU. It joins an access point as a WPA2 station (scan, authenticate,
associate, 4-way handshake, CCMP) and has a monitor/injection mode (wfb). This
directory models the parts of it whose correctness depends on orders of events:
the asynchronous USB receive pool, the WPA2 supplicant with its replay
protection, the scan and join procedure against the watchdog thread it shares
the radio with, the setting of the radio's channel when register accesses fail,
and the wfb link with its forward error correction.

## Inventory

| Component | State it keeps | Operations | Interacts with | What makes it correct |
|---|---|---|---|---|
| Async RX pool (`RtlUsbAdapter::AsyncRxState`) | `running`, `paused`, `inflight`, `submitted[]`, `transferBuf[]`, `freeList`, `queue` | `startAsyncRx`, `pauseAsyncRx`, `resumeAsyncRx`, `stopAsyncRx`, `apfpv_async_rx_cb`, `apfpv_rx_worker` | libusb event threads, worker thread, the control thread; paused by StationMode (PowerTracking asks for it through a copy of the adapter that has no pool) | the counter agrees with libusb; no transfer is submitted twice or freed while held; one owner per buffer; stop returns |
| Replay window (`Wpa2Supplicant.h`) | highest PN and a bitmap, one per key | `pnWindowCheck`, `winShift`, `winSet`, `winTest`, `winClear` | called by `decryptData` | accepts a PN at most once, and every new PN inside the window |
| WPA2 supplicant | handshake state, PTK, two GTK slots, replay counter, TX PN, windows | `begin`, `beginCached`, `onEapolKey`, `decryptData`, `buildEncryptedData`, `verifyProtectedMgmt` | the AP, through frames passed in by the caller and `_send` | key agreement; no PN reuse; no double delivery; rekeys complete |
| Station join and scan | expected addresses, `_got*` flags, `_scanResult` | `scanForSsid`, `onScanFrame`, `runProbe`, `arm`, `becomeStation`, `onMgmtFrame` | radio registers (which may throw), RX thread, the RX pool, the AP | joins only on its own AP's answers; RX resumed on every path; TX released before sending; radio on the AP's channel; calls return |
| USB register access, TX, H2C mailboxes | `_lastH2CBox`, endpoints, TX flags | `rtw_read*`, `rtw_write*`, `send_packet`, `fillH2CCmd`, `sendH2CPacket`, `sendStationFrameSync` | everything above | a mailbox is not overwritten before the firmware reads it |
| Radio management | channel, width, `_rfCenterCh`, `_swChannel`, `_setChannelBw`, `_needIQK` | `set_channel_bwmode`, band switch, `SetStationRxFilter`, `SetTxPower`, `RunIQK` | registers, calibration | after a set returns, the RF is where the driver believes it is |
| IQ/LC calibration | registers saved and restored | `Calibrate`, `phy_lc_calibrate_8812a` | radio, watchdog thread | what it changes it restores; TX released at the end |
| PHYDM watchdog | `_running`, `_stop`, IGI, CFO accumulators | `Start`, `Stop`, `ThreadLoop`, `TickOnce` | registers, StationMode (`SetLinkRssi`), FrameParser (`AddCfo`) | the gain it chose is in force; `Stop` returns; can be restarted |
| TX power tracking | thermal averages, swing indices | `TickThermalMeter` | watchdog thread, channel sets, IQK | bounded indices; registers restored |
| Firmware download | none | download, checksum, wait for ready | registers | fails loudly, writes every byte once |
| HAL bring-up, EEPROM, PHY tables | configuration | init sequences, map decoding | registers | order of the bring-up |
| Frame parsing | none | `recvbuf2recvframe` | RX worker | stays inside the buffer, loses no frame |
| wfb transmitter (`TxFrame.cpp`) | block and fragment index, block under way, session key, epoch | `sendPacket`, `dataSource`, FEC timeout, key change, restart | UDP, the air | every block is closed; no nonce twice under a key |
| wfb receiver (`wfb-ng/src/rx.cpp`, `Aggregator`) | session, ring of blocks, `last_known_block` | `process_packet`, `get_block_ring_idx`, `rx_ring_push`, `apply_fec`, `send_packet` | the air, UDP | passes on each packet at most once and in order, and whatever it stored or could recover |
| wfb RX dispatch, link quality, FEC advice | statistics over a time window | `RxFrame`, `SignalQualityCalculator`, `FecChangeController` | UDP, device | picks the frames of its own antenna id |

The hard behaviours are: four actors on the RX pool with a mix of locked and
unlocked accesses; deadlines that give up on a device; exceptions from every
register access; frames lost, repeated, delayed and reordered by the air; a
scan whose result is written by another thread; replay protection at the edges
of its window; two threads that calibrate and adjust the same registers, through
a page select they share, without a lock; a ring of blocks that overflows while
fragments of old blocks and old sessions still arrive. `PROJECT.json` lists them under "hazards", each at its line.

The repository holds no caller of `StationMode` or of the supplicant: the
application (the devourer repository) is. The models therefore allow every
order of calls the interface allows.

## Modules

```
AsyncRx ------------- AsyncRxProofs
PnCheck -+- PnWindow -- PnWindowProofs     PnFilter   (abstract)
         |     ^ refined by PnWords           ^ refined by PnWindow
         |         PnWords -- PnWordsProofs
         +- Wpa2Supplicant -+- MCWpa2Supplicant
                            +- Handshake -+- HandshakeProofs
                                          +- MCHandshake
BaseBand -+- StationMode -+- StationWatchdog -+- StationWatchdogProofs
          +- Watchdog ----+                   +- MCStationMode
RadioChannel -+- RadioChannelProofs
              +- MCRadioChannel
WfbFec -+- WfbTransmitter -+- WfbLink --- WfbLinkProofs
        +- WfbAggregator --+    ^ refines LossyFifo (abstract)
PnCheckProofs: lemmas on PnCheck, used by PnWindowProofs and HandshakeProofs;
PnWordsProofs instantiates PnWindowProofs
```

**AsyncRx** (`RtlUsbAdapter.cpp`). One `AsyncRxState` from `startAsyncRx` to
its destruction. `urb` is libusb's own view of each transfer, so that the
driver's counters (`inflight`, `submitted`) can be compared with the truth. The
callback, the worker and the control thread each have a program counter (`cb`,
`wk`, `ctl`) and take one atomic access per step. `freeList` is popped without
the lock that protects its push, so a push and a pop are each a load followed
by a store and may overlap. Deadlines of the two drains are a choice: the loop
ends when the counter is zero, or at any moment. The host controller is
external: it completes a transfer with data, with an error, as cancelled, or
because the device is gone, or never. Buffer contents, logging and the halted
endpoint's recovery are left out (a second submission after `libusb_clear_halt`
either succeeds, as the first might have, or fails).

**PnFilter, PnCheck, PnWindow, PnWords** (`Wpa2Supplicant.h`). `PnFilter` is
what the window promises: remember every accepted PN, accept a new one unless
an accepted PN is a full window ahead of it. `PnCheck` holds the operators of
the window as a set of bits, `PnWindow` is the state machine over them, and
`PnWords` is the same with an array of machine words, shifts truncated to the
word and carries between words, as `winShift` has them. The variable `verdict`
holds the last answer with the PN it was given for, so that an implementation
has to accept and to refuse the same PNs as the filter.

**Wpa2Supplicant** (`Wpa2Supplicant.cpp`). A pairwise key is the pair of nonces
it is derived from, so two keys are equal exactly when they would be in the
code; a frame under a key decrypts when the key the code picks is that key.
`onEapolKey` is split by the branch it takes; each disjunct is the whole call.
The caller may pass any frame in any state. MIC bits are modelled as the code
reads them: presence only, `onEapolKey` never verifies a MIC. Frames too short
to be looked at are left out, and so are the byte layouts of messages 2 and 4.

**Handshake** composes the supplicant with an external AP and link. Everything
sent to the station stays available for delivery, which is loss, delay,
duplication and reordering at once. A reply of the station gets through or is
lost: the code ignores the result of `_send`. `replyLost` records the loss of a
message 2 or 4, which the station does not send again.

**BaseBand** is what the control thread and the watchdog thread share: the page
select of 0x82c, the RX antennas, TXPAUSE, whether the gain register holds the
gain last chosen, and the paused state of the RX pool. It holds the effect of
each part of `Iqk8812a::Calibrate` on them (backup, configuration, measurement,
restore) and what an exception in each part leaves behind. Two history
variables record what the code does not protect itself from: an exception that
cut a calibration or a look at another page short (`calThrew`) and two of them
that overlapped (`overlapped`). The chip is an 8812, the one whose channel sets
and ticks call `TickThermalMeter`. Its `pauseAsyncRx` and `resumeAsyncRx` are
left out because they do nothing: `PowerTracking8812a` keeps a copy of the
adapter that is made with `RadioManagementModule`, before `startAsyncRx` creates
the pool, and the copy's `_asyncRx` stays empty (`RtlUsbAdapter.h:74` calls it
"shared across copies", which holds only for copies made later). A thermal IQK
thus runs against an RX pool that is not paused.

**StationMode** (`StationMode.cpp`, `ScanProbe.cpp`). The control thread runs
the scan and then the join; the RX thread delivers beacons (in the two steps
the code has: parse without the lock, store under it) and management frames.
Each register sequence either completes or throws. A channel set of the sweep
that crosses the bands (`Crosses`), or finds the temperature moved, calibrates
before it returns: `setScanMode`, which would suppress this, is never called.
These calibrations, the IQK of `arm`, its verification through page C1
(`readTxIqcX`), its retries, and the register dumps after the first auth request
and after a failed wait, which select page C and C1 and swallow their
exceptions, are steps of their own, because the watchdog may run between any two
of them. The AP may answer,
refuse, stay silent or deauthenticate at any time. Register values, TX power
and the frame contents are left out. The DIG desensitisation in `arm` is never
reached (no parser sets `ApInfo::rssi`), and is left out for that reason; so is
the DIG reset in `scanForSsid`, which touches only members of the watchdog.

**Watchdog** (`PhydmWatchdog.cpp`, `PowerTracking8812a.cpp`, and its start and
stop in `HalModule.cpp`). The tick that `rtw_hal_init` makes on the control
thread, `Start`, the loop of the thread, `Stop` with its join, DIG's write of
the gain through whichever page is selected, and the thermal IQK. An exception ends the loop with `_running` still true, or
leaves `rtw_hal_init`. The value of the gain, the retry table, the BB swing and
the crystal cap are left out: nothing else writes them.

**StationWatchdog** composes the two for one session, from the end of the
bring-up to the destruction of the device: `Start`, `Stop` and the station are
the control thread's, everything else interleaves freely.

**WfbTransmitter, WfbAggregator, WfbLink, LossyFifo** (`TxFrame.cpp`,
`wfb-ng/src/rx.cpp`, the copy of wfb-ng that the driver builds). A packet is its
number. The erasure code is taken for what it promises: a parity fragment
carries the data fragments of its block, and any `FecK` fragments that agree
give the rest; fragments of different code words give `Garbage`, which no
property accepts. A session key is the number of its session and a fragment
opens only under its own. The Aggregator's functions are operators from the
object to the object, so one arrival is one step, as it is in the code; an
`assert` that would fail is recorded in `failed`. `WfbLink` composes them over
an air in which everything sent stays available; `LossyFifo` is what the pair
promises. The receiver keeps only one epoch, so it cannot tell an old
announcement of the same epoch from a new one, and `LossyFifo` says so: then, and
only then, the stream may start afresh.

**RadioChannel** (`RadioManagementModule.cpp`, and the channel part of
`HalModule::rtl8812au_hal_init`). `drv` are the members of the class, `hw` what
the registers hold: the channel in RF 0x18, the width in RF and in BB, the
sub-channel, the band in CCK_CHECK, the front end, the band the I/Q calibration
was made for, TXPAUSE. A request goes through the steps of
`phy_SwChnlAndSetBwMode8812` (`pc`); the bring-up is three calls in a row
(`todo`). Any register read may throw (`rtw_read` gives up after four tries) and
leave what the step had written by then, `CutShort`; a register write cannot
throw, and one that fails is not noticed by the code and is left out. The
exception ends the request, and the caller may make another. Left out: the TX
power indices, the thermal tick, register values that do not depend on the
channel, the environment switches, and a second `Init` of one object.

Definitions whose comment begins with "Variant" are deliberate mistakes, used
only to confirm that the properties notice them.

## Runs

| Run | Bounds | Shows |
|---|---|---|
| `async_rx_safety` | 2 transfers, 3 buffers, 2 receptions; 3.7 million states | the counter is exact, no double submission, a drained pause is quiet, transfers are freed only when idle, the pool is re-armed in full unless a pause timed out, and buffers have one owner unless the pool ran empty or a push overlapped a pop |
| `async_rx_live` | 1 transfer, 4 buffers, 3 receptions; 144 thousand states | stop returns; queued buffers are parsed or recycled |
| `pn_words` | 3 words of 3 bits, PNs 0..12 | the window in words is exact, implements the bitmap and, through it, the filter |
| `supplicant` | 2 nonces, PNs 0..3, window 2, one group key, every useful EAPOL-Key frame | no nonce reuse, no double unicast delivery |
| `handshake` | 2 associations, 2 group and 2 pairwise rekeys, at most 4 of them together, 2 transmissions of each message, any reply lost; 326 thousand states | key agreement, usable group keys, distinct slots, no spurious rekey; completion up to the first pairwise rekey unless a message 2 or 4 is lost |
| `station_watchdog` | 3 APs on channels 6 and 36, a hint on channel 1 with bleed from 6, a sweep that crosses the bands, 1 IQK retry, 1 resend, 1 retransmission, ticks and thermal calibrations unbounded; 364 thousand states | the join and scan properties with the watchdog running; registers, RX, TX and the gain as the two threads leave them; the calls and `Stop` return |
| `wfb_link` | blocks of 2 + 2 fragments, a ring of 2, 4 blocks to a key, 5 packets, 1 restart with an equal or a later epoch; 385 thousand states | an ordered lossy channel, nothing stored is dropped while its session lasts (a change of session drops the ring, as `deinit_fec` does), the ring is consistent and no assert fails, a block begun is closed |
| `radio_channel` | 3 chips, 6 requests (both bands, each width, one centre shared by two primaries, one width that is not supported), any number of exceptions; 6.1 million states | a request that returns has the radio on the channel and at the width asked for; the front end, the calibration, the TX queues and the sub-channel are right but for the cases named below |

Bounds. Two transfers and three buffers are the smallest pool in which one
transfer retires while another is resubmitted and the free list both has a
spare and runs empty; pauses and resumes are not bounded. Liveness needs a
queue rather than a second transfer: with one transfer and three receptions a
buffer is queued behind another while the worker parses a third. `PnWords` has
three words, so a word gets bits from two others and jumps cross whole words;
its PNs go past the window of nine bits, so jumps and late frames below, at and
beyond the window occur. In the handshake two transmissions of each message are
enough for an old copy to arrive after a new one, and two group rekeys bring
the key ids round. The channel plan of the scan has a channel on which the AP's
own bleeds in before it is tuned to, an AP without a DS parameter and a change
of band, which is a calibration; one retry of each kind
is enough for a tick to fall before, into and after each, and ticks are not
bounded. The wfb ring of two blocks overflows at the third block, five packets
in blocks of two reach it and leave a block for the timeout to close, and four
blocks to a key (empty packets fill blocks too) bring the change of key with old
fragments still in the air. Two parity fragments make every pair of the four a
code word to recover from. Of the six channel
requests two share centre and width and differ in the offset alone, two share
the primary and not the width, and the others change centre and band; requests, exceptions,
calibrations and scan mode are not bounded.

Deadlock is not checked where the system may stop: after `stopAsyncRx`, at the
end of a probe, or when a bound is used up.

### What the channel properties leave out

`Tuned` holds without exception. The others are stated with the case in which
the code does not give them, so that each says exactly when it does. All are
proved:

* `FrontEndMatches`, unless a band switch was cut short and none has completed
  since. The switch to 5 GHz writes CCK_CHECK first; `phy_SwBand8812` reads the
  band from it, so the retry after an exception skips the rest of the switch.
* `Recalibrated`, unless an IQK fell into a scan, a calibration or a switch was
  cut short, or the band has not been crossed since the bring-up:
  `init_hw_mlme_ext` leaves `current_band_type` at `BAND_MAX`, which the
  calibration takes for 2.4 GHz.
* `TxReleased` (8812), unless a calibration was cut short and none ran since:
  `_needIQK` is cleared before the LC calibration, so a retry does not repeat
  it. The 8814's calibration restores TXPAUSE as it finds it.
* `SubchannelOfPrimary`, except for 153, 161 and the primaries from 165 on,
  which `get_40mhz_center_channel` pairs wrongly or not at all.

On an 8814 the bring-up runs the 8812's band switch (`HalModule.cpp:381`); as
both write the same CCK_CHECK register, the 8814's own sequence does not follow
until the band is crossed. The model says "front end set up for the band" of
both, and does not compare their register values.

### What the properties of the shared radio leave out

Nothing in the code orders the two threads' accesses to the base band. The
properties of `StationWatchdog` are stated with the cases in which it therefore
does not give them; TLC has a counterexample to each without its condition:

* `GainRewritten` and `GainRecovers` say what is left of the gain: DIG's byte to
  0xc50 goes to page C1 when a calibration of the control thread, `readTxIqcX`
  or the dump after the auth request has it selected. This needs no option: the
  calibrations of the sweep and of `runProbe` and the tick of the watchdog are
  enough. A later tick finds page C and puts the gain in force, unless a page
  was left behind by an exception, which every one of these places swallows or
  passes on without putting 0x82c back, or by an overlap.
* `FrontEndRestored`, unless one was cut short, or two overlapped: the second
  saves the first one's configuration and restores it at the end, RX antennas
  off, page C1 selected. This needs `DEVOURER_PWRTRACK_IQK`.
* `TxReleased`, unless a calibration is under way on the watchdog thread or was
  cut short. An overlap does no harm here, as `RestoreMacBb` is followed by a
  plain clear of TXPAUSE.

`RxResumed` has no such case: the guard in `runProbe` resumes RX on every path,
and nothing else pauses it.

### What the violated runs show

* `async_rx_destroy`: a stop that times out leaks the transfers on purpose, yet
  destroys the state their callback uses.
* `supplicant_group`: a group message with the key that message 3 installed
  reinstalls it and clears its replay window, so a group frame is delivered
  twice.
* `handshake_rekey`: a late duplicate of the previous message 3 ends a pairwise
  rekey early; the AP's own message 3 is never answered.
* `station_scan`: `scanForSsid` can return an AP with the radio on another
  channel: a beacon without a DS parameter stored after a retune, or a bleed
  match on the last channel.

### Fairness

* AsyncRx: the steps of `stopAsyncRx` and the worker are weakly fair: both are
  ordinary threads and every wait in stop has a deadline. Nothing is assumed of
  the device or of the callbacks.
* Handshake: the AP repeats its message until its tries are used, its latest
  message arrives, a reply to it gets through, and replies that got through are
  read. Any other reply may be lost. The station does not answer a repeated
  message 1 in WaitMsg3 nor a repeated message 3 in Done, so after a lost
  message 2 or 4 (`replyLost`) the latest repetition is of no use, and the
  liveness properties claim nothing until the next `begin`; the repetition of a
  group message is answered, and they do claim that.
* StationWatchdog: the control thread and the watchdog thread are weakly fair:
  each wait of the first has a deadline, the retries of an IQK are bounded, and
  the second sleeps 200 ms at a time. Nothing is assumed of the AP, of the RX
  thread, or of the application, which need not destroy the device.
* WfbLink: `FecTimeout` is weakly fair: `dataSource` polls until `fecCloseTs`.
  This assumes a `fec_timeout` above 0; with 0 the code never closes a block.
  Nothing is assumed of the air.

## Proofs

All proofs hold for every value of the constants that meets the named
assumptions (a pool with more buffers than transfers, a window of at least one
bit, group keys with key ids 0..3).

* **AsyncRxProofs**. `InflightExact` is not inductive: a callback's decrement
  is only right when the transfer it holds was counted, and resume must not
  claim a transfer a callback may resubmit. `IInv` adds what each program
  counter holds: which transfer the callback has (`CallbackHolds`), which ones
  start has not reached (`NotYetStarted`), that a transfer libusb or its
  callback has is marked submitted outside the start window
  (`SubmittedCovers`), that a claimed transfer is the claimer's alone
  (`ClaimIsExclusive`), and which flags go with which control step. From it
  follow type correctness, the exact counter, no double submission, quiet after
  a drain and no freeing of a transfer in flight. The counting itself rests on
  the cardinality theorems of the library.

  Ownership of the buffers (`OwnersExclusive`) needs no more than `IInv`: as
  long as neither a pop has met a push nor a list was found empty, each access
  moves one buffer from one holder to the next, which lemmas on the sequences
  (`PopMoves`, `PushMoves`, `HeadMoves`, `ConcatMoves`) say once.

  That a resume re-arms the pool after a drain (`PoolStaysArmed`) is a claim
  about a whole pause, and `AInv` carries it across: buffers are handed out in
  order before the first submission (`BuffersGiven`); no cancellation of a
  drained pause is left when it is over (`CancelsDrained`); the mark `submitted`
  is cleared for all that a drained pause gave back, so that only what libusb
  has keeps it (`SubmittedOnly`) and all the rest can be claimed again
  (`StillClaimable`); a transfer that is with no one was lost in one of the ways
  that `PoolArmedIfDrained` excuses (`LossExcused`); and the loop of the resume
  has armed what it has passed (`ArmedSoFar`).
* **PnCheckProofs, PnWindowProofs**. `Tracks` says that the bitmap is the set
  of accepted PNs within a window of the highest. Lemmas show that it is kept
  by an acceptance, that a rejection has one of the filter's two reasons, and
  that the empty window tracks nothing. From them the window is exact and
  `PnWindow` implements `PnFilter`.
* **PnWordsProofs**. The array of words implements the flat window for every
  number of words and every word size. What has to be shown is that `winShift`,
  which writes each word from two others in place, from the top word down, never
  reads one it has written: `Partial` is the array after some of the words,
  and `ShiftInPlace` proves that the recursive function is it, by taking the
  least step at which it is not (`LeastNatural`, from the well-founded minimum
  of the naturals; it needs a set and no operator, which is what lets an
  induction through here). The rest is arithmetic: position `j` of the window is
  bit `j % WordBits` of word `j \div WordBits`, a shift by `d` moves
  whole words by `d \div WordBits` and the carry covers the remainder. Exactness and the
  refinement of `PnFilter` then carry over from the instance of
  `PnWindowProofs` under the refinement mapping.
* **HandshakeProofs, the supplicant alone**. `SInv` says that no key uses an SNonce still to be
  drawn, that counters and window are at their start while message 1 is
  awaited, that the TX counter is past every PN used under the current key and
  that the window tracks the PNs delivered under it. A fresh SNonce then makes
  every reset of a counter happen under a key that was never used, which gives
  PN freshness and at-most-once delivery for arbitrary frames.
* **HandshakeProofs, the supplicant against the AP** of the composition. `HInv`
  says what is on the air: a frame of the AP carries a replay counter it has
  used and, if authenticated, a group key it has made (`AirOK`); that a message 4
  the AP would take is from a supplicant that is done under that very key, which
  stays so afterwards as every message 1 in the air is out of date (`PairOK`);
  that group keys get newer as replay counters grow, so that what the replay
  check lets in is not older than what is installed (`InOrder`); and that the
  slots hold the newest key installed and the one before it (`SlotsOK`). From it
  both ends agree on the pairwise key, a group key the AP still uses is held, and the station starts a rekey
  only while the AP runs one. The theorems have the hypothesis
  `~StaleFrames`: no frame of an earlier association is delivered in the next.
  TLC refutes `KeysAgree` without it, because `begin` puts the replay counter
  back to zero and a stale message 1 is not authenticated. A stale frame may also
  leave the station's counter ahead of the AP's, whose messages it then refuses
  for a while; nothing is claimed of that case.

* **RadioChannelProofs**. `Tuned` speaks of the end of a request only, and the
  members run ahead of the registers. `RInv` adds what the sticky flags promise
  (`FlagsSticky`): while `_swChannel` is down the synthesiser is on
  `_rfCenterCh`, while `_setChannelBw` is down the registers have the members'
  width and sub-channel unless `init_hw_mlme_ext` has invalidated it, and
  `_swChannel` never is up without `_setChannelBw`, so the width a band switch
  disturbs is always set again; and where a request is by then (`Progress`). An
  exception changes no member and so keeps all of it. `BInv` adds the parts
  behind the other properties: CCK_CHECK names the band of the channel once
  `_swChannel` is down, and the front end follows it but for a switch cut short
  (`BandKept`); an IQK that is needed stays armed in `_needIQK` until it is run
  or dropped, so that with `_needIQK` down the calibration fits the band and
  TXPAUSE is clear (`CalKept`). The theorems hold for every set of requests with positive channel
  numbers.

* **StationWatchdogProofs**. `CalInv` carries the properties of the shared
  registers and the RX pool. None but `RxResumed` is inductive: a restore is
  only as good as the backup, so `CalInv` says that what a calibration or a look
  at another page under way will put back are good registers while neither an
  exception nor an overlap has happened (`SavedGood`, `WdSavedGood`), and that
  two of them under way have been seen to overlap (`OverlapSeen`), which is what
  makes the second backup's contents excusable. `TxGood` extends the release of
  the TX queues from the frames sent to the whole stretch from the end of `arm`
  on, and `LookedAnt` says that a look at another page touches no antenna. Each
  kind of step (a calibration begins, ends, throws; a page is selected, put
  back) has one lemma, used for the sweep, `arm`, its retries and the dumps.
  `GainRewritten` is an action property: a tick outside of all of them finds
  page C by `CalInv`, and the byte it writes is the gain. For the join, the flags of `onMgmtFrame` are
  answers the AP has sent; for the scan, a stored or parsed beacon that names a
  channel names its AP's. The types of the session are an invariant of the same
  kind. All hold for every set of APs, every bleed, every
  channel plan and every number of retries, with or without the thermal IQK.

* **WfbLinkProofs**, for every FEC code, every ring size and every number of
  blocks in a session, and through any loss, repetition, delay and reordering.

  The ring: `RingConsistent`, so no assert of the receiver fails. The inductive
  invariant `Consistent` adds to it the shape of the record, that a block in the
  ring has not been passed on completely (`Collecting`), and that the ring is
  empty before the first block. Two places carry the argument. In
  `get_block_ring_idx` a jump of more than a ring leaves the ring with old and
  new numbers mixed until the last push: `Pushed` says for each number of
  pushes which slots are new, and at the end either all are or the jump was
  exactly the number of pushes. In the recovery `nrm` must be the distance of
  the block from the front, for which the places of a ring are shown to be
  distinct (`Places`), and at k fragments the parity fragments are as many as
  the data fragments that are missing (`EnoughParities`), so `apply_fec` never
  runs out. The loops are recursive functions; that they have a solution and
  what it keeps is by induction over their steps (`UpTo`, from `LeastNatural`).

  The stream: `NothingDropped` and the refinement of `LossyFifo`. `TInv` says
  what the transmitter has put on the air: one body for each nonce, packets that
  grow with session, block and index, parity fragments that carry data fragments
  already sent, epochs that do not decrease. `Flow` says what the receiver makes
  of it: a slot holds only what is on the air for its block, what is before
  `toSend` has been passed on, and every packet passed on is smaller than every
  packet that is still `Ahead`, which is one of a later session, of a block
  after the last, or of a block in the ring from its `toSend` on. `Flow` takes
  the last block as a parameter because between the pushes of
  `get_block_ring_idx` the newest slot is not yet `last_known_block`. Each step
  of `process_packet` keeps `Flow`, continues the stream and loses nothing that
  was in the ring (`Keeps`): overriding and flushing the oldest block
  (`FlowDrop`), a new block (`FlowNew`), storing and FEC recovery (`FlowFill`,
  `RecoverIs`), sending up to the gap (`FlowSend`). A block sent to its end is
  in the stream whole (`Whole`). For the refinement, an announcement of an older
  session passes the epoch check only if the two sessions share an epoch, which
  is when `LossyFifo` lets the stream start afresh.

Model-checked only: the liveness properties, which are out of the prover's
reach.

## Not modelled

* Data: the firmware images, the PHY, RF and power tables and the replayed
  register sequences, which are most of the lines of the repository, hold no
  control; no model of them would say anything. The rest of the vendored wfb-ng
  is third-party code.
* Cryptographic primitives are ideal; byte layouts of frames and descriptors are
  left out.
* In the supplicant: `verifyProtectedMgmt` and the IGTK, which `begin` does not
  clear.
* In StationMode: the status codes of responses, which `onMgmtFrame` ignores
  altogether for associations, and a second `runProbe` on one object, which
  finds `_gotAuthResp`, `_gotAssocOk` and `_gotDeauth` of the first still set
  unless the application, which can reach these public members, clears them. A
  response that refuses is in the model and counts as an answer, as in the code:
  `NoFalseJoin` says that the AP answered, not that it agreed.
* In the RX pool: the reallocation of `transferBuf`. Copies of the adapter made
  before `startAsyncRx` have no pool, and their pause and resume do nothing.
* In the watchdog: the walk of the gain, noise detection, CFO tracking and the
  swing indices, arithmetic over state that one thread owns.
* In wfb: the sockets, statistics (the count of lost packets among them),
  forwarding, antenna selection, `RxFrame`'s dispatch and the FEC advice.
* The H2C mailbox, firmware download, HAL bring-up, EEPROM decoding and frame
  parsing have control of their own, all of it sequential and on one thread;
  they come after the concurrent parts in the plan. Of these the mailbox is the
  one to watch: `fillH2CCmd` writes a box that 100 polls still found full, and
  each copy of the adapter has its own `_lastH2CBox`.

## Plan

1. Done: AsyncRx, the replay window, the supplicant and its handshake,
   RadioChannel, StationMode with the watchdog and power tracking over one base
   band, the wfb link, with the proofs above.
2. `H2cMailbox` and `FirmwareDownload`: mailbox rotation over adapter copies;
   paging, block sizes and retries of the download against the byte sequence
   they must write, and what goes on after a download that failed silently.
3. `FrameParser`: the walk over an aggregated buffer, against a reference.
4. `Bringup`: the order of `HalModule`'s initialisation with its early returns,
   the EEPROM map's validity rules, and a second `Init` after a device reset,
   which finds `_rfCenterCh` of the first; TX power indices in `RadioChannel`.
