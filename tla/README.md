# Verification of the CA821x POSIX radio platform layer

TLA+ models of `src/platform/radio.c` and the main loop of
`src/platform/platform.c`. This is the OpenThread platform layer that drives a
Cascoda CA821x hard-MAC co-processor from a POSIX host. The models are checked
with TLC on small instances, and the central theorems are proved with TLAPS for
every value of the constants.

## 1. The system

The layer is shared by three actors:

* **The main thread.** It runs OpenThread's single-threaded loop: tasklets, then
  `posixPlatformSleep` (a `select` on the self-pipe, the UART and the alarm
  timeout, unless tasklets are pending), then `posixPlatformProcessDrivers`.
  The drivers call `PlatformRadioProcess`, which is `barrier_main_letWorkerWork`.
  All OpenThread (the "stack") code runs on this thread, apart from the
  callbacks below. Stack code calls the `otPlatRadio*` API.
* **The worker thread.** It belongs to the co-processor transport and runs the
  asynchronous handlers (`handleDataIndication`, `handleDataConfirm`,
  `handleBeaconNotify`, `handleScanConfirm`). It calls into the stack only
  between `barrier_worker_waitForMain` and `barrier_worker_endWork`.
* **The co-processor.** It accepts MCPS-DATA requests tagged with a one-byte
  MSDU handle, confirms them later in any order, and indicates received frames
  at any time.

These are the components of radio.c and how they interact:

| | Component | State in the code | Operations | Interacts with |
|---|---|---|---|---|
| A | Frame codec | none (pure) | encode in `otPlatRadioTransmit`, decode in `handleDataIndication` | B, D |
| B | In-transit table | `IntransitHandles[7]`, `IntransitPackets[7]`, `intransit_mutex` | `intransit_isHandleInUse/putFrame/getFrame/rmFrame` | main (insert), worker (remove) |
| C | Barrier | `mbarrier_waiting`, `barrier_mutex`, `barrier_cond`, self-pipe | `barrier_main_letWorkerWork`, `barrier_worker_waitForMain/endWork` | every worker callback |
| D | Receive slot | `sReceiveFrame.mLength`, `receiveFrame_mutex`, `receiveFrame_cond` | `handleDataIndication`, `PlatformRadioSignal` | worker only (both sides) |
| E | Radio state | `sState` | `otPlatRadioEnable/Disable/Receive/Transmit`, both handlers | main, worker under C |
| F | Key/device table sync | co-processor tables | `keyChangeCallback` | main (state-change hook) |
| G | Scan driver | `s*ScanInProgress`, callbacks, `sEnergyScanMask` | `otPlatRadioActiveScan/EnergyScan`, `handleBeaconNotify`, `handleScanConfirm` | main starts, worker completes under C |
| H | Device activity cache | `sDeviceCache[]` | `deviceCache_*`, `otPlatRadioIsDeviceActive` | main only |
| I | Coordinator role | `sIsCoordinator` | `coordChangeCallback` | main; MLME-RESET drops pending requests |

`src/unnamed/part_000` is an earlier implementation of the same layer, without
the barrier or the in-transit table. It is superseded and not modelled.
`src/build_buildtools.sh` is a build script.

### What makes it hard

* Two threads share the in-transit table, the radio state and the stack. The
  stack's callbacks may themselves call the API, for example transmitting
  again from `otPlatRadioTransmitDone`.
* The barrier is a four-state handshake with two condition-variable waits and
  a mutex that the worker keeps across a callback. The wake-up is a byte
  written to a pipe that the main loop reads once per iteration.
* The handle counter is a `uint8_t` that wraps to 0, and 0 doubles as the
  free-slot marker.
* Early returns leave locks held: `intransit_putFrame` on a full table
  (line 1409), and `handleDataIndication` on an oversize frame (line 1122).
* Confirms arrive after the interface may have gone down.

## 2. Modules

### `Radio.tla`: components B, C, D, E, the data handlers and the main loop

Constants:

* `HandleSpace`: values of the handle counter (256 in the code).
* `MaxIntransits`: `MAX_INTRANSITS` (7).
* `StackMaxInFlight`: how many data frames the stack keeps awaiting
  transmit-done.
* `PipeBound`: bytes the self-pipe holds before it is full.
* `PipeBlocks`: does `selfpipe_push` block on a full pipe? The selfpipe
  library is not in this repository, so both modes are modelled: a
  non-blocking write to a full pipe is lost, a blocking one waits for the
  main loop to read.
* `Malformed`: may the co-processor send oversize indications?
* `AllowIfDown`: may the stack bring the interface down?
* `AllowRoleChange`: may the stack switch between the router and child
  roles (`coordChangeCallback`)?

`RadioAssumption` names what the proofs need.

State, as variables:

* `mpc` and `wpc`: where each thread is.
* `barrier` is `mbarrier_waiting`. `barrierOwner` is the worker holding
  `barrier_mutex` across a callback.
* `selfpipe`: unread pipe bytes.
* `sState`, `handle` and `IntransitHandles`.
* `intransitLocked`: the mutex leaked by a failed `putFrame`.
* `txCall`: an `otPlatRadioTransmit` call in progress.
* `rxLength` and `rxLocked`: the receive slot, and its mutex leaked by the
  oversize return.
* `macPending`: requests the co-processor has not confirmed.
* `ifUp`: `otIsInterfaceUp`.
* `awaiting`: the frames whose transmit-done the stack waits for.
* `role` and `sIsCoordinator`: the stack's role, and the platform's copy of
  whether it is the coordinator.

Actions:

* **Stack calls.** `Enable`, `Disable` and `Receive` are one step each.
  `otPlatRadioTransmit` is three steps: `TxStart` is `handle++`, `TxSearch` is
  one iteration of the `isHandleInUse` loop (each iteration takes the mutex on
  its own), and `TxSubmit` covers the rest, including `PutFrame` and the
  request. The stack may call any of these whenever it runs: on the main
  thread, or on the worker inside a callback (`StackIdle`). `IfUp` and
  `IfDown` model the stack's interface; they are spec-modelled, because that
  code is OpenThread's.
* **Main loop.** `MainPoll(pending)` and `MainWake(byPipe)` model
  `posixPlatformSleep`. `MainLetWorkerWork` and `MainBarrierDone` are the two
  halves of `barrier_main_letWorkerWork`, split at its condition wait.
* **Worker.**
  * `DataConfirm(h)` and `DataIndication` are the handler entries, including
    the return when the interface is down.
  * `DecodeIndication` is the receive-slot wait and the decode, with its
    oversize return.
  * `WorkerLock`, `WorkerAnnounce` and `WorkerEnter` are
    `barrier_worker_waitForMain`: `WorkerLock` takes `barrier_mutex`,
    `WorkerAnnounce` is the `selfpipe_push` and the WAITING write made while
    the worker still holds it (with `PipeBlocks` it is enabled only while the
    pipe has room), and `WorkerEnter` is the wait for GREEN. `WorkerEnter` also performs the callback's
    entry: `sState = kStateReceive` for an indication, and `intransit_getFrame`
    followed by `otPlatRadioTransmitDone` for a confirm.
  * `WorkerEndWork` is the confirm's `sState` write plus `endWork`.
  * `RmFrame` is `intransit_rmFrame`.
  * `PlatformRadioSignal` ends the handler.
* **Role change.** `RoleChange(r)` is `coordChangeCallback`: it sets
  `sIsCoordinator`, and on leaving the router role issues `MLME_RESET`, which
  makes the co-processor forget its pending requests. The in-transit table
  is left as it is.

Data is abstracted. A frame is its kind (data, poll, other) and, in flight,
its handle, which also stands for its transmit context. The codec, addresses,
channels and confirm statuses are left out: every confirm status takes the
same path.

`MC_Radio.tla` gives the constants for TLC. `RadioProofs.tla` and
`IntransitProofs.tla` hold the proofs.

### `BarrierSpec.tla`: what the barrier promises

An abstract barrier with two variables: `owner`, the thread the stack
belongs to, and `wstate`, the worker (away, waiting, inside). Its actions
are `Ask`, `Grant`, `Enter`, `Leave` and `Resume`, and `FairSpec` makes every
one but `Ask` weakly fair. `Radio.tla` maps its state to this one (`BAR`):
the worker is "inside" while it holds `barrier_mutex`, "waiting" from
announcing itself until it enters, and the stack is the worker's while the
main thread waits for DONE. `ImplementsBarrier` is `BAR!FairSpec`, checked
by the live run.

### `Scan.tla`: component G, the scan driver

Constants: `Channels` (11..26 in the code), the masks the stack may pass
(`ActiveMasks`, `EnergyMasks`), the stack's callback `Contexts`, a bound
`MaxBeacons` on beacon notifications per scan, `ConfirmAfterReturn` (does
the co-processor confirm only after `MLME_SCAN_request` has returned?) and
`AllowIfDown`.

State: the two threads (`mpc`, `wpc`, `wjob`), the in-progress flags, the
stored contexts and `sEnergyScanMask`, the request in progress (`scanCall`),
the co-processor's running scan and its mask, the energy-result loop's
`uint8_t` cursor `curMinChannel` and counters, the context the current
callback receives (`cbCtx`), and the scan the stack is waiting for
(`stackScan`, `stackCtx`).

Actions: `ActiveScan` and `EnergyScan` (busy check, stored context and mask,
request accepted or refused) and `ScanReturn` (flag set after the request
returns); `BeaconNotify` and `ScanConfirm` (worker entries, with the drop when
the interface is down or no flag is set); `WorkerGreen` (the barrier's
greenlight, abstracted to its meaning: the main thread parked while the worker
calls the stack); the energy-result loop as `EnergyLoopStep`,
`EnergyLoopNext` and `EnergyLoopEnd`; and `WorkerEndCb` (the flag cleared
after the callback, then `endWork`). The stack may call the scan API from the
main loop or from inside a callback. The duration-to-exponent conversion and
the beacon payload are abstracted to the request and to a valid/invalid
beacon.

### `Devices.tla`: components F and H, the table synchronizer and the activity cache

Constants: `Addrs` (extended addresses, as pairs of non-zero bytes so that
the byte-order flips are real conversions), `TableCap` (five descriptors in
the code), `CacheSize` (`DEVICE_TABLE_SIZE`), `MaxFc` (a bound on frame
counters), `KeySeqMod` (2^32 in the code) and `AllowSetFail` (may an
`MLME_SET_request_sync` fail?).

State: the stack's neighbour list and key sequence, a pending state change,
the co-processor's device-table slots (address, frame counter), the count
`sCurDeviceTableSize`, the stored key generations, `sDeviceCache`, an
`overflow` flag for the write at `sDeviceCache[0xFF]`, and for the properties
the last answer, the address queried, and per device its counter at its last
query (`lastQ`).

Actions: `NeighboursChange`, `KeySequenceAdvance` and `DeviceFrame` are the
environment (OpenThread and the co-processor's frame counters; spec-modelled).
`KeyChange` is the whole of `keyChangeCallback`: the sequence 0 -> 2 fix-up,
the descriptors written with counter 0, the count, and the key generations,
with any subset of the set requests failing silently. `IsDeviceActive(a)` is
the whole of `otPlatRadioIsDeviceActive`, including the refresh: `Refreshed`
folds `PutDevice` (`deviceCache_getCachedDevice` plus the caller's update)
over the slots with a recursive function, then applies the 1 -> empty,
2 -> 1 cleanup. Both callbacks run on the main thread, so each is one step.

## 3. Properties and runs

| Run | Module | cfg | Expect | Checks |
|---|---|---|---|---|
| live | `MC_Radio` | `Radio_live.cfg` | pass | `TypeOK`, `StackExclusive`, `IntransitMatchesRequests`, `TransmitDoneEventually`, `ImplementsBarrier` |
| faults | `MC_Radio` | `Radio_faults.cfg` | pass | `StackExclusive`, with interface-down, oversize frames, role changes and a blocking self-pipe |
| reset | `MC_Radio` | `Radio_reset.cfg` | violation | `IntransitMatchesRequests` with role changes |
| leak | `MC_Radio` | `Radio_leak.cfg` | violation | `IntransitMatchesRequests` with interface-down |
| overflow | `MC_Radio` | `Radio_overflow.cfg` | violation | `IntransitMutexFree` with a stack that fills the table |
| rxpoison | `MC_Radio` | `Radio_rxpoison.cfg` | violation | `RxSlotFree` with oversize indications |
| scan_core | `MC_Scan` | `Scan_core.cfg` | pass | `TypeOK`, `InProgressMatchesScan`, `ActiveCallbackContext`, `ScanCompletes` |
| scan_faults | `MC_Scan` | `Scan_faults.cfg` | pass | `ActiveCallbackContext`, with interface-down and every energy mask |
| scan_energyhang | `MC_Scan` | `Scan_energyhang.cfg` | violation | `ScanCompletes` with masks without channel 11 |
| devices_core | `MC_Devices` | `Devices_core.cfg` | pass | `TypeOK`, `NoCacheOverflow`, `OverflowOnlyWhenFull`, `CacheMirrorsTable`, `ActiveIffCounterMoved` |
| devices_overflow | `MC_Devices` | `Devices_overflow.cfg` | violation | `NoCacheOverflow` with the cache as large as the table |
| devices_counterreset | `MC_Devices` | `Devices_counterreset.cfg` | violation | `ActiveMeansNewFrames` |

The properties of `Radio`:

* `StackExclusive`: a worker callback runs only while the main thread waits
  for DONE. This is the barrier's guarantee (spec section 4.3).
* `IntransitMatchesRequests`: the table holds exactly the unconfirmed requests
  plus the confirm being delivered, each handle once. This gives three things:
  `getFrame` never misses (the `assert` at line 1155), `rmFrame` never meets a
  duplicate, and no record leaks.
* `IntransitMutexFree` and `RxSlotFree`: no lock is leaked by an early return.
* `TransmitDoneEventually`: every data frame handed to the radio gets its
  transmit-done.
* `ImplementsBarrier`: `Radio`, under its fairness, implements `BarrierSpec`
  under its own. Safety: every step of the two threads is a barrier step or
  a stutter. Liveness: a waiting worker is served and the main thread gets
  the stack back.

The properties of `Scan`:

* `InProgressMatchesScan`: a set in-progress flag means the co-processor runs
  that scan, or its completion is being delivered; never both flags.
* `ActiveCallbackContext`: each active-scan result and completion callback
  gets the context its scan was requested with, also when the stack calls
  the API from inside a callback.
* `ScanCompletes`: every accepted scan ends with its completion callback.

The properties of `Devices`:

* `CacheMirrorsTable` (action property): right after a query, the live cache
  entries are exactly the devices of slots 1..`sCurDeviceTableSize`, each
  once, with that slot's counter. No device that left the table survives.
* `ActiveIffCounterMoved` (action property): a device's second and later
  queries say active exactly when its counter moved since the previous one.
* `NoCacheOverflow`: `deviceCache_getCachedDevice` stays inside the array.
  It holds in devices_core, whose cache is twice the table, and fails in
  devices_overflow, whose cache is as large as the table (finding 5).
* `OverflowOnlyWhenFull` (action property): a refresh writes past the array
  only when the entries live before it plus the devices it stages exceed
  `DEVICE_TABLE_SIZE`. It says how large the cache must be, for any size.
* `ActiveMeansNewFrames` (action property): active only when the counter grew.

Each property of a passing run has a mutant, a plausible bug that TLC
catches: a handle counter that does not wrap (`TxStartNoWrap`); a main
thread that does not wait for DONE (`MainLetWorkerWorkNoWait`); a main
thread that resumes without DONE (`MainBarrierDoneSpurious`); the handle
search left out (`TxSubmitNoSearch`); the self-pipe push left out
(`WorkerAnnounceNoPush`); the scan busy check without the energy flag
(`ActiveScanNoEnergyCheck`); the context stored before the busy check
(`ActiveScanCtxFirst`); an off-by-one result count (`ScanConfirmOffByOne`);
an energy confirm that is dropped (`ScanConfirmNoEnergy`); a cursor without
the `uint8_t` wrap (`EnergyLoopStepNoWrap`); the cache cleanup without the
2 -> 1 promotion (`RefreshedNoPromote`) or without the stale drop
(`RefreshedKeepStale`); a search loop in `deviceCache_getCachedDevice` that
stops one entry short (`PutDeviceShortScan`); and the activity query without the
`mTimeoutFrameCounter` update (`IsDeviceActiveNoUpdate`).

**Findings** (the violation runs; details in `PROJECT.json`):

1. **In-transit overflow.** The record of a confirmed frame is removed only
   after `barrier_worker_endWork` (line 1178), after the stack's
   transmit-done callback has returned. A stack that transmits from that
   callback with the table at capacity makes `putFrame` return -1 with
   `intransit_mutex` locked. The main thread's next `isHandleInUse` and the
   worker's `rmFrame` then block for ever. The spec says the record is
   removed before the callback returns.
2. **In-transit leak.** A confirm arriving while the interface is down
   returns at line 1150 without `rmFrame`. Its record leaks, and seven leaks
   lead to finding 1 even with the margin.
3. **Receive slot poisoned.** The oversize return (line 1122) keeps
   `receiveFrame_mutex`. The worker blocks at its next indication or
   `PlatformRadioSignal`.
4. **Energy scan hang.** The result loop at line 1256 ends only if channel 11
   is in the mask; mask 0 is stored (line 295) before its 11..26 default. The
   worker spins holding `barrier_mutex`, and the main loop stalls with it.
5. **Device cache overflow.** With every entry in use,
   `deviceCache_getCachedDevice` writes `sDeviceCache[0xFF]` (line 1324).
   During a refresh the new devices are staged while the old ones are still
   live, so a cache as large as the device table (as the spec's data model
   sizes it) overflows as soon as one neighbour replaces another. By theorem
   `OverflowOnlyWhenFullHolds` an overflow needs the live entries plus the
   staged table to exceed the cache; devices_core checks on its instance
   that a cache of twice the table never overflows.
6. **Counter reset.** `keyChangeCallback` writes every descriptor with frame
   counter 0 (line 609), so after any key or neighbour change a silent
   device reads as active.
7. **Reset leak.** Leaving the router role issues `MLME_RESET` (line 568),
   and the co-processor forgets its pending requests. Their in-transit
   records are never removed, as in finding 2. The spec (section 4) says
   pending records are forgotten at a MAC reset.

Two more divergences are recorded as hazards rather than runs. The
indication handler sets Receive from Sleep or Disabled (line 1134). And a
scan confirm handled before `MLME_SCAN_request` returns is dropped (line 278),
which `ScanCompletes` shows once `ConfirmAfterReturn` is FALSE; every run
keeps the spec's premise that it is TRUE. The energy completion passes
`sActiveScanContext` (line 1264) rather than an energy context of its own;
the module keeps a single context, as the code does, so no run can tell the
two apart.

**Bounds.**

* Radio. The leak, reset and overflow runs use 5 handles and 3 slots, a
  stack margin of one slot, and a 2-byte pipe. The live and faults runs use
  4 handles, 3 slots and a 1-byte pipe: the live run because the temporal
  check is the expensive part, the faults run because it allows every fault
  and role change at once. In both, every
  handle is used after a few data frames, so the counter wraps through 0 and
  past handles still in flight. The table fills, so the handle-0 edge case
  arises, and with a 1-byte pipe the worker's second push finds the pipe
  full. The live run takes a non-blocking pipe, where that byte is lost,
  which is harmless because the main loop still sees WAITING. The faults
  run takes a blocking pipe, and checks no deadlock: there the worker waits
  in `selfpipe_push` holding `barrier_mutex`, the main loop waits for that
  mutex to read the barrier, and both hang. TLC finds this hang in 18
  states of the live configuration with `PipeBlocks = TRUE`; it is recorded
  as a deadlock hazard at line 1473, since which mode the library uses is
  not in this repository. The overflow run has no stack margin.
* Scan. Three channels, {11, 12, 13}, and two contexts, so two scans and
  calls from inside callbacks meet. Two beacons per scan. The core run's
  energy masks all include channel 11, because finding 4 would otherwise
  break `ScanCompletes`; the faults run allows every mask.
* Devices. Three addresses, two of them each other's byte flip and one its
  own, so a missing or doubled flip shows. One descriptor per
  synchronisation and neighbour lists of up to two, which already replace
  one device by another. A two-entry cache, which holds the old and the new
  table together (with one entry, finding 5 fires). Counters up to 1, and the
  key sequence modulo 4 so that it wraps through 0.

**Fairness.** The Devices runs check safety only.

For Radio (`Fairness` in `Radio.tla`), and why the code justifies it:

* The OS schedules both threads, so the thread steps (select returning on a
  readable pipe, the barrier steps, the handler steps) are weakly fair.
* A stack call that has begun completes.
* The main loop eventually polls with nothing pending: `MainPoll(FALSE)` is
  strongly fair, because the stack's tasklets are finite and its calls only
  intermittently disable the poll.
* The end of a callback is strongly fair, because the stack's calls inside it
  interrupt it.
* The co-processor eventually confirms every request, and the worker takes a
  confirm that keeps arriving (strong fairness per handle).
* The stack's own calls, indications, and wake-ups from other sources are not
  fair.

For Scan: a synchronous request returns (weak fairness); the co-processor
eventually confirms a running scan, and the worker eventually gets the
greenlight, both strongly fair because other calls from the stack
intermittently disable them; the result loop and the end of a callback are
worker steps (weak fairness).

## 4. Proofs (`RadioProofs.tla`, `IntransitProofs.tla`, `ScanProofs.tla`, `DevicesProofs.tla`, checked by `tlapm`)

* `TypeCorrect`: `Spec => []TypeOK` for every value of the constants allowed
  by `RadioAssumption`. The invariant is inductive on its own. The proof
  splits it into `DataOK`, proved by SMT, and `FlagsOK`, the Boolean
  variables, proved by Zenon: the SMT backend fails when the two are mixed.
  `DataStep` has one case per action; `TxSubmit` is split by its branches.
* `StackExclusiveHolds`: `Spec => []StackExclusive`. `StackExclusive` is not
  inductive. A main thread in "drivers" that finds the barrier in any state
  but WAITING goes back to the stack, and this is safe only if no worker is
  in a callback. The strengthening `BarrierInv` says what each barrier state
  implies about both threads, and that the worker holds `barrier_mutex`
  exactly while it is announcing itself (`push`) or in a callback. TLC checked `BarrierInv` as an invariant
  of the faults configuration (6.3M states) before the proof. Lemma
  `BarrierInvariant` proves `TypeOK /\ BarrierInv` inductive, with one step
  per action, and the theorem follows.
* `BarrierRefinement`: `Spec => BAR!Spec`, the safety part of
  `ImplementsBarrier`. `BarrierMappedInit` maps the initial state, and
  `BarrierMappedStep` shows, under `TypeOK /\ BarrierInv`, that each action
  of `Radio` maps to one barrier step or a stutter: `WorkerLock` is a stutter,
  `WorkerAnnounce` is `Ask`, `MainLetWorkerWork` `Grant`, `WorkerEnter` `Enter`, the end of a
  callback `Leave`, `MainBarrierDone` `Resume`, and every other action
  leaves the mapped state alone. The liveness part stays with TLC.

In `IntransitProofs.tla`:

* `IntransitHolds` and `IntransitMutexFreeHolds`: `Spec =>
  []IntransitMatchesRequests` and `Spec => []IntransitMutexFree`, under
  `Premises`: the interface stays up, the role never changes, and
  `StackMaxInFlight < MaxIntransits`. Each premise is needed: the leak,
  reset and overflow runs break one each. The strengthening `IInv` adds:
  * `TableInv`: the mutex is free, the records match the requests, handle 0
    is never in flight, and free slots plus handles in flight make
    `MaxIntransits`. Counting slots this way avoids reasoning about the
    cardinality of an image.
  * `WorkerInv`: the worker waits for the receive slot only with an
    indication.
  * `StackInv`: every pending request is a frame the stack awaits, a confirm
    being delivered is one too, a data submit starts with fewer than
    `StackMaxInFlight` frames awaited, and anything pending or being sent
    means the interface is up.
  From these, `RoomForData` shows a free slot when a data frame is
  submitted. The smallest free slot, which `putFrame` takes, is found by
  well-founded minimum (`FirstFreeIsFree`). TLC checked `IInv` on every
  reachable state (167,301 states with 5 handles, 3 slots and a margin of
  one) before the proof.

In `ScanProofs.tla`:

* `ScanTypeCorrect`: `Spec => []TypeOK` for every value of the constants
  allowed by `ScanAssumption`. The invariant is inductive. The one
  non-obvious fact is that the result count `Cardinality(coprocMask)` fits
  `ri` and `rn`'s range; lemma `MaskCard` proves it from the finiteness of
  `Channels` (FiniteSetTheorems). As in Radio, the Boolean flags (Zenon) and
  the rest (SMT) are proved apart, and `ScanConfirmEffect` extracts what
  `handleScanConfirm` changes from its CASE before SMT takes over.
* `InProgressHolds`: `Spec => []InProgressMatchesScan`, under `Premises`: a
  co-processor that confirms only after `MLME_SCAN_request` has returned,
  and an interface that stays up. These are exactly the premises of the
  scan_core run. Without either one, TLC finds `InProgressMatchesScan`
  violated: a confirm that overtakes the request's return, or one dropped
  while the interface is down, leaves a flag stuck. The property is not
  inductive. The strengthening adds three parts. `WorkerInv` says the worker
  holds a job exactly when it is not idle, a completion job only after the
  co-processor is idle, and under the matching flag. `RequestInv` says a
  request in flight is the co-processor's scan and was made with both flags
  clear, that the interface is up while anything is pending, and that a
  running scan whose request has returned has its flag. `ContextInv` says
  the stored `sActiveScanContext` is the requester's while the active flag is
  set, and that a callback in progress holds it. TLC checked `IInv` on every
  reachable state (40,280 states with every mask) before the proof.
  `RestStep` has one case per action.
* `ActiveContextHolds`: `Spec => []ActiveCallbackContext` with no premise,
  for every co-processor timing and interface state, as in the scan_faults
  run. Its strengthening `CtxInv` does without the flag bookkeeping that
  needs the premises: `CallInv` says a request in flight was made with both
  flags clear; `ActiveJobInv` says that an active scan running on the
  co-processor, or a result or completion job of the worker, comes with the
  active flag or a request still in flight, and a completion job only with
  the flag set and the co-processor idle; `ContextInv` is as above.
  `CtxStep` has one case per action.

In `DevicesProofs.tla`:

* `DevicesTypeCorrect`: `Spec => []TypeOK` for every value of the constants
  allowed by `DevicesAssumption`. The refresh is a recursive function over
  the slots, which TLAPS reads as a CHOOSE. `StagedExists` shows that a
  function satisfying the loop's equation exists for every length: the
  least length without one would extend its predecessor's (least
  counterexample, by `WFMin` of WellFoundedInduction, not the
  operator-parameter induction rules). `StagedType` then shows, again by
  least counterexample, that every intermediate cache is of the staged type
  (isActive 0, 1 or 2), and `PromoteType` that the cleanup brings it back to
  0 or 1. `KeyChangeType` and `QueryType` cover the two callbacks.
* `OverflowOnlyWhenFullHolds`: `Spec => OverflowOnlyWhenFull`, with no
  premise on the sizes. The code sizes the cache equal to the table in the
  spec's data model, and devices_overflow shows that this overflows; the
  theorem says exactly when an overflow can happen, for any sizes.
  `PutDeviceEffect` shows that one `deviceCache_getCachedDevice` either
  claims one entry, which is then in use and staged, or writes past the
  array only when every entry is in use. `StagedCount` carries `FoldInv`
  through the loop by least counterexample: each entry in use was in use
  before or was staged, the loop has staged at most `i` entries after `i`
  slots, and it has not overflowed while the entries in use before and `i`
  fit. `RefreshedUsed` shows that the cleanup keeps the flag, and
  `OvfBodyStep` puts these together for the step that sets `overflow`: only
  the query does, and then the live entries and `dcount` exceed the cache.
  Only `TypeOK` is needed as an invariant.
* `MirrorHolds`: `Spec => CacheMirrorsTable`, the action property, also
  with no premise on the sizes: every query whose refresh does not write
  past the array leaves the cache an exact mirror. The invariant is
  `TypeOK /\ (~overflow => Distinct(cache))`: live entries have distinct
  addresses until an overflow; TLC checked it on every reachable state of
  devices_core (546,927) and devices_overflow (311,108). `OvfSticky` shows that the loop's flag,
  once set, stays set, so a query that ends without overflow never
  overflowed on the way. `PutDeviceEntry`
  says what one `deviceCache_getCachedDevice` does to each entry: the
  claimed entry k gets the slot's address and counter, every other entry
  is left alone, and k was either live with that address or free while no
  live entry had it. `StagedMirror` carries `MirrorFacts` through the loop
  by least counterexample, one iteration being `MirrorStep`: the staged
  entries carry exactly the addresses of the slots read so far, live
  addresses stay distinct, and each staged entry holds some slot's address
  and counter.
  `RefreshMirror` adds the cleanup, which keeps a staged entry's address
  and counter (`PromoteFields`) and only the staged entries
  (`RefreshedUsed`), and `QueryMirror` the query's own write, which only
  touches `mTimeoutFrameCounter`. `MirrorNext` gives the step: the query
  satisfies the property's body and keeps the invariant, and every
  other action leaves `queried` and the cache alone.

Only TLC checks these:

* `ScanCompletes` (liveness);
* `ActiveIffCounterMoved`. It relates a query's answer to the counter seen
  at the device's previous query (the ghost `lastQ`), across refreshes that
  may drop and re-add the device; its proof is not written yet;
* the liveness properties, because TLAPS does not handle fairness or ENABLED.

## 5. Not modelled yet, and the plan

1. **Frame codec** (A): header layout as a function over bounded field
   choices, with decode(encode(p)) = p checked against a reference
   definition.
2. **Proofs**: `ActiveIffCounterMoved`, on top of `MirrorFacts` and the
   `lastQ` bookkeeping.

Left out for good:

* the address, PAN and promiscuous setters (synchronous forwarding to the
  co-processor);
* logging;
* the legacy `part_000`;
* the build script.
