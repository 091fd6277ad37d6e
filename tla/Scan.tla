-------------------------------- MODULE Scan --------------------------------
(***************************************************************************)
(* The scan driver of src/platform/radio.c: otPlatRadioActiveScan and     *)
(* otPlatRadioEnergyScan on the stack's side, handleBeaconNotify and      *)
(* handleScanConfirm on the worker thread, and the co-processor that      *)
(* runs the MLME-SCAN.                                                     *)
(*                                                                         *)
(* The barrier is taken at its abstract meaning, which Radio checks and    *)
(* proves: a worker callback starts only when the main loop is between two *)
(* stack activities, and the main loop stays parked until the worker's     *)
(* barrier_worker_endWork.  The stack calls the scan API from the main     *)
(* thread, or from inside a worker callback.  A channel mask is the set of *)
(* channels whose bits are set; a context is a model value.               *)
(***************************************************************************)
EXTENDS Naturals, FiniteSets, FiniteSetsExt

CONSTANTS
    Channels,         \* the channels 11..26 (a prefix of them for TLC)
    ActiveMasks,      \* channel masks the stack passes to an active scan
    EnergyMasks,      \* channel masks the stack passes to an energy scan
    Contexts,         \* callback contexts the stack passes
    NoCtx,            \* the NULL context of the statics before any scan
    MaxBeacons,       \* beacon notifications the co-processor sends per scan
    ConfirmAfterReturn, \* does the scan confirm arrive only once the
                        \* request call has returned to the stack?
    AllowIfDown       \* may the stack bring its interface down?

ASSUME ScanAssumption ==
    /\ Channels \subseteq 11 .. 26 /\ 11 \in Channels
    /\ ActiveMasks \subseteq SUBSET Channels
    /\ EnergyMasks \subseteq SUBSET Channels
    /\ NoCtx \notin Contexts
    /\ MaxBeacons \in Nat
    /\ ConfirmAfterReturn \in BOOLEAN
    /\ AllowIfDown \in BOOLEAN

\* The co-processor scans the given mask, or all channels for mask 0
\* (aScanChannels = 0x07fff800).
DefaultMask(m) == IF m = {} THEN Channels ELSE m

VARIABLES
    mpc,               \* main thread: "run", or "parked" in the barrier
    wpc,               \* worker: "idle", "wait", "eloop", "cb"
    wjob,              \* "none", "beacon", "activeDone", "energyDone"
    activeInProgress,  \* sActiveScanInProgress
    energyInProgress,  \* sEnergyScanInProgress
    activeCtx,         \* sActiveScanContext
    energyCtx,         \* sEnergyScanContext
    energyMask,        \* sEnergyScanMask
    scanCall,          \* scan API call between its request and its return
    coproc,            \* scan the co-processor runs: "idle", "active", "energy"
    coprocMask,        \* the channels it scans
    beacons,           \* beacon notifications sent in the current scan
    curMinChannel,     \* handleScanConfirm's channel cursor (uint8_t)
    ri,                \* the result index i of its for loop
    rn,                \* ResultListSize
    cbCtx,             \* context the last scan callback was given
    ifUp,              \* otIsInterfaceUp
    stackScan,         \* the scan the stack awaits completion of
    stackCtx           \* the context it passed for that scan

vars == << mpc, wpc, wjob, activeInProgress, energyInProgress, activeCtx,
           energyCtx, energyMask, scanCall, coproc, coprocMask, beacons,
           curMinChannel, ri, rn, cbCtx, ifUp, stackScan, stackCtx >>

ScanKinds == {"active", "energy"}

\* The stack runs on the main thread between two loop iterations, or on
\* the worker inside a callback, and makes one API call at a time.
StackCanCall == (mpc = "run" \/ wpc = "cb") /\ scanCall = "none"

Init ==
    /\ mpc = "run"
    /\ wpc = "idle"
    /\ wjob = "none"
    /\ activeInProgress = FALSE
    /\ energyInProgress = FALSE
    /\ activeCtx = NoCtx
    /\ energyCtx = NoCtx
    /\ energyMask = {}
    /\ scanCall = "none"
    /\ coproc = "idle"
    /\ coprocMask = {}
    /\ beacons = 0
    /\ curMinChannel = 11
    /\ ri = 0
    /\ rn = 0
    /\ cbCtx = NoCtx
    /\ ifUp = FALSE
    /\ stackScan = "none"
    /\ stackCtx = NoCtx

-----------------------------------------------------------------------------
(* The stack's calls.                                                      *)

\* Mutant of ActiveScan: the busy check tests sActiveScanInProgress only.
ActiveScanNoEnergyCheck(ctx, mask) ==
    /\ StackCanCall
    /\ ifUp
    /\ IF activeInProgress
       THEN UNCHANGED << activeCtx, scanCall, coproc, coprocMask, stackCtx >>
       ELSE /\ activeCtx' = ctx
            /\ \/ /\ coproc = "idle"
                  /\ coproc' = "active"
                  /\ coprocMask' = DefaultMask(mask)
                  /\ scanCall' = "active"
                  /\ stackCtx' = ctx
               \/ UNCHANGED << scanCall, coproc, coprocMask, stackCtx >>
    /\ UNCHANGED << mpc, wpc, wjob, activeInProgress, energyInProgress,
                    energyCtx, energyMask, beacons, curMinChannel, ri, rn,
                    cbCtx, ifUp, stackScan >>

\* Mutant of ActiveScan: sActiveScanContext stored before the busy check,
\* so a refused call overwrites the context of the running scan.
ActiveScanCtxFirst(ctx, mask) ==
    /\ StackCanCall
    /\ ifUp
    /\ activeCtx' = ctx
    /\ IF activeInProgress \/ energyInProgress
       THEN UNCHANGED << scanCall, coproc, coprocMask, stackCtx >>
       ELSE \/ /\ coproc = "idle"
               /\ coproc' = "active"
               /\ coprocMask' = DefaultMask(mask)
               /\ scanCall' = "active"
               /\ stackCtx' = ctx
            \/ UNCHANGED << scanCall, coproc, coprocMask, stackCtx >>
    /\ UNCHANGED << mpc, wpc, wjob, activeInProgress, energyInProgress,
                    energyCtx, energyMask, beacons, curMinChannel, ri, rn,
                    cbCtx, ifUp, stackScan >>

\* otPlatRadioActiveScan up to MLME_SCAN_request: busy while either scan
\* is in progress; otherwise store the callback context and send the
\* request, which the co-processor accepts (and starts scanning) or
\* rejects (busy).  The stack starts a scan only with its interface up and
\* no scan of its own outstanding.
ActiveScan(ctx, mask) ==
    /\ StackCanCall
    /\ ifUp
    /\ IF activeInProgress \/ energyInProgress
       THEN UNCHANGED << activeCtx, scanCall, coproc, coprocMask, stackCtx >>
       ELSE /\ activeCtx' = ctx
            /\ \/ /\ coproc = "idle"
                  /\ coproc' = "active"
                  /\ coprocMask' = DefaultMask(mask)
                  /\ scanCall' = "active"
                  /\ stackCtx' = ctx
               \/ UNCHANGED << scanCall, coproc, coprocMask, stackCtx >>
    /\ UNCHANGED << mpc, wpc, wjob, activeInProgress, energyInProgress,
                    energyCtx, energyMask, beacons, curMinChannel, ri, rn,
                    cbCtx, ifUp, stackScan >>

\* otPlatRadioEnergyScan up to MLME_SCAN_request.  sEnergyScanMask takes
\* the mask as passed, before mask 0 is widened to all channels for the
\* request.
EnergyScan(ctx, mask) ==
    /\ StackCanCall
    /\ ifUp
    /\ IF activeInProgress \/ energyInProgress
       THEN UNCHANGED << energyCtx, energyMask, scanCall, coproc, coprocMask,
                         stackCtx >>
       ELSE /\ energyMask' = mask
            /\ energyCtx' = ctx
            /\ \/ /\ coproc = "idle"
                  /\ coproc' = "energy"
                  /\ coprocMask' = DefaultMask(mask)
                  /\ scanCall' = "energy"
                  /\ stackCtx' = ctx
               \/ UNCHANGED << scanCall, coproc, coprocMask, stackCtx >>
    /\ UNCHANGED << mpc, wpc, wjob, activeInProgress, energyInProgress,
                    activeCtx, beacons, curMinChannel, ri, rn, cbCtx, ifUp,
                    stackScan >>

\* MLME_SCAN_request returned MAC_SUCCESS: set the in-progress flag and
\* return kThreadError_None; the stack now awaits the completion callback.
ScanReturn ==
    /\ scanCall # "none"
    /\ activeInProgress' = (activeInProgress \/ scanCall = "active")
    /\ energyInProgress' = (energyInProgress \/ scanCall = "energy")
    /\ stackScan' = scanCall
    /\ scanCall' = "none"
    /\ UNCHANGED << mpc, wpc, wjob, activeCtx, energyCtx, energyMask, coproc,
                    coprocMask, beacons, curMinChannel, ri, rn, cbCtx, ifUp,
                    stackCtx >>

IfUp ==
    /\ StackCanCall
    /\ ~ifUp
    /\ ifUp' = TRUE
    /\ UNCHANGED << mpc, wpc, wjob, activeInProgress, energyInProgress,
                    activeCtx, energyCtx, energyMask, scanCall, coproc,
                    coprocMask, beacons, curMinChannel, ri, rn, cbCtx,
                    stackScan, stackCtx >>

IfDown ==
    /\ AllowIfDown
    /\ StackCanCall
    /\ ifUp
    /\ ifUp' = FALSE
    /\ UNCHANGED << mpc, wpc, wjob, activeInProgress, energyInProgress,
                    activeCtx, energyCtx, energyMask, scanCall, coproc,
                    coprocMask, beacons, curMinChannel, ri, rn, cbCtx,
                    stackScan, stackCtx >>

-----------------------------------------------------------------------------
(* The co-processor's notifications, each taken up by the worker in its   *)
(* dispatch, which first checks otIsInterfaceUp and drops the message if  *)
(* the interface is down.                                                  *)

\* A confirm may overtake the return of MLME_SCAN_request unless
\* ConfirmAfterReturn says the co-processor is never that fast.
CoprocMaySend == wpc = "idle" /\ (ConfirmAfterReturn => scanCall = "none")

\* handleBeaconNotify: a beacon of the running active scan.  One with a
\* coordinator that is not an extended address, or with security, or
\* without a protocol-3 version-1 payload (valid = FALSE), is dropped;
\* a valid one is delivered to sActiveScanCallback under the barrier.
BeaconNotify(valid) ==
    /\ CoprocMaySend
    /\ coproc = "active"
    /\ beacons < MaxBeacons
    /\ beacons' = beacons + 1
    /\ IF ifUp /\ valid
       THEN wpc' = "wait" /\ wjob' = "beacon"
       ELSE UNCHANGED << wpc, wjob >>
    /\ UNCHANGED << mpc, activeInProgress, energyInProgress, activeCtx,
                    energyCtx, energyMask, scanCall, coproc, coprocMask,
                    curMinChannel, ri, rn, cbCtx, ifUp, stackScan, stackCtx >>

\* Mutant of ScanConfirm: the for loop runs to i <= ResultListSize.
ScanConfirmOffByOne ==
    /\ CoprocMaySend
    /\ coproc # "idle"
    /\ coproc' = "idle"
    /\ beacons' = 0
    /\ CASE ~ifUp \/ ~(activeInProgress \/ energyInProgress) ->
              UNCHANGED << wpc, wjob, rn >>
      [] activeInProgress ->
              wpc' = "wait" /\ wjob' = "activeDone" /\ UNCHANGED rn
      [] OTHER ->
              /\ wpc' = "wait" /\ wjob' = "energyDone"
              /\ rn' = Cardinality(coprocMask) + 1
    /\ UNCHANGED << mpc, activeInProgress, energyInProgress, activeCtx,
                    energyCtx, energyMask, scanCall, coprocMask, curMinChannel,
                    ri, cbCtx, ifUp, stackScan, stackCtx >>

\* Mutant of ScanConfirm: the else-if branch for sEnergyScanInProgress
\* left out, so an energy confirm is dropped.
ScanConfirmNoEnergy ==
    /\ CoprocMaySend
    /\ coproc # "idle"
    /\ coproc' = "idle"
    /\ beacons' = 0
    /\ IF ifUp /\ activeInProgress
       THEN wpc' = "wait" /\ wjob' = "activeDone"
       ELSE UNCHANGED << wpc, wjob >>
    /\ UNCHANGED << mpc, activeInProgress, energyInProgress, activeCtx,
                    energyCtx, energyMask, scanCall, coprocMask, curMinChannel,
                    ri, rn, cbCtx, ifUp, stackScan, stackCtx >>

\* handleScanConfirm, up to barrier_worker_waitForMain: the scan has ended
\* on the co-processor; the handler reads the two in-progress flags to
\* choose the active branch, the energy branch, or none.
ScanConfirm ==
    /\ CoprocMaySend
    /\ coproc # "idle"
    /\ coproc' = "idle"
    /\ beacons' = 0
    /\ CASE ~ifUp \/ ~(activeInProgress \/ energyInProgress) ->
              UNCHANGED << wpc, wjob, rn >>
      [] activeInProgress ->
              wpc' = "wait" /\ wjob' = "activeDone" /\ UNCHANGED rn
      [] OTHER ->
              /\ wpc' = "wait" /\ wjob' = "energyDone"
              /\ rn' = Cardinality(coprocMask)
    /\ UNCHANGED << mpc, activeInProgress, energyInProgress, activeCtx,
                    energyCtx, energyMask, scanCall, coprocMask, curMinChannel,
                    ri, cbCtx, ifUp, stackScan, stackCtx >>

-----------------------------------------------------------------------------
(* The worker under the barrier.                                           *)

\* barrier_worker_waitForMain returns once the main loop has parked
\* between two stack activities.  A beacon or an active-scan confirm then
\* calls sActiveScanCallback with sActiveScanContext (a result, or NULL
\* for completion); an energy confirm starts the result loop with
\* curMinChannel = 11 and i = 0.
WorkerGreen ==
    /\ wpc = "wait"
    /\ mpc = "run" /\ scanCall = "none"
    /\ mpc' = "parked"
    /\ IF wjob = "energyDone"
       THEN /\ wpc' = "eloop" /\ curMinChannel' = 11 /\ ri' = 0
            /\ UNCHANGED << cbCtx, stackScan >>
       ELSE /\ wpc' = "cb" /\ cbCtx' = activeCtx
            /\ stackScan' = IF wjob = "activeDone" THEN "none" ELSE stackScan
            /\ UNCHANGED << curMinChannel, ri >>
    /\ UNCHANGED << wjob, activeInProgress, energyInProgress, activeCtx,
                    energyCtx, energyMask, scanCall, coproc, coprocMask,
                    beacons, rn, ifUp, stackCtx >>

\* The bit of curMinChannel in sEnergyScanMask (1 << curMinChannel, which
\* the x86 shift takes modulo 32).
ChannelBitSet == (curMinChannel % 32) \in energyMask

\* Mutant of EnergyLoopStep: the cursor is an int, not a uint8_t.
EnergyLoopStepNoWrap ==
    /\ wpc = "eloop" /\ ri < rn
    /\ ~ChannelBitSet
    /\ curMinChannel' = curMinChannel + 1
    /\ energyMask' = IF energyMask = {} THEN {}
                     ELSE energyMask \ {Min(energyMask)}
    /\ UNCHANGED << mpc, wpc, wjob, activeInProgress, energyInProgress,
                    activeCtx, energyCtx, scanCall, coproc, coprocMask,
                    beacons, ri, rn, cbCtx, ifUp, stackScan, stackCtx >>

\* One iteration of the inner while loop: the bit of curMinChannel is
\* clear, so advance the uint8_t cursor and clear the lowest set bit.
EnergyLoopStep ==
    /\ wpc = "eloop" /\ ri < rn
    /\ ~ChannelBitSet
    /\ curMinChannel' = (curMinChannel + 1) % 256
    /\ energyMask' = IF energyMask = {} THEN {}
                     ELSE energyMask \ {Min(energyMask)}
    /\ UNCHANGED << mpc, wpc, wjob, activeInProgress, energyInProgress,
                    activeCtx, energyCtx, scanCall, coproc, coprocMask,
                    beacons, ri, rn, cbCtx, ifUp, stackScan, stackCtx >>

\* The while loop has found a set bit: next result, i++.
EnergyLoopNext ==
    /\ wpc = "eloop" /\ ri < rn
    /\ ChannelBitSet
    /\ ri' = ri + 1
    /\ UNCHANGED << mpc, wpc, wjob, activeInProgress, energyInProgress,
                    activeCtx, energyCtx, energyMask, scanCall, coproc,
                    coprocMask, beacons, curMinChannel, rn, cbCtx, ifUp,
                    stackScan, stackCtx >>

\* The for loop is done: the completion callback
\* sEnergyScanCallback(sActiveScanContext, NULL).
EnergyLoopEnd ==
    /\ wpc = "eloop" /\ ri = rn
    /\ wpc' = "cb"
    /\ cbCtx' = activeCtx
    /\ stackScan' = "none"
    /\ UNCHANGED << mpc, wjob, activeInProgress, energyInProgress, activeCtx,
                    energyCtx, energyMask, scanCall, coproc, coprocMask,
                    beacons, curMinChannel, ri, rn, ifUp, stackCtx >>

\* The callback has returned: a completion clears its in-progress flag,
\* then barrier_worker_endWork releases the main loop; the channel is
\* restored with MLME_SET_request_sync after it.
WorkerEndCb ==
    /\ wpc = "cb" /\ scanCall = "none"
    /\ activeInProgress' = (activeInProgress /\ wjob # "activeDone")
    /\ energyInProgress' = (energyInProgress /\ wjob # "energyDone")
    /\ wpc' = "idle" /\ wjob' = "none" /\ mpc' = "run"
    /\ UNCHANGED << activeCtx, energyCtx, energyMask, scanCall, coproc,
                    coprocMask, beacons, curMinChannel, ri, rn, cbCtx, ifUp,
                    stackScan, stackCtx >>

-----------------------------------------------------------------------------

StackStep ==
    \/ \E ctx \in Contexts, mask \in ActiveMasks : ActiveScan(ctx, mask)
    \/ \E ctx \in Contexts, mask \in EnergyMasks : EnergyScan(ctx, mask)
    \/ ScanReturn
    \/ IfUp
    \/ IfDown

CoprocStep ==
    \/ \E valid \in BOOLEAN : BeaconNotify(valid)
    \/ ScanConfirm

WorkerStep ==
    \/ WorkerGreen
    \/ EnergyLoopStep
    \/ EnergyLoopNext
    \/ EnergyLoopEnd
    \/ WorkerEndCb

Next == StackStep \/ CoprocStep \/ WorkerStep

Spec == Init /\ [][Next]_vars

\* The return of MLME_SCAN_request, the co-processor's confirm, the loops
\* of the worker and barrier_worker_endWork are all code that runs
\* once it can; the greenlight needs the main loop to come round, which it
\* does infinitely often but not continuously (strong fairness).  The
\* stack's own calls are not forced.
FairSpec ==
    /\ Spec
    /\ WF_vars(ScanReturn)
    /\ SF_vars(ScanConfirm)
    /\ SF_vars(WorkerGreen)
    /\ WF_vars(EnergyLoopStep) /\ WF_vars(EnergyLoopNext)
    /\ WF_vars(EnergyLoopEnd)
    /\ WF_vars(WorkerEndCb)

-----------------------------------------------------------------------------
(* Properties.                                                             *)

TypeOK ==
    /\ mpc \in {"run", "parked"}
    /\ wpc \in {"idle", "wait", "eloop", "cb"}
    /\ wjob \in {"none", "beacon", "activeDone", "energyDone"}
    /\ activeInProgress \in BOOLEAN /\ energyInProgress \in BOOLEAN
    /\ {activeCtx, energyCtx, cbCtx, stackCtx} \subseteq Contexts \cup {NoCtx}
    /\ energyMask \subseteq Channels /\ coprocMask \subseteq Channels
    /\ scanCall \in {"none"} \cup ScanKinds
    /\ coproc \in {"idle"} \cup ScanKinds
    /\ stackScan \in {"none"} \cup ScanKinds
    /\ beacons \in 0 .. MaxBeacons
    /\ curMinChannel \in 0 .. 255
    /\ {ri, rn} \subseteq 0 .. Cardinality(Channels)
    /\ ifUp \in BOOLEAN

\* sActiveScanInProgress and sEnergyScanInProgress say what the busy check
\* of otPlatRadioActiveScan/otPlatRadioEnergyScan relies on: at most one
\* of them is set, and a set flag belongs to a scan the co-processor still
\* runs or whose confirm the worker is about to complete.  A flag set with
\* neither is stuck: no confirm will ever clear it, and every later scan
\* request is refused as busy.
InProgressMatchesScan ==
    /\ activeInProgress => coproc = "active" \/ wjob = "activeDone"
    /\ energyInProgress => coproc = "energy" \/ wjob = "energyDone"
    /\ ~(activeInProgress /\ energyInProgress)

\* Every callback of an active scan (a beacon result from
\* handleBeaconNotify, or the NULL completion from handleScanConfirm) is
\* given the context the stack passed with the request that started it.
ActiveCallbackContext ==
    wpc = "cb" /\ wjob \in {"beacon", "activeDone"} => cbCtx = stackCtx

\* Every scan whose request otPlatRadioActiveScan/otPlatRadioEnergyScan
\* accepted is eventually completed by its NULL callback.
ScanCompletes == stackScan # "none" ~> stackScan = "none"

====
