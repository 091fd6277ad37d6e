------------------------------- MODULE Radio -------------------------------
(***************************************************************************)
(* The cross-thread core of the CA821x hard-MAC radio platform layer      *)
(* (src/platform/radio.c and the main loop of src/platform/platform.c).   *)
(*                                                                         *)
(* Three actors share the radio layer:                                     *)
(*   - the main thread, which runs the Thread stack (tasklets, CLI,        *)
(*     timers) and, once per loop iteration, the barrier in                *)
(*     PlatformRadioProcess;                                               *)
(*   - the worker thread of the co-processor transport, which runs the     *)
(*     asynchronous handlers handleDataIndication and handleDataConfirm    *)
(*     and calls back into the stack only through the barrier;             *)
(*   - the co-processor, which holds the MCPS-DATA requests it has not     *)
(*     confirmed yet and produces indications at any time.                 *)
(*                                                                         *)
(* The stack is an arbitrary client of the otPlatRadio* API: whenever it   *)
(* runs (on the main thread, or on the worker inside a callback) it may    *)
(* call any operation.  Frames, addresses and channels are abstracted      *)
(* away; a data frame in flight is identified by its MSDU handle, which    *)
(* is also the transmit context handed back to the stack.                  *)
(***************************************************************************)
EXTENDS Naturals, FiniteSets

CONSTANTS
    HandleSpace,      \* values of the uint8_t MSDU handle counter (256)
    MaxIntransits,    \* MAX_INTRANSITS, the size of the in-transit table (7)
    StackMaxInFlight, \* data frames the stack keeps awaiting transmit-done
    PipeBound,        \* bytes the self-pipe holds before it is full
    PipeBlocks,       \* does selfpipe_push block on a full pipe?
    Malformed,        \* may the co-processor indicate an oversize frame?
    AllowIfDown,      \* may the stack bring its interface down?
    AllowRoleChange   \* may the device's Thread role change?

ASSUME RadioAssumption ==
    /\ HandleSpace \in Nat \ {0, 1}
    /\ MaxIntransits \in Nat \ {0}
    /\ MaxIntransits < HandleSpace
    /\ StackMaxInFlight \in Nat
    /\ PipeBound \in Nat \ {0}
    /\ PipeBlocks \in BOOLEAN
    /\ Malformed \in BOOLEAN
    /\ AllowIfDown \in BOOLEAN
    /\ AllowRoleChange \in BOOLEAN

Handles == 0 .. HandleSpace - 1
Slots == 1 .. MaxIntransits
PhyStates == {"Disabled", "Sleep", "Receive", "Transmit"}
BarrierStates == {"NOT_WAITING", "WAITING", "GREENLIGHT", "DONE"}
FrameKinds == {"data", "poll", "other"}

VARIABLES
    mpc,              \* main thread: "run", "sleep", "drivers", "waitDone"
    wpc,              \* worker thread, see WorkerPcs
    wjob,             \* handler the worker is in: "none", "ind", "cnf"
    wh,               \* MsduHandle of the confirm being handled
    barrier,          \* mbarrier_waiting
    barrierOwner,     \* "worker" while it holds barrier_mutex (push, callback)
    selfpipe,         \* bytes written to the self-pipe and not yet read
    sState,           \* sState
    handle,           \* the static handle counter of otPlatRadioTransmit
    IntransitHandles, \* IntransitHandles[], 0 marks a free slot
    intransitLocked,  \* intransit_mutex left locked by a failed putFrame
    txCall,           \* kind of the otPlatRadioTransmit call in progress
    rxLength,         \* sReceiveFrame.mLength # 0
    rxLocked,         \* receiveFrame_mutex left locked by the worker
    macPending,       \* MSDU handles the co-processor has yet to confirm
    ifUp,             \* otIsInterfaceUp
    awaiting,         \* handles whose transmit-done the stack awaits
    role,             \* otGetDeviceRole: "router" (router or leader) or "child"
    sIsCoordinator    \* sIsCoordinator

vars == << mpc, wpc, wjob, wh, barrier, barrierOwner, selfpipe, sState,
           handle, IntransitHandles, intransitLocked, txCall, rxLength,
           rxLocked, macPending, ifUp, awaiting, role, sIsCoordinator >>

WorkerPcs == {"idle", "rxLock", "waitIdle", "push", "waitGreen", "cb",
              "post", "signal"}

-----------------------------------------------------------------------------
(* Helpers.                                                                *)

\* intransit_isHandleInUse: some slot holds v (v = 0 is in use iff a slot
\* is free).
InUse(v) == \E i \in Slots : IntransitHandles[i] = v

\* The first free slot, where intransit_putFrame stores a record.
FreeSlots == {i \in Slots : IntransitHandles[i] = 0}
FirstFree == CHOOSE i \in FreeSlots : \A j \in FreeSlots : i <= j

\* Handles of the records in the in-transit table.
Recorded == {IntransitHandles[i] : i \in Slots \ FreeSlots}

\* The stack code runs on the main thread, or on the worker inside a
\* callback; it starts an API call only when no call is in progress.
StackIdle == (mpc = "run" \/ wpc = "cb") /\ txCall = "none"

-----------------------------------------------------------------------------
(* Initial state: PlatformRadioInit has run; statics are zero.            *)

Init ==
    /\ mpc = "run"
    /\ wpc = "idle"
    /\ wjob = "none"
    /\ wh = 0
    /\ barrier = "NOT_WAITING"
    /\ barrierOwner = "none"
    /\ selfpipe = 0
    /\ sState = "Disabled"
    /\ handle = 0
    /\ IntransitHandles = [i \in Slots |-> 0]
    /\ intransitLocked = FALSE
    /\ txCall = "none"
    /\ rxLength = 0
    /\ rxLocked = FALSE
    /\ macPending = {}
    /\ ifUp = FALSE
    /\ awaiting = {}
    /\ role = "child"
    /\ sIsCoordinator = FALSE

-----------------------------------------------------------------------------
(* The stack's calls into the platform API (main thread, or the worker    *)
(* inside a callback).                                                     *)

\* otPlatRadioEnable: Sleep or Disabled -> Sleep, otherwise busy.
Enable ==
    /\ StackIdle
    /\ sState' = IF sState \in {"Sleep", "Disabled"} THEN "Sleep" ELSE sState
    /\ UNCHANGED << mpc, wpc, wjob, wh, barrier, barrierOwner, selfpipe,
                    handle, IntransitHandles, intransitLocked, txCall,
                    rxLength, rxLocked, macPending, ifUp, awaiting,
                    role, sIsCoordinator >>

\* otPlatRadioDisable: Disabled or Sleep -> Disabled, otherwise busy.
Disable ==
    /\ StackIdle
    /\ sState' = IF sState \in {"Sleep", "Disabled"} THEN "Disabled" ELSE sState
    /\ UNCHANGED << mpc, wpc, wjob, wh, barrier, barrierOwner, selfpipe,
                    handle, IntransitHandles, intransitLocked, txCall,
                    rxLength, rxLocked, macPending, ifUp, awaiting,
                    role, sIsCoordinator >>

\* otPlatRadioReceive: any state but Disabled -> Receive (setChannel).
Receive ==
    /\ StackIdle
    /\ sState' = IF sState # "Disabled" THEN "Receive" ELSE sState
    /\ UNCHANGED << mpc, wpc, wjob, wh, barrier, barrierOwner, selfpipe,
                    handle, IntransitHandles, intransitLocked, txCall,
                    rxLength, rxLocked, macPending, ifUp, awaiting,
                    role, sIsCoordinator >>

\* Mutant of TxStart: a handle counter wider than the MSDU handle, which
\* never wraps.
TxStartNoWrap(kind) ==
    /\ StackIdle
    /\ ifUp
    /\ kind = "data" => Cardinality(awaiting) < StackMaxInFlight
    /\ handle' = handle + 1
    /\ txCall' = kind
    /\ UNCHANGED << mpc, wpc, wjob, wh, barrier, barrierOwner, selfpipe,
                    sState, IntransitHandles, intransitLocked, rxLength,
                    rxLocked, macPending, ifUp, awaiting,
                    role, sIsCoordinator >>

\* otPlatRadioTransmit, first statement: handle++.  The stack transmits
\* only while its interface is up, and submits a data frame only while
\* fewer than StackMaxInFlight await transmit-done.
TxStart(kind) ==
    /\ StackIdle
    /\ ifUp
    /\ kind = "data" => Cardinality(awaiting) < StackMaxInFlight
    /\ handle' = (handle + 1) % HandleSpace
    /\ txCall' = kind
    /\ UNCHANGED << mpc, wpc, wjob, wh, barrier, barrierOwner, selfpipe,
                    sState, IntransitHandles, intransitLocked, rxLength,
                    rxLocked, macPending, ifUp, awaiting,
                    role, sIsCoordinator >>

\* One iteration of while(intransit_isHandleInUse(handle)) handle++; each
\* call takes intransit_mutex on its own.
TxSearch ==
    /\ txCall # "none"
    /\ ~intransitLocked
    /\ InUse(handle)
    /\ handle' = (handle + 1) % HandleSpace
    /\ UNCHANGED << mpc, wpc, wjob, wh, barrier, barrierOwner, selfpipe,
                    sState, IntransitHandles, intransitLocked, txCall,
                    rxLength, rxLocked, macPending, ifUp, awaiting,
                    role, sIsCoordinator >>

\* intransit_putFrame: store the handle in the first free slot; with no
\* free slot it returns -1 and leaves intransit_mutex locked.
PutFrame(h) ==
    IF FreeSlots # {}
    THEN /\ IntransitHandles' = [IntransitHandles EXCEPT ![FirstFree] = h]
         /\ UNCHANGED intransitLocked
    ELSE /\ intransitLocked' = TRUE
         /\ UNCHANGED IntransitHandles

\* Mutant of TxSubmit: the while(intransit_isHandleInUse(handle)) search
\* left out, so a handle still in the table is reused.
TxSubmitNoSearch ==
    /\ txCall # "none"
    /\ ~intransitLocked
    /\ txCall' = "none"
    /\ IF sState = "Disabled" \/ txCall = "other"
       THEN UNCHANGED << sState, IntransitHandles, intransitLocked,
                         macPending, awaiting >>
       ELSE /\ sState' = "Transmit"
            /\ IF txCall = "data"
               THEN /\ PutFrame(handle)
                    /\ macPending' = macPending \cup {handle}
                    /\ awaiting' = awaiting \cup {handle}
               ELSE UNCHANGED << IntransitHandles, intransitLocked,
                                 macPending, awaiting >>
    /\ UNCHANGED << mpc, wpc, wjob, wh, barrier, barrierOwner, selfpipe,
                    handle, rxLength, rxLocked, ifUp,
                    role, sIsCoordinator >>

\* The rest of otPlatRadioTransmit once the handle is free: busy when
\* Disabled, abort unless a data or command frame; a data frame is
\* recorded and sent with MCPS_DATA_request (the result of putFrame is
\* ignored); a data-request command is sent with MLME_POLL_request_sync
\* and reported done before the call returns.
TxSubmit ==
    /\ txCall # "none"
    /\ ~intransitLocked
    /\ ~InUse(handle)
    /\ txCall' = "none"
    /\ IF sState = "Disabled" \/ txCall = "other"
       THEN UNCHANGED << sState, IntransitHandles, intransitLocked,
                         macPending, awaiting >>
       ELSE /\ sState' = "Transmit"
            /\ IF txCall = "data"
               THEN /\ PutFrame(handle)
                    /\ macPending' = macPending \cup {handle}
                    /\ awaiting' = awaiting \cup {handle}
               ELSE UNCHANGED << IntransitHandles, intransitLocked,
                                 macPending, awaiting >>
    /\ UNCHANGED << mpc, wpc, wjob, wh, barrier, barrierOwner, selfpipe,
                    handle, rxLength, rxLocked, ifUp,
                    role, sIsCoordinator >>

\* The stack brings its interface up, or down (forgetting the frames it
\* was waiting for).
IfUp ==
    /\ StackIdle
    /\ ~ifUp
    /\ ifUp' = TRUE
    /\ UNCHANGED << mpc, wpc, wjob, wh, barrier, barrierOwner, selfpipe,
                    sState, handle, IntransitHandles, intransitLocked,
                    txCall, rxLength, rxLocked, macPending, awaiting,
                    role, sIsCoordinator >>

IfDown ==
    /\ AllowIfDown
    /\ StackIdle
    /\ ifUp
    /\ ifUp' = FALSE
    /\ awaiting' = {}
    /\ UNCHANGED << mpc, wpc, wjob, wh, barrier, barrierOwner, selfpipe,
                    sState, handle, IntransitHandles, intransitLocked,
                    txCall, rxLength, rxLocked, macPending,
                    role, sIsCoordinator >>

\* The device's Thread role changes (the stack's state notifier runs
\* otHardMacStateChangeCallback with OT_NET_ROLE set).  coordChangeCallback:
\* becoming router or leader, a device that is not yet a coordinator
\* issues MLME_START_request_sync; falling back to any other role, a
\* coordinator issues MLME_RESET_request_sync(0), which makes the
\* co-processor forget the data requests it has not confirmed.  The
\* in-transit table is left as it is.  (keyChangeCallback, which runs
\* first, is modelled in Devices.)
RoleChange(r) ==
    /\ AllowRoleChange
    /\ StackIdle
    /\ r # role
    /\ role' = r
    /\ \/ /\ r = "router"
          /\ sIsCoordinator' = TRUE
          /\ UNCHANGED macPending
       \/ /\ r = "child"
          /\ sIsCoordinator' = FALSE
          /\ macPending' = IF sIsCoordinator THEN {} ELSE macPending
    /\ UNCHANGED << mpc, wpc, wjob, wh, barrier, barrierOwner, selfpipe,
                    sState, handle, IntransitHandles, intransitLocked,
                    txCall, rxLength, rxLocked, ifUp, awaiting >>

-----------------------------------------------------------------------------
(* The main loop: tasklets, posixPlatformSleep, posixPlatformProcessDrivers *)

\* The stack's work of this iteration is done: posixPlatformSleep polls
\* with select, unless tasklets are pending, in which case the loop goes
\* straight on to the drivers.
MainPoll(taskletsPending) ==
    /\ mpc = "run"
    /\ txCall = "none"
    /\ mpc' = IF taskletsPending THEN "drivers" ELSE "sleep"
    /\ UNCHANGED << wpc, wjob, wh, barrier, barrierOwner, selfpipe, sState,
                    handle, IntransitHandles, intransitLocked, txCall,
                    rxLength, rxLocked, macPending, ifUp, awaiting,
                    role, sIsCoordinator >>

\* select returns, on the self-pipe or on another source (UART, alarm
\* timeout); selfpipe_pop then reads one byte if there is one.
MainWake(byPipe) ==
    /\ mpc = "sleep"
    /\ byPipe => selfpipe > 0
    /\ selfpipe' = IF selfpipe > 0 THEN selfpipe - 1 ELSE 0
    /\ mpc' = "drivers"
    /\ UNCHANGED << wpc, wjob, wh, barrier, barrierOwner, sState, handle,
                    IntransitHandles, intransitLocked, txCall, rxLength,
                    rxLocked, macPending, ifUp, awaiting,
                    role, sIsCoordinator >>

\* Mutant of MainLetWorkerWork: the greenlight is given but the main
\* thread does not wait for DONE before it returns to the stack.
MainLetWorkerWorkNoWait ==
    /\ mpc = "drivers"
    /\ barrierOwner = "none"
    /\ barrier' = IF barrier = "WAITING" THEN "GREENLIGHT" ELSE "NOT_WAITING"
    /\ mpc' = "run"
    /\ UNCHANGED << wpc, wjob, wh, barrierOwner, selfpipe, sState, handle,
                    IntransitHandles, intransitLocked, txCall, rxLength,
                    rxLocked, macPending, ifUp, awaiting,
                    role, sIsCoordinator >>

\* barrier_main_letWorkerWork: if the worker waits, greenlight it and wait
\* for DONE (releasing barrier_mutex); otherwise reset to NOT_WAITING.
MainLetWorkerWork ==
    /\ mpc = "drivers"
    /\ barrierOwner = "none"
    /\ IF barrier = "WAITING"
       THEN /\ barrier' = "GREENLIGHT"
            /\ mpc' = "waitDone"
       ELSE /\ barrier' = "NOT_WAITING"
            /\ mpc' = "run"
    /\ UNCHANGED << wpc, wjob, wh, barrierOwner, selfpipe, sState, handle,
                    IntransitHandles, intransitLocked, txCall, rxLength,
                    rxLocked, macPending, ifUp, awaiting,
                    role, sIsCoordinator >>

\* Mutant of MainBarrierDone: the wait for DONE is an if rather than a
\* while, so a wake-up before the worker is done lets the main thread go.
MainBarrierDoneSpurious ==
    /\ mpc = "waitDone"
    /\ barrierOwner = "none"
    /\ barrier' = "NOT_WAITING"
    /\ mpc' = "run"
    /\ UNCHANGED << wpc, wjob, wh, barrierOwner, selfpipe, sState, handle,
                    IntransitHandles, intransitLocked, txCall, rxLength,
                    rxLocked, macPending, ifUp, awaiting,
                    role, sIsCoordinator >>

\* Woken with the mutex and DONE: reset to NOT_WAITING and return.
MainBarrierDone ==
    /\ mpc = "waitDone"
    /\ barrierOwner = "none"
    /\ barrier = "DONE"
    /\ barrier' = "NOT_WAITING"
    /\ mpc' = "run"
    /\ UNCHANGED << wpc, wjob, wh, barrierOwner, selfpipe, sState, handle,
                    IntransitHandles, intransitLocked, txCall, rxLength,
                    rxLocked, macPending, ifUp, awaiting,
                    role, sIsCoordinator >>

-----------------------------------------------------------------------------
(* The worker thread: co-processor callbacks.                             *)

\* The co-processor confirms request h and the worker enters
\* handleDataConfirm, which returns at once when the interface is down.
DataConfirm(h) ==
    /\ wpc = "idle"
    /\ h \in macPending
    /\ macPending' = macPending \ {h}
    /\ IF ifUp
       THEN /\ wpc' = "waitIdle"
            /\ wjob' = "cnf"
            /\ wh' = h
       ELSE UNCHANGED << wpc, wjob, wh >>
    /\ UNCHANGED << mpc, barrier, barrierOwner, selfpipe, sState, handle,
                    IntransitHandles, intransitLocked, txCall, rxLength,
                    rxLocked, ifUp, awaiting,
                    role, sIsCoordinator >>

\* The co-processor indicates a frame; handleDataIndication goes on only
\* while the interface is up (otherwise it returns and nothing changes).
DataIndication ==
    /\ wpc = "idle"
    /\ ifUp
    /\ wpc' = "rxLock"
    /\ wjob' = "ind"
    /\ UNCHANGED << mpc, wh, barrier, barrierOwner, selfpipe, sState, handle,
                    IntransitHandles, intransitLocked, txCall, rxLength,
                    rxLocked, macPending, ifUp, awaiting,
                    role, sIsCoordinator >>

\* Under receiveFrame_mutex, once mLength = 0, decode the indication into
\* sReceiveFrame.  A frame longer than aMaxPHYPacketSize makes the handler
\* return with the mutex still locked and mLength set.
DecodeIndication ==
    /\ wpc = "rxLock"
    /\ ~rxLocked
    /\ rxLength = 0
    /\ rxLength' = 1
    /\ \E oversize \in IF Malformed THEN BOOLEAN ELSE {FALSE} :
          IF oversize
          THEN /\ rxLocked' = TRUE
               /\ wpc' = "idle"
               /\ wjob' = "none"
          ELSE /\ wpc' = "waitIdle"
               /\ UNCHANGED << rxLocked, wjob >>
    /\ UNCHANGED << mpc, wh, barrier, barrierOwner, selfpipe, sState, handle,
                    IntransitHandles, intransitLocked, txCall, macPending,
                    ifUp, awaiting,
                    role, sIsCoordinator >>

\* barrier_worker_waitForMain: lock barrier_mutex and wait (releasing it)
\* until the state is NOT_WAITING; the worker then holds the mutex.
WorkerLock ==
    /\ wpc = "waitIdle"
    /\ barrierOwner = "none"
    /\ barrier = "NOT_WAITING"
    /\ barrierOwner' = "worker"
    /\ wpc' = "push"
    /\ UNCHANGED << mpc, wjob, wh, barrier, selfpipe, sState, handle,
                    IntransitHandles, intransitLocked, txCall, rxLength,
                    rxLocked, macPending, ifUp, awaiting,
                    role, sIsCoordinator >>

\* Mutant of WorkerAnnounce: selfpipe_push left out, so a sleeping main
\* loop is not woken for the waiting worker.
WorkerAnnounceNoPush ==
    /\ wpc = "push"
    /\ barrier' = "WAITING"
    /\ barrierOwner' = "none"
    /\ wpc' = "waitGreen"
    /\ UNCHANGED << mpc, wjob, wh, selfpipe, sState, handle,
                    IntransitHandles, intransitLocked, txCall, rxLength,
                    rxLocked, macPending, ifUp, awaiting,
                    role, sIsCoordinator >>

\* Still holding barrier_mutex: selfpipe_push writes a byte (on a full pipe
\* it blocks, mutex held, or fails and the byte is lost, as the pipe's
\* mode decides), then WAITING and the wait for GREENLIGHT, which
\* releases the mutex.
WorkerAnnounce ==
    /\ wpc = "push"
    /\ PipeBlocks => selfpipe < PipeBound
    /\ selfpipe' = IF selfpipe < PipeBound THEN selfpipe + 1 ELSE selfpipe
    /\ barrier' = "WAITING"
    /\ barrierOwner' = "none"
    /\ wpc' = "waitGreen"
    /\ UNCHANGED << mpc, wjob, wh, sState, handle,
                    IntransitHandles, intransitLocked, txCall, rxLength,
                    rxLocked, macPending, ifUp, awaiting,
                    role, sIsCoordinator >>

\* Woken with GREENLIGHT, the worker keeps barrier_mutex and calls into
\* the stack.  Indication: sState = kStateReceive, otPlatRadioReceiveDone.
\* Confirm: intransit_getFrame (under intransit_mutex), then
\* otPlatRadioTransmitDone with the record's context.
WorkerEnter ==
    /\ wpc = "waitGreen"
    /\ barrierOwner = "none"
    /\ barrier = "GREENLIGHT"
    /\ barrierOwner' = "worker"
    /\ wpc' = "cb"
    /\ \/ /\ wjob = "ind"
          /\ sState' = "Receive"
          /\ UNCHANGED awaiting
       \/ /\ wjob = "cnf"
          /\ ~intransitLocked
          /\ awaiting' = awaiting \ {wh}
          /\ UNCHANGED sState
    /\ UNCHANGED << mpc, wjob, wh, barrier, selfpipe, handle,
                    IntransitHandles, intransitLocked, txCall, rxLength,
                    rxLocked, macPending, ifUp,
                    role, sIsCoordinator >>

\* The callback has returned (no API call of it is in progress).  After
\* otPlatRadioTransmitDone the confirm handler sets sState = kStateReceive;
\* barrier_worker_endWork sets DONE and releases barrier_mutex.
WorkerEndWork ==
    /\ wpc = "cb"
    /\ txCall = "none"
    /\ sState' = IF wjob = "cnf" THEN "Receive" ELSE sState
    /\ barrier' = "DONE"
    /\ barrierOwner' = "none"
    /\ wpc' = "post"
    /\ UNCHANGED << mpc, wjob, wh, selfpipe, handle, IntransitHandles,
                    intransitLocked, txCall, rxLength, rxLocked, macPending,
                    ifUp, awaiting,
                    role, sIsCoordinator >>

\* intransit_rmFrame after the barrier (confirm handler only).
RmFrame ==
    /\ wpc = "post"
    /\ wjob = "cnf" => ~intransitLocked
    /\ IntransitHandles' =
          IF wjob = "cnf"
          THEN [i \in Slots |-> IF IntransitHandles[i] = wh THEN 0
                                ELSE IntransitHandles[i]]
          ELSE IntransitHandles
    /\ wpc' = "signal"
    /\ UNCHANGED << mpc, wjob, wh, barrier, barrierOwner, selfpipe, sState,
                    handle, intransitLocked, txCall, rxLength, rxLocked,
                    macPending, ifUp, awaiting,
                    role, sIsCoordinator >>

\* PlatformRadioSignal, called by both handlers: under receiveFrame_mutex,
\* mLength = 0 and broadcast.  The handler then returns.
PlatformRadioSignal ==
    /\ wpc = "signal"
    /\ ~rxLocked
    /\ rxLength' = 0
    /\ wpc' = "idle"
    /\ wjob' = "none"
    /\ wh' = 0
    /\ UNCHANGED << mpc, barrier, barrierOwner, selfpipe, sState, handle,
                    IntransitHandles, intransitLocked, txCall, rxLocked,
                    macPending, ifUp, awaiting,
                    role, sIsCoordinator >>

-----------------------------------------------------------------------------
(* The specification.                                                      *)

StackStep ==
    \/ Enable \/ Disable \/ Receive \/ IfUp \/ IfDown
    \/ \E r \in {"router", "child"} : RoleChange(r)
    \/ \E kind \in FrameKinds : TxStart(kind)
    \/ TxSearch \/ TxSubmit

MainStep ==
    \/ \E pending \in BOOLEAN : MainPoll(pending)
    \/ \E byPipe \in BOOLEAN : MainWake(byPipe)
    \/ MainLetWorkerWork \/ MainBarrierDone

WorkerStep ==
    \/ \E h \in Handles : DataConfirm(h)
    \/ DataIndication \/ DecodeIndication
    \/ WorkerLock \/ WorkerAnnounce \/ WorkerEnter \/ WorkerEndWork \/ RmFrame
    \/ PlatformRadioSignal

Next == StackStep \/ MainStep \/ WorkerStep

\* Fairness.  The OS schedules both threads; a stack call that has begun
\* completes; the main loop eventually polls with select (the stack's
\* tasklets and calls are finite; strong fairness, since stack calls
\* disable MainPoll intermittently); select returns once the self-pipe
\* is readable; a callback returns; the co-processor eventually confirms every request,
\* and the worker processes a confirm that has arrived before it would
\* starve.  The stack's own calls, other wake-up sources and indications
\* are not fair.
Fairness ==
    /\ WF_vars(TxSearch) /\ WF_vars(TxSubmit)
    /\ SF_vars(MainPoll(FALSE)) /\ WF_vars(MainWake(TRUE))
    /\ WF_vars(MainLetWorkerWork) /\ WF_vars(MainBarrierDone)
    /\ WF_vars(DecodeIndication) /\ WF_vars(WorkerLock)
    /\ WF_vars(WorkerAnnounce)
    /\ WF_vars(WorkerEnter) /\ SF_vars(WorkerEndWork)
    /\ WF_vars(RmFrame) /\ WF_vars(PlatformRadioSignal)
    /\ \A h \in Handles : SF_vars(DataConfirm(h))

Spec == Init /\ [][Next]_vars

FairSpec == Spec /\ Fairness

-----------------------------------------------------------------------------
(* Properties.                                                             *)

\* Every variable has the type the code gives it.
TypeOK ==
    /\ mpc \in {"run", "sleep", "drivers", "waitDone"}
    /\ wpc \in WorkerPcs
    /\ wjob \in {"none", "ind", "cnf"}
    /\ wh \in Handles
    /\ barrier \in BarrierStates
    /\ barrierOwner \in {"none", "worker"}
    /\ selfpipe \in 0 .. PipeBound
    /\ sState \in PhyStates
    /\ handle \in Handles
    /\ IntransitHandles \in [Slots -> Handles]
    /\ intransitLocked \in BOOLEAN
    /\ txCall \in {"none"} \cup FrameKinds
    /\ rxLength \in {0, 1}
    /\ rxLocked \in BOOLEAN
    /\ macPending \in SUBSET Handles
    /\ ifUp \in BOOLEAN
    /\ awaiting \in SUBSET Handles
    /\ role \in {"router", "child"}
    /\ sIsCoordinator \in BOOLEAN

\* The barrier's guarantee (barrier_main_letWorkerWork and
\* barrier_worker_waitForMain/endWork): the worker runs stack code only
\* while the main thread is parked waiting for DONE, so stack callbacks
\* from the worker never overlap the main loop.
StackExclusive == wpc = "cb" => mpc = "waitDone"

\* The handle of the confirm the worker is handling, from the moment it
\* takes the confirm until intransit_rmFrame.
Confirming ==
    IF wjob = "cnf" /\ wpc \in {"waitIdle", "push", "waitGreen", "cb",
                                         "post"}
    THEN {wh} ELSE {}

\* The in-transit table (otPlatRadioTransmit, handleDataConfirm, the
\* intransit_* helpers) records exactly the data requests the co-processor
\* has yet to confirm, plus the one whose confirm is being handled, each
\* under its own handle: so intransit_getFrame never misses (assert at
\* handleDataConfirm), intransit_rmFrame never meets a duplicate, and no
\* record leaks.
IntransitMatchesRequests ==
    /\ Recorded = macPending \cup Confirming
    /\ macPending \cap Confirming = {}
    /\ \A i, j \in Slots :
          IntransitHandles[i] = IntransitHandles[j] /\ IntransitHandles[i] # 0
             => i = j

\* intransit_mutex is never left locked: a failed intransit_putFrame would
\* block every later table operation of both threads.
IntransitMutexFree == ~intransitLocked

\* handleDataIndication never leaves the receive slot poisoned: whenever
\* the worker waits for the next co-processor message, receiveFrame_mutex
\* is free and the slot empty.
RxSlotFree == wpc = "idle" => ~rxLocked /\ rxLength = 0

-----------------------------------------------------------------------------
(* Refinement of the barrier's contract (BarrierSpec).  The stack belongs  *)
(* to the worker while the main thread is parked in                       *)
(* barrier_main_letWorkerWork waiting for DONE; the worker asks for it in  *)
(* barrier_worker_waitForMain and is inside while it runs a callback.      *)

BAR == INSTANCE BarrierSpec
         WITH owner  <- IF mpc = "waitDone" THEN "worker" ELSE "main",
              wstate <- IF wpc = "waitGreen" THEN "waiting"
                        ELSE IF wpc = "cb" THEN "inside"
                        ELSE "away"

\* The three barrier functions, with the self-pipe, the main loop and the
\* handlers around them, implement the barrier's contract: the stack is
\* handed over only to a waiting worker, the main thread takes it back
\* only after the callback is over, and under the threads' fairness a
\* waiting worker is served and the main thread always resumes.
ImplementsBarrier == BAR!FairSpec

\* Every data frame the stack hands to otPlatRadioTransmit is eventually
\* reported by otPlatRadioTransmitDone.
TransmitDoneEventually ==
    \A h \in Handles : h \in awaiting ~> h \notin awaiting

=============================================================================
