---------------------------- MODULE RadioProofs ----------------------------
(***************************************************************************)
(* Proofs about Radio for every value of its constants: the type          *)
(* invariant, and the barrier's mutual exclusion between the main loop    *)
(* and worker callbacks (StackExclusive).                                  *)
(***************************************************************************)
EXTENDS Radio, TLAPS

-----------------------------------------------------------------------------
(* Type correctness.                                                       *)

\* TypeOK split in two: the provers handle the Boolean-valued variables
\* (Zenon) and the others (SMT) best apart.
FlagsOK ==
    /\ intransitLocked \in BOOLEAN
    /\ rxLocked \in BOOLEAN
    /\ ifUp \in BOOLEAN
    /\ sIsCoordinator \in BOOLEAN

DataOK ==
    /\ mpc \in {"run", "sleep", "drivers", "waitDone"}
    /\ wpc \in WorkerPcs
    /\ wjob \in {"none", "ind", "cnf"}
    /\ wh \in Handles
    /\ barrier \in BarrierStates
    /\ barrierOwner \in {"none", "worker"}
    /\ selfpipe \in 0 .. PipeBound
    /\ sState \in PhyStates
    /\ handle \in Handles
    /\ IntransitHandles \in [Slots -> Handles]
    /\ txCall \in {"none"} \cup FrameKinds
    /\ rxLength \in {0, 1}
    /\ macPending \in SUBSET Handles
    /\ awaiting \in SUBSET Handles
    /\ role \in {"router", "child"}

\* TypeOK is the conjunction of the two parts.
LEMMA TypeSplit == TypeOK <=> DataOK /\ FlagsOK
  BY Zenon DEF TypeOK, DataOK, FlagsOK

\* No step gives a flag a value other than TRUE or FALSE.
LEMMA FlagsStep == FlagsOK /\ [Next]_vars => FlagsOK'
  BY Zenon DEF FlagsOK, Next, vars, StackStep, MainStep, WorkerStep,
     Enable, Disable, Receive, IfUp, IfDown, RoleChange, TxStart, TxSearch,
     TxSubmit, PutFrame, MainPoll, MainWake, MainLetWorkerWork, MainBarrierDone,
     DataConfirm, DataIndication, DecodeIndication, WorkerLock, WorkerAnnounce,
     WorkerEnter, WorkerEndWork, RmFrame, PlatformRadioSignal

\* One step of any actor keeps DataOK.
LEMMA DataStep == DataOK /\ [Next]_vars => DataOK'
<1> SUFFICES ASSUME DataOK, [Next]_vars PROVE DataOK'
  OBVIOUS
<1> USE RadioAssumption DEF DataOK, Handles, Slots, WorkerPcs,
        BarrierStates, PhyStates, FrameKinds
<1>1. CASE Enable
  BY <1>1 DEF Enable
<1>2. CASE Disable
  BY <1>2 DEF Disable
<1>3. CASE Receive
  BY <1>3 DEF Receive
<1>4. CASE IfUp
  BY <1>4 DEF IfUp
<1>5. CASE IfDown
  BY <1>5 DEF IfDown
<1>6. CASE \E kind \in FrameKinds : TxStart(kind)
  BY <1>6 DEF TxStart
<1>7. CASE TxSearch
  BY <1>7 DEF TxSearch
<1>8. CASE TxSubmit
  <2>1. CASE sState = "Disabled" \/ txCall = "other"
    <3>1. /\ txCall' = "none"
          /\ UNCHANGED << sState, IntransitHandles, macPending, awaiting >>
          /\ UNCHANGED << mpc, wpc, wjob, wh, barrier, barrierOwner,
                          selfpipe, handle, rxLength, role, sIsCoordinator >>
      BY <1>8, <2>1, Zenon DEF TxSubmit
    <3> QED
      BY <3>1
  <2>2. CASE ~(sState = "Disabled" \/ txCall = "other") /\ txCall # "data"
    <3>1. /\ txCall' = "none" /\ sState' = "Transmit"
          /\ UNCHANGED << IntransitHandles, macPending, awaiting >>
          /\ UNCHANGED << mpc, wpc, wjob, wh, barrier, barrierOwner,
                          selfpipe, handle, rxLength, role, sIsCoordinator >>
      BY <1>8, <2>2, Zenon DEF TxSubmit
    <3> QED
      BY <3>1
  <2>3. CASE ~(sState = "Disabled" \/ txCall = "other") /\ txCall = "data"
    <3>1. /\ PutFrame(handle)
          /\ txCall' = "none" /\ sState' = "Transmit"
          /\ macPending' = macPending \cup {handle}
          /\ awaiting' = awaiting \cup {handle}
          /\ UNCHANGED << mpc, wpc, wjob, wh, barrier, barrierOwner,
                          selfpipe, handle, rxLength, role, sIsCoordinator >>
      BY <1>8, <2>3, Zenon DEF TxSubmit
    <3>2. IntransitHandles' \in [Slots -> Handles]
      BY <3>1 DEF PutFrame
    <3> QED
      BY <3>1, <3>2
  <2> QED
    BY <2>1, <2>2, <2>3
<1>9. CASE \E pending \in BOOLEAN : MainPoll(pending)
  BY <1>9 DEF MainPoll
<1>10. CASE \E byPipe \in BOOLEAN : MainWake(byPipe)
  BY <1>10 DEF MainWake
<1>11. CASE MainLetWorkerWork
  BY <1>11 DEF MainLetWorkerWork
<1>12. CASE MainBarrierDone
  BY <1>12 DEF MainBarrierDone
<1>13. CASE \E h \in Handles : DataConfirm(h)
  BY <1>13 DEF DataConfirm
<1>14. CASE DataIndication
  BY <1>14 DEF DataIndication
<1>15. CASE DecodeIndication
  BY <1>15 DEF DecodeIndication
<1>16. CASE WorkerLock
  BY <1>16 DEF WorkerLock
<1>23. CASE WorkerAnnounce
  <2>1. selfpipe' \in 0 .. PipeBound
    BY <1>23 DEF WorkerAnnounce
  <2> QED
    BY <1>23, <2>1 DEF WorkerAnnounce
<1>17. CASE WorkerEnter
  BY <1>17 DEF WorkerEnter
<1>18. CASE WorkerEndWork
  BY <1>18 DEF WorkerEndWork
<1>19. CASE RmFrame
  BY <1>19 DEF RmFrame
<1>20. CASE PlatformRadioSignal
  BY <1>20 DEF PlatformRadioSignal
<1>21. CASE UNCHANGED vars
  BY <1>21 DEF vars
<1>22. CASE \E r \in {"router", "child"} : RoleChange(r)
  <2>1. /\ macPending' \subseteq macPending
        /\ role' \in {"router", "child"}
        /\ UNCHANGED << mpc, wpc, wjob, wh, barrier, barrierOwner, selfpipe,
                        sState, handle, IntransitHandles, txCall, rxLength,
                        awaiting >>
    BY <1>22, Zenon DEF RoleChange
  <2> QED
    BY <2>1
<1> QED
  BY <1>1, <1>2, <1>3, <1>4, <1>5, <1>6, <1>7, <1>8, <1>9, <1>10, <1>11,
     <1>12, <1>13, <1>14, <1>15, <1>16, <1>17, <1>18, <1>19, <1>20,
     <1>21, <1>22, <1>23 DEF Next, StackStep, MainStep, WorkerStep

\* One step of any actor keeps TypeOK (TypeOK is inductive by itself).
LEMMA TypeStep == TypeOK /\ [Next]_vars => TypeOK'
<1> SUFFICES ASSUME TypeOK, [Next]_vars PROVE DataOK' /\ FlagsOK'
  BY Zenon DEF TypeOK, DataOK, FlagsOK
<1> QED
  BY TypeSplit, FlagsStep, DataStep

\* The initial state is well typed.
LEMMA TypeInit == Init => TypeOK
<1>1. Init => DataOK
  BY RadioAssumption DEF Init, DataOK, Handles, Slots, WorkerPcs,
     BarrierStates, PhyStates, FrameKinds
<1>2. Init => FlagsOK
  BY Zenon DEF Init, FlagsOK
<1> QED
  BY <1>1, <1>2, TypeSplit

\* Every step of the main loop, the worker and the stack keeps every
\* variable within its type: the handle counter wraps inside the MSDU
\* handle range, the self-pipe stays within its capacity, and the
\* in-transit table only ever holds handles.
THEOREM TypeCorrect == Spec => []TypeOK
<1> QED
  BY TypeInit, TypeStep, PTL DEF Spec

-----------------------------------------------------------------------------
(* The barrier.                                                            *)

\* What each barrier state says of the two threads: GREENLIGHT and DONE
\* only while the main thread waits in barrier_main_letWorkerWork, the
\* worker between its greenlight and barrier_worker_endWork only under
\* GREENLIGHT, and barrier_mutex held by the worker only while it pushes
\* its wake-up byte (state NOT_WAITING) or runs a callback.  StackExclusive alone is not inductive: a main thread in
\* "drivers" that found the barrier in any state but WAITING returns to
\* the stack, which is safe only because no worker is then in a callback.
BarrierInv ==
    /\ barrier = "GREENLIGHT" => mpc = "waitDone" /\ wpc \in {"waitGreen", "cb"}
    /\ barrier = "DONE" => mpc = "waitDone" /\ wpc \notin {"waitGreen", "cb"}
    /\ barrier = "WAITING" => wpc = "waitGreen" /\ mpc # "waitDone"
    /\ barrier = "NOT_WAITING" =>
          mpc # "waitDone" /\ wpc \notin {"waitGreen", "cb"}
    /\ wpc = "push" => barrier = "NOT_WAITING"
    /\ barrierOwner = "worker" <=> wpc \in {"push", "cb"}

BInv == TypeOK /\ BarrierInv

\* BInv holds in every reachable state.
LEMMA BarrierInvariant == Spec => []BInv
<1>1. Init => BInv
  BY TypeInit DEF Init, BInv, BarrierInv
<1>2. BInv /\ [Next]_vars => BInv'
  <2> SUFFICES ASSUME BInv, [Next]_vars PROVE BarrierInv'
    BY TypeStep DEF BInv
  <2> USE DEF BInv, TypeOK, BarrierStates, WorkerPcs
  \* Steps that leave mpc, wpc, barrier and barrierOwner alone.
  <2>1. CASE \/ Enable \/ Disable \/ Receive \/ IfUp \/ IfDown \/ TxSearch
             \/ TxSubmit \/ \E kind \in FrameKinds : TxStart(kind)
             \/ \E r \in {"router", "child"} : RoleChange(r)
    BY <2>1 DEF BarrierInv, Enable, Disable, Receive, IfUp, IfDown,
       TxSearch, TxSubmit, TxStart, RoleChange
  <2>2. CASE \E pending \in BOOLEAN : MainPoll(pending)
    BY <2>2 DEF BarrierInv, MainPoll
  <2>3. CASE \E byPipe \in BOOLEAN : MainWake(byPipe)
    BY <2>3 DEF BarrierInv, MainWake
  <2>4. CASE MainLetWorkerWork
    BY <2>4 DEF BarrierInv, MainLetWorkerWork
  <2>5. CASE MainBarrierDone
    BY <2>5 DEF BarrierInv, MainBarrierDone
  <2>6. CASE \E h \in Handles : DataConfirm(h)
    BY <2>6 DEF BarrierInv, DataConfirm
  <2>7. CASE DataIndication \/ DecodeIndication
    BY <2>7 DEF BarrierInv, DataIndication, DecodeIndication
  <2>8. CASE WorkerLock \/ WorkerAnnounce
    BY <2>8 DEF BarrierInv, WorkerLock, WorkerAnnounce
  <2>9. CASE WorkerEnter
    BY <2>9 DEF BarrierInv, WorkerEnter
  <2>10. CASE WorkerEndWork
    BY <2>10 DEF BarrierInv, WorkerEndWork
  <2>11. CASE RmFrame \/ PlatformRadioSignal
    BY <2>11 DEF BarrierInv, RmFrame, PlatformRadioSignal
  <2>12. CASE UNCHANGED vars
    BY <2>12 DEF BarrierInv, vars
  <2> QED
    BY <2>1, <2>2, <2>3, <2>4, <2>5, <2>6, <2>7, <2>8, <2>9, <2>10,
       <2>11, <2>12 DEF Next, StackStep, MainStep, WorkerStep
<1> QED
  BY <1>1, <1>2, PTL DEF Spec

\* Stack callbacks that the worker makes through the barrier
\* (otPlatRadioReceiveDone, otPlatRadioTransmitDone) never overlap the
\* main loop: while the worker is in one, the main thread is parked in
\* barrier_main_letWorkerWork waiting for DONE.
THEOREM StackExclusiveHolds == Spec => []StackExclusive
<1>1. BInv => StackExclusive
  BY DEF BInv, TypeOK, BarrierStates, BarrierInv, StackExclusive
<1> QED
  BY <1>1, BarrierInvariant, PTL

-----------------------------------------------------------------------------
(* Refinement of the barrier's contract.                                   *)

\* The refinement mapping only looks at whether the main thread is parked
\* and where the worker is: steps that move neither across those states
\* are stutters of BarrierSpec.
LEMMA BarrierMappedInit == Init => BAR!Init
  BY DEF Init, BAR!Init

\* Each step of the three actors is a step of the barrier contract or
\* leaves its state alone, given the barrier invariant.
LEMMA BarrierMappedStep == BInv /\ [Next]_vars => [BAR!Next]_BAR!bvars
<1> SUFFICES ASSUME BInv, [Next]_vars PROVE [BAR!Next]_BAR!bvars
  OBVIOUS
<1> USE DEF BInv, TypeOK, BarrierStates, WorkerPcs
\* Steps that leave mpc and wpc alone.
<1>1. CASE \/ Enable \/ Disable \/ Receive \/ IfUp \/ IfDown \/ TxSearch
           \/ TxSubmit \/ \E kind \in FrameKinds : TxStart(kind)
           \/ \E r \in {"router", "child"} : RoleChange(r)
  BY <1>1 DEF BAR!bvars, Enable, Disable, Receive, IfUp, IfDown,
     TxSearch, TxSubmit, TxStart, RoleChange
\* Steps of the main loop outside the barrier.
<1>2. CASE \/ \E pending \in BOOLEAN : MainPoll(pending)
           \/ \E byPipe \in BOOLEAN : MainWake(byPipe)
  BY <1>2 DEF BAR!bvars, MainPoll, MainWake
\* barrier_main_letWorkerWork hands the stack to a waiting worker (Grant)
\* or returns at once (stutter).
<1>3. CASE MainLetWorkerWork
  <2>1. CASE barrier = "WAITING"
    BY <1>3, <2>1 DEF BarrierInv, MainLetWorkerWork, BAR!Next, BAR!Grant
  <2>2. CASE barrier # "WAITING"
    BY <1>3, <2>2 DEF BarrierInv, MainLetWorkerWork, BAR!bvars
  <2> QED
    BY <2>1, <2>2
\* The main thread woken with DONE takes the stack back (Resume).
<1>4. CASE MainBarrierDone
  BY <1>4 DEF BarrierInv, MainBarrierDone, BAR!Next, BAR!Resume
\* The worker's steps outside the barrier.
<1>5. CASE \/ \E h \in Handles : DataConfirm(h)
           \/ DataIndication \/ DecodeIndication
           \/ RmFrame \/ PlatformRadioSignal
  BY <1>5 DEF BAR!bvars, DataConfirm, DataIndication, DecodeIndication,
     RmFrame, PlatformRadioSignal
\* barrier_worker_waitForMain announces the worker (Ask) ...
<1>6. CASE WorkerAnnounce
  BY <1>6 DEF BarrierInv, WorkerAnnounce, BAR!Next, BAR!Ask
\* (taking barrier_mutex first is a stutter) ...
<1>10. CASE WorkerLock
  BY <1>10 DEF BAR!bvars, WorkerLock
\* ... which starts its callback once greenlit (Enter) ...
<1>7. CASE WorkerEnter
  BY <1>7 DEF BarrierInv, WorkerEnter, BAR!Next, BAR!Enter
\* ... and barrier_worker_endWork ends it (Leave).
<1>8. CASE WorkerEndWork
  BY <1>8 DEF BarrierInv, WorkerEndWork, BAR!Next, BAR!Leave
<1>9. CASE UNCHANGED vars
  BY <1>9 DEF BAR!bvars, vars
<1> QED
  BY <1>1, <1>2, <1>3, <1>4, <1>5, <1>6, <1>7, <1>8, <1>9, <1>10
  DEF Next, StackStep, MainStep, WorkerStep

\* The barrier functions (barrier_main_letWorkerWork,
\* barrier_worker_waitForMain, barrier_worker_endWork), with the main loop
\* and the handlers around them, implement the safety part of the
\* barrier's contract: every behaviour of Radio, seen through the
\* refinement mapping, is a behaviour of BarrierSpec.
THEOREM BarrierRefinement == Spec => BAR!Spec
<1> QED
  BY BarrierMappedInit, BarrierMappedStep, BarrierInvariant, PTL
  DEF Spec, BAR!Spec


=============================================================================
