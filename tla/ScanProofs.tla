----------------------------- MODULE ScanProofs -----------------------------
(***************************************************************************)
(* Proofs about Scan for every channel set, mask set, context set and     *)
(* beacon bound: the type invariant; for a co-processor that confirms     *)
(* only after MLME_SCAN_request has returned and an interface that stays  *)
(* up, the in-progress flags; and, with no premise, the callback contexts.*)
(***************************************************************************)
EXTENDS Scan, FiniteSetTheorems, TLAPS

-----------------------------------------------------------------------------
(* Channel masks and their sizes.                                          *)

\* The channel set is finite.
LEMMA ChannelsCard == IsFiniteSet(Channels) /\ Cardinality(Channels) \in Nat
<1>1. IsFiniteSet(Channels)
  <2>1. Channels \subseteq Nat /\ \A c \in Channels : c <= 26
    BY ScanAssumption
  <2> QED
    BY <2>1, FS_BoundedSetOfNaturals
<1> QED
  BY <1>1, FS_CardinalityType

\* The number of channels is a natural number.
LEMMA ChannelsNat == Cardinality(Channels) \in Nat
  BY ChannelsCard

\* A mask has at most as many channels as there are.
LEMMA MaskCard ==
    ASSUME NEW m \in SUBSET Channels
    PROVE  Cardinality(m) \in 0 .. Cardinality(Channels)
<1>1. IsFiniteSet(m) /\ Cardinality(m) <= Cardinality(Channels)
  BY ChannelsCard, FS_Subset
<1>2. Cardinality(m) \in Nat
  BY <1>1, FS_CardinalityType
<1> QED
  BY <1>1, <1>2, ChannelsNat

-----------------------------------------------------------------------------
(* Type correctness.                                                       *)

\* TypeOK in two parts: the Boolean flags (Zenon) and the rest (SMT).
FlagsOK ==
    /\ activeInProgress \in BOOLEAN /\ energyInProgress \in BOOLEAN
    /\ ifUp \in BOOLEAN

DataOK ==
    /\ mpc \in {"run", "parked"}
    /\ wpc \in {"idle", "wait", "eloop", "cb"}
    /\ wjob \in {"none", "beacon", "activeDone", "energyDone"}
    /\ activeCtx \in Contexts \cup {NoCtx}
    /\ energyCtx \in Contexts \cup {NoCtx}
    /\ cbCtx \in Contexts \cup {NoCtx}
    /\ stackCtx \in Contexts \cup {NoCtx}
    /\ energyMask \subseteq Channels /\ coprocMask \subseteq Channels
    /\ scanCall \in {"none", "active", "energy"}
    /\ coproc \in {"idle", "active", "energy"}
    /\ stackScan \in {"none", "active", "energy"}
    /\ beacons \in 0 .. MaxBeacons
    /\ curMinChannel \in 0 .. 255
    /\ ri \in 0 .. Cardinality(Channels)
    /\ rn \in 0 .. Cardinality(Channels)

LEMMA TypeSplit == TypeOK <=> DataOK /\ FlagsOK
  BY Zenon DEF TypeOK, DataOK, FlagsOK, ScanKinds

\* No step gives a flag a value other than TRUE or FALSE.
LEMMA FlagsStep == FlagsOK /\ [Next]_vars => FlagsOK'
  BY Zenon DEF FlagsOK, Next, vars, StackStep, CoprocStep, WorkerStep,
     ActiveScan, EnergyScan, ScanReturn, IfUp, IfDown, BeaconNotify,
     ScanConfirm, WorkerGreen, EnergyLoopStep, EnergyLoopNext,
     EnergyLoopEnd, WorkerEndCb

\* What handleScanConfirm changes: the co-processor is idle again, and the
\* worker either has dropped the confirm or holds a completion job, with
\* the result count of the scanned mask for an energy scan.
LEMMA ScanConfirmEffect ==
    ScanConfirm =>
        /\ coproc' = "idle" /\ beacons' = 0
        /\ wpc' \in {wpc, "wait"}
        /\ wjob' \in {wjob, "activeDone", "energyDone"}
        /\ rn' \in {rn, Cardinality(coprocMask)}
        /\ UNCHANGED << mpc, activeInProgress, energyInProgress, activeCtx,
                        energyCtx, energyMask, scanCall, coprocMask,
                        curMinChannel, ri, cbCtx, ifUp, stackScan, stackCtx >>
  BY Zenon DEF ScanConfirm

\* No step of the stack, the co-processor or the worker takes one of the
\* other variables out of its type.
LEMMA DataStep == DataOK /\ FlagsOK /\ [Next]_vars => DataOK'
<1> SUFFICES ASSUME DataOK, FlagsOK, [Next]_vars PROVE DataOK'
  OBVIOUS
<1> USE ChannelsNat DEF DataOK, FlagsOK
<1>1. ASSUME NEW ctx \in Contexts, NEW mask \in ActiveMasks,
             ActiveScan(ctx, mask)
      PROVE  DataOK'
  <2>0. mask \subseteq Channels
    BY ScanAssumption
  <2>1. DefaultMask(mask) \subseteq Channels
    BY <2>0 DEF DefaultMask
  <2>2. CASE activeInProgress \/ energyInProgress
    BY <1>1, <2>2 DEF ActiveScan
  <2>3. CASE ~(activeInProgress \/ energyInProgress)
    BY <1>1, <2>1, <2>3 DEF ActiveScan
  <2> QED
    BY <2>2, <2>3
<1>2. ASSUME NEW ctx \in Contexts, NEW mask \in EnergyMasks,
             EnergyScan(ctx, mask)
      PROVE  DataOK'
  <2>0. mask \subseteq Channels
    BY ScanAssumption
  <2>1. DefaultMask(mask) \subseteq Channels
    BY <2>0 DEF DefaultMask
  <2>2. CASE activeInProgress \/ energyInProgress
    BY <1>2, <2>2 DEF EnergyScan
  <2>3. CASE ~(activeInProgress \/ energyInProgress)
    BY <1>2, <2>0, <2>1, <2>3 DEF EnergyScan
  <2> QED
    BY <2>2, <2>3
<1>3. CASE ScanReturn
  BY <1>3 DEF ScanReturn
<1>4. CASE IfUp \/ IfDown
  BY <1>4 DEF IfUp, IfDown
<1>5. ASSUME NEW valid \in BOOLEAN, BeaconNotify(valid) PROVE DataOK'
  <2>1. MaxBeacons \in Nat
    BY ScanAssumption
  <2> QED
    BY <1>5, <2>1 DEF BeaconNotify
<1>6. CASE ScanConfirm
  <2>1. Cardinality(coprocMask) \in 0 .. Cardinality(Channels)
    BY MaskCard, Zenon
  <2>2. MaxBeacons \in Nat
    BY ScanAssumption
  <2> QED
    BY <1>6, <2>1, <2>2, ScanConfirmEffect
<1>7. CASE WorkerGreen
  BY <1>7 DEF WorkerGreen
<1>8. CASE EnergyLoopStep
  <2>1. energyMask' \subseteq Channels
    BY <1>8 DEF EnergyLoopStep
  <2>2. curMinChannel' \in 0 .. 255
    BY <1>8 DEF EnergyLoopStep
  <2> QED
    BY <1>8, <2>1, <2>2 DEF EnergyLoopStep
<1>9. CASE EnergyLoopNext
  BY <1>9 DEF EnergyLoopNext
<1>10. CASE EnergyLoopEnd \/ WorkerEndCb
  BY <1>10 DEF EnergyLoopEnd, WorkerEndCb
<1>11. CASE UNCHANGED vars
  BY <1>11 DEF vars
<1> QED
  BY <1>1, <1>2, <1>3, <1>4, <1>5, <1>6, <1>7, <1>8, <1>9, <1>10, <1>11
  DEF Next, StackStep, CoprocStep, WorkerStep

LEMMA TypeStep == TypeOK /\ [Next]_vars => TypeOK'
<1> SUFFICES ASSUME TypeOK, [Next]_vars PROVE DataOK' /\ FlagsOK'
  BY DEF TypeOK, DataOK, FlagsOK, ScanKinds
<1> QED
  BY TypeSplit, FlagsStep, DataStep, Zenon

\* The initial state is well typed.
LEMMA TypeInit == Init => TypeOK
<1>1. Init => DataOK
  <2>1. 11 \in Channels /\ MaxBeacons \in Nat
    BY ScanAssumption
  <2> QED
    BY <2>1, ChannelsNat DEF Init, DataOK
<1>2. Init => FlagsOK
  BY Zenon DEF Init, FlagsOK
<1> QED
  BY <1>1, <1>2, TypeSplit

\* The scan statics, the energy-result loop's uint8_t cursor and counters
\* and the co-processor's scan stay within their types in every state the
\* scan driver reaches: the result count taken from the confirm never
\* exceeds the number of channels.
THEOREM ScanTypeCorrect == Spec => []TypeOK
  BY TypeInit, TypeStep, PTL DEF Spec

-----------------------------------------------------------------------------
(* The strengthening.                                                      *)

\* The worker holds a job exactly when it is not idle, and a completion
\* job only after the co-processor has finished.
WorkerInv ==
    /\ wpc = "idle" <=> wjob = "none"
    /\ wjob \in {"activeDone", "energyDone"} => coproc = "idle"
    /\ wjob = "activeDone" => activeInProgress
    /\ wjob = "energyDone" => energyInProgress /\ ~activeInProgress
    /\ wjob = "beacon" => activeInProgress /\ coproc = "active"

\* A request between MLME_SCAN_request and its return is the co-processor's
\* running scan, made when neither flag was set; a flag or a request in
\* flight means the interface is up; a running scan the request has
\* returned from has its flag set.
RequestInv ==
    /\ scanCall # "none" =>
          coproc = scanCall /\ ~activeInProgress /\ ~energyInProgress
    /\ (activeInProgress \/ energyInProgress \/ scanCall # "none") => ifUp
    /\ coproc = "active" /\ scanCall = "none" => activeInProgress
    /\ coproc = "energy" /\ scanCall = "none" => energyInProgress

\* The stored context of the running active scan is the one the stack
\* passed with it, and a callback in progress has it.
ContextInv ==
    /\ (activeInProgress \/ scanCall = "active") => activeCtx = stackCtx
    /\ wpc = "cb" /\ wjob \in {"beacon", "activeDone"} => cbCtx = activeCtx

\* The strengthening without the type invariant.
Rest == InProgressMatchesScan /\ WorkerInv /\ RequestInv /\ ContextInv

IInv == TypeOK /\ Rest

\* The two premises of the proofs below, which the scan_core run also
\* makes: the co-processor confirms a scan only after MLME_SCAN_request
\* has returned, and the stack keeps its interface up once it is up.
Premises == ConfirmAfterReturn = TRUE /\ AllowIfDown = FALSE

\* The initial state satisfies the strengthening.
LEMMA RestInit == Init => Rest
  BY DEF Init, Rest, InProgressMatchesScan, WorkerInv, RequestInv,
     ContextInv

\* One step of any actor keeps the strengthening.
LEMMA RestStep ==
    ASSUME Premises
    PROVE  TypeOK /\ Rest /\ [Next]_vars => Rest'
<1> SUFFICES ASSUME TypeOK, Rest, [Next]_vars PROVE Rest'
  OBVIOUS
<1>0. FlagsOK
  BY TypeSplit
<1> USE Premises, <1>0
    DEF Premises, FlagsOK, Rest, InProgressMatchesScan, WorkerInv,
        RequestInv, ContextInv
<1>1. ASSUME NEW ctx \in Contexts, NEW mask \in ActiveMasks,
             ActiveScan(ctx, mask)
      PROVE  Rest'
  BY <1>1 DEF ActiveScan, StackCanCall
<1>2. ASSUME NEW ctx \in Contexts, NEW mask \in EnergyMasks,
             EnergyScan(ctx, mask)
      PROVE  Rest'
  BY <1>2 DEF EnergyScan, StackCanCall
<1>3. CASE ScanReturn
  BY <1>3 DEF ScanReturn
<1>4. CASE IfUp \/ IfDown
  BY <1>4 DEF IfUp, IfDown
<1>5. ASSUME NEW valid \in BOOLEAN, BeaconNotify(valid) PROVE Rest'
  BY <1>5 DEF BeaconNotify, CoprocMaySend
<1>6. CASE ScanConfirm
  BY <1>6 DEF ScanConfirm, CoprocMaySend
<1>7. CASE WorkerGreen
  BY <1>7 DEF WorkerGreen
<1>8. CASE EnergyLoopStep \/ EnergyLoopNext
  BY <1>8 DEF EnergyLoopStep, EnergyLoopNext
<1>9. CASE EnergyLoopEnd
  BY <1>9 DEF EnergyLoopEnd
<1>10. CASE WorkerEndCb
  BY <1>10 DEF WorkerEndCb
<1>11. CASE UNCHANGED vars
  BY <1>11 DEF vars
<1> QED
  BY <1>1, <1>2, <1>3, <1>4, <1>5, <1>6, <1>7, <1>8, <1>9, <1>10, <1>11
  DEF Next, StackStep, CoprocStep, WorkerStep

-----------------------------------------------------------------------------
(* The theorems.                                                           *)

\* IInv holds in every reachable state.
LEMMA IInvariant ==
    ASSUME Premises
    PROVE  Spec => []IInv
<1>1. Init => IInv
  BY TypeInit, RestInit DEF IInv
<1>2. IInv /\ [Next]_vars => IInv'
  BY TypeStep, RestStep DEF IInv
<1> QED
  BY <1>1, <1>2, PTL DEF Spec

\* The busy check of otPlatRadioActiveScan/otPlatRadioEnergyScan is sound:
\* sActiveScanInProgress and sEnergyScanInProgress are never both set, and
\* a set flag belongs to a scan the co-processor still runs or whose
\* completion handleScanConfirm is delivering, so no flag is left stuck.
\* For every channel set, mask set, context set and beacon bound, given a
\* co-processor that confirms only after the request has returned and an
\* interface that stays up.
THEOREM InProgressHolds ==
    ASSUME Premises
    PROVE  Spec => []InProgressMatchesScan
<1>1. IInv => InProgressMatchesScan
  BY DEF IInv, Rest
<1> QED
  BY <1>1, IInvariant, PTL

-----------------------------------------------------------------------------
(* Callback contexts, with neither premise.                               *)
(*                                                                         *)
(* A confirm that overtakes the request's return, or one dropped while    *)
(* the interface is down, leaves a flag stuck (InProgressMatchesScan      *)
(* fails), but a stuck flag only makes every later request busy: the      *)
(* stored context is never overwritten while a job of its scan is about.  *)

\* A request between MLME_SCAN_request and its return was made with both
\* flags clear, and they stay clear until it returns.
CallInv ==
    scanCall # "none" => ~activeInProgress /\ ~energyInProgress

\* A running active scan, a beacon job and a completion job each belong
\* to an active scan whose request is in flight or has returned and set
\* sActiveScanInProgress; a completion job comes after the scan ended.
ActiveJobInv ==
    /\ coproc = "active" => activeInProgress \/ scanCall = "active"
    /\ wjob \in {"beacon", "activeDone"} =>
          activeInProgress \/ scanCall = "active"
    /\ wjob = "activeDone" => activeInProgress /\ coproc = "idle"

\* The strengthening for the contexts alone.
CtxInv == CallInv /\ ActiveJobInv /\ ContextInv

\* The initial state satisfies it.
LEMMA CtxInit == Init => CtxInv
  BY DEF Init, CtxInv, CallInv, ActiveJobInv, ContextInv

\* One step of any actor keeps it, whatever the co-processor's timing and
\* whether or not the stack brings its interface down.
LEMMA CtxStep == TypeOK /\ CtxInv /\ [Next]_vars => CtxInv'
<1> SUFFICES ASSUME TypeOK, CtxInv, [Next]_vars PROVE CtxInv'
  OBVIOUS
<1>0. FlagsOK
  BY TypeSplit
<1> USE <1>0 DEF FlagsOK, CtxInv, CallInv, ActiveJobInv, ContextInv
<1>1. ASSUME NEW ctx \in Contexts, NEW mask \in ActiveMasks,
             ActiveScan(ctx, mask)
      PROVE  CtxInv'
  BY <1>1 DEF ActiveScan, StackCanCall
<1>2. ASSUME NEW ctx \in Contexts, NEW mask \in EnergyMasks,
             EnergyScan(ctx, mask)
      PROVE  CtxInv'
  BY <1>2 DEF EnergyScan, StackCanCall
<1>3. CASE ScanReturn
  BY <1>3 DEF ScanReturn
<1>4. CASE IfUp \/ IfDown
  BY <1>4 DEF IfUp, IfDown
<1>5. ASSUME NEW valid \in BOOLEAN, BeaconNotify(valid) PROVE CtxInv'
  BY <1>5 DEF BeaconNotify
<1>6. CASE ScanConfirm
  BY <1>6 DEF ScanConfirm
<1>7. CASE WorkerGreen
  BY <1>7 DEF WorkerGreen
<1>8. CASE EnergyLoopStep \/ EnergyLoopNext \/ EnergyLoopEnd
  BY <1>8 DEF EnergyLoopStep, EnergyLoopNext, EnergyLoopEnd
<1>9. CASE WorkerEndCb
  BY <1>9 DEF WorkerEndCb
<1>10. CASE UNCHANGED vars
  BY <1>10 DEF vars
<1> QED
  BY <1>1, <1>2, <1>3, <1>4, <1>5, <1>6, <1>7, <1>8, <1>9, <1>10
  DEF Next, StackStep, CoprocStep, WorkerStep

\* Every beacon result and every completion that handleBeaconNotify and
\* handleScanConfirm deliver to sActiveScanCallback carries the context
\* the stack passed to the otPlatRadioActiveScan that started the scan,
\* also when the stack calls the scan API from inside a callback, when a
\* confirm overtakes the request's return and when the interface goes
\* down: for every channel set, mask set, context set and beacon bound.
THEOREM ActiveContextHolds == Spec => []ActiveCallbackContext
<1>1. Init => TypeOK /\ CtxInv
  BY TypeInit, CtxInit
<1>2. TypeOK /\ CtxInv /\ [Next]_vars => (TypeOK /\ CtxInv)'
  BY TypeStep, CtxStep
<1>3. TypeOK /\ CtxInv => ActiveCallbackContext
  BY DEF CtxInv, ActiveJobInv, ContextInv, ActiveCallbackContext
<1> QED
  BY <1>1, <1>2, <1>3, PTL DEF Spec

====
