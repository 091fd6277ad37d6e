-------------------------- MODULE IntransitProofs --------------------------
(***************************************************************************)
(* A proof that the in-transit table of src/platform/radio.c records       *)
(* exactly the data requests the co-processor has not confirmed, plus the  *)
(* one whose confirm the worker is handling (IntransitMatchesRequests),    *)
(* for every handle space and table size, when the stack keeps fewer data  *)
(* frames in flight than the table has slots and neither brings its        *)
(* interface down nor loses the router role.                               *)
(***************************************************************************)
EXTENDS RadioProofs, FiniteSetTheorems, WellFoundedInduction

\* The conditions the theorem needs: the leak and reset runs show that
\* IntransitMatchesRequests fails without the first two, the overflow run
\* that it fails with as many frames in flight as slots.
Premises ==
    /\ AllowIfDown = FALSE
    /\ AllowRoleChange = FALSE
    /\ StackMaxInFlight < MaxIntransits

\* Handles with a record that must be in the table.
InFlight == macPending \cup Confirming

\* The table: never locked, matching the requests, with no record under
\* the free-slot marker 0, and one free slot for each slot not in flight.
TableInv ==
    /\ ~intransitLocked
    /\ IntransitMatchesRequests
    /\ 0 \notin InFlight
    /\ Cardinality(FreeSlots) + Cardinality(InFlight) = MaxIntransits

\* The indication handler never holds a confirm.
WorkerInv == wpc = "rxLock" => wjob = "ind"

\* The stack awaits transmit-done for every request still in flight up to
\* the worker's callback, a data transmission starts only below the
\* stack's limit, and requests are pending only on an interface that is up.
StackInv ==
    /\ macPending \subseteq awaiting
    /\ wjob = "cnf" /\ wpc \in {"waitIdle", "push", "waitGreen"} => wh \in awaiting
    /\ txCall = "data" => Cardinality(awaiting) < StackMaxInFlight
    /\ macPending # {} => ifUp
    /\ txCall # "none" => ifUp

IInv == TypeOK /\ TableInv /\ WorkerInv /\ StackInv

-----------------------------------------------------------------------------
(* Facts about the table's sets.                                          *)

\* The table has MaxIntransits slots, and its free slots and in-flight
\* handles are finite sets.
LEMMA SlotsFinite ==
    /\ IsFiniteSet(Slots)
    /\ Cardinality(Slots) = MaxIntransits
  BY RadioAssumption, FS_Interval DEF Slots

LEMMA HandlesFinite == IsFiniteSet(Handles)
  BY RadioAssumption, FS_Interval DEF Handles

LEMMA FreeSlotsFinite ==
    ASSUME TypeOK PROVE IsFiniteSet(FreeSlots) /\ Cardinality(FreeSlots) \in Nat
  BY SlotsFinite, FS_Subset, FS_CardinalityType DEF FreeSlots

\* intransit_putFrame's loop stops at the first free slot: when a slot is
\* free, FirstFree is one (the order on the naturals is well founded).
LEMMA FirstFreeIsFree ==
    ASSUME FreeSlots # {} PROVE FirstFree \in FreeSlots
<1>1. FreeSlots \subseteq Nat
  BY DEF FreeSlots, Slots
<1>2. \E x \in FreeSlots : \A y \in FreeSlots : ~(<<y, x>> \in OpToRel(<, Nat))
  BY <1>1, WFMin, NatLessThanWellFounded
<1>3. \E x \in FreeSlots : \A y \in FreeSlots : x <= y
  <2>1. PICK x \in FreeSlots :
               \A y \in FreeSlots : ~(<<y, x>> \in OpToRel(<, Nat))
    BY <1>2
  <2>2. ASSUME NEW y \in FreeSlots PROVE x <= y
    <3>1. ~(<<y, x>> \in OpToRel(<, Nat))
      BY <2>1
    <3>2. ~(y < x)
      BY <1>1, <3>1 DEF OpToRel
    <3> QED
      BY <1>1, <3>2
  <2> QED
    BY <2>2
<1> QED
  BY <1>3 DEF FirstFree


-----------------------------------------------------------------------------
(* The inductive invariant.                                                *)

Rest == TableInv /\ WorkerInv /\ StackInv

\* At PlatformRadioInit every slot is free and nothing is in flight.
LEMMA IInvInit == Init => IInv
<1> SUFFICES ASSUME Init PROVE IInv
  OBVIOUS
<1>1. TypeOK
  BY TypeInit
<1>2. FreeSlots = Slots /\ Recorded = {} /\ InFlight = {}
  BY DEF Init, FreeSlots, Recorded, InFlight, Confirming
<1>3. Cardinality(FreeSlots) + Cardinality(InFlight) = MaxIntransits
  <2>1. Cardinality(FreeSlots) = MaxIntransits
    BY <1>2, SlotsFinite
  <2>2. Cardinality(InFlight) = 0
    BY <1>2, FS_EmptySet
  <2> QED
    BY <2>1, <2>2, RadioAssumption
<1>4. IntransitMatchesRequests
  BY <1>2 DEF Init, IntransitMatchesRequests, InFlight, Confirming
<1> QED
  BY <1>1, <1>2, <1>3, <1>4 DEF IInv, TableInv, WorkerInv, StackInv, Init,
     InFlight

\* A step that leaves the table, the requests, the worker's handler and
\* the stack's bookkeeping alone keeps the invariant.
LEMMA RestUnchanged ==
    ASSUME Rest,
           UNCHANGED << IntransitHandles, intransitLocked, macPending, wpc,
                        wjob, wh, awaiting, txCall, ifUp >>
    PROVE  Rest'
  BY DEF Rest, TableInv, WorkerInv, StackInv, IntransitMatchesRequests,
     InFlight, Confirming, FreeSlots, Recorded

\* A step of the worker that keeps the confirm it holds (if any) and the
\* stack's bookkeeping keeps the invariant.
LEMMA RestSameConfirm ==
    ASSUME Rest, Confirming' = Confirming, WorkerInv',
           wjob' = "cnf" /\ wpc' \in {"waitIdle", "push", "waitGreen"}
              => wh' \in awaiting',
           UNCHANGED << IntransitHandles, intransitLocked, macPending,
                        awaiting, txCall, ifUp >>
    PROVE  Rest'
  BY DEF Rest, TableInv, StackInv, IntransitMatchesRequests, InFlight,
     FreeSlots, Recorded


\* At most one confirm is being handled.
LEMMA ConfirmingSmall ==
    ASSUME TypeOK
    PROVE  /\ IsFiniteSet(Confirming)
           /\ Cardinality(Confirming) <= 1
           /\ Confirming \subseteq Handles
<1>1. CASE Confirming = {}
  BY <1>1, FS_EmptySet
<1>2. CASE Confirming = {wh}
  <2>1. IsFiniteSet({wh}) /\ Cardinality({wh}) = 1
    BY FS_Singleton
  <2>2. wh \in Handles
    BY DEF TypeOK
  <2> QED
    BY <1>2, <2>1, <2>2
<1> QED
  BY <1>1, <1>2 DEF Confirming

\* The handles in flight form a finite set.
LEMMA InFlightFinite ==
    ASSUME TypeOK
    PROVE  IsFiniteSet(InFlight) /\ Cardinality(InFlight) \in Nat
<1>1. IsFiniteSet(macPending) /\ IsFiniteSet(Confirming)
  BY ConfirmingSmall, HandlesFinite, FS_Subset DEF TypeOK
<1>2. IsFiniteSet(InFlight)
  BY <1>1, FS_Union DEF InFlight
<1> QED
  BY <1>2, FS_CardinalityType

\* While the stack is in otPlatRadioTransmit with a data frame, fewer
\* handles are in flight than the table has slots: the stack's own ones
\* are below its limit, and at most one more is being confirmed.
LEMMA RoomForData ==
    ASSUME Premises, IInv, txCall = "data"
    PROVE  Cardinality(InFlight) < MaxIntransits
<1>1. InFlight \subseteq awaiting \cup Confirming
  BY DEF IInv, StackInv, InFlight
<1>2. /\ IsFiniteSet(awaiting) /\ Cardinality(awaiting) \in Nat
      /\ IsFiniteSet(Confirming) /\ Cardinality(Confirming) \in Nat
      /\ Cardinality(Confirming) <= 1
  BY ConfirmingSmall, HandlesFinite, FS_Subset, FS_CardinalityType DEF IInv, TypeOK
<1>3. /\ IsFiniteSet(awaiting \cup Confirming)
      /\ Cardinality(awaiting \cup Confirming) <= Cardinality(awaiting) + 1
      /\ Cardinality(awaiting \cup Confirming) \in Nat
  <2>1. /\ IsFiniteSet(awaiting \cup Confirming)
        /\ Cardinality(awaiting \cup Confirming) =
              Cardinality(awaiting) + Cardinality(Confirming)
              - Cardinality(awaiting \cap Confirming)
    BY <1>2, FS_Union
  <2>2. Cardinality(awaiting \cap Confirming) \in Nat
    BY <1>2, FS_Subset, FS_CardinalityType
  <2>3. Cardinality(awaiting \cup Confirming) \in Nat
    BY <2>1, FS_CardinalityType
  <2> QED
    BY <1>2, <2>1, <2>2, <2>3
<1>4. /\ Cardinality(InFlight) <= Cardinality(awaiting \cup Confirming)
      /\ Cardinality(InFlight) \in Nat
  BY <1>1, <1>3, FS_Subset, FS_CardinalityType
<1>5. Cardinality(awaiting) < StackMaxInFlight
  BY DEF IInv, StackInv
<1>6. /\ StackMaxInFlight < MaxIntransits
      /\ StackMaxInFlight \in Nat /\ MaxIntransits \in Nat
  BY RadioAssumption DEF Premises
<1> QED
  BY <1>2, <1>3, <1>4, <1>5, <1>6


\* otPlatRadioTransmit with a data frame: the search has found a handle
\* in no slot, putFrame stores it in the first free slot (there is one),
\* and the request joins the co-processor's pending ones.
LEMMA TxSubmitDataStep ==
    ASSUME Premises, IInv, TxSubmit, txCall = "data", sState # "Disabled"
    PROVE  Rest'
<1> DEFINE ff == FirstFree
<1>0. TypeOK /\ TableInv /\ StackInv
  BY DEF IInv
<1>1. FreeSlots # {}
  <2>1. Cardinality(InFlight) < MaxIntransits
    BY RoomForData
  <2>2. IsFiniteSet(FreeSlots) /\ Cardinality(FreeSlots) \in Nat
    BY <1>0, FreeSlotsFinite
  <2>3. Cardinality(FreeSlots) # 0
    BY <1>0, <2>1, <2>2, InFlightFinite, RadioAssumption DEF TableInv
  <2> QED
    BY <2>2, <2>3, FS_EmptySet
<1>2. ff \in FreeSlots
  BY <1>1, FirstFreeIsFree
<1>3. /\ \A i \in Slots : IntransitHandles[i] # handle
      /\ handle # 0
  BY <1>1 DEF TxSubmit, InUse, FreeSlots
<1>4. /\ IntransitHandles' = [IntransitHandles EXCEPT ![ff] = handle]
      /\ intransitLocked' = intransitLocked
      /\ macPending' = macPending \cup {handle}
      /\ awaiting' = awaiting \cup {handle}
      /\ txCall' = "none"
      /\ UNCHANGED << wpc, wjob, wh, ifUp >>
  <2>1. /\ PutFrame(handle)
        /\ macPending' = macPending \cup {handle}
        /\ awaiting' = awaiting \cup {handle}
        /\ txCall' = "none"
        /\ UNCHANGED << wpc, wjob, wh, ifUp >>
    BY Zenon DEF TxSubmit
  <2> QED
    BY <1>1, <2>1, Zenon DEF PutFrame
<1>5. FreeSlots' = FreeSlots \ {ff}
  BY <1>0, <1>2, <1>3, <1>4 DEF FreeSlots, TypeOK
<1>6. Recorded' = Recorded \cup {handle}
  BY <1>0, <1>2, <1>3, <1>4 DEF Recorded, FreeSlots, TypeOK
<1>7. Confirming' = Confirming /\ InFlight' = InFlight \cup {handle}
  BY <1>4 DEF Confirming, InFlight
<1>8. handle \notin InFlight
  BY <1>0, <1>3 DEF TableInv, IntransitMatchesRequests, Recorded, InFlight
<1>9. Cardinality(FreeSlots') + Cardinality(InFlight') = MaxIntransits
  <2>1. IsFiniteSet(FreeSlots) /\ IsFiniteSet(InFlight)
    BY <1>0, FreeSlotsFinite, InFlightFinite
  <2>2. Cardinality(FreeSlots') = Cardinality(FreeSlots) - 1
    BY <1>2, <1>5, <2>1, FS_RemoveElement
  <2>3. Cardinality(InFlight') = Cardinality(InFlight) + 1
    BY <1>7, <1>8, <2>1, FS_AddElement
  <2>4. Cardinality(FreeSlots) \in Nat /\ Cardinality(InFlight) \in Nat
    BY <2>1, FS_CardinalityType
  <2> QED
    BY <1>0, <2>2, <2>3, <2>4 DEF TableInv
<1>10. IntransitMatchesRequests'
  <2>1. Recorded' = macPending' \cup Confirming'
    BY <1>0, <1>4, <1>6, <1>7 DEF TableInv, IntransitMatchesRequests
  <2>2. macPending' \cap Confirming' = {}
    BY <1>0, <1>4, <1>7, <1>8 DEF TableInv, IntransitMatchesRequests, InFlight
  <2>3. \A i, j \in Slots :
           IntransitHandles'[i] = IntransitHandles'[j] /\ IntransitHandles'[i] # 0
              => i = j
    BY <1>0, <1>2, <1>3, <1>4 DEF TableInv, IntransitMatchesRequests,
       FreeSlots, TypeOK
  <2> QED
    BY <2>1, <2>2, <2>3 DEF IntransitMatchesRequests
<1>11. TableInv'
  BY <1>0, <1>3, <1>4, <1>7, <1>9, <1>10 DEF TableInv
<1>12. WorkerInv' /\ StackInv'
  BY <1>0, <1>4 DEF IInv, WorkerInv, StackInv
<1> QED
  BY <1>11, <1>12 DEF Rest


\* intransit_rmFrame after the confirm's callback: the one slot that
\* holds the confirmed handle becomes free, and the handle leaves the
\* handles in flight.
LEMMA RmFrameConfirmStep ==
    ASSUME IInv, RmFrame, wjob = "cnf"
    PROVE  Rest'
<1>0. TypeOK /\ TableInv /\ StackInv
  BY DEF IInv
<1>1. wpc = "post" /\ Confirming = {wh}
  BY DEF RmFrame, Confirming
<1>2. wh \in Recorded /\ wh # 0 /\ wh \notin macPending
  BY <1>0, <1>1 DEF TableInv, IntransitMatchesRequests, InFlight
<1>3. PICK i0 \in Slots : IntransitHandles[i0] = wh
  BY <1>2 DEF Recorded
<1>4. \A i \in Slots : IntransitHandles[i] = wh => i = i0
  BY <1>0, <1>2, <1>3 DEF TableInv, IntransitMatchesRequests
<1>5. /\ IntransitHandles' = [i \in Slots |-> IF IntransitHandles[i] = wh
                                              THEN 0 ELSE IntransitHandles[i]]
      /\ wpc' = "signal"
      /\ UNCHANGED << intransitLocked, macPending, wjob, wh, awaiting,
                      txCall, ifUp >>
  BY Zenon DEF RmFrame
<1>6. i0 \notin FreeSlots /\ FreeSlots' = FreeSlots \cup {i0}
  BY <1>0, <1>2, <1>3, <1>4, <1>5 DEF FreeSlots, TypeOK
<1>7. Confirming' = {} /\ InFlight' = InFlight \ {wh}
  BY <1>1, <1>2, <1>5 DEF Confirming, InFlight
<1>8. Recorded' = Recorded \ {wh}
  BY <1>0, <1>3, <1>4, <1>5, <1>6 DEF Recorded, FreeSlots, TypeOK
<1>9. Cardinality(FreeSlots') + Cardinality(InFlight') = MaxIntransits
  <2>1. IsFiniteSet(FreeSlots) /\ IsFiniteSet(InFlight)
    BY <1>0, FreeSlotsFinite, InFlightFinite
  <2>2. Cardinality(FreeSlots') = Cardinality(FreeSlots) + 1
    BY <1>6, <2>1, FS_AddElement
  <2>3. Cardinality(InFlight') = Cardinality(InFlight) - 1
    BY <1>1, <1>7, <2>1, FS_RemoveElement DEF InFlight
  <2>4. Cardinality(FreeSlots) \in Nat /\ Cardinality(InFlight) \in Nat
    BY <2>1, FS_CardinalityType
  <2> QED
    BY <1>0, <2>2, <2>3, <2>4 DEF TableInv
<1>10. IntransitMatchesRequests'
  <2>1. Recorded' = macPending' \cup Confirming'
    BY <1>0, <1>1, <1>2, <1>5, <1>7, <1>8 DEF TableInv,
       IntransitMatchesRequests
  <2>2. \A i, j \in Slots :
           IntransitHandles'[i] = IntransitHandles'[j] /\ IntransitHandles'[i] # 0
              => i = j
    BY <1>0, <1>5 DEF TableInv, IntransitMatchesRequests
  <2> QED
    BY <1>7, <2>1, <2>2 DEF IntransitMatchesRequests
<1>11. TableInv'
  BY <1>0, <1>5, <1>7, <1>9, <1>10 DEF TableInv, InFlight
<1>12. WorkerInv' /\ StackInv'
  BY <1>0, <1>5 DEF WorkerInv, StackInv
<1> QED
  BY <1>11, <1>12 DEF Rest


\* Every step of the stack, the main loop and the worker keeps Rest.
LEMMA RestStep ==
    ASSUME Premises, IInv, [Next]_vars
    PROVE  Rest'
<1>0. Rest /\ TypeOK
  BY DEF IInv, Rest
<1>1. CASE Enable \/ Disable \/ Receive \/ TxSearch
           \/ \E pending \in BOOLEAN : MainPoll(pending)
           \/ \E byPipe \in BOOLEAN : MainWake(byPipe)
           \/ MainLetWorkerWork \/ MainBarrierDone
  <2>1. UNCHANGED << IntransitHandles, intransitLocked, macPending, wpc,
                     wjob, wh, awaiting, txCall, ifUp >>
    BY <1>1, Zenon DEF Enable, Disable, Receive, TxSearch, MainPoll,
       MainWake, MainLetWorkerWork, MainBarrierDone
  <2> QED
    BY <1>0, <2>1, RestUnchanged
<1>2. CASE IfUp
  BY <1>0, <1>2 DEF IfUp, Rest, TableInv, WorkerInv, StackInv,
     IntransitMatchesRequests, InFlight, Confirming, FreeSlots, Recorded
<1>3. CASE IfDown \/ \E r \in {"router", "child"} : RoleChange(r)
  BY <1>3 DEF IfDown, RoleChange, Premises
<1>4. CASE \E kind \in FrameKinds : TxStart(kind)
  <2>1. PICK kind \in FrameKinds : TxStart(kind)
    BY <1>4
  <2>2. /\ txCall' = kind
        /\ kind = "data" => Cardinality(awaiting) < StackMaxInFlight
        /\ ifUp
        /\ UNCHANGED << IntransitHandles, intransitLocked, macPending, wpc,
                        wjob, wh, awaiting, ifUp >>
    BY <2>1, Zenon DEF TxStart
  <2> QED
    BY <1>0, <2>2 DEF Rest, TableInv, WorkerInv, StackInv,
       IntransitMatchesRequests, InFlight, Confirming, FreeSlots, Recorded
<1>5. CASE TxSubmit
  <2>1. CASE txCall = "data" /\ sState # "Disabled"
    BY <1>5, <2>1, TxSubmitDataStep
  <2>2. CASE ~(txCall = "data" /\ sState # "Disabled")
    <3>1. /\ txCall' = "none"
          /\ UNCHANGED << IntransitHandles, intransitLocked, macPending,
                          wpc, wjob, wh, awaiting, ifUp >>
      BY <1>5, <2>2, Zenon DEF TxSubmit
    <3> QED
      BY <1>0, <3>1 DEF Rest, TableInv, WorkerInv, StackInv,
         IntransitMatchesRequests, InFlight, Confirming, FreeSlots, Recorded
  <2> QED
    BY <2>1, <2>2
<1>6. CASE \E h \in Handles : DataConfirm(h)
  <2>1. PICK h \in Handles : DataConfirm(h)
    BY <1>6
  <2>2. /\ wpc = "idle" /\ h \in macPending
        /\ macPending' = macPending \ {h}
        /\ ifUp => wpc' = "waitIdle" /\ wjob' = "cnf" /\ wh' = h
        /\ UNCHANGED << IntransitHandles, intransitLocked, awaiting,
                        txCall, ifUp >>
    BY <2>1, Zenon DEF DataConfirm
  <2>3. ifUp
    BY <1>0, <2>2 DEF Rest, StackInv
  <2>4. Confirming = {} /\ Confirming' = {h} /\ InFlight' = InFlight
    BY <2>2, <2>3 DEF Confirming, InFlight
  <2> QED
    BY <1>0, <2>2, <2>3, <2>4 DEF Rest, TableInv, WorkerInv, StackInv,
       IntransitMatchesRequests, InFlight, FreeSlots, Recorded
<1>7. CASE DataIndication \/ DecodeIndication \/ PlatformRadioSignal
  <2>1. /\ wpc \in {"idle", "rxLock", "signal"}
        /\ wpc' \in {"idle", "rxLock", "waitIdle"}
        /\ wpc' \in {"rxLock", "waitIdle"} => wjob' = "ind"
        /\ UNCHANGED << IntransitHandles, intransitLocked, macPending,
                        awaiting, txCall, ifUp >>
    <3>1. CASE DataIndication
      BY <3>1, Zenon DEF DataIndication
    <3>2. CASE DecodeIndication
      <4>1. wjob = "ind"
        BY <1>0, <3>2 DEF DecodeIndication, Rest, WorkerInv
      <4> QED
        BY <3>2, <4>1, Zenon DEF DecodeIndication
    <3>3. CASE PlatformRadioSignal
      BY <3>3, Zenon DEF PlatformRadioSignal
    <3> QED
      BY <1>7, <3>1, <3>2, <3>3
  <2>2. Confirming = {} /\ Confirming' = {}
    BY <2>1 DEF Confirming
  <2> QED
    BY <1>0, <2>1, <2>2 DEF Rest, TableInv, WorkerInv, StackInv,
       IntransitMatchesRequests, InFlight, FreeSlots, Recorded
<1>8. CASE WorkerLock \/ WorkerAnnounce \/ WorkerEndWork
  <2>1. /\ \/ wpc = "waitIdle" /\ wpc' = "push"
           \/ wpc = "push" /\ wpc' = "waitGreen"
           \/ wpc = "cb" /\ wpc' = "post"
        /\ UNCHANGED << IntransitHandles, intransitLocked, macPending,
                        wjob, wh, awaiting, txCall, ifUp >>
    BY <1>8, Zenon DEF WorkerLock, WorkerAnnounce, WorkerEndWork
  <2>2. Confirming' = Confirming
    BY <2>1 DEF Confirming
  <2> QED
    BY <1>0, <2>1, <2>2, RestSameConfirm DEF Rest, WorkerInv, StackInv
<1>9. CASE WorkerEnter
  <2>1. /\ wpc = "waitGreen" /\ wpc' = "cb"
        /\ awaiting' \subseteq awaiting
        /\ wjob = "cnf" => awaiting' = awaiting \ {wh}
        /\ wjob # "cnf" => awaiting' = awaiting
        /\ UNCHANGED << IntransitHandles, intransitLocked, macPending,
                        wjob, wh, txCall, ifUp >>
    BY <1>9, Zenon DEF WorkerEnter
  <2>2. Confirming' = Confirming
    BY <2>1 DEF Confirming
  <2>3. macPending \subseteq awaiting'
    BY <1>0, <2>1 DEF Rest, StackInv, TableInv, IntransitMatchesRequests,
       Confirming
  <2>4. txCall = "data" => Cardinality(awaiting') < StackMaxInFlight
    <3>1. IsFiniteSet(awaiting) /\ Cardinality(awaiting') <= Cardinality(awaiting)
      BY <1>0, <2>1, HandlesFinite, FS_Subset DEF TypeOK
    <3>2. Cardinality(awaiting) \in Nat /\ Cardinality(awaiting') \in Nat
      BY <2>1, <3>1, FS_Subset, FS_CardinalityType
    <3>3. StackMaxInFlight \in Nat
      BY RadioAssumption
    <3> QED
      BY <1>0, <3>1, <3>2, <3>3 DEF Rest, StackInv
  <2> QED
    BY <1>0, <2>1, <2>2, <2>3, <2>4 DEF Rest, TableInv, WorkerInv,
       StackInv, IntransitMatchesRequests, InFlight, FreeSlots, Recorded
<1>10. CASE RmFrame
  <2>1. CASE wjob = "cnf"
    BY <1>10, <2>1, RmFrameConfirmStep
  <2>2. CASE wjob # "cnf"
    <3>1. /\ wpc = "post" /\ wpc' = "signal"
          /\ UNCHANGED << IntransitHandles, intransitLocked, macPending,
                          wjob, wh, awaiting, txCall, ifUp >>
      BY <1>10, <2>2, Zenon DEF RmFrame
    <3>2. Confirming = {} /\ Confirming' = {}
      BY <2>2, <3>1 DEF Confirming
    <3> QED
      BY <1>0, <3>1, <3>2, RestSameConfirm DEF WorkerInv
  <2> QED
    BY <2>1, <2>2
<1>11. CASE UNCHANGED vars
  BY <1>0, <1>11, RestUnchanged DEF vars
<1> QED
  BY <1>1, <1>2, <1>3, <1>4, <1>5, <1>6, <1>7, <1>8, <1>9, <1>10, <1>11
  DEF Next, StackStep, MainStep, WorkerStep


\* IInv holds in every reachable state.
LEMMA IInvariant == ASSUME Premises PROVE Spec => []IInv
<1>1. Init => IInv
  BY IInvInit
<1>2. IInv /\ [Next]_vars => IInv'
  <2> SUFFICES ASSUME IInv, [Next]_vars PROVE TypeOK' /\ Rest'
    BY DEF IInv, Rest
  <2>1. TypeOK'
    BY TypeStep DEF IInv
  <2>2. Rest'
    BY RestStep
  <2> QED
    BY <2>1, <2>2
<1> QED
  BY <1>1, <1>2, PTL DEF Spec

\* The in-transit table of otPlatRadioTransmit, handleDataConfirm and the
\* intransit_* helpers records exactly the data requests the co-processor
\* has yet to confirm plus the one whose confirm is being handled, each
\* in one slot, for every MSDU handle space and table size, as long as the
\* stack keeps fewer data frames awaiting transmit-done than the table has
\* slots and keeps its interface up and its role: so the handle search
\* after the uint8_t counter wraps never reuses a live handle,
\* intransit_getFrame always finds the confirmed frame and putFrame never
\* overflows.
THEOREM IntransitHolds ==
    ASSUME Premises PROVE Spec => []IntransitMatchesRequests
<1>1. IInv => IntransitMatchesRequests
  BY DEF IInv, TableInv
<1> QED
  BY <1>1, IInvariant, PTL


\* Under the same conditions intransit_putFrame never takes its -1 path,
\* so intransit_mutex is never left locked: the overflow run shows that
\* with as many frames in flight as slots it is.
THEOREM IntransitMutexFreeHolds ==
    ASSUME Premises PROVE Spec => []IntransitMutexFree
<1>1. IInv => IntransitMutexFree
  BY DEF IInv, TableInv, IntransitMutexFree
<1> QED
  BY <1>1, IInvariant, PTL

=============================================================================
