---------------------------- MODULE DevicesProofs ----------------------------
(***************************************************************************)
(* Proofs about Devices for every address set, table and cache capacity,  *)
(* frame-counter bound and key-sequence modulus.                          *)
(*                                                                         *)
(* The refresh of deviceCache_cacheDevices is a recursive function over    *)
(* the table slots (StagedFn).  TLAPS reads it as a CHOOSE of a function  *)
(* satisfying its defining equation, so the first thing to prove is that  *)
(* such a function exists; both that and its type are shown by taking the *)
(* least counterexample (WFMin on the naturals) rather than with the       *)
(* library's induction theorems, which take an operator parameter.        *)
(***************************************************************************)
EXTENDS Devices, WellFoundedInduction, FiniteSetTheorems, TLAPS

-----------------------------------------------------------------------------
(* Types of the refresh's intermediate states.                            *)

\* The addresses a slot or a cache entry can hold: memset zero, or a
\* neighbour's address in MAC byte order.
AddrT == {ZeroAddr} \cup {Flip(a) : a \in Addrs}

\* A co-processor device-table slot as read by MLME_GET_request_sync.
SlotT == [addr : AddrT, fc : FcVals]

\* A cache entry while the refresh runs: isActive may be 2 (just seen).
StagedEntryT == [st : {0, 1, 2}, addr : AddrT, fc : FcVals, tfc : FcVals]

\* The cache and the overflow flag while the refresh runs.
StageT == [c : [Entries -> StagedEntryT], ovf : BOOLEAN]

\* The defining equation of StagedFn(s0, tbl, n).
StagedEq(g, s0, tbl, n) ==
    g = [i \in 0 .. n |-> IF i = 0 THEN s0 ELSE PutDevice(g[i - 1], tbl[i])]

-----------------------------------------------------------------------------
(* The least element of a non-empty set of naturals.                      *)

\* Every non-empty set of naturals has a least element, and Min (of
\* FiniteSetsExt) is it.
LEMMA MinOfNats ==
    ASSUME NEW S \in SUBSET Nat, S # {}
    PROVE  Min(S) \in S /\ \A y \in S : Min(S) <= y
<1>1. \E x \in S : \A y \in S : ~(<<y, x>> \in OpToRel(<, Nat))
  BY WFMin, NatLessThanWellFounded
<1>2. \E x \in S : \A y \in S : x <= y
  <2>1. PICK x \in S : \A y \in S : ~(<<y, x>> \in OpToRel(<, Nat))
    BY <1>1
  <2>2. ASSUME NEW y \in S PROVE x <= y
    <3>1. ~(<<y, x>> \in OpToRel(<, Nat))
      BY <2>1
    <3>2. ~(y < x)
      BY <3>1 DEF OpToRel
    <3> QED
      BY <3>2
  <2> QED
    BY <2>2
<1> QED
  BY <1>2 DEF Min

-----------------------------------------------------------------------------
(* deviceCache_getCachedDevice and the refresh loop.                      *)

\* Putting one slot into a staged cache keeps it a staged cache.
LEMMA PutDeviceType ==
    ASSUME NEW s \in StageT, NEW d \in SlotT
    PROVE  PutDevice(s, d) \in StageT
<1> DEFINE match == {j \in Entries : s.c[j].st # 0 /\ s.c[j].addr = d.addr}
           free == {j \in Entries : s.c[j].st = 0}
<1>0. /\ s.c \in [Entries -> StagedEntryT] /\ s.ovf \in BOOLEAN
      /\ d.addr \in AddrT /\ d.fc \in FcVals
  BY DEF StageT, SlotT
<1>1. CASE match # {}
  <2> DEFINE m == Min(match)
             e == [s.c[m] EXCEPT !.fc = d.fc, !.st = 2]
  <2>1. m \in Entries
    BY <1>1, MinOfNats DEF Entries
  <2>2. e \in StagedEntryT
    BY <1>0, <2>1 DEF StagedEntryT
  <2>3. PutDevice(s, d) = [s EXCEPT !.c = [s.c EXCEPT ![m] = e]]
    BY <1>1 DEF PutDevice
  <2> QED
    BY <1>0, <2>1, <2>2, <2>3 DEF StageT
<1>2. CASE match = {} /\ free # {}
  <2> DEFINE m == Min(free)
             e == [st |-> 2, addr |-> d.addr, fc |-> d.fc, tfc |-> 0]
  <2>1. m \in Entries
    BY <1>2, MinOfNats DEF Entries
  <2>2. e \in StagedEntryT
    <3>1. 0 \in FcVals
      BY DevicesAssumption DEF FcVals
    <3> QED
      BY <1>0, <3>1 DEF StagedEntryT
  <2>3. PutDevice(s, d) = [s EXCEPT !.c = [s.c EXCEPT ![m] = e]]
    BY <1>2 DEF PutDevice
  <2> QED
    BY <1>0, <2>1, <2>2, <2>3 DEF StageT
<1>3. CASE match = {} /\ free = {}
  BY <1>3 DEF PutDevice, StageT
<1> QED
  BY <1>1, <1>2, <1>3

\* For every length there is a function satisfying the loop's equation:
\* the least length without one would extend the one of its predecessor.
LEMMA StagedExists ==
    ASSUME NEW s0, NEW tbl, NEW n \in Nat
    PROVE  \E g : StagedEq(g, s0, tbl, n)
<1> DEFINE Bad == {m \in Nat : ~\E g : StagedEq(g, s0, tbl, m)}
<1> SUFFICES Bad = {}
  BY DEF StagedEq
<1>1. SUFFICES ASSUME Bad # {} PROVE FALSE
  OBVIOUS
<1>2. PICK m \in Bad : \A k \in Bad : m <= k
  BY <1>1, MinOfNats
<1>3. CASE m = 0
  <2>1. StagedEq([i \in 0 .. 0 |-> s0], s0, tbl, 0)
    BY DEF StagedEq
  <2> QED
    BY <1>3, <2>1
<1>4. CASE m # 0
  <2>1. m - 1 \in Nat /\ m - 1 \notin Bad
    BY <1>2, <1>4
  <2>2. PICK h : StagedEq(h, s0, tbl, m - 1)
    BY <2>1
  <2> DEFINE g == [i \in 0 .. m |->
                     IF i = 0 THEN s0 ELSE PutDevice(h[i - 1], tbl[i])]
  <2>3. \A i \in 0 .. m - 1 : g[i] = h[i]
    BY <2>2, <1>4 DEF StagedEq
  <2>0. m \in Nat
    BY <1>2, Zenon
  <2>4. StagedEq(g, s0, tbl, m)
    <3>1. ASSUME NEW i \in 1 .. m PROVE h[i - 1] = g[i - 1]
      <4>1. i - 1 \in 0 .. m - 1
        BY <2>0
      <4> QED
        BY <4>1, <2>3
    <3>2. ASSUME NEW i \in 0 .. m
          PROVE  g[i] = IF i = 0 THEN s0 ELSE PutDevice(g[i - 1], tbl[i])
      <4>1. CASE i = 0
        BY <4>1
      <4>2. CASE i # 0
        <5>1. i \in 1 .. m
          BY <4>2, <2>0
        <5>2. g[i] = PutDevice(h[i - 1], tbl[i])
          BY <4>2
        <5> QED
          BY <5>1, <5>2, <3>1, <4>2
      <4> QED
        BY <4>1, <4>2
    <3> QED
      BY <3>2 DEF StagedEq
  <2> QED
    BY <2>4, <1>2
<1> QED
  BY <1>3, <1>4

\* StagedFn satisfies its defining equation.
LEMMA StagedFnEq ==
    ASSUME NEW s0, NEW tbl, NEW n \in Nat
    PROVE  StagedEq(StagedFn(s0, tbl, n), s0, tbl, n)
<1>1. \E g : StagedEq(g, s0, tbl, n)
  BY StagedExists
<1> QED
  BY <1>1, Zenon DEF StagedFn, StagedEq

\* Every intermediate state of the loop is a staged cache, when the loop
\* starts from one and reads slots of the device table's type.
LEMMA StagedType ==
    ASSUME NEW s0 \in StageT, NEW tbl, NEW n \in Nat,
           \A i \in 1 .. n : tbl[i] \in SlotT
    PROVE  \A i \in 0 .. n : StagedFn(s0, tbl, n)[i] \in StageT
<1> DEFINE f == StagedFn(s0, tbl, n)
           Bad == {i \in 0 .. n : f[i] \notin StageT}
<1>0. StagedEq(f, s0, tbl, n)
  BY StagedFnEq
<1> SUFFICES Bad = {}
  OBVIOUS
<1>1. SUFFICES ASSUME Bad # {} PROVE FALSE
  OBVIOUS
<1>2. PICK m \in Bad : \A k \in Bad : m <= k
  <2>1. Bad \in SUBSET Nat
    OBVIOUS
  <2> QED
    BY <1>1, <2>1, MinOfNats
<1>3. CASE m = 0
  BY <1>0, <1>2, <1>3 DEF StagedEq
<1>4. CASE m # 0
  <2>1. m - 1 \in 0 .. n /\ m - 1 \notin Bad
    BY <1>2, <1>4
  <2>2. f[m - 1] \in StageT /\ tbl[m] \in SlotT
    BY <2>1, <1>2, <1>4
  <2>3. f[m] = PutDevice(f[m - 1], tbl[m])
    BY <1>0, <1>2, <1>4 DEF StagedEq
  <2>4. f[m] \in StageT
    BY <2>2, <2>3, PutDeviceType
  <2> QED
    BY <2>4, <1>2
<1> QED
  BY <1>3, <1>4

-----------------------------------------------------------------------------
(* The refresh and the query.                                              *)

\* A cache entry outside the refresh: isActive is 0 or 1.
CacheEntryT == [st : {0, 1}, addr : AddrT, fc : FcVals, tfc : FcVals]

\* The byte-order flip undoes itself on every address an entry can hold.
LEMMA FlipFlip ==
    ASSUME NEW x \in AddrT PROVE Flip(Flip(x)) = x
<1>1. CASE x = ZeroAddr
  BY <1>1 DEF Flip, ZeroAddr
<1>2. CASE x \in {Flip(a) : a \in Addrs}
  <2>1. PICK a \in Addrs : x = Flip(a)
    BY <1>2
  <2>2. a \in (1 .. 255) \X (1 .. 255)
    BY DevicesAssumption
  <2> QED
    BY <2>1, <2>2 DEF Flip
<1> QED
  BY <1>1, <1>2 DEF AddrT

\* The second phase of deviceCache_cacheDevices turns a staged entry into
\* a cache entry: 1 is dropped, 2 becomes 1, 0 stays.
LEMMA PromoteType ==
    ASSUME NEW e \in StagedEntryT
    PROVE  (CASE e.st = 1 -> EmptyEntry
              [] e.st = 2 -> [e EXCEPT !.st = 1]
              [] OTHER -> e) \in CacheEntryT
<1>0. 0 \in FcVals
  BY DevicesAssumption DEF FcVals
<1>5. 0 # 1 /\ 2 # 1 /\ 0 # 2
  OBVIOUS
<1>1. CASE e.st = 1
  <2>1. (CASE e.st = 1 -> EmptyEntry
           [] e.st = 2 -> [e EXCEPT !.st = 1]
           [] OTHER -> e) = EmptyEntry
    BY <1>1, <1>5, Zenon
  <2> QED
    BY <2>1, <1>0 DEF EmptyEntry, CacheEntryT, AddrT
<1>2. CASE e.st = 2
  <2>1. (CASE e.st = 1 -> EmptyEntry
           [] e.st = 2 -> [e EXCEPT !.st = 1]
           [] OTHER -> e) = [e EXCEPT !.st = 1]
    BY <1>2, <1>5, Zenon
  <2> QED
    BY <2>1 DEF StagedEntryT, CacheEntryT
<1>3. CASE e.st = 0
  <2>1. (CASE e.st = 1 -> EmptyEntry
           [] e.st = 2 -> [e EXCEPT !.st = 1]
           [] OTHER -> e) = e
    BY <1>3, <1>5, Zenon
  <2> QED
    BY <2>1, <1>3 DEF StagedEntryT, CacheEntryT
<1> QED
  BY <1>1, <1>2, <1>3 DEF StagedEntryT

\* In a well-typed state the refresh yields a cache of the cache's type.
LEMMA RefreshedType ==
    ASSUME TypeOK
    PROVE  Refreshed \in [c : [Entries -> CacheEntryT], ovf : BOOLEAN]
<1> DEFINE s0 == [c |-> cache, ovf |-> overflow]
           s == StagedFn(s0, table, dcount)[dcount]
<1>1. s0 \in StageT
  BY DEF TypeOK, StageT, StagedEntryT, AddrT
<1>2. dcount \in Nat /\ \A i \in 1 .. dcount : table[i] \in SlotT
  <2>1. TableCap \in Nat
    BY DevicesAssumption
  <2> QED
    BY <2>1 DEF TypeOK, SlotT, AddrT, Slots
<1>3. s \in StageT
  BY <1>1, <1>2, StagedType
<1>4. \A j \in Entries :
         (CASE s.c[j].st = 1 -> EmptyEntry
            [] s.c[j].st = 2 -> [s.c[j] EXCEPT !.st = 1]
            [] OTHER -> s.c[j]) \in CacheEntryT
  BY <1>3, PromoteType DEF StageT
<1> QED
  BY <1>3, <1>4 DEF Refreshed, StageT

-----------------------------------------------------------------------------
(* Type correctness.                                                       *)

\* The constants as the arithmetic below needs them.
LEMMA ConstFacts ==
    /\ TableCap \in Nat /\ CacheSize \in Nat /\ MaxFc \in Nat
    /\ KeySeqMod \in Nat /\ KeySeqMod > 3
  BY DevicesAssumption

\* The neighbour list is a sequence of at most TableCap + 1 addresses.
LEMMA NbrsLen ==
    ASSUME TypeOK
    PROVE  /\ Len(nbrs) \in 0 .. TableCap + 1
           /\ DOMAIN nbrs = 1 .. Len(nbrs)
           /\ \A k \in 1 .. Len(nbrs) : nbrs[k] \in Addrs
<1>1. PICK L \in 0 .. TableCap + 1 : nbrs \in [1 .. L -> Addrs]
  BY DEF TypeOK
<1>2. nbrs \in Seq(Addrs) /\ Len(nbrs) = L
  BY <1>1, ConstFacts
<1> QED
  BY <1>1, <1>2

\* keyChangeCallback writes at most TableCap descriptors, each a neighbour
\* in MAC byte order with counter 0, and key sequences within the
\* counter's range.
LEMMA KeyChangeType ==
    ASSUME TypeOK, KeyChange PROVE TypeOK'
<1> DEFINE M == Min({Len(nbrs), TableCap})
           seq == IF keySeq = 0 THEN 2 ELSE keySeq
<1>1. M \in {Len(nbrs), TableCap} /\ M <= Len(nbrs) /\ M <= TableCap
  <2>1. {Len(nbrs), TableCap} \in SUBSET Nat
    BY NbrsLen, ConstFacts
  <2> QED
    BY <2>1, MinOfNats
<1>2. M \in 0 .. TableCap
  BY <1>1, NbrsLen, ConstFacts
<1>3. /\ Written = [k \in 1 .. M |-> [addr |-> Flip(nbrs[k]), fc |-> 0]]
      /\ Len(Written) = M
  BY <1>2 DEF Written
<1>4. \A k \in 1 .. M : Written[k] \in SlotT
  <2> SUFFICES ASSUME NEW k \in 1 .. M PROVE Written[k] \in SlotT
    OBVIOUS
  <2>1. 0 \in FcVals
    BY ConstFacts DEF FcVals
  <2>2. nbrs[k] \in Addrs
    BY <1>1, NbrsLen, ConstFacts
  <2>3. Flip(nbrs[k]) \in AddrT
    BY <2>2 DEF AddrT
  <2> QED
    BY <1>3, <2>1, <2>3 DEF SlotT
<1>5. /\ keySeq' = seq /\ dcount' = M /\ pending' = FALSE
      /\ UNCHANGED << nbrs, cache, overflow, answer, queried, lastQ >>
  BY <1>3, Zenon DEF KeyChange
<1>6. PICK failed \in IF AllowSetFail THEN SUBSET (1 .. M + 1) ELSE {{}} :
         /\ table' = [i \in Slots |->
                        IF i <= M /\ i \notin failed THEN Written[i]
                        ELSE table[i]]
         /\ keys' = IF M + 1 \in failed THEN keys ELSE Generations(seq)
  BY <1>3, Zenon DEF KeyChange
<1>7. table' \in [Slots -> SlotT]
  <2>1. table \in [Slots -> SlotT]
    BY DEF TypeOK, SlotT, AddrT
  <2>2. ASSUME NEW i \in Slots
        PROVE  (IF i <= M /\ i \notin failed THEN Written[i] ELSE table[i])
                  \in SlotT
    <3>1. CASE i <= M /\ i \notin failed
      <4>1. i \in 1 .. M
        BY <3>1, <1>2 DEF Slots
      <4> QED
        BY <3>1, <4>1, <1>4
    <3>2. CASE ~(i <= M /\ i \notin failed)
      BY <3>2, <2>1
    <3> QED
      BY <3>1, <3>2
  <2> QED
    BY <1>6, <2>2
<1>8. keys' \subseteq 0 .. KeySeqMod - 1 /\ keySeq' \in 0 .. KeySeqMod - 1
  <2>1. seq \in 0 .. KeySeqMod - 1
    BY ConstFacts DEF TypeOK
  <2>2. Generations(seq) \subseteq 0 .. KeySeqMod - 1
    BY <2>1, ConstFacts DEF Generations
  <2> QED
    BY <1>5, <1>6, <2>1, <2>2 DEF TypeOK
<1> QED
  BY <1>2, <1>5, <1>7, <1>8 DEF TypeOK, SlotT, AddrT

\* otPlatRadioIsDeviceActive leaves a cache of the cache's type, and the
\* counter it records for the queried device is one the cache held.
LEMMA QueryType ==
    ASSUME TypeOK, NEW a \in Addrs, IsDeviceActive(a) PROVE TypeOK'
<1> DEFINE r == Refreshed
           hit == {j \in Entries : r.c[j].st # 0 /\ r.c[j].addr = Flip(a)}
           j == Min(hit)
           inCache == {Flip(r.c[k].addr) :
                         k \in {k \in Entries : r.c[k].st # 0}}
<1>1. r \in [c : [Entries -> CacheEntryT], ovf : BOOLEAN]
  BY RefreshedType
<1>2. hit # {} => j \in hit
  <2>1. hit \in SUBSET Nat
    BY DEF Entries
  <2> QED
    BY <2>1, MinOfNats
<1>3. a \in inCache => hit # {}
  <2> SUFFICES ASSUME a \in inCache PROVE hit # {}
    OBVIOUS
  <2>1. PICK k \in Entries : r.c[k].st # 0 /\ a = Flip(r.c[k].addr)
    OBVIOUS
  <2>2. r.c[k].addr \in AddrT
    BY <1>1 DEF CacheEntryT
  <2>3. Flip(a) = r.c[k].addr
    BY <2>1, <2>2, FlipFlip
  <2> QED
    BY <2>1, <2>3
<1>4. /\ overflow' = r.ovf
      /\ cache' \in {r.c, [r.c EXCEPT ![j].tfc = r.c[j].fc]}
      /\ (cache' # r.c => hit # {})
      /\ answer' \in {0, 1}
      /\ lastQ' = [b \in Addrs |->
                     IF b \notin inCache THEN -1
                     ELSE IF b = a THEN r.c[j].fc ELSE lastQ[b]]
      /\ queried' = <<a, 1 - queried[2]>>
      /\ UNCHANGED << nbrs, keySeq, pending, table, dcount, keys >>
  BY DEF IsDeviceActive
<1>5. cache' \in [Entries -> CacheEntryT]
  BY <1>1, <1>2, <1>4 DEF CacheEntryT
<1>6. lastQ' \in [Addrs -> {-1} \cup FcVals]
  <2> SUFFICES ASSUME NEW b \in Addrs, b \in inCache, b = a
               PROVE  r.c[j].fc \in FcVals
    BY <1>4 DEF TypeOK
  <2> QED
    BY <1>1, <1>2, <1>3 DEF CacheEntryT
<1>7. queried' \in ({ZeroAddr} \cup Addrs) \X {0, 1}
  <2>1. queried[2] \in {0, 1}
    BY DEF TypeOK
  <2>2. 1 - queried[2] \in {0, 1}
    BY <2>1
  <2> QED
    BY <1>4, <2>2
<1>8. cache' \in [Entries -> [st : {0, 1},
                              addr : {ZeroAddr} \cup {Flip(b) : b \in Addrs},
                              fc : FcVals, tfc : FcVals]]
  BY <1>5 DEF CacheEntryT, AddrT
<1> QED
  BY <1>1, <1>4, <1>6, <1>7, <1>8 DEF TypeOK

\* The initial state is well typed.
LEMMA TypeInit == Init => TypeOK
<1> SUFFICES ASSUME Init PROVE TypeOK
  OBVIOUS
<1>1. 0 \in FcVals /\ 0 \in 0 .. KeySeqMod - 1
  BY ConstFacts DEF FcVals
<1>2. nbrs \in UNION {[1 .. n -> Addrs] : n \in 0 .. TableCap + 1}
  <2>1. nbrs \in [1 .. 0 -> Addrs] /\ 0 \in 0 .. TableCap + 1
    BY ConstFacts DEF Init
  <2> QED
    BY <2>1
<1>3. queried \in ({ZeroAddr} \cup Addrs) \X {0, 1}
  BY DEF Init
<1>4. cache \in [Entries -> [st : {0, 1},
                             addr : {ZeroAddr} \cup {Flip(b) : b \in Addrs},
                             fc : FcVals, tfc : FcVals]]
  BY <1>1 DEF Init, EmptyEntry
<1>5. table \in [Slots -> [addr : {ZeroAddr} \cup {Flip(b) : b \in Addrs},
                           fc : FcVals]]
  BY <1>1 DEF Init
<1>6. pending \in BOOLEAN /\ overflow \in BOOLEAN
  BY Zenon DEF Init
<1>7. /\ keySeq \in 0 .. KeySeqMod - 1 /\ keys \subseteq 0 .. KeySeqMod - 1
      /\ dcount \in 0 .. TableCap /\ answer \in {0, 1}
      /\ lastQ \in [Addrs -> {-1} \cup FcVals]
  BY <1>1, ConstFacts DEF Init
<1> QED
  BY <1>2, <1>3, <1>4, <1>5, <1>6, <1>7 DEF TypeOK

\* No step of the stack, the co-processor or the platform takes a variable
\* out of its type.
LEMMA TypeStep == TypeOK /\ [Next]_vars => TypeOK'
<1> SUFFICES ASSUME TypeOK, [Next]_vars PROVE TypeOK'
  OBVIOUS
<1>1. CASE NeighboursChange
  BY <1>1 DEF NeighboursChange, TypeOK
<1>2. CASE KeySequenceAdvance
  BY <1>2, ConstFacts DEF KeySequenceAdvance, TypeOK
<1>3. ASSUME NEW i \in Slots, DeviceFrame(i) PROVE TypeOK'
  BY <1>3, ConstFacts DEF DeviceFrame, TypeOK, FcVals
<1>4. CASE KeyChange
  BY <1>4, KeyChangeType
<1>5. ASSUME NEW a \in Addrs, IsDeviceActive(a) PROVE TypeOK'
  BY <1>5, QueryType
<1>6. CASE UNCHANGED vars
  BY <1>6 DEF vars, TypeOK
<1> QED
  BY <1>1, <1>2, <1>3, <1>4, <1>5, <1>6 DEF Next

\* The cache refresh of deviceCache_cacheDevices, driven by the
\* co-processor's device table as keyChangeCallback last wrote it, never
\* leaves an entry with an isActive other than 0 or 1, an address that is
\* neither memset zero nor a neighbour's, or a counter out of range; the
\* key sequence and the stored key generations stay within the counter's
\* modulus: for every address set, table and cache capacity, counter
\* bound and modulus.
THEOREM DevicesTypeCorrect == Spec => []TypeOK
  BY TypeInit, TypeStep, PTL DEF Spec

-----------------------------------------------------------------------------
(* The cache never overflows when it has room for two tables.            *)
(*                                                                         *)
(* A refresh stages every slot it reads (isActive 2) before it drops the  *)
(* entries no slot named, so while it runs the cache holds the old live   *)
(* entries and the new ones together.  After a refresh only the staged    *)
(* entries are left, at most sCurDeviceTableSize <= TableCap of them; the *)
(* next refresh adds at most TableCap more.                               *)

\* The entries in use (isActive # 0) and those staged by the current
\* refresh (isActive = 2).
Used(c) == {j \in Entries : c[j].st # 0}
Seen(c) == {j \in Entries : c[j].st = 2}

\* Subsets of the cache are finite and no larger than it; one as large as
\* the cache is all of it.
LEMMA EntriesSubset ==
    ASSUME NEW S \in SUBSET Entries
    PROVE  /\ IsFiniteSet(S) /\ Cardinality(S) \in 0 .. CacheSize
           /\ Cardinality(S) = CacheSize => S = Entries
<1>1. IsFiniteSet(Entries) /\ Cardinality(Entries) = CacheSize
  BY ConstFacts, FS_Interval DEF Entries
<1>2. IsFiniteSet(S) /\ Cardinality(S) <= CacheSize
      /\ (CacheSize = Cardinality(S) => Entries = S)
  BY <1>1, FS_Subset
<1>3. Cardinality(S) \in Nat
  BY <1>2, FS_CardinalityType
<1> QED
  BY <1>2, <1>3

\* Adding one entry adds at most one to the count.
LEMMA CardAddOne ==
    ASSUME NEW S \in SUBSET Entries, NEW k \in Entries
    PROVE  Cardinality(S \cup {k}) <= Cardinality(S) + 1
<1>1. IsFiniteSet(S)
  BY EntriesSubset
<1>2. Cardinality(S \cup {k}) \in {Cardinality(S), Cardinality(S) + 1}
  BY <1>1, FS_AddElement
<1>3. Cardinality(S) \in Nat
  BY EntriesSubset
<1> QED
  BY <1>2, <1>3

\* The count of a union is at most the sum of the counts.
LEMMA CardUnion ==
    ASSUME NEW A \in SUBSET Entries, NEW B \in SUBSET Entries
    PROVE  Cardinality(A \cup B) <= Cardinality(A) + Cardinality(B)
<1>1. IsFiniteSet(A) /\ IsFiniteSet(B)
  BY EntriesSubset
<1>2. Cardinality(A \cup B) =
        Cardinality(A) + Cardinality(B) - Cardinality(A \cap B)
  BY <1>1, FS_Union
<1>3. /\ Cardinality(A) \in Nat /\ Cardinality(B) \in Nat
      /\ Cardinality(A \cap B) \in Nat
  <2>1. A \cap B \in SUBSET Entries
    OBVIOUS
  <2> QED
    BY <2>1, EntriesSubset
<1> QED
  BY <1>2, <1>3

\* A subset has at most the count of its superset.
LEMMA CardMono ==
    ASSUME NEW A \in SUBSET Entries, NEW B \in SUBSET Entries, A \subseteq B
    PROVE  Cardinality(A) <= Cardinality(B)
  BY EntriesSubset, FS_Subset

\* deviceCache_getCachedDevice followed by isActive = 2 either claims one
\* entry, which is then in use and staged, or, only when every entry is
\* in use, writes past the array, which sets the overflow flag, and leaves
\* the cache as it was.
LEMMA PutDeviceEffect ==
    ASSUME NEW s \in StageT, NEW d \in SlotT
    PROVE  \/ /\ PutDevice(s, d).ovf = s.ovf
              /\ \E k \in Entries :
                    /\ Used(PutDevice(s, d).c) = Used(s.c) \cup {k}
                    /\ Seen(PutDevice(s, d).c) = Seen(s.c) \cup {k}
           \/ /\ PutDevice(s, d).c = s.c
              /\ PutDevice(s, d).ovf = TRUE
              /\ Used(s.c) = Entries
<1> DEFINE match == {j \in Entries : s.c[j].st # 0 /\ s.c[j].addr = d.addr}
           free == {j \in Entries : s.c[j].st = 0}
<1>0. s.c \in [Entries -> StagedEntryT]
  BY DEF StageT
<1>1. CASE match # {}
  <2> DEFINE m == Min(match)
  <2>1. m \in match
    BY <1>1, MinOfNats DEF Entries
  <2>2. PutDevice(s, d) =
          [s EXCEPT !.c = [s.c EXCEPT ![m] = [s.c[m] EXCEPT !.fc = d.fc,
                                                          !.st = 2]]]
    BY <1>1 DEF PutDevice
  <2>3. m \in Entries /\ s.c[m] \in StagedEntryT
    BY <1>0, <2>1
  <2>4. \A j \in Entries :
          PutDevice(s, d).c[j].st = IF j = m THEN 2 ELSE s.c[j].st
    BY <1>0, <2>2, <2>3 DEF StagedEntryT
  <2>5. /\ Used(PutDevice(s, d).c) = Used(s.c) \cup {m}
        /\ Seen(PutDevice(s, d).c) = Seen(s.c) \cup {m}
    <3> DEFINE c2 == PutDevice(s, d).c
    <3>1. \A j \in Entries : j \in Used(c2) <=> j \in Used(s.c) \cup {m}
      BY <2>3, <2>4 DEF Used
    <3>2. \A j \in Entries : j \in Seen(c2) <=> j \in Seen(s.c) \cup {m}
      BY <2>3, <2>4 DEF Seen
    <3>3. /\ Used(c2) \subseteq Entries /\ Used(s.c) \cup {m} \subseteq Entries
          /\ Seen(c2) \subseteq Entries /\ Seen(s.c) \cup {m} \subseteq Entries
      BY <2>3 DEF Used, Seen
    <3> QED
      BY <3>1, <3>2, <3>3
  <2>6. PutDevice(s, d).ovf = s.ovf
    BY <2>2
  <2> QED
    BY <2>3, <2>5, <2>6
<1>2. CASE match = {} /\ free # {}
  <2> DEFINE m == Min(free)
  <2>1. m \in free
    BY <1>2, MinOfNats DEF Entries
  <2>2. PutDevice(s, d) =
          [s EXCEPT !.c = [s.c EXCEPT ![m] = [st |-> 2, addr |-> d.addr,
                                              fc |-> d.fc, tfc |-> 0]]]
    BY <1>2 DEF PutDevice
  <2>3. /\ Used(PutDevice(s, d).c) = Used(s.c) \cup {m}
        /\ Seen(PutDevice(s, d).c) = Seen(s.c) \cup {m}
        /\ PutDevice(s, d).ovf = s.ovf
    BY <1>0, <2>1, <2>2 DEF Used, Seen, StageT
  <2> QED
    BY <2>1, <2>3
<1>3. CASE match = {} /\ free = {}
  <2>1. PutDevice(s, d) = [s EXCEPT !.ovf = TRUE]
    BY <1>3 DEF PutDevice
  <2>2. Used(s.c) = Entries
    BY <1>3 DEF Used
  <2> QED
    BY <2>1, <2>2 DEF StageT
<1> QED
  BY <1>1, <1>2, <1>3

\* The cache has CacheSize entries.
LEMMA EntriesCard ==
    IsFiniteSet(Entries) /\ Cardinality(Entries) = CacheSize
  BY ConstFacts, FS_Interval DEF Entries

\* What the loop of deviceCache_cacheDevices keeps true after reading i
\* slots from s0: every entry in use was in use before or was staged by
\* the loop, the loop staged at most i entries, and it has not written
\* past the array while the entries in use before and i fit.
FoldInv(s0, f, i) ==
    /\ Used(f[i].c) \subseteq Used(s0.c) \cup Seen(f[i].c)
    /\ Cardinality(Seen(f[i].c)) <= i
    /\ Cardinality(Used(s0.c)) + i <= CacheSize => f[i].ovf = s0.ovf

\* The loop keeps FoldInv from a cache with no staged entry.
LEMMA StagedCount ==
    ASSUME NEW s0 \in StageT, Seen(s0.c) = {}, NEW tbl, NEW n \in Nat,
           \A i \in 1 .. n : tbl[i] \in SlotT
    PROVE  \A i \in 0 .. n : FoldInv(s0, StagedFn(s0, tbl, n), i)
<1> DEFINE f == StagedFn(s0, tbl, n)
           Bad == {i \in 0 .. n : ~FoldInv(s0, f, i)}
           U0 == Used(s0.c)
<1>0. /\ StagedEq(f, s0, tbl, n)
      /\ \A i \in 0 .. n : f[i] \in StageT
      /\ U0 \in SUBSET Entries /\ Cardinality(U0) \in Nat
  BY StagedFnEq, StagedType, EntriesSubset DEF Used
<1> SUFFICES Bad = {}
  OBVIOUS
<1>1. SUFFICES ASSUME Bad # {} PROVE FALSE
  OBVIOUS
<1>2. PICK m \in Bad : \A k \in Bad : m <= k
  <2>1. Bad \in SUBSET Nat
    OBVIOUS
  <2> QED
    BY <1>1, <2>1, MinOfNats
<1>3. CASE m = 0
  <2>1. f[0] = s0
    BY <1>0 DEF StagedEq
  <2>2. Cardinality(Seen(s0.c)) = 0
    BY FS_EmptySet
  <2> QED
    BY <1>2, <1>3, <2>1, <2>2 DEF FoldInv
<1>4. CASE m # 0
  <2> DEFINE g == f[m - 1]
             h == f[m]
  <2>0. m \in 1 .. n
    BY <1>2, <1>4
  <2>9. CacheSize \in Nat /\ Cardinality(U0) \in Nat
    BY ConstFacts, <1>0
  <2>1. FoldInv(s0, f, m - 1)
    <3>1. m - 1 \in 0 .. n /\ m - 1 \notin Bad
      BY <1>2, <1>4
    <3> QED
      BY <3>1
  <2>6. Used(g.c) \subseteq U0 \cup Seen(g.c)
    BY <2>1 DEF FoldInv
  <2>7. Cardinality(Seen(g.c)) <= m - 1
    BY <2>1 DEF FoldInv
  <2>8. Cardinality(U0) + (m - 1) <= CacheSize => g.ovf = s0.ovf
    BY <2>1 DEF FoldInv
  <2>2. g \in StageT /\ tbl[m] \in SlotT /\ h = PutDevice(g, tbl[m])
    BY <1>0, <2>0 DEF StagedEq
  <2>3. /\ Used(g.c) \in SUBSET Entries /\ Seen(g.c) \in SUBSET Entries
        /\ Cardinality(Seen(g.c)) \in Nat
    BY EntriesSubset DEF Used, Seen
  <2> SUFFICES /\ Used(h.c) \subseteq U0 \cup Seen(h.c)
               /\ Cardinality(Seen(h.c)) <= m
               /\ Cardinality(U0) + m <= CacheSize => h.ovf = s0.ovf
    BY <1>2, <2>0 DEF FoldInv
  <2>4. CASE /\ h.ovf = g.ovf
             /\ \E k \in Entries : /\ Used(h.c) = Used(g.c) \cup {k}
                                   /\ Seen(h.c) = Seen(g.c) \cup {k}
    <3>1. PICK k \in Entries : /\ Used(h.c) = Used(g.c) \cup {k}
                               /\ Seen(h.c) = Seen(g.c) \cup {k}
      BY <2>4
    <3>2. Used(h.c) \subseteq U0 \cup Seen(h.c)
      BY <2>6, <3>1
    <3>3. Cardinality(Seen(h.c)) <= m
      <4>1. Cardinality(Seen(g.c) \cup {k}) <= Cardinality(Seen(g.c)) + 1
        BY <2>3, CardAddOne
      <4>2. Cardinality(Seen(h.c)) = Cardinality(Seen(g.c) \cup {k})
        BY <3>1
      <4>3. /\ Cardinality(Seen(h.c)) \in Nat
            /\ Cardinality(Seen(g.c) \cup {k}) \in Nat
        <5>1. Seen(h.c) \in SUBSET Entries /\ Seen(g.c) \cup {k} \in SUBSET Entries
          BY DEF Seen
        <5> QED
          BY <5>1, EntriesSubset
      <4> QED
        BY <2>0, <2>7, <2>3, <2>9, <4>1, <4>2, <4>3
    <3>4. Cardinality(U0) + m <= CacheSize => h.ovf = s0.ovf
      BY <2>0, <2>8, <2>9, <2>4
    <3> QED
      BY <3>2, <3>3, <3>4
  <2>5. CASE h.c = g.c /\ Used(g.c) = Entries
    <3>1. Used(h.c) \subseteq U0 \cup Seen(h.c) /\ Cardinality(Seen(h.c)) <= m
      <4>1. Used(h.c) = Used(g.c) /\ Seen(h.c) = Seen(g.c)
        BY <2>5
      <4>2. Cardinality(Seen(h.c)) = Cardinality(Seen(g.c))
        BY <4>1
      <4>3. Cardinality(Seen(h.c)) \in Nat
        <5>1. Seen(h.c) \in SUBSET Entries
          BY DEF Seen
        <5> QED
          BY <5>1, EntriesSubset
      <4> QED
        BY <2>0, <2>6, <2>7, <2>3, <2>9, <4>1, <4>2, <4>3
    <3>2. Cardinality(U0) + m > CacheSize
      <4>1. Cardinality(Used(g.c)) <= Cardinality(U0 \cup Seen(g.c))
        BY <1>0, <2>6, <2>3, CardMono
      <4>2. Cardinality(U0 \cup Seen(g.c)) <=
              Cardinality(U0) + Cardinality(Seen(g.c))
        BY <1>0, <2>3, CardUnion
      <4>3. Cardinality(Used(g.c)) = CacheSize
        <5>1. Cardinality(Used(g.c)) = Cardinality(Entries)
          BY <2>5
        <5> QED
          BY <5>1, EntriesCard
      <4>4. Cardinality(Used(g.c)) \in Nat /\ Cardinality(U0 \cup Seen(g.c)) \in Nat
        <5>1. U0 \cup Seen(g.c) \in SUBSET Entries
          BY DEF Used, Seen
        <5> QED
          BY <2>3, <5>1, EntriesSubset
      <4> QED
        BY <2>0, <2>7, <2>3, <2>9, <4>1, <4>2, <4>3, <4>4
    <3> QED
      BY <2>0, <2>9, <3>1, <3>2
  <2>10. \/ /\ PutDevice(g, tbl[m]).ovf = g.ovf
            /\ \E k \in Entries :
                  /\ Used(PutDevice(g, tbl[m]).c) = Used(g.c) \cup {k}
                  /\ Seen(PutDevice(g, tbl[m]).c) = Seen(g.c) \cup {k}
         \/ /\ PutDevice(g, tbl[m]).c = g.c
            /\ Used(g.c) = Entries
    BY <2>2, PutDeviceEffect
  <2> QED
    BY <2>2, <2>4, <2>5, <2>10
<1> QED
  BY <1>3, <1>4

\* The state of the cache when the loop of deviceCache_cacheDevices has
\* read every slot of the device table, before the second phase.
RefreshStage ==
    StagedFn([c |-> cache, ovf |-> overflow], table, dcount)[dcount]

\* The second phase keeps in use exactly the entries the loop staged.
LEMMA PromoteUsed ==
    ASSUME NEW e \in StagedEntryT
    PROVE  (CASE e.st = 1 -> EmptyEntry
              [] e.st = 2 -> [e EXCEPT !.st = 1]
              [] OTHER -> e).st # 0 <=> e.st = 2
<1>5. 0 # 1 /\ 2 # 1 /\ 0 # 2
  OBVIOUS
<1>1. CASE e.st = 1
  <2>1. (CASE e.st = 1 -> EmptyEntry
           [] e.st = 2 -> [e EXCEPT !.st = 1]
           [] OTHER -> e) = EmptyEntry
    BY <1>1, <1>5, Zenon
  <2> QED
    BY <1>1, <2>1 DEF EmptyEntry
<1>2. CASE e.st = 2
  <2>1. (CASE e.st = 1 -> EmptyEntry
           [] e.st = 2 -> [e EXCEPT !.st = 1]
           [] OTHER -> e) = [e EXCEPT !.st = 1]
    BY <1>2, <1>5, Zenon
  <2> QED
    BY <1>2, <2>1 DEF StagedEntryT
<1>3. CASE e.st = 0
  <2>1. (CASE e.st = 1 -> EmptyEntry
           [] e.st = 2 -> [e EXCEPT !.st = 1]
           [] OTHER -> e) = e
    BY <1>3, <1>5, Zenon
  <2> QED
    BY <1>3, <2>1
<1> QED
  BY <1>1, <1>2, <1>3 DEF StagedEntryT

\* After a refresh the entries in use are the ones the loop staged, and
\* the overflow flag is the loop's.
LEMMA RefreshedUsed ==
    ASSUME TypeOK
    PROVE  /\ Used(Refreshed.c) = Seen(RefreshStage.c)
           /\ Refreshed.ovf = RefreshStage.ovf
<1> DEFINE s == RefreshStage
<1>1. s \in StageT
  <2>1. [c |-> cache, ovf |-> overflow] \in StageT
    BY DEF TypeOK, StageT, StagedEntryT, AddrT
  <2>2. dcount \in Nat /\ \A i \in 1 .. dcount : table[i] \in SlotT
    <3>1. TableCap \in Nat
      BY ConstFacts
    <3> QED
      BY <3>1 DEF TypeOK, SlotT, AddrT, Slots
  <2> QED
    BY <2>1, <2>2, StagedType DEF RefreshStage
<1>2. \A j \in Entries :
         (CASE s.c[j].st = 1 -> EmptyEntry
            [] s.c[j].st = 2 -> [s.c[j] EXCEPT !.st = 1]
            [] OTHER -> s.c[j]).st # 0 <=> s.c[j].st = 2
  BY <1>1, PromoteUsed DEF StageT
<1>3. \A j \in Entries : Refreshed.c[j].st # 0 <=> s.c[j].st = 2
  BY <1>2 DEF Refreshed, RefreshStage
<1>4. Used(Refreshed.c) = Seen(s.c)
  BY <1>3 DEF Used, Seen
<1>5. Refreshed.ovf = s.ovf
  BY DEF Refreshed, RefreshStage
<1> QED
  BY <1>4, <1>5

\* otPlatRadioIsDeviceActive leaves the entries in use and the overflow
\* flag as the refresh left them: its memcpy only touches a counter.
LEMMA QueryUsed ==
    ASSUME TypeOK, NEW a \in Addrs, IsDeviceActive(a)
    PROVE  overflow' = Refreshed.ovf /\ Used(cache') = Used(Refreshed.c)
<1> DEFINE r == Refreshed
           hit == {j \in Entries : r.c[j].st # 0 /\ r.c[j].addr = Flip(a)}
           j == Min(hit)
<1>1. r \in [c : [Entries -> CacheEntryT], ovf : BOOLEAN]
  BY RefreshedType
<1>2. /\ overflow' = r.ovf
      /\ cache' \in {r.c, [r.c EXCEPT ![j].tfc = r.c[j].fc]}
  BY DEF IsDeviceActive
<1>3. \A k \in Entries : cache'[k].st = r.c[k].st
  BY <1>1, <1>2 DEF CacheEntryT
<1> QED
  BY <1>2, <1>3 DEF Used

\* Once the loop has written past the array the flag stays set: if the
\* last stage has not overflowed, no stage has.
LEMMA OvfSticky ==
    ASSUME NEW s0 \in StageT, NEW tbl, NEW n \in Nat,
           \A i \in 1 .. n : tbl[i] \in SlotT,
           NEW f, f = StagedFn(s0, tbl, n), f[n].ovf = FALSE
    PROVE  \A i \in 0 .. n : f[i].ovf = FALSE
<1> DEFINE Bad == {k \in 0 .. n : f[n - k].ovf # FALSE}
<1>0. StagedEq(f, s0, tbl, n) /\ \A i \in 0 .. n : f[i] \in StageT
  BY StagedFnEq, StagedType
<1> SUFFICES Bad = {}
  <2> SUFFICES ASSUME Bad = {}, NEW i \in 0 .. n PROVE f[i].ovf = FALSE
    OBVIOUS
  <2>1. n - i \in 0 .. n /\ n - (n - i) = i
    OBVIOUS
  <2> QED
    BY <2>1
<1>1. SUFFICES ASSUME Bad # {} PROVE FALSE
  OBVIOUS
<1>2. PICK m \in Bad : \A k \in Bad : m <= k
  <2>1. Bad \subseteq 0 .. n
    BY Zenon
  <2>0. 0 .. n \subseteq Nat
    OBVIOUS
  <2>2. Bad \in SUBSET Nat
    BY <2>0, <2>1, Zenon
  <2> QED
    BY <1>1, <2>2, MinOfNats
<1>9. m \in 0 .. n /\ f[n - m].ovf # FALSE
  BY <1>2, Zenon
<1>3. m # 0
  <2> SUFFICES ASSUME m = 0 PROVE FALSE
    OBVIOUS
  <2>1. f[n - m].ovf # FALSE
    BY <1>9
  <2>2. n - m = n
    OBVIOUS
  <2> QED
    BY <2>1, <2>2
<1>4. m - 1 \in 0 .. n /\ m - 1 \notin Bad
  <2>1. m - 1 \in 0 .. n /\ ~(m <= m - 1)
    BY <1>9, <1>3
  <2> QED
    BY <1>2, <2>1
<1> DEFINE i == n - m
<1>5. i \in 0 .. n /\ i + 1 \in 1 .. n /\ n - (m - 1) = i + 1 /\ i + 1 - 1 = i
  BY <1>9, <1>3
<1>6. f[i + 1].ovf = FALSE
  <2>1. ~(f[n - (m - 1)].ovf # FALSE)
    BY <1>4, Zenon
  <2> QED
    BY <1>5, <2>1
<1>7. /\ f[i] \in StageT /\ f[i].ovf = TRUE /\ tbl[i + 1] \in SlotT
      /\ f[i + 1] = PutDevice(f[i], tbl[i + 1])
  <2>1. f[i] \in StageT /\ f[i].ovf # FALSE
    BY <1>0, <1>9, <1>5
  <2>2. f[i + 1] = PutDevice(f[i + 1 - 1], tbl[i + 1])
    BY <1>0, <1>5 DEF StagedEq
  <2> QED
    BY <1>5, <2>1, <2>2 DEF StageT
<1>8. PutDevice(f[i], tbl[i + 1]).ovf = TRUE
  BY <1>7, PutDeviceEffect
<1> QED
  BY <1>6, <1>7, <1>8

-----------------------------------------------------------------------------
(* When the refresh writes past the array.                                *)

\* The step of OverflowOnlyWhenFull.
OvfBody ==
    ~overflow /\ overflow' =>
       Cardinality({j \in Entries : cache[j].st # 0}) + dcount > CacheSize

\* Only otPlatRadioIsDeviceActive sets the flag, and its loop writes past
\* the array only when the live entries and the slots it reads do not fit.
LEMMA OvfBodyStep == TypeOK /\ [Next]_vars => [OvfBody]_vars
<1> SUFFICES ASSUME TypeOK, [Next]_vars, ~overflow, overflow'
             PROVE  Cardinality(Used(cache)) + dcount > CacheSize
  BY DEF OvfBody, Used
<1>1. PICK a \in Addrs : IsDeviceActive(a)
  <2>1. overflow' # overflow
    OBVIOUS
  <2> QED
    BY <2>1 DEF Next, vars, NeighboursChange, KeySequenceAdvance,
       DeviceFrame, KeyChange
<1> DEFINE s0 == [c |-> cache, ovf |-> overflow]
           f == StagedFn(s0, table, dcount)
<1>2. f[dcount].ovf = overflow'
  BY <1>1, QueryUsed, RefreshedUsed DEF RefreshStage
<1>3. FoldInv(s0, f, dcount)
  <2>1. s0 \in StageT /\ Seen(s0.c) = {}
    BY DEF TypeOK, StageT, StagedEntryT, AddrT, Seen
  <2>2. dcount \in 0 .. TableCap /\ \A i \in 1 .. dcount : table[i] \in SlotT
    <3>1. TableCap \in Nat
      BY ConstFacts
    <3> QED
      BY <3>1 DEF TypeOK, SlotT, AddrT, Slots
  <2> QED
    BY <2>1, <2>2, StagedCount
<1>4. Cardinality(Used(cache)) + dcount <= CacheSize => f[dcount].ovf = overflow
  BY <1>3 DEF FoldInv
<1>5. /\ CacheSize \in Nat /\ dcount \in Nat
      /\ Cardinality(Used(cache)) \in Nat
  BY ConstFacts, EntriesSubset DEF Used, TypeOK
<1>6. ~(Cardinality(Used(cache)) + dcount <= CacheSize)
  BY <1>2, <1>4, Zenon
<1> QED
  BY <1>5, <1>6

\* deviceCache_getCachedDevice returns index 0xFF only when the devices
\* live before a refresh and the slots the refresh reads do not fit in
\* sDeviceCache together, for every address set, table capacity, cache
\* size, counter bound and key modulus. This is how large the cache must
\* be: the code's, as large as the table, overflows once one live device
\* and a full new table meet (finding 5).
THEOREM OverflowOnlyWhenFullHolds == Spec => OverflowOnlyWhenFull
<1>1. Spec => [][OvfBody]_vars
  BY DevicesTypeCorrect, OvfBodyStep, PTL DEF Spec
<1> QED
  BY <1>1, PTL DEF OverflowOnlyWhenFull, OvfBody

-----------------------------------------------------------------------------
(* The refresh mirrors the device table.                                  *)
(*                                                                         *)
(* Each slot read by deviceCache_cacheDevices lands in an entry with its  *)
(* address and counter: the entry already live with that address, or a   *)
(* free one when no live entry has it.  So, while no write goes past the  *)
(* array, the staged entries carry exactly the slots' addresses, live     *)
(* addresses stay distinct, and the cleanup leaves only the staged ones.  *)

\* Live entries have distinct addresses.
Distinct(c) == \A j, k \in Used(c) : j # k => c[j].addr # c[k].addr

\* What deviceCache_getCachedDevice followed by the caller's update does to
\* the entries: it writes past the array with the cache left alone, or it
\* gives one entry k the slot's address and counter and stages it, leaving
\* every other entry alone; k was live with that address, or free while no
\* live entry had it.
LEMMA PutDeviceEntry ==
    ASSUME NEW s \in StageT, NEW d \in SlotT
    PROVE  \/ PutDevice(s, d).ovf = TRUE /\ PutDevice(s, d).c = s.c
           \/ \E k \in Entries :
                 /\ PutDevice(s, d).ovf = s.ovf
                 /\ PutDevice(s, d).c[k].st = 2
                 /\ PutDevice(s, d).c[k].addr = d.addr
                 /\ PutDevice(s, d).c[k].fc = d.fc
                 /\ \A j \in Entries \ {k} : PutDevice(s, d).c[j] = s.c[j]
                 /\ s.c[k].st # 0 => s.c[k].addr = d.addr
                 /\ s.c[k].st = 0 =>
                       \A j \in Entries : s.c[j].st # 0 => s.c[j].addr # d.addr
<1> DEFINE match == {j \in Entries : s.c[j].st # 0 /\ s.c[j].addr = d.addr}
           free == {j \in Entries : s.c[j].st = 0}
           c2 == PutDevice(s, d).c
<1>0. s.c \in [Entries -> StagedEntryT]
  BY DEF StageT
<1>1. CASE match # {}
  <2> DEFINE m == Min(match)
  <2>1. m \in match
    BY <1>1, MinOfNats DEF Entries
  <2>2. PutDevice(s, d) =
          [s EXCEPT !.c = [s.c EXCEPT ![m] = [s.c[m] EXCEPT !.fc = d.fc,
                                                          !.st = 2]]]
    BY <1>1 DEF PutDevice
  <2>3. m \in Entries /\ s.c[m] \in StagedEntryT
    BY <1>0, <2>1
  <2>4. /\ c2[m].st = 2 /\ c2[m].addr = s.c[m].addr /\ c2[m].fc = d.fc
        /\ \A j \in Entries \ {m} : c2[j] = s.c[j]
    BY <1>0, <2>2, <2>3 DEF StagedEntryT
  <2>5. PutDevice(s, d).ovf = s.ovf
    BY <2>2
  <2> QED
    BY <2>1, <2>4, <2>5
<1>2. CASE match = {} /\ free # {}
  <2> DEFINE m == Min(free)
  <2>1. m \in free
    BY <1>2, MinOfNats DEF Entries
  <2>2. PutDevice(s, d) =
          [s EXCEPT !.c = [s.c EXCEPT ![m] = [st |-> 2, addr |-> d.addr,
                                              fc |-> d.fc, tfc |-> 0]]]
    BY <1>2 DEF PutDevice
  <2>3. /\ c2[m].st = 2 /\ c2[m].addr = d.addr /\ c2[m].fc = d.fc
        /\ \A j \in Entries \ {m} : c2[j] = s.c[j]
        /\ PutDevice(s, d).ovf = s.ovf
    BY <1>0, <2>1, <2>2 DEF StageT
  <2>4. \A j \in Entries : s.c[j].st # 0 => s.c[j].addr # d.addr
    BY <1>2
  <2> QED
    BY <2>1, <2>3, <2>4
<1>3. CASE match = {} /\ free = {}
  <2>1. PutDevice(s, d) = [s EXCEPT !.ovf = TRUE]
    BY <1>3 DEF PutDevice
  <2> QED
    BY <2>1 DEF StageT
<1> QED
  BY <1>1, <1>2, <1>3

\* What the loop of deviceCache_cacheDevices keeps true after reading i
\* slots of tbl, for the entries c: the staged entries carry exactly the
\* addresses of those slots, live addresses are distinct, and each staged
\* entry holds the address and counter of one of those slots.
MirrorFacts(tbl, c, i) ==
    /\ {c[j].addr : j \in Seen(c)} = {tbl[l].addr : l \in 1 .. i}
    /\ Distinct(c)
    /\ \A j \in Seen(c) :
          \E l \in 1 .. i : tbl[l] = [addr |-> c[j].addr, fc |-> c[j].fc]

MirrorInv(tbl, f, i) == MirrorFacts(tbl, f[i].c, i)

\* One iteration of the loop keeps MirrorFacts when it does not write past
\* the array.
LEMMA MirrorStep ==
    ASSUME NEW tbl, NEW m \in Nat \ {0}, NEW g \in StageT,
           tbl[m] \in SlotT, PutDevice(g, tbl[m]).ovf = FALSE,
           MirrorFacts(tbl, g.c, m - 1)
    PROVE  MirrorFacts(tbl, PutDevice(g, tbl[m]).c, m)
<1> DEFINE h == PutDevice(g, tbl[m])
<1>h. /\ {g.c[j].addr : j \in Seen(g.c)} = {tbl[l].addr : l \in 1 .. m - 1}
      /\ Distinct(g.c)
      /\ \A j \in Seen(g.c) :
            \E l \in 1 .. m - 1 : tbl[l] = [addr |-> g.c[j].addr,
                                            fc |-> g.c[j].fc]
  BY DEF MirrorFacts
<1> SUFFICES /\ {h.c[j].addr : j \in Seen(h.c)} = {tbl[l].addr : l \in 1 .. m}
             /\ Distinct(h.c)
             /\ \A j \in Seen(h.c) :
                   \E l \in 1 .. m : tbl[l] = [addr |-> h.c[j].addr,
                                               fc |-> h.c[j].fc]
  BY DEF MirrorFacts
<1> DEFINE d == tbl[m]
           G == g.c
           H == h.c
<1>0. G \in [Entries -> StagedEntryT] /\ d = [addr |-> d.addr, fc |-> d.fc]
  BY DEF StageT, SlotT
<1>1. PICK k \in Entries :
         /\ H[k].st = 2 /\ H[k].addr = d.addr /\ H[k].fc = d.fc
         /\ \A j \in Entries \ {k} : H[j] = G[j]
         /\ G[k].st # 0 => G[k].addr = d.addr
         /\ G[k].st = 0 => \A j \in Entries : G[j].st # 0 => G[j].addr # d.addr
  <2>1. \/ PutDevice(g, d).ovf = TRUE /\ PutDevice(g, d).c = G
        \/ \E k \in Entries :
              /\ PutDevice(g, d).ovf = g.ovf
              /\ PutDevice(g, d).c[k].st = 2
              /\ PutDevice(g, d).c[k].addr = d.addr
              /\ PutDevice(g, d).c[k].fc = d.fc
              /\ \A j \in Entries \ {k} : PutDevice(g, d).c[j] = G[j]
              /\ G[k].st # 0 => G[k].addr = d.addr
              /\ G[k].st = 0 => \A j \in Entries : G[j].st # 0 => G[j].addr # d.addr
    BY PutDeviceEntry
  <2>2. PutDevice(g, d).ovf = FALSE
    OBVIOUS
  <2> QED
    BY <2>1, <2>2
<1>2. Seen(H) = Seen(G) \cup {k} /\ Used(H) = Used(G) \cup {k}
  <2>1. \A j \in Entries : /\ j \in Seen(H) <=> j \in Seen(G) \cup {k}
                           /\ j \in Used(H) <=> j \in Used(G) \cup {k}
    BY <1>1 DEF Seen, Used
  <2> QED
    BY <2>1 DEF Seen, Used
<1>3. {H[j].addr : j \in Seen(H)} = {tbl[l].addr : l \in 1 .. m}
  <2>1. ASSUME NEW j \in Seen(H) PROVE \E l \in 1 .. m : H[j].addr = tbl[l].addr
    <3>1. CASE j = k
      BY <3>1, <1>1
    <3>2. CASE j # k
      <4>1. j \in Seen(G) /\ H[j] = G[j]
        BY <3>2, <1>1, <1>2 DEF Seen
      <4>2. G[j].addr \in {tbl[l].addr : l \in 1 .. m - 1}
        BY <4>1, <1>h
      <4> QED
        BY <4>1, <4>2
    <3> QED
      BY <3>1, <3>2
  <2>2. ASSUME NEW l \in 1 .. m PROVE \E j \in Seen(H) : H[j].addr = tbl[l].addr
    <3>1. CASE l = m
      BY <3>1, <1>1, <1>2
    <3>2. CASE l # m
      <4>1. PICK j \in Seen(G) : G[j].addr = tbl[l].addr
        <5>0. l \in 1 .. m - 1
          BY <3>2
        <5>1. tbl[l].addr \in {G[i].addr : i \in Seen(G)}
          <6>1. tbl[l].addr \in {tbl[i].addr : i \in 1 .. m - 1}
            BY <5>0
          <6> QED
            BY <6>1, <1>h
        <5> QED
          BY <5>1
      <4>2. CASE j = k
        <5>1. G[k].st # 0
          BY <4>1, <4>2 DEF Seen
        <5> QED
          BY <4>1, <4>2, <5>1, <1>1, <1>2
      <4>3. CASE j # k
        BY <4>1, <4>3, <1>1, <1>2 DEF Seen
      <4> QED
        BY <4>2, <4>3
    <3> QED
      BY <3>1, <3>2
  <2> QED
    BY <2>1, <2>2
<1>4. Distinct(H)
  <2> SUFFICES ASSUME NEW j1 \in Used(H), NEW j2 \in Used(H), j1 # j2
               PROVE  H[j1].addr # H[j2].addr
    BY DEF Distinct
  <2>1. ASSUME NEW j \in Used(H), j # k PROVE H[j].addr # H[k].addr
    <3>1. j \in Used(G) /\ H[j] = G[j]
      BY <2>1, <1>1, <1>2 DEF Used
    <3>2. CASE G[k].st # 0
      <4>1. k \in Used(G) /\ G[k].addr = d.addr
        BY <3>2, <1>1 DEF Used
      <4> QED
        BY <2>1, <3>1, <4>1, <1>1, <1>h DEF Distinct
    <3>3. CASE G[k].st = 0
      BY <3>1, <3>3, <1>1 DEF Used
    <3> QED
      BY <3>2, <3>3
  <2>2. CASE j1 # k /\ j2 # k
    <3>1. j1 \in Used(G) /\ j2 \in Used(G) /\ H[j1] = G[j1] /\ H[j2] = G[j2]
      BY <2>2, <1>1, <1>2 DEF Used
    <3> QED
      BY <3>1, <1>h DEF Distinct
  <2> QED
    BY <2>1, <2>2
<1>5. ASSUME NEW j \in Seen(H)
      PROVE  \E l \in 1 .. m : tbl[l] = [addr |-> H[j].addr, fc |-> H[j].fc]
  <2>1. CASE j = k
    BY <2>1, <1>0, <1>1
  <2>2. CASE j # k
    <3>1. j \in Seen(G) /\ H[j] = G[j]
      BY <2>2, <1>1, <1>2 DEF Seen
    <3> QED
      BY <3>1, <1>h
  <2> QED
    BY <2>1, <2>2
<1> QED
  BY <1>3, <1>4, <1>5

\* The loop keeps MirrorInv from a cache with distinct live addresses and
\* nothing staged, as long as it never writes past the array.
LEMMA StagedMirror ==
    ASSUME NEW s0 \in StageT, Seen(s0.c) = {}, Distinct(s0.c),
           NEW tbl, NEW n \in Nat, \A i \in 1 .. n : tbl[i] \in SlotT,
           \A i \in 0 .. n : StagedFn(s0, tbl, n)[i].ovf = FALSE
    PROVE  \A i \in 0 .. n : MirrorInv(tbl, StagedFn(s0, tbl, n), i)
<1> DEFINE f == StagedFn(s0, tbl, n)
           Bad == {i \in 0 .. n : ~MirrorInv(tbl, f, i)}
<1>0. StagedEq(f, s0, tbl, n) /\ \A i \in 0 .. n : f[i] \in StageT
  BY StagedFnEq, StagedType
<1> SUFFICES Bad = {}
  OBVIOUS
<1>1. SUFFICES ASSUME Bad # {} PROVE FALSE
  OBVIOUS
<1>2. PICK m \in Bad : \A k \in Bad : m <= k
  <2>1. Bad \in SUBSET Nat
    OBVIOUS
  <2> QED
    BY <1>1, <2>1, MinOfNats
<1>3. CASE m = 0
  <2>1. f[0] = s0
    BY <1>0 DEF StagedEq
  <2>2. {s0.c[j].addr : j \in Seen(s0.c)} = {} /\ 1 .. 0 = {}
    OBVIOUS
  <2>3. MirrorInv(tbl, f, 0)
    BY <2>1, <2>2 DEF MirrorInv, MirrorFacts
  <2> QED
    BY <1>2, <1>3, <2>3
<1>4. CASE m # 0
  <2>0. m \in 1 .. n
    BY <1>2, <1>4
  <2>1. MirrorInv(tbl, f, m - 1)
    <3>1. m - 1 \in 0 .. n /\ m - 1 \notin Bad
      BY <1>2, <1>4
    <3> QED
      BY <3>1
  <2>2. /\ f[m - 1] \in StageT /\ tbl[m] \in SlotT
        /\ f[m] = PutDevice(f[m - 1], tbl[m]) /\ f[m].ovf = FALSE
    BY <1>0, <2>0 DEF StagedEq
  <2>3. m \in Nat \ {0}
    BY <2>0
  <2>4. MirrorInv(tbl, f, m)
    <3>1. MirrorFacts(tbl, f[m - 1].c, m - 1)
      BY <2>1 DEF MirrorInv
    <3>2. MirrorFacts(tbl, PutDevice(f[m - 1], tbl[m]).c, m)
      BY <2>2, <2>3, <3>1, MirrorStep
    <3> QED
      BY <2>2, <3>2 DEF MirrorInv
  <2> QED
    BY <1>2, <2>4
<1> QED
  BY <1>3, <1>4

\* The second phase keeps a staged entry's address and counter.
LEMMA PromoteFields ==
    ASSUME NEW e \in StagedEntryT, e.st = 2
    PROVE  /\ (CASE e.st = 1 -> EmptyEntry
                 [] e.st = 2 -> [e EXCEPT !.st = 1]
                 [] OTHER -> e).addr = e.addr
           /\ (CASE e.st = 1 -> EmptyEntry
                 [] e.st = 2 -> [e EXCEPT !.st = 1]
                 [] OTHER -> e).fc = e.fc
<1>1. (CASE e.st = 1 -> EmptyEntry
         [] e.st = 2 -> [e EXCEPT !.st = 1]
         [] OTHER -> e) = [e EXCEPT !.st = 1]
  <2>1. 2 # 1
    OBVIOUS
  <2> QED
    BY <2>1, Zenon
<1> QED
  BY <1>1 DEF StagedEntryT

\* The live entries of c mirror slots 1 .. n of tbl: their addresses are
\* the slots', each once, and each carries the counter of a slot.
LiveMirror(tbl, c, n) ==
    /\ {c[j].addr : j \in Used(c)} = {tbl[l].addr : l \in 1 .. n}
    /\ Distinct(c)
    /\ \A j \in Used(c) :
          \E l \in 1 .. n : tbl[l] = [addr |-> c[j].addr, fc |-> c[j].fc]

\* The live entries after a refresh that has not written past the array,
\* from a cache whose live addresses are distinct unless it had
\* overflowed, mirror slots 1 .. dcount of the device table.
LEMMA RefreshMirror ==
    ASSUME TypeOK, ~overflow => Distinct(cache), Refreshed.ovf = FALSE
    PROVE  LiveMirror(table, Refreshed.c, dcount)
<1> DEFINE s0 == [c |-> cache, ovf |-> overflow]
           f == StagedFn(s0, table, dcount)
           s == RefreshStage
           R == Refreshed.c
<1>1. s0 \in StageT /\ Seen(s0.c) = {}
  BY DEF TypeOK, StageT, StagedEntryT, AddrT, Seen
<1>2. /\ dcount \in 0 .. TableCap /\ dcount \in Nat
      /\ \A i \in 1 .. dcount : table[i] \in SlotT
  <2>1. TableCap \in Nat
    BY ConstFacts
  <2> QED
    BY <2>1 DEF TypeOK, SlotT, AddrT, Slots
<1>3. \A i \in 0 .. dcount : f[i].ovf = FALSE
  <2>1. f[dcount].ovf = FALSE
    BY RefreshedUsed DEF RefreshStage
  <2> QED
    BY <1>1, <1>2, <2>1, OvfSticky
<1>10. Distinct(s0.c)
  <2>1. f[0] = s0
    BY <1>2, StagedFnEq DEF StagedEq
  <2>2. overflow = FALSE
    BY <1>2, <1>3, <2>1
  <2> QED
    BY <2>2
<1>4. MirrorFacts(table, s.c, dcount) /\ s \in StageT
  <2>0. dcount \in Nat /\ dcount \in 0 .. dcount
    <3>1. TableCap \in Nat
      BY ConstFacts
    <3> QED
      BY <1>2, <3>1
  <2>1. MirrorInv(table, f, dcount)
    <3>1. \A i \in 0 .. dcount : MirrorInv(table, f, i)
      BY <1>1, <1>10, <1>2, <1>3, <2>0, StagedMirror
    <3> QED
      BY <2>0, <3>1
  <2>2. s \in StageT
    BY <1>1, <1>2, StagedType DEF RefreshStage
  <2> QED
    BY <2>1, <2>2 DEF MirrorInv, RefreshStage
<1>5. Used(R) = Seen(s.c)
  BY RefreshedUsed
<1>6. \A j \in Seen(s.c) : R[j].addr = s.c[j].addr /\ R[j].fc = s.c[j].fc
  <2> SUFFICES ASSUME NEW j \in Seen(s.c)
               PROVE  R[j].addr = s.c[j].addr /\ R[j].fc = s.c[j].fc
    OBVIOUS
  <2>1. j \in Entries /\ s.c[j] \in StagedEntryT /\ s.c[j].st = 2
    BY <1>4 DEF Seen, StageT
  <2>2. R[j] = (CASE s.c[j].st = 1 -> EmptyEntry
                  [] s.c[j].st = 2 -> [s.c[j] EXCEPT !.st = 1]
                  [] OTHER -> s.c[j])
    BY <2>1 DEF Refreshed, RefreshStage
  <2> QED
    BY <2>1, <2>2, PromoteFields
<1>7. {R[j].addr : j \in Used(R)} = {table[l].addr : l \in 1 .. dcount}
  <2>1. {R[j].addr : j \in Used(R)} = {s.c[j].addr : j \in Seen(s.c)}
    BY <1>5, <1>6
  <2> QED
    BY <1>4, <2>1 DEF MirrorFacts
<1>8. Distinct(R)
  <2>1. Seen(s.c) \subseteq Used(s.c)
    BY DEF Seen, Used
  <2> QED
    BY <1>4, <1>5, <1>6, <2>1 DEF MirrorFacts, Distinct
<1>9. \A j \in Used(R) :
         \E l \in 1 .. dcount : table[l] = [addr |-> R[j].addr, fc |-> R[j].fc]
  BY <1>4, <1>5, <1>6 DEF MirrorFacts
<1> QED
  BY <1>7, <1>8, <1>9 DEF LiveMirror

\* otPlatRadioIsDeviceActive leaves the cache as its refresh did, but for
\* the counter taken at the query: the live entries still mirror the table.
LEMMA QueryMirror ==
    ASSUME TypeOK, ~overflow => Distinct(cache),
           NEW a \in Addrs, IsDeviceActive(a), overflow' = FALSE
    PROVE  LiveMirror(table, cache', dcount)
<1> DEFINE r == Refreshed
           hit == {j \in Entries : r.c[j].st # 0 /\ r.c[j].addr = Flip(a)}
           jq == Min(hit)
           C == cache'
<1>1. r \in [c : [Entries -> CacheEntryT], ovf : BOOLEAN]
  BY RefreshedType
<1>2. cache' \in {r.c, [r.c EXCEPT ![jq].tfc = r.c[jq].fc]}
  BY DEF IsDeviceActive
<1>3. \A k \in Entries : /\ C[k].st = r.c[k].st /\ C[k].addr = r.c[k].addr
                        /\ C[k].fc = r.c[k].fc
  BY <1>1, <1>2 DEF CacheEntryT
<1>4. Used(C) = Used(r.c)
  BY <1>3 DEF Used
<1>5. LiveMirror(table, r.c, dcount)
  <2>1. Refreshed.ovf = FALSE
    BY QueryUsed
  <2> QED
    BY <2>1, RefreshMirror
<1>6. {C[k].addr : k \in Used(C)} = {r.c[k].addr : k \in Used(r.c)}
  BY <1>3, <1>4 DEF Used
<1>7. {C[k].addr : k \in Used(C)} = {table[l].addr : l \in 1 .. dcount}
  BY <1>5, <1>6 DEF LiveMirror
<1>8. Distinct(C)
  <2> SUFFICES ASSUME NEW k1 \in Used(C), NEW k2 \in Used(C), k1 # k2
               PROVE  C[k1].addr # C[k2].addr
    BY DEF Distinct
  <2>1. k1 \in Used(r.c) /\ k2 \in Used(r.c)
    BY <1>4
  <2>2. r.c[k1].addr # r.c[k2].addr
    BY <1>5, <2>1 DEF LiveMirror, Distinct
  <2> QED
    BY <1>3, <2>2 DEF Used
<1>9. \A k \in Used(C) :
         \E l \in 1 .. dcount : table[l] = [addr |-> C[k].addr, fc |-> C[k].fc]
  <2> SUFFICES ASSUME NEW k \in Used(C)
               PROVE  \E l \in 1 .. dcount :
                         table[l] = [addr |-> C[k].addr, fc |-> C[k].fc]
    OBVIOUS
  <2>1. k \in Used(r.c) /\ k \in Entries
    BY <1>4 DEF Used
  <2>2. \E l \in 1 .. dcount :
           table[l] = [addr |-> r.c[k].addr, fc |-> r.c[k].fc]
    BY <1>5, <2>1 DEF LiveMirror
  <2> QED
    BY <1>3, <2>1, <2>2
<1> QED
  BY <1>7, <1>8, <1>9 DEF LiveMirror

\* The step of CacheMirrorsTable.
MirrorBody ==
    QueryStep /\ ~overflow' =>
        /\ CachedAddrs' = {table[i].addr : i \in 1 .. dcount}
        /\ \A j, k \in Entries :
              cache'[j].st # 0 /\ cache'[k].st # 0 /\ j # k =>
                 cache'[j].addr # cache'[k].addr
        /\ \A j \in Entries : cache'[j].st # 0 =>
              \E i \in 1 .. dcount : table[i] = [addr |-> cache'[j].addr,
                                                fc |-> cache'[j].fc]

\* Only otPlatRadioIsDeviceActive touches the cache; unless its refresh
\* writes past the array it keeps live addresses distinct, and it is the
\* only step that changes queried.
LEMMA MirrorNext ==
    TypeOK /\ (~overflow => Distinct(cache)) /\ [Next]_vars =>
       (~overflow => Distinct(cache))' /\ [MirrorBody]_vars
<1> SUFFICES ASSUME TypeOK, ~overflow => Distinct(cache), [Next]_vars
             PROVE  (~overflow => Distinct(cache))' /\ [MirrorBody]_vars
  OBVIOUS
<1>1. ASSUME NEW a \in Addrs, IsDeviceActive(a)
      PROVE  (~overflow => Distinct(cache))' /\ [MirrorBody]_vars
  <2>1. overflow' \in BOOLEAN
    <3>1. overflow' = Refreshed.ovf
      BY <1>1, QueryUsed
    <3> QED
      BY <3>1, RefreshedType
  <2>2. CASE overflow' = FALSE
    <3>1. LiveMirror(table, cache', dcount)
      BY <1>1, <2>2, QueryMirror
    <3>2. Distinct(cache)'
      BY <3>1 DEF LiveMirror, Distinct, Used
    <3>3. MirrorBody
      BY <3>1 DEF MirrorBody, LiveMirror, Distinct, Used, CachedAddrs
    <3> QED
      BY <3>2, <3>3
  <2>3. CASE overflow' = TRUE
    BY <2>3 DEF MirrorBody
  <2> QED
    BY <2>1, <2>2, <2>3
<1>2. CASE UNCHANGED << cache, queried, overflow >>
  <2>1. (~overflow => Distinct(cache))'
    BY <1>2 DEF Distinct, Used
  <2>2. ~QueryStep
    BY <1>2 DEF QueryStep
  <2> QED
    BY <2>1, <2>2 DEF MirrorBody
<1> QED
  BY <1>1, <1>2 DEF Next, vars, NeighboursChange, KeySequenceAdvance,
                    DeviceFrame, KeyChange

\* Right after every otPlatRadioIsDeviceActive whose refresh stayed inside
\* sDeviceCache, the cache's live entries are one per device of
\* co-processor slots 0..sCurDeviceTableSize-1, with that slot's counter,
\* and nothing else, for every address set, table capacity, cache size,
\* counter bound and key modulus.  The argument needs live addresses
\* distinct before each refresh: a refresh that does not overflow keeps
\* them so, and one that does leaves the flag set for good.
THEOREM MirrorHolds == Spec => CacheMirrorsTable
<1> DEFINE Inv == TypeOK /\ (~overflow => Distinct(cache))
<1>1. Init => Inv
  <2>1. Init => Distinct(cache)
    BY DEF Init, Distinct, Used, EmptyEntry
  <2> QED
    BY <2>1, TypeInit
<1>2. Inv /\ [Next]_vars => Inv'
  BY TypeStep, MirrorNext
<1>3. Inv /\ [Next]_vars => [MirrorBody]_vars
  BY MirrorNext
<1>4. Spec => [][MirrorBody]_vars
  BY <1>1, <1>2, <1>3, PTL DEF Spec
<1> QED
  BY <1>4, PTL DEF CacheMirrorsTable, MirrorBody

====
