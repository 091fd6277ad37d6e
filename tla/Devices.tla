------------------------------- MODULE Devices -------------------------------
(***************************************************************************)
(* The device-table and key-table synchronizer (keyChangeCallback) and the *)
(* device activity cache (deviceCache_*, otPlatRadioIsDeviceActive) of     *)
(* src/platform/radio.c.  Both run on the main thread only; the            *)
(* co-processor raises a device's frame counter whenever it accepts a      *)
(* secured frame from it, at any time.                                     *)
(*                                                                         *)
(* An extended address is a pair of bytes, so the byte-order reversal     *)
(* between the stack (network order) and the co-processor (MAC order) is  *)
(* a real conversion; the all-zero address is what memset leaves in an    *)
(* empty cache entry.                                                      *)
(***************************************************************************)
EXTENDS Naturals, Sequences, FiniteSets, FiniteSetsExt

CONSTANTS
    Addrs,          \* extended addresses the stack knows, in network
                    \* byte order, as pairs of non-zero bytes
    TableCap,       \* device descriptors keyChangeCallback writes (5)
    CacheSize,      \* DEVICE_TABLE_SIZE, the cache's capacity
    MaxFc,          \* bound on a device's frame counter in the model
    KeySeqMod,      \* the key sequence counter's modulus (2^32)
    AllowSetFail    \* may an MLME_SET_request_sync fail?

ASSUME DevicesAssumption ==
    /\ Addrs \subseteq (1 .. 255) \X (1 .. 255)
    /\ TableCap \in Nat \ {0} /\ CacheSize \in Nat \ {0}
    /\ MaxFc \in Nat /\ KeySeqMod \in Nat /\ KeySeqMod > 3
    /\ AllowSetFail \in BOOLEAN

\* The all-zero address of a memset entry.
ZeroAddr == <<0, 0>>

\* The byte-order flip of keyChangeCallback (ExtAddress[j] = m8[7-j]) and
\* of otPlatRadioIsDeviceActive (macAddr.m8[i] = addr.m8[7-i]).
Flip(a) == <<a[2], a[1]>>

FcVals == 0 .. MaxFc

\* A memset DeviceCache entry: isActive 0, zero address and counters.
EmptyEntry == [st |-> 0, addr |-> ZeroAddr, fc |-> 0, tfc |-> 0]

VARIABLES
    nbrs,       \* the stack's neighbour list the synchronizer copies
    keySeq,     \* the stack's key sequence counter
    pending,    \* a state change the stack has yet to report
    table,      \* co-processor macDeviceTable slots: [addr, fc]
    dcount,     \* macDeviceTableEntries, and sCurDeviceTableSize
    keys,       \* key sequences stored in macKeyTable
    cache,      \* sDeviceCache
    overflow,   \* deviceCache_getCachedDevice indexed sDeviceCache[0xFF]
    answer,     \* what the last otPlatRadioIsDeviceActive returned
    queried,    \* the address it was asked about, and the parity of the
                \* number of queries (so that every query changes it)
    lastQ       \* per device: its counter at its last activity query
                \* since it entered the cache, or -1

vars == << nbrs, keySeq, pending, table, dcount, keys, cache, overflow,
           answer, queried, lastQ >>

Slots == 1 .. TableCap
Entries == 1 .. CacheSize

Init ==
    /\ nbrs = << >>
    /\ keySeq = 0
    /\ pending = FALSE
    /\ table = [i \in Slots |-> [addr |-> ZeroAddr, fc |-> 0]]
    /\ dcount = 0
    /\ keys = {}
    /\ cache = [j \in Entries |-> EmptyEntry]
    /\ overflow = FALSE
    /\ answer = 0
    /\ queried = <<ZeroAddr, 0>>
    /\ lastQ = [a \in Addrs |-> -1]

-----------------------------------------------------------------------------
(* The stack and the co-processor.                                        *)

\* The stack's neighbours (children then routers, or the parent) change,
\* or its key sequence advances; either raises a state-change flag.
NeighboursChange ==
    /\ \E s \in UNION {[1 .. n -> Addrs] : n \in 0 .. TableCap + 1} :
          /\ \A i, j \in 1 .. Len(s) : i # j => s[i] # s[j]
          /\ s # nbrs
          /\ nbrs' = s
    /\ pending' = TRUE
    /\ UNCHANGED << keySeq, table, dcount, keys, cache, overflow, answer,
                    queried, lastQ >>

KeySequenceAdvance ==
    /\ keySeq' = (keySeq + 1) % KeySeqMod
    /\ pending' = TRUE
    /\ UNCHANGED << nbrs, table, dcount, keys, cache, overflow, answer,
                    queried, lastQ >>

\* The co-processor accepts a secured frame from the device in slot i
\* and raises that slot's frame counter.
DeviceFrame(i) ==
    /\ i <= dcount
    /\ table[i].addr # ZeroAddr
    /\ table[i].fc < MaxFc
    /\ table' = [table EXCEPT ![i].fc = @ + 1]
    /\ UNCHANGED << nbrs, keySeq, pending, dcount, keys, cache, overflow,
                    answer, queried, lastQ >>

-----------------------------------------------------------------------------
(* keyChangeCallback.                                                      *)

\* The descriptors written: the first TableCap neighbours, each with its
\* address flipped to MAC order and frame counter 0.
Written == [k \in 1 .. Min({Len(nbrs), TableCap}) |->
               [addr |-> Flip(nbrs[k]), fc |-> 0]]

\* Key generations tKeySeq + i for i in 0..2, tKeySeq = seq - 1, skipping
\* sequence 0.
Generations(seq) ==
    {(seq - 1 + i) % KeySeqMod : i \in 0 .. 2} \ {0}

\* otHardMacStateChangeCallback with one of the flags keyChangeCallback
\* reacts to: a key sequence of 0 is first set to 2; the descriptors go to
\* slots 0..count-1, then sCurDeviceTableSize = count, then the key
\* generations.  Every MLME_SET_request_sync may fail when AllowSetFail,
\* and its result is ignored: a failed slot keeps what it held, failed key
\* writes keep the old keys.  sCurDeviceTableSize is set from count
\* whatever the macDeviceTableEntries write returned; the co-processor's
\* own entry count is not kept apart from it.
KeyChange ==
    /\ pending
    /\ LET seq == IF keySeq = 0 THEN 2 ELSE keySeq
           n == Len(Written)
       IN /\ keySeq' = seq
          /\ dcount' = n
          /\ \E failed \in IF AllowSetFail THEN SUBSET (1 .. n + 1) ELSE {{}} :
                /\ table' = [i \in Slots |->
                               IF i <= n /\ i \notin failed THEN Written[i]
                               ELSE table[i]]
                /\ keys' = IF n + 1 \in failed THEN keys
                           ELSE Generations(seq)
    /\ pending' = FALSE
    /\ UNCHANGED << nbrs, cache, overflow, answer, queried, lastQ >>

-----------------------------------------------------------------------------
(* The device cache.                                                       *)

\* Mutant of PutDevice: the search loop stops one entry short
\* (i < DEVICE_TABLE_SIZE - 1), so the last entry is never found.
PutDeviceShortScan(s, d) ==
    LET match == {j \in Entries : j < CacheSize /\ s.c[j].st # 0
                                   /\ s.c[j].addr = d.addr}
        free == {j \in Entries : j < CacheSize /\ s.c[j].st = 0}
    IN IF match # {}
       THEN [s EXCEPT !.c[Min(match)].fc = d.fc, !.c[Min(match)].st = 2]
       ELSE IF free # {}
       THEN [s EXCEPT !.c[Min(free)] =
                         [st |-> 2, addr |-> d.addr, fc |-> d.fc, tfc |-> 0]]
       ELSE [s EXCEPT !.ovf = TRUE]

\* deviceCache_getCachedDevice(addr) followed by the caller's update of
\* mFrameCounter and isActive = 2: the first in-use entry with this
\* address, else the first free entry reset and claimed, else index 0xFF
\* beyond the array, whose write the model records as overflow.
PutDevice(s, d) ==
    LET match == {j \in Entries : s.c[j].st # 0 /\ s.c[j].addr = d.addr}
        free == {j \in Entries : s.c[j].st = 0}
    IN IF match # {}
       THEN [s EXCEPT !.c[Min(match)].fc = d.fc, !.c[Min(match)].st = 2]
       ELSE IF free # {}
       THEN [s EXCEPT !.c[Min(free)] =
                         [st |-> 2, addr |-> d.addr, fc |-> d.fc, tfc |-> 0]]
       ELSE [s EXCEPT !.ovf = TRUE]

\* The for loop of deviceCache_cacheDevices over slots 1..n of tbl: staged[i]
\* is the cache, with its overflow flag, after the first i slots have been
\* read and put with PutDevice, starting from s0.
StagedFn(s0, tbl, n) ==
    LET staged[i \in 0 .. n] ==
            IF i = 0 THEN s0 ELSE PutDevice(staged[i - 1], tbl[i])
    IN staged

\* Mutant of Refreshed: the entries just seen stay staged (no 2 -> 1).
RefreshedNoPromote ==
    LET s == StagedFn([c |-> cache, ovf |-> overflow], table, dcount)[dcount]
    IN [c |-> [j \in Entries |->
                 IF s.c[j].st = 1 THEN EmptyEntry ELSE s.c[j]],
        ovf |-> s.ovf]

\* Mutant of Refreshed: entries no slot named are kept.
RefreshedKeepStale ==
    LET s == StagedFn([c |-> cache, ovf |-> overflow], table, dcount)[dcount]
    IN [c |-> [j \in Entries |->
                 IF s.c[j].st = 2 THEN [s.c[j] EXCEPT !.st = 1] ELSE s.c[j]],
        ovf |-> s.ovf]

\* deviceCache_cacheDevices: read slots 0..sCurDeviceTableSize-1 into the
\* cache, then drop the entries no slot named (isActive 1) and make the
\* ones just seen live (2 -> 1).
Refreshed ==
    LET s == StagedFn([c |-> cache, ovf |-> overflow], table, dcount)[dcount]
    IN [c |-> [j \in Entries |->
                 CASE s.c[j].st = 1 -> EmptyEntry
                   [] s.c[j].st = 2 -> [s.c[j] EXCEPT !.st = 1]
                   [] OTHER -> s.c[j]],
        ovf |-> s.ovf]

\* Mutant of IsDeviceActive: the memcpy into mTimeoutFrameCounter left out.
IsDeviceActiveNoUpdate(a) ==
    LET r == Refreshed
        hit == {j \in Entries : r.c[j].st # 0 /\ r.c[j].addr = Flip(a)}
        j == Min(hit)
        inCache == {Flip(r.c[k].addr) : k \in {k \in Entries : r.c[k].st # 0}}
    IN /\ overflow' = r.ovf
       /\ cache' = r.c
       /\ answer' = IF hit = {} \/ r.c[j].fc = r.c[j].tfc THEN 0 ELSE 1
       /\ lastQ' = [b \in Addrs |->
                      IF b \notin inCache THEN -1
                      ELSE IF b = a THEN r.c[j].fc ELSE lastQ[b]]
       /\ queried' = <<a, 1 - queried[2]>>
       /\ UNCHANGED << nbrs, keySeq, pending, table, dcount, keys >>

\* otPlatRadioIsDeviceActive(addr): refresh, then look the flipped address
\* up; a device whose counter equals the one taken at the last query is
\* inactive, otherwise the query takes the new counter and says active.
IsDeviceActive(a) ==
    LET r == Refreshed
        hit == {j \in Entries : r.c[j].st # 0 /\ r.c[j].addr = Flip(a)}
        j == Min(hit)
        inCache == {Flip(r.c[k].addr) : k \in {k \in Entries : r.c[k].st # 0}}
    IN /\ overflow' = r.ovf
       /\ IF hit = {}
          THEN /\ cache' = r.c /\ answer' = 0
          ELSE IF r.c[j].fc = r.c[j].tfc
          THEN /\ cache' = r.c /\ answer' = 0
          ELSE /\ cache' = [r.c EXCEPT ![j].tfc = r.c[j].fc]
               /\ answer' = 1
       \* ghost: the counter at this query; devices that left the cache
       \* start afresh
       /\ lastQ' = [b \in Addrs |->
                      IF b \notin inCache THEN -1
                      ELSE IF b = a THEN r.c[j].fc ELSE lastQ[b]]
       /\ queried' = <<a, 1 - queried[2]>>
       /\ UNCHANGED << nbrs, keySeq, pending, table, dcount, keys >>

-----------------------------------------------------------------------------

Next ==
    \/ NeighboursChange
    \/ KeySequenceAdvance
    \/ \E i \in Slots : DeviceFrame(i)
    \/ KeyChange
    \/ \E a \in Addrs : IsDeviceActive(a)

Spec == Init /\ [][Next]_vars

-----------------------------------------------------------------------------
(* Properties.                                                             *)

TypeOK ==
    /\ nbrs \in UNION {[1 .. n -> Addrs] : n \in 0 .. TableCap + 1}
    /\ keySeq \in 0 .. KeySeqMod - 1 /\ keys \subseteq 0 .. KeySeqMod - 1
    /\ pending \in BOOLEAN /\ overflow \in BOOLEAN
    /\ table \in [Slots -> [addr : {ZeroAddr} \cup {Flip(a) : a \in Addrs},
                            fc : FcVals]]
    /\ dcount \in 0 .. TableCap
    /\ cache \in [Entries -> [st : {0, 1},
                              addr : {ZeroAddr} \cup {Flip(a) : a \in Addrs},
                              fc : FcVals, tfc : FcVals]]
    /\ answer \in {0, 1}
    /\ queried \in ({ZeroAddr} \cup Addrs) \X {0, 1}
    /\ lastQ \in [Addrs -> {-1} \cup FcVals]

\* The live entries of the cache, as the set of their addresses.
CachedAddrs == {cache[j].addr : j \in {j \in Entries : cache[j].st # 0}}

\* A step that is a call of otPlatRadioIsDeviceActive.
QueryStep == queried' # queried

\* Right after otPlatRadioIsDeviceActive, unless its refresh wrote past
\* sDeviceCache, the two-phase refresh of deviceCache_cacheDevices has left
\* one live entry per device of co-processor slots
\* 0..sCurDeviceTableSize-1, carrying that slot's frame counter, and
\* nothing else: no entry of a device that left the table survives, and
\* no device is cached twice.
CacheMirrorsTable ==
    [][QueryStep /\ ~overflow' =>
        /\ CachedAddrs' = {table[i].addr : i \in 1 .. dcount}
        /\ \A j, k \in Entries :
              cache'[j].st # 0 /\ cache'[k].st # 0 /\ j # k =>
                 cache'[j].addr # cache'[k].addr
        /\ \A j \in Entries : cache'[j].st # 0 =>
              \E i \in 1 .. dcount : table[i] = [addr |-> cache'[j].addr,
                                                fc |-> cache'[j].fc]]_vars

\* A query about a device it has queried before (since the device last
\* entered the cache) says active exactly when the device's frame counter
\* differs from the one seen at that previous query.
ActiveIffCounterMoved ==
    [][LET a == queried'[1] IN
         QueryStep /\ lastQ[a] # -1 /\ lastQ'[a] # -1 =>
            (answer' = 1 <=> lastQ'[a] # lastQ[a])]_vars

\* deviceCache_getCachedDevice always finds an entry inside sDeviceCache.
NoCacheOverflow == ~overflow

\* deviceCache_getCachedDevice returns index 0xFF only when it must: a
\* refresh of otPlatRadioIsDeviceActive writes past sDeviceCache only if
\* the devices live before it and the slots it reads do not fit in the
\* array together.  A search that misses a matching or free entry breaks
\* this.
OverflowOnlyWhenFull ==
    [][~overflow /\ overflow' =>
          Cardinality({j \in Entries : cache[j].st # 0}) + dcount > CacheSize]_vars

\* A device's frame counter only grows with the frames it sends, so
\* otPlatRadioIsDeviceActive says active only when the counter has grown
\* since the device's previous query.
ActiveMeansNewFrames ==
    [][LET a == queried'[1] IN
         QueryStep /\ answer' = 1 /\ lastQ[a] # -1 => lastQ'[a] > lastQ[a]]_vars

====
