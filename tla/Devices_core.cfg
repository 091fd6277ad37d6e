\* Neighbour turnover, key-sequence wrap and failing MLME-SETs, with a
\* cache that holds the old and the new table: the refresh mirrors the
\* table and activity answers follow the frame counters.
CONSTANTS
    Addrs <- MCAddrs
    TableCap <- MCTableCap1
    CacheSize <- MCCacheSize2
    MaxFc = 1
    KeySeqMod = 4
    AllowSetFail = TRUE
SPECIFICATION Spec
INVARIANT TypeOK
INVARIANT NoCacheOverflow
 
PROPERTY CacheMirrorsTable
PROPERTY ActiveIffCounterMoved
