\* The cache as large as the device table, as the data model of the
\* spec has it: replacing one neighbour by another overflows it.
CONSTANTS
    Addrs <- MCAddrs
    TableCap <- MCTableCap1
    CacheSize <- MCTableCap1
    MaxFc = 1
    KeySeqMod = 4
    AllowSetFail = FALSE
SPECIFICATION Spec
INVARIANT NoCacheOverflow
