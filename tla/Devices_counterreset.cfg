\* A device silent since its last query, after a key or neighbour change
\* rewrote its descriptor with frame counter 0.
CONSTANTS
    Addrs <- MCAddrs
    TableCap <- MCTableCap1
    CacheSize <- MCCacheSize2
    MaxFc = 1
    KeySeqMod = 4
    AllowSetFail = FALSE
SPECIFICATION Spec
PROPERTY ActiveMeansNewFrames
