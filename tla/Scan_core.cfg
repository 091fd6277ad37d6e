CONSTANTS
    c1 = c1
    c2 = c2
    null = null
    Channels <- MCChannels
    ActiveMasks <- MCMasksWith11
    EnergyMasks <- MCMasksWith11
    Contexts <- MCContexts
    NoCtx = null
    MaxBeacons = 2
    ConfirmAfterReturn = TRUE
    AllowIfDown = FALSE
SPECIFICATION FairSpec
INVARIANT TypeOK
INVARIANT InProgressMatchesScan
INVARIANT ActiveCallbackContext
PROPERTY ScanCompletes
