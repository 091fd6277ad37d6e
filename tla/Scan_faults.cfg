CONSTANTS
    c1 = c1
    c2 = c2
    null = null
    Channels <- MCChannels
    ActiveMasks <- MCMasksWith11
    EnergyMasks <- MCAllMasks
    Contexts <- MCContexts
    NoCtx = null
    MaxBeacons = 2
    ConfirmAfterReturn = TRUE
    AllowIfDown = TRUE
SPECIFICATION Spec
INVARIANT ActiveCallbackContext
