\* A stack that keeps as many data frames in flight as the table has
\* slots: the record of a frame whose transmit-done was delivered is only
\* removed after the barrier, and a transmit issued meanwhile finds no
\* free slot.
CONSTANTS
    HandleSpace <- MCHandleSpace
    MaxIntransits <- MCMaxIntransits
    StackMaxInFlight <- MCStackMaxInFlightNoMargin
    PipeBound <- MCPipeBound
    PipeBlocks = FALSE
    Malformed = FALSE
    AllowIfDown = FALSE
    AllowRoleChange = FALSE

SPECIFICATION Spec

INVARIANT IntransitMutexFree
