\* An indication longer than aMaxPHYPacketSize returns from
\* handleDataIndication with receiveFrame_mutex locked.
CONSTANTS
    HandleSpace <- MCHandleSpace
    MaxIntransits <- MCMaxIntransits
    StackMaxInFlight <- MCStackMaxInFlight
    PipeBound <- MCPipeBound
    PipeBlocks = FALSE
    Malformed = TRUE
    AllowIfDown = FALSE
    AllowRoleChange = FALSE

SPECIFICATION Spec

INVARIANT RxSlotFree
