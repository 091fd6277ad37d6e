\* A device that stops being a router resets the MAC (coordChangeCallback),
\* and the co-processor forgets the data requests it has not confirmed;
\* the in-transit table still records them.
CONSTANTS
    HandleSpace <- MCHandleSpace
    MaxIntransits <- MCMaxIntransits
    StackMaxInFlight <- MCStackMaxInFlight
    PipeBound <- MCPipeBound
    PipeBlocks = FALSE
    Malformed = FALSE
    AllowIfDown = FALSE
    AllowRoleChange = TRUE

SPECIFICATION Spec

INVARIANT IntransitMatchesRequests
