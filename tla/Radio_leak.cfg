\* handleDataConfirm returns before intransit_rmFrame when the interface
\* is down: the record of a confirmed request stays in the table.
CONSTANTS
    HandleSpace <- MCHandleSpace
    MaxIntransits <- MCMaxIntransits
    StackMaxInFlight <- MCStackMaxInFlight
    PipeBound <- MCPipeBound
    PipeBlocks = FALSE
    Malformed = FALSE
    AllowIfDown = TRUE
    AllowRoleChange = FALSE

SPECIFICATION Spec

INVARIANT IntransitMatchesRequests
