\* The stack may bring its interface down with frames in flight, the
\* device may change its Thread role (a MAC reset on leaving the router
\* role), and the
\* co-processor may indicate oversize frames: the barrier still keeps
\* worker callbacks inside the main loop's wait.  Both faults can end with
\* a thread blocked for ever on a leaked mutex, so the run does not ask
\* for progress.
CONSTANTS
    HandleSpace <- MCHandleSpaceLive
    MaxIntransits <- MCMaxIntransits
    StackMaxInFlight <- MCStackMaxInFlight
    PipeBound <- MCPipeBoundLive
    PipeBlocks = TRUE
    Malformed = TRUE
    AllowIfDown = TRUE
    AllowRoleChange = TRUE

SPECIFICATION Spec

CHECK_DEADLOCK FALSE

INVARIANT StackExclusive
