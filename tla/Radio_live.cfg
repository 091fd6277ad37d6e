\* The barrier, the in-transit table and transmit completion, with a
\* well-formed co-processor and an interface that stays up once up: every
\* transmission the stack is awaiting is eventually confirmed, under the
\* fairness of the main loop, the worker and the co-processor; and the
\* barrier implements its abstract contract (BarrierSpec).
CONSTANTS
    HandleSpace <- MCHandleSpaceLive
    MaxIntransits <- MCMaxIntransitsLive
    StackMaxInFlight <- MCStackMaxInFlightLive
    PipeBound <- MCPipeBoundLive
    PipeBlocks = FALSE
    Malformed = FALSE
    AllowIfDown = FALSE
    AllowRoleChange = FALSE

SPECIFICATION FairSpec

INVARIANT TypeOK
INVARIANT StackExclusive
INVARIANT IntransitMatchesRequests
PROPERTY TransmitDoneEventually
PROPERTY ImplementsBarrier
