------------------------------ MODULE MC_Radio ------------------------------
(***************************************************************************)
(* Small instances of Radio for TLC.  The code's values are 256 handles   *)
(* and 7 slots; 5 handles and 3 slots keep the wrap of the handle counter  *)
(* past 0 and a full table within reach of a few transmissions.            *)
(***************************************************************************)
EXTENDS Radio

\* Five handle values: the counter wraps after four data frames.
MCHandleSpace == 5

\* Three slots in the in-transit table.
MCMaxIntransits == 3

\* The stack keeps one slot of margin below the table size ("5 indirect
\* frames + 2" in the code's comment), or none at all.
MCStackMaxInFlight == MCMaxIntransits - 1
MCStackMaxInFlightNoMargin == MCMaxIntransits

\* A write to the self-pipe blocks once two bytes are unread.
MCPipeBound == 2

\* A smaller instance for the liveness run, whose temporal check grows
\* with the product of states and fairness conditions, and for the faults
\* run, which allows every fault and role change at once: four handles, so
\* the counter still wraps, three slots with two frames in flight, and a
\* self-pipe that blocks the worker at its first unread byte.
MCHandleSpaceLive == 4
MCMaxIntransitsLive == 3
MCStackMaxInFlightLive == MCMaxIntransitsLive - 1
MCPipeBoundLive == 1

=============================================================================
