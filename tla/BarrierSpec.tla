----------------------------- MODULE BarrierSpec -----------------------------
(***************************************************************************)
(* What the main/worker barrier of src/platform/radio.c promises, without  *)
(* the condition variable, the mutex or the four-valued mbarrier_waiting:  *)
(* the stack belongs to one thread at a time; the worker asks for it, the  *)
(* main thread hands it over and parks, the worker runs its callback and   *)
(* leaves, and only then does the main thread take the stack back.         *)
(*                                                                         *)
(*   owner   the thread the stack belongs to: "main" or "worker";          *)
(*   wstate  the worker: "away" (not in the barrier), "waiting" (asked     *)
(*           for the stack) or "inside" (running stack callbacks).         *)
(***************************************************************************)

VARIABLES owner, wstate

bvars == << owner, wstate >>

Init ==
    /\ owner = "main"
    /\ wstate = "away"

\* barrier_worker_waitForMain, first half: the worker asks for the stack.
Ask ==
    /\ wstate = "away"
    /\ wstate' = "waiting"
    /\ UNCHANGED owner

\* barrier_main_letWorkerWork: a waiting worker is given the stack and the
\* main thread parks.
Grant ==
    /\ owner = "main"
    /\ wstate = "waiting"
    /\ owner' = "worker"
    /\ UNCHANGED wstate

\* barrier_worker_waitForMain, second half: the worker that was given the
\* stack starts its callback.
Enter ==
    /\ owner = "worker"
    /\ wstate = "waiting"
    /\ wstate' = "inside"
    /\ UNCHANGED owner

\* barrier_worker_endWork: the callback is over.
Leave ==
    /\ wstate = "inside"
    /\ wstate' = "away"
    /\ UNCHANGED owner

\* The parked main thread takes the stack back once the worker has left.
Resume ==
    /\ owner = "worker"
    /\ wstate = "away"
    /\ owner' = "main"
    /\ UNCHANGED wstate

Next == Ask \/ Grant \/ Enter \/ Leave \/ Resume

Spec == Init /\ [][Next]_bvars

\* Neither thread keeps the other waiting for ever: a waiting worker is
\* served, a callback returns, and the main thread resumes.  Asking is
\* up to the co-processor and is not fair.
FairSpec ==
    /\ Spec
    /\ WF_bvars(Grant) /\ WF_bvars(Enter)
    /\ WF_bvars(Leave) /\ WF_bvars(Resume)

\* The barrier's point: the worker runs stack code only while the stack
\* is its own.
Exclusive == wstate = "inside" => owner = "worker"

=============================================================================
