------------------------ MODULE MCOrchestrationWorker ------------------------
(* Instances of OrchestrationWorker for TLC. *)
EXTENDS OrchestrationWorker, TLC

\* Workers never act on each other's identity.
WorkerSymmetry == Permutations(Workers)

-----------------------------------------------------------------------------
(* What src/workers/orchestration_worker.py says of itself and does not do *)

\* Lines 181-182: "Messages idle for >30s are likely from crashed workers. We
\* XCLAIM them and re-process."  The result of XCLAIM is discarded and run()
\* reads new entries only: a signal lost with its reader is never processed.
ReclaimedIsReprocessed ==
  \A m \in Msgs : m <= cursor ~> (attempts[m] >= 1 \/ m <= trimmed)

\* Line 56: a signal that keeps failing moves to the dead letter queue.  Behind
\* one that orjson cannot parse it does not: that one is parsed again before it
\* is dead-lettered, which aborts every pass before the later entries.
FailedIsDeadLettered ==
  \A m \in Msgs :
    (m \in pel /\ log[m] # "undecodable") ~> (m \notin pel \/ m <= trimmed)
==============================================================================
