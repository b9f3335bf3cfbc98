--------------------------- MODULE RunRefinement ----------------------------
(* The worker, its queue and the runs table implement RunContract.         *)
EXTENDS RunLifecycle

phaseOf(s) == IF s = "queued" THEN "waiting" ELSE IF s = "running" THEN "executing" ELSE s

Contract == INSTANCE RunContract WITH
    Run     <- Orphans,
    Limit   <- MaxAttempts,
    Success <- Outcomes,
    phase   <- [r \in Orphans |-> phaseOf(status[r])],
    tries   <- [r \in Orphans |-> attempt[r]]

\* The runs delivered through the queue keep the contract as long as no call
\* to the store or to Redis raises: claim_run, release_for_retry, recover_runs
\* and complete_run together, over restarts and redeliveries (one process).
KeepsContract == Contract!Spec
=============================================================================
