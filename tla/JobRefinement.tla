--------------------------- MODULE JobRefinement ----------------------------
(* The jobs table, its sync requests and the runtime implement JobContract. *)
EXTENDS DeviceJobs

stateOf(s) == CASE s = "pending_approval" -> "asked"
                [] s = "queued"           -> "waiting"
                [] s = "leased"           -> "lent"
                [] OTHER                  -> s

Contract == INSTANCE JobContract WITH
    state    <- [j \in Jobs |-> stateOf(status[j])],
    used     <- given,
    executed <- ran,
    result   <- resultOf

\* The relay keeps the contract whatever is given up, handled late, sent again
\* or stopped: create, approve, claim, complete and the sweep before each of
\* them together, with a runtime that executes what it was handed at its time.
KeepsJobContract == Contract!Spec
=============================================================================
