---------------------------- MODULE RunContract -----------------------------
(***************************************************************************)
(* What the queue, the runs table and the worker promise together about a  *)
(* run, seen from outside (worker.py's docstring, ADR 003): a run waits or *)
(* is executed, an execution that does not end it gives it back, there are *)
(* at most Limit executions, only the last of them may fail it, and a run  *)
(* that is over stays over.  Runs are independent of each other, and one   *)
(* step of the system may give back several of them.                       *)
(***************************************************************************)
EXTENDS Naturals

CONSTANTS Run, Limit, Success

VARIABLES phase, tries

Init == /\ phase = [r \in Run |-> "waiting"]
        /\ tries = [r \in Run |-> 0]

Begin(r) == /\ phase[r] = "waiting" /\ tries[r] < Limit
            /\ phase'[r] = "executing" /\ tries'[r] = tries[r] + 1

GiveBack(r) == /\ phase[r] = "executing" /\ tries[r] < Limit
               /\ phase'[r] = "waiting" /\ tries'[r] = tries[r]

Succeed(r) == /\ phase[r] = "executing"
              /\ phase'[r] \in Success /\ tries'[r] = tries[r]

Fail(r) == /\ phase[r] = "executing" /\ tries[r] = Limit
           /\ phase'[r] = "failed" /\ tries'[r] = tries[r]

Keep(r) == phase'[r] = phase[r] /\ tries'[r] = tries[r]

Next == \A r \in Run : Begin(r) \/ GiveBack(r) \/ Succeed(r) \/ Fail(r) \/ Keep(r)

Spec == Init /\ [][Next]_<<phase, tries>>
=============================================================================
