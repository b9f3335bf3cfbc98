---------------------------- MODULE JobContract -----------------------------
(***************************************************************************)
(* What the relay promises about a job of a paired device, seen by the     *)
(* owner and the device (ADR 009): a job is lent only after it was         *)
(* granted, each time under the next number; what the device executes it   *)
(* executes under a number that was lent, perhaps late; a job is settled   *)
(* only while it is lent, with the result of an execution under its last   *)
(* number; and a job that is over stays over.  Jobs are independent of     *)
(* each other, and one transaction may move several of them.               *)
(***************************************************************************)
EXTENDS Naturals

CONSTANTS Jobs

VARIABLES
    state,       \* per job: "none", "asked", "waiting", "lent" or how it ended
    used,        \* numbers lent so far; the last one is the one in force
    executed,    \* numbers under which the device executed it
    result       \* the number whose result settled it, or 0

Init == /\ state = [j \in Jobs |-> "none"]
        /\ used = [j \in Jobs |-> 0]
        /\ executed = [j \in Jobs |-> {}]
        /\ result = [j \in Jobs |-> 0]

\* Only the state of the job changes.
Becomes(j, to) == /\ state'[j] = to /\ used'[j] = used[j]
                  /\ executed'[j] = executed[j] /\ result'[j] = result[j]

Ask(j)      == state[j] = "none" /\ Becomes(j, "asked")
Grant(j)    == state[j] = "asked" /\ Becomes(j, "waiting")
Refuse(j)   == state[j] = "asked" /\ Becomes(j, "cancelled")
TakeBack(j) == state[j] = "lent" /\ Becomes(j, "waiting")
Expire(j)   == state[j] \in {"asked", "waiting", "lent"} /\ Becomes(j, "expired")

\* A job may be taken back and lent again in one transaction.
Lend(j) == /\ state[j] \in {"waiting", "lent"}
           /\ state'[j] = "lent" /\ used'[j] = used[j] + 1
           /\ executed'[j] = executed[j] /\ result'[j] = result[j]

\* The device does not know whether its number is still in force.
Execute(j) == /\ \E n \in 1..used[j] : n \notin executed[j] /\ executed'[j] = executed[j] \cup {n}
              /\ state'[j] = state[j] /\ used'[j] = used[j] /\ result'[j] = result[j]

Settle(j) == /\ state[j] = "lent" /\ used[j] \in executed[j]
             /\ state'[j] \in {"completed", "failed"} /\ result'[j] = used[j]
             /\ used'[j] = used[j] /\ executed'[j] = executed[j]

Keep(j) == Becomes(j, state[j])

Next == \A j \in Jobs : \/ Ask(j) \/ Grant(j) \/ Refuse(j) \/ Lend(j) \/ TakeBack(j)
                        \/ Execute(j) \/ Settle(j) \/ Expire(j) \/ Keep(j)

Spec == Init /\ [][Next]_<<state, used, executed, result>>
=============================================================================
