----------------------------- MODULE Approvals -----------------------------
(***************************************************************************)
(* The tool gateway: calls that the policy allows, refuses or asks about,  *)
(* the approvals table and the decision requests that resolve an approval  *)
(* (src/src/tools/gateway.py, src/src/api/routes.py, run_store.py).        *)
(*                                                                         *)
(* One action is one awaited call, as in RunLifecycle; resolve_approval    *)
(* reads before it writes and is two.  An approval belongs to the one call *)
(* it asks for and carries its name here.                                  *)
(***************************************************************************)
EXTENDS PolicyEngine, Naturals, FiniteSets

CONSTANTS
    Runs,         \* runs that have tool calls
    Calls,        \* tool-call requests
    Decisions,    \* approval-decision requests
    Tools,        \* the tools and
    UsedModes,    \* the modes clients name in a request
    MaxFaults,    \* bound on calls to the store that raise
    MaxCrashes    \* bound on process stops

ASSUME SomethingToAsk == Runs # {} /\ Calls # {} /\ Tools # {} /\ UsedModes # {}
ASSUME ModesKnown     == UsedModes \subseteq Modes
ASSUME KindsDiffer    == Calls \cap Decisions = {}
ASSUME FaultsBounded  == MaxFaults \in Nat /\ MaxCrashes \in Nat

Handlers == Calls \cup Decisions
Request  == [run : Runs, tool : Tools, path : {"plain", "secret"}, mode : UsedModes]
Scopes   == {"once", "run", "workspace", "all_approved_run"}
Verdicts == {"approved", "denied"}

VARIABLES
    stage,                      \* per request handler: where it stands
    request, basis,             \* per call: what it asks, the grants it was decided on
    target, verdict, scope,     \* per decision: the approval it is about, its body
    status, grantScope,         \* the approvals table: the status, the scope it was given
    announced,                  \* per call: the verdicts the run's event log tells
    ran,                        \* per call: how often the tool's handler was called
    faults, crashes             \* how much of each bound is used

call     == <<request, basis>>
decision == <<target, verdict, scope>>
table    == <<status, grantScope>>
vars     == <<stage, call, decision, table, announced, ran, faults, crashes>>

-----------------------------------------------------------------------------

\* "error": the request was answered with an exception, or its process stopped.
Over      == {"new", "awaiting", "refused", "done", "error"}
CallStage == Over \cup {"policy", "create", "ask", "start", "run", "report"}
DecisionStage == {"new", "select", "update", "tell", "refused",
                  "start", "run", "report", "done", "error"}

TypeOK ==
    /\ stage \in [Handlers -> CallStage \cup DecisionStage]
    /\ \A c \in Calls : stage[c] \in CallStage
    /\ \A d \in Decisions : stage[d] \in DecisionStage
    /\ request \in [Calls -> Request]
    /\ basis \in [Calls -> SUBSET (Tools \cup {"all_approved_run"})]
    /\ target \in [Decisions -> Calls]
    /\ verdict \in [Decisions -> Verdicts]
    /\ scope \in [Decisions -> Scopes]
    /\ status \in [Calls -> {"none", "pending"} \cup Verdicts]
    /\ grantScope \in [Calls -> Scopes]
    /\ announced \in [Calls -> SUBSET Verdicts]
    /\ ran \in [Calls -> Nat]
    /\ faults \in 0..MaxFaults /\ crashes \in 0..MaxCrashes

Init ==
    /\ stage = [h \in Handlers |-> "new"]
    /\ request = [c \in Calls |-> CHOOSE r \in Request : TRUE]
    /\ basis = [c \in Calls |-> {}]
    /\ target = [d \in Decisions |-> CHOOSE c \in Calls : TRUE]
    /\ verdict = [d \in Decisions |-> "denied"]
    /\ scope = [d \in Decisions |-> "once"]
    /\ status = [c \in Calls |-> "none"]
    /\ grantScope = [c \in Calls |-> "once"]
    /\ announced = [c \in Calls |-> {}]
    /\ ran = [c \in Calls |-> 0]
    /\ faults = 0 /\ crashes = 0

Goto(h, s) == stage' = [stage EXCEPT ![h] = s]

\* The call to the store in h's step returns and h goes to s; or it raises.
Done(h, s) == Goto(h, s) /\ UNCHANGED faults
Raise(h)   == faults < MaxFaults /\ faults' = faults + 1 /\ Goto(h, "error")

-----------------------------------------------------------------------------
(* ToolGateway.invoke *)

\* Mutant: the approvals of other runs count.
GrantsOfAllRuns(run) ==
    LET given(s) == {c \in Calls : status[c] = "approved" /\ grantScope[c] \in s} IN
    {request[c].tool : c \in given({"run", "workspace"})}
        \cup {"all_approved_run" : c \in given({"all_approved_run"})}

\* approval_grants: the approved rows of the run, each by its own scope.
Grants(run) ==
    LET given(s) == {c \in Calls : /\ status[c] = "approved" /\ request[c].run = run
                                   /\ grantScope[c] \in s} IN
    {request[c].tool : c \in given({"run", "workspace"})}
        \cup {"all_approved_run" : c \in given({"all_approved_run"})}

\* A request arrives and its handler reads the grants of the run.
ReadGrants(c) ==
    /\ stage[c] = "new"
    /\ \E r \in Request :
         /\ request' = [request EXCEPT ![c] = r]
         /\ basis' = [basis EXCEPT ![c] = Grants(r.run)]
    /\ Goto(c, "policy")
    /\ UNCHANGED <<decision, table, announced, ran, faults, crashes>>

Asked(c)   == Call(c, request[c].tool, request[c].path)
Outcome(c) == Decide(Asked(c), request[c].mode, basis[c], {})

\* The decision is written to the event log, then acted upon.
Decided(c) ==
    /\ stage[c] = "policy"
    /\ \/ Done(c, IF Outcome(c) = "deny" THEN "refused"
                  ELSE IF Outcome(c) = "ask" THEN "create" ELSE "start")
       \/ Raise(c)
    /\ UNCHANGED <<call, decision, table, announced, ran, crashes>>

CreateApproval(c) ==
    /\ stage[c] = "create"
    /\ \/ status' = [status EXCEPT ![c] = "pending"] /\ Done(c, "ask")
       \/ Raise(c) /\ UNCHANGED status
    /\ UNCHANGED <<call, decision, grantScope, announced, ran, crashes>>

\* The approval.requested event: if it raises, the approval is there all the same.
AskForApproval(c) ==
    /\ stage[c] = "ask"
    /\ Done(c, "awaiting") \/ Raise(c)
    /\ UNCHANGED <<call, decision, table, announced, ran, crashes>>

-----------------------------------------------------------------------------
(* ToolGateway._execute, for an allowed call or for a decision *)

Subject(h) == IF h \in Calls THEN h ELSE target[h]

EmitStarted(h) ==
    /\ stage[h] = "start"
    /\ Done(h, "run") \/ Raise(h)
    /\ UNCHANGED <<call, decision, table, announced, ran, crashes>>

\* Mutant: a decision is left in a stage that nothing continues.
RunAgain(h) ==
    /\ stage[h] = "run"
    /\ ran' = [ran EXCEPT ![Subject(h)] = @ + 1]
    /\ Goto(h, IF h \in Calls THEN "report" ELSE "retry")
    /\ UNCHANGED <<call, decision, table, announced, faults, crashes>>

\* Whether the tool returns or raises, an event is next.
RunTool(h) ==
    /\ stage[h] = "run"
    /\ ran' = [ran EXCEPT ![Subject(h)] = @ + 1]
    /\ Goto(h, "report")
    /\ UNCHANGED <<call, decision, table, announced, faults, crashes>>

EmitResult(h) ==
    /\ stage[h] = "report"
    /\ Done(h, "done") \/ Raise(h)
    /\ UNCHANGED <<call, decision, table, announced, ran, crashes>>

Execute(h) == EmitStarted(h) \/ RunTool(h) \/ EmitResult(h)

-----------------------------------------------------------------------------
(* The decision endpoint and ToolGateway.resolve *)

\* get_approval: an approval that is not pending any more is a 409.
CheckPending(d) ==
    /\ stage[d] = "new"
    /\ \E c \in Calls, v \in Verdicts, s \in Scopes :
         /\ status[c] = "pending"
         /\ target' = [target EXCEPT ![d] = c]
         /\ verdict' = [verdict EXCEPT ![d] = v]
         /\ scope' = [scope EXCEPT ![d] = s]
    /\ Goto(d, "select")
    /\ UNCHANGED <<call, table, announced, ran, faults, crashes>>

\* The SELECT of resolve_approval.  A row that was resolved in between is
\* returned as it is, and resolve() goes on with the verdict of its own request.
SelectApproval(d) ==
    /\ stage[d] = "select"
    /\ Done(d, IF status[target[d]] = "pending" THEN "update" ELSE "tell") \/ Raise(d)
    /\ UNCHANGED <<call, decision, table, announced, ran, crashes>>

\* Its UPDATE is by id: status and scope together, whatever the row says by now.
UpdateApproval(d) ==
    /\ stage[d] = "update"
    /\ \/ /\ status' = [status EXCEPT ![target[d]] = verdict[d]]
          /\ grantScope' = [grantScope EXCEPT ![target[d]] = scope[d]]
          /\ Done(d, "tell")
       \/ Raise(d) /\ UNCHANGED table
    /\ UNCHANGED <<call, decision, announced, ran, crashes>>

\* Mutants: the verdict is not looked at; a granted action is not started.
TellAndStart(d) ==
    /\ stage[d] = "tell"
    /\ announced' = [announced EXCEPT ![target[d]] = @ \cup {verdict[d]}]
    /\ Done(d, "start")
    /\ UNCHANGED <<call, decision, table, ran, crashes>>
TellOnly(d) ==
    /\ stage[d] = "tell"
    /\ announced' = [announced EXCEPT ![target[d]] = @ \cup {verdict[d]}]
    /\ Done(d, "refused")
    /\ UNCHANGED <<call, decision, table, ran, crashes>>

\* The approval.granted or approval.denied event; a granted action is executed.
Tell(d) ==
    /\ stage[d] = "tell"
    /\ \/ /\ announced' = [announced EXCEPT ![target[d]] = @ \cup {verdict[d]}]
          /\ Done(d, IF verdict[d] = "approved" THEN "start" ELSE "refused")
       \/ Raise(d) /\ UNCHANGED announced
    /\ UNCHANGED <<call, decision, table, ran, crashes>>

\* The process stops with every handler in it.
Stop ==
    /\ crashes < MaxCrashes /\ crashes' = crashes + 1
    /\ stage' = [h \in Handlers |-> IF stage[h] \in Over THEN stage[h] ELSE "error"]
    /\ UNCHANGED <<call, decision, table, announced, ran, faults>>

Invoke(c)  == ReadGrants(c) \/ Decided(c) \/ CreateApproval(c) \/ AskForApproval(c)
Resolve(d) == CheckPending(d) \/ SelectApproval(d) \/ UpdateApproval(d) \/ Tell(d)

Next ==
    \/ \E c \in Calls : Invoke(c)
    \/ \E d \in Decisions : Resolve(d)
    \/ \E h \in Handlers : Execute(h)
    \/ Stop

Spec == Init /\ [][Next]_vars

-----------------------------------------------------------------------------
(* Properties *)

\* Approving is what a decision did that wrote, or might still act on, "approved".
Approves(d, c) == stage[d] # "new" /\ target[d] = c /\ verdict[d] = "approved"

\* A call that the hard rules refuse is never asked about and never executed,
\* whatever grants its run has collected.
HardDenyIsFinal ==
    \A c \in Calls : stage[c] # "new" /\ HardDeny(Asked(c)) => status[c] = "none" /\ ran[c] = 0

\* What was executed was allowed by the policy on the grants it read, or a
\* user approved that very call.
ExecutedIsAuthorised ==
    \A c \in Calls : ran[c] > 0 =>
        \/ Outcome(c) = "allow"
        \/ status[c] # "none" /\ \E d \in Decisions : Approves(d, c)

\* Every grant a call was decided on goes back to a decision that approved a
\* call of the same run and gave it that scope: grants do not cross runs, a
\* "once" approval and a denial leave none, even if decisions overtake each other.
GrantsGoBackToApprovals ==
    \A c \in Calls : \A g \in basis[c] :
        \E d \in Decisions :
            /\ Approves(d, target[d]) /\ request[target[d]].run = request[c].run
            /\ \/ g = "all_approved_run" /\ scope[d] = "all_approved_run"
               \/ g = request[target[d]].tool /\ scope[d] \in {"run", "workspace"}

\* Unless something raised, an approval recorded as approved is carried out: no
\* order of concurrent decisions leaves it approved and not executed.
ApprovedIsCarriedOut ==
    \A c \in Calls : status[c] = "approved" /\ faults = 0 /\ crashes = 0 =>
        ran[c] > 0 \/ \E d \in Decisions : Approves(d, c) /\ stage[d] \in {"tell", "start", "run"}

\* The timeline's "Approval denied. The protected action was not executed." is true.
DeniedIsNotExecuted == \A c \in Calls : "denied" \in announced[c] => ran[c] = 0
=============================================================================
