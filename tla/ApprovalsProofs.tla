-------------------------- MODULE ApprovalsProofs --------------------------
(***************************************************************************)
(* For any runs, calls and decision requests, with decisions overlapping,  *)
(* calls to the store that raise and restarts: the hard rules are final,   *)
(* what is executed was authorised, and grants go back to approvals.       *)
(***************************************************************************)
EXTENDS Approvals, TLAPS

-----------------------------------------------------------------------------
(* Type correctness *)

\* The values Init chooses for requests and targets that are not set yet exist.
LEMMA DefaultsExist ==
  /\ (CHOOSE r \in Request : TRUE) \in Request
  /\ (CHOOSE c \in Calls : TRUE) \in Calls
<1>1. \E c \in Calls : TRUE
  BY SomethingToAsk
<1>2. PICK r \in Runs, t \in Tools, m \in UsedModes : TRUE
  BY SomethingToAsk
<1>3. [run |-> r, tool |-> t, path |-> "plain", mode |-> m] \in Request
  BY <1>2 DEF Request
<1>. QED  BY <1>1, <1>3

\* A grant is a tool of a request or "all_approved_run".
LEMMA GrantsType ==
  ASSUME TypeOK, NEW run
  PROVE  Grants(run) \subseteq Tools \cup {"all_approved_run"}
BY DEF TypeOK, Grants, Request

\* Every variable has its type when nothing has been asked yet.
LEMMA TypeInit == Init => TypeOK
BY DefaultsExist, KindsDiffer, FaultsBounded
   DEF Init, TypeOK, Handlers, CallStage, DecisionStage, Over, Verdicts, Scopes

\* No step of a handler, and no stop of the process, leaves the types.
LEMMA TypeStep == TypeOK /\ [Next]_vars => TypeOK'
<1> SUFFICES ASSUME TypeOK, [Next]_vars PROVE TypeOK'
  OBVIOUS
<1> USE KindsDiffer, FaultsBounded
<1>1. ASSUME NEW c \in Calls, ReadGrants(c) PROVE TypeOK'
  <2>1. PICK r \in Request : basis' = [basis EXCEPT ![c] = Grants(r.run)]
    BY <1>1 DEF ReadGrants
  <2>2. basis' \in [Calls -> SUBSET (Tools \cup {"all_approved_run"})]
    <3>1. Grants(r.run) \subseteq Tools \cup {"all_approved_run"}
      BY GrantsType
    <3>. QED  BY <2>1, <3>1 DEF TypeOK
  <2>3. request' \in [Calls -> Request]
    BY <1>1 DEF ReadGrants, TypeOK
  <2>. QED  BY <1>1, <2>2, <2>3 DEF ReadGrants, Goto, TypeOK, Handlers, CallStage, DecisionStage, Over, decision, table
<1>2. ASSUME NEW c \in Calls, Decided(c) \/ AskForApproval(c) PROVE TypeOK'
  BY <1>2 DEF Decided, AskForApproval, Done, Raise, Goto, TypeOK, Handlers, CallStage, DecisionStage, Over, call, decision, table
<1>3. ASSUME NEW c \in Calls, CreateApproval(c) PROVE TypeOK'
  BY <1>3 DEF CreateApproval, Done, Raise, Goto, TypeOK, Handlers, CallStage, DecisionStage, Over, call, decision
<1>4. ASSUME NEW h \in Handlers, EmitStarted(h) \/ EmitResult(h) PROVE TypeOK'
  BY <1>4 DEF EmitStarted, EmitResult, Done, Raise, Goto, TypeOK, Handlers, CallStage, DecisionStage, Over, call, decision, table
<1>5. ASSUME NEW h \in Handlers, RunTool(h) PROVE TypeOK'
  <2>1. Subject(h) \in Calls
    BY DEF Subject, TypeOK, Handlers
  <2>2. ran' \in [Calls -> Nat]
    BY <1>5, <2>1 DEF RunTool, TypeOK
  <2>. QED  BY <1>5, <2>2 DEF RunTool, Goto, TypeOK, Handlers, CallStage, DecisionStage, Over, call, decision, table
<1>6. ASSUME NEW d \in Decisions, CheckPending(d) PROVE TypeOK'
  BY <1>6 DEF CheckPending, Goto, TypeOK, Handlers, CallStage, DecisionStage, Over, call, table
<1>7. ASSUME NEW d \in Decisions, SelectApproval(d) PROVE TypeOK'
  BY <1>7 DEF SelectApproval, Done, Raise, Goto, TypeOK, Handlers, CallStage, DecisionStage, Over, call, decision, table
<1>8. ASSUME NEW d \in Decisions, UpdateApproval(d) PROVE TypeOK'
  BY <1>8 DEF UpdateApproval, Done, Raise, Goto, TypeOK, Handlers, CallStage, DecisionStage, Over, call, decision, table
<1>9. ASSUME NEW d \in Decisions, Tell(d) PROVE TypeOK'
  BY <1>9 DEF Tell, Done, Raise, Goto, TypeOK, Handlers, CallStage, DecisionStage, Over, call, decision, table
<1>10. ASSUME Stop PROVE TypeOK'
  BY <1>10 DEF Stop, TypeOK, Handlers, CallStage, DecisionStage, Over, call, decision, table
<1>11. ASSUME UNCHANGED vars PROVE TypeOK'
  BY <1>11 DEF vars, TypeOK, call, decision, table
<1>. QED
  BY <1>1, <1>2, <1>3, <1>4, <1>5, <1>6, <1>7, <1>8, <1>9, <1>10, <1>11
     DEF Next, Invoke, Resolve, Execute

\* Every variable has its type, for any runs, calls, decisions, tools and bounds.
THEOREM TypeCorrect == Spec => []TypeOK
BY TypeInit, TypeStep, PTL DEF Spec

-----------------------------------------------------------------------------
(* The inductive invariant *)

\* How far a call has come, and what its approval row says, agree with what the
\* policy decided; and what was executed had its reason.
CallsOK ==
  \A c \in Calls :
    /\ stage[c] \in {"create", "ask", "awaiting"} => Outcome(c) = "ask"
    /\ stage[c] \in {"start", "run", "report", "done"} => Outcome(c) = "allow"
    /\ status[c] # "none" => Outcome(c) = "ask" /\ stage[c] \notin {"new", "policy"}
    /\ ran[c] > 0 => stage[c] # "new"

\* A decision is about an approval that exists, and acts on its own verdict.
DecisionsOK ==
  \A d \in Decisions :
    /\ stage[d] # "new" => status[target[d]] # "none"
    /\ stage[d] \in {"start", "run", "report", "done"} => verdict[d] = "approved"

\* The scope of an approved row was written with its status, by one decision.
ScopesOK ==
  \A c \in Calls : status[c] = "approved" =>
    \E d \in Decisions : Approves(d, c) /\ scope[d] = grantScope[c]

IInv == /\ TypeOK /\ CallsOK /\ DecisionsOK /\ ScopesOK
        /\ ExecutedIsAuthorised /\ GrantsGoBackToApprovals

\* The inductive invariant holds before the first request.
LEMMA InitIInv == Init => IInv
<1> SUFFICES ASSUME Init PROVE IInv
  OBVIOUS
<1>1. TypeOK
  BY TypeInit
<1>2. CallsOK
  BY DEF Init, CallsOK, Handlers
<1>3. DecisionsOK /\ ScopesOK
  BY DEF Init, DecisionsOK, ScopesOK, Handlers
<1>4. ExecutedIsAuthorised /\ GrantsGoBackToApprovals
  BY DEF Init, ExecutedIsAuthorised, GrantsGoBackToApprovals
<1>. QED  BY <1>1, <1>2, <1>3, <1>4 DEF IInv

\* What the policy decided of a call stays while its request and basis do.
LEMMA OutcomeKept ==
  ASSUME NEW c \in Calls, request'[c] = request[c], basis'[c] = basis[c]
  PROVE  Outcome(c)' = Outcome(c)
BY DEF Outcome, Asked

\* A decision that approves a call goes on doing so: stages never return to
\* "new", and only the first step sets what a decision is about.
LEMMA ApprovesKept ==
  ASSUME TypeOK, NEW d \in Decisions, NEW c \in Calls, Approves(d, c), [Next]_vars
  PROVE  Approves(d, c)' /\ scope'[d] = scope[d] /\ target'[d] = target[d]
<1> USE KindsDiffer DEF TypeOK, Handlers
<1>0. d \in Handlers /\ d \notin Calls
  OBVIOUS
<1>1. ASSUME NEW h \in Handlers, NEW s, s # "new", Goto(h, s) PROVE stage'[d] # "new"
  BY <1>1 DEF Goto, Approves
<1>2. ASSUME NEW b \in Calls, Invoke(b) PROVE Approves(d, c)' /\ scope'[d] = scope[d] /\ target'[d] = target[d]
  BY <1>2, <1>1 DEF Invoke, ReadGrants, Decided, CreateApproval, AskForApproval, Done, Raise, Approves, decision
<1>3. ASSUME NEW e \in Decisions, Resolve(e) PROVE Approves(d, c)' /\ scope'[d] = scope[d] /\ target'[d] = target[d]
  BY <1>3, <1>1 DEF Resolve, CheckPending, SelectApproval, UpdateApproval, Tell, Done, Raise, Approves, decision
<1>4. ASSUME NEW h \in Handlers, Execute(h) PROVE Approves(d, c)' /\ scope'[d] = scope[d] /\ target'[d] = target[d]
  BY <1>4, <1>1 DEF Execute, EmitStarted, RunTool, EmitResult, Done, Raise, Approves, decision
<1>5. ASSUME Stop PROVE Approves(d, c)' /\ scope'[d] = scope[d] /\ target'[d] = target[d]
  BY <1>5 DEF Stop, Approves, decision
<1>6. ASSUME UNCHANGED vars PROVE Approves(d, c)' /\ scope'[d] = scope[d] /\ target'[d] = target[d]
  BY <1>6 DEF vars, Approves, decision
<1>. QED  BY <1>2, <1>3, <1>4, <1>5, <1>6 DEF Next

\* A row that exists goes on existing, and the request of its call stays.
LEMMA RowsKept ==
  ASSUME TypeOK, CallsOK, [Next]_vars, NEW c \in Calls, stage[c] # "new"
  PROVE  /\ request'[c] = request[c] /\ basis'[c] = basis[c]
         /\ stage'[c] # "new"
         /\ status[c] # "none" => status'[c] # "none"
<1> USE KindsDiffer DEF TypeOK, Handlers
<1>1. ASSUME NEW h \in Handlers, NEW s, s # "new", Goto(h, s) PROVE stage'[c] # "new"
  BY <1>1 DEF Goto
<1> DEFINE P == /\ request'[c] = request[c] /\ basis'[c] = basis[c]
                /\ stage'[c] # "new"
                /\ status[c] # "none" => status'[c] # "none"
<1>2. ASSUME NEW b \in Calls, Invoke(b) PROVE P
  BY <1>2, <1>1 DEF Invoke, ReadGrants, Decided, CreateApproval, AskForApproval, Done, Raise, call, table
<1>3. ASSUME NEW e \in Decisions, Resolve(e) PROVE P
  BY <1>3, <1>1 DEF Resolve, CheckPending, SelectApproval, UpdateApproval, Tell, Done, Raise, call, table, Verdicts
<1>4. ASSUME NEW h \in Handlers, Execute(h) PROVE P
  BY <1>4, <1>1 DEF Execute, EmitStarted, RunTool, EmitResult, Done, Raise, call, table
<1>5. ASSUME Stop PROVE P
  BY <1>5 DEF Stop, call, table
<1>6. ASSUME UNCHANGED vars PROVE P
  BY <1>6 DEF vars, call, table
<1>. QED  BY <1>2, <1>3, <1>4, <1>5, <1>6 DEF Next

\* Every grant an approved row gives goes back to a decision.
LEMMA GrantsAreBacked ==
  ASSUME TypeOK, ScopesOK, NEW run, NEW g \in Grants(run)
  PROVE  \E d \in Decisions :
           /\ Approves(d, target[d]) /\ request[target[d]].run = run
           /\ \/ g = "all_approved_run" /\ scope[d] = "all_approved_run"
              \/ g = request[target[d]].tool /\ scope[d] \in {"run", "workspace"}
<1>1. PICK c \in Calls :
        /\ status[c] = "approved" /\ request[c].run = run
        /\ \/ g = "all_approved_run" /\ grantScope[c] = "all_approved_run"
           \/ g = request[c].tool /\ grantScope[c] \in {"run", "workspace"}
  BY DEF Grants
<1>2. PICK d \in Decisions : Approves(d, c) /\ scope[d] = grantScope[c]
  BY <1>1 DEF ScopesOK
<1>3. target[d] = c
  BY <1>2 DEF Approves
<1>. QED  BY <1>1, <1>2, <1>3

-----------------------------------------------------------------------------
(* The parts of the invariant are preserved *)

\* What a handler at a stage knows of its call stays true: a policy decision is
\* acted upon as it was made.
LEMMA CallsStep == TypeOK /\ CallsOK /\ DecisionsOK /\ [Next]_vars => CallsOK'
<1> SUFFICES ASSUME TypeOK, CallsOK, DecisionsOK, [Next]_vars, NEW c \in Calls
             PROVE  /\ stage'[c] \in {"create", "ask", "awaiting"} => Outcome(c)' = "ask"
                    /\ stage'[c] \in {"start", "run", "report", "done"} => Outcome(c)' = "allow"
                    /\ status'[c] # "none" => Outcome(c)' = "ask" /\ stage'[c] \notin {"new", "policy"}
                    /\ ran'[c] > 0 => stage'[c] # "new"
  BY DEF CallsOK
<1> DEFINE P == /\ stage'[c] \in {"create", "ask", "awaiting"} => Outcome(c)' = "ask"
                /\ stage'[c] \in {"start", "run", "report", "done"} => Outcome(c)' = "allow"
                /\ status'[c] # "none" => Outcome(c)' = "ask" /\ stage'[c] \notin {"new", "policy"}
                /\ ran'[c] > 0 => stage'[c] # "new"
<1>1. UNCHANGED call => Outcome(c)' = Outcome(c)
  BY OutcomeKept DEF call
<1>2. Outcome(c) \in {"allow", "ask", "deny"}
  BY DEF Outcome, Decide
<1> USE KindsDiffer DEF TypeOK, Handlers, CallsOK
<1>3. ASSUME NEW b \in Calls, ReadGrants(b) PROVE P
  <2>1. CASE b = c
    BY <1>3, <2>1 DEF ReadGrants, Goto, table
  <2>2. CASE b # c
    <3>1. Outcome(c)' = Outcome(c)
      BY <1>3, <2>2, OutcomeKept DEF ReadGrants
    <3>. QED  BY <1>3, <2>2, <3>1 DEF ReadGrants, Goto, table
  <2>. QED  BY <2>1, <2>2
<1>4. ASSUME NEW b \in Calls, Decided(b) PROVE P
  BY <1>1, <1>2, <1>4 DEF Decided, Done, Raise, Goto, call, table
<1>5. ASSUME NEW b \in Calls, CreateApproval(b) \/ AskForApproval(b) PROVE P
  BY <1>1, <1>5 DEF CreateApproval, AskForApproval, Done, Raise, Goto, call, table
<1>6. ASSUME NEW h \in Handlers, EmitStarted(h) \/ EmitResult(h) PROVE P
  BY <1>1, <1>6 DEF EmitStarted, EmitResult, Done, Raise, Goto, call, table
<1>7. ASSUME NEW h \in Handlers, RunTool(h) PROVE P
  <2>1. CASE h \in Calls
    BY <1>1, <1>7, <2>1 DEF RunTool, Subject, Goto, call, table
  <2>2. CASE h \in Decisions
    <3>1. status[target[h]] # "none"
      BY <1>7, <2>2 DEF RunTool, DecisionsOK
    <3>2. stage[target[h]] # "new"
      BY <2>2, <3>1
    <3>. QED  BY <1>1, <1>7, <2>2, <3>2 DEF RunTool, Subject, Goto, call, table
  <2>. QED  BY <2>1, <2>2
<1>8. ASSUME NEW d \in Decisions, CheckPending(d) \/ SelectApproval(d) \/ Tell(d) PROVE P
  BY <1>1, <1>8 DEF CheckPending, SelectApproval, Tell, Done, Raise, Goto, call, table
<1>9. ASSUME NEW d \in Decisions, UpdateApproval(d) PROVE P
  <2>1. status[target[d]] # "none"
    BY <1>9 DEF UpdateApproval, DecisionsOK
  <2>. QED  BY <1>1, <1>9, <2>1 DEF UpdateApproval, Done, Raise, Goto, call, table
<1>10. ASSUME Stop PROVE P
  BY <1>1, <1>10 DEF Stop, Over, call, table
<1>11. ASSUME UNCHANGED vars PROVE P
  BY <1>1, <1>11 DEF vars, call, table
<1>. QED
  BY <1>3, <1>4, <1>5, <1>6, <1>7, <1>8, <1>9, <1>10, <1>11 DEF Next, Invoke, Resolve, Execute

\* A decision is about an approval that exists, and only an approving one goes on
\* to the execution.
LEMMA DecisionsStep == TypeOK /\ CallsOK /\ DecisionsOK /\ [Next]_vars => DecisionsOK'
<1> SUFFICES ASSUME TypeOK, CallsOK, DecisionsOK, [Next]_vars, NEW d \in Decisions
             PROVE  /\ stage'[d] # "new" => status'[target'[d]] # "none"
                    /\ stage'[d] \in {"start", "run", "report", "done"} => verdict'[d] = "approved"
  BY DEF DecisionsOK
<1> DEFINE P == /\ stage'[d] # "new" => status'[target'[d]] # "none"
                /\ stage'[d] \in {"start", "run", "report", "done"} => verdict'[d] = "approved"
<1>1. \A c \in Calls : status[c] # "none" => status'[c] # "none"
  BY RowsKept DEF CallsOK
<1> USE KindsDiffer DEF TypeOK, Handlers, DecisionsOK
<1>2. ASSUME NEW b \in Calls, Invoke(b) PROVE P
  BY <1>1, <1>2 DEF Invoke, ReadGrants, Decided, CreateApproval, AskForApproval, Done, Raise, Goto, decision
<1>3. ASSUME NEW h \in Handlers, Execute(h) PROVE P
  BY <1>1, <1>3 DEF Execute, EmitStarted, RunTool, EmitResult, Done, Raise, Goto, decision
<1>4. ASSUME NEW e \in Decisions, CheckPending(e) PROVE P
  BY <1>1, <1>4 DEF CheckPending, Goto
<1>5. ASSUME NEW e \in Decisions, SelectApproval(e) \/ UpdateApproval(e) \/ Tell(e) PROVE P
  BY <1>1, <1>5 DEF SelectApproval, UpdateApproval, Tell, Done, Raise, Goto, decision
<1>6. ASSUME Stop PROVE P
  BY <1>1, <1>6 DEF Stop, Over, decision
<1>7. ASSUME UNCHANGED vars PROVE P
  BY <1>1, <1>7 DEF vars, decision
<1>. QED  BY <1>2, <1>3, <1>4, <1>5, <1>6, <1>7 DEF Next, Resolve

\* The scope of an approved row is that of a decision that approved it.
LEMMA ScopesStep == TypeOK /\ ScopesOK /\ [Next]_vars => ScopesOK'
<1> SUFFICES ASSUME TypeOK, ScopesOK, [Next]_vars, NEW c \in Calls, status'[c] = "approved"
             PROVE  \E d \in Decisions : Approves(d, c)' /\ scope'[d] = grantScope'[c]
  BY DEF ScopesOK
<1>1. CASE status[c] = "approved" /\ grantScope'[c] = grantScope[c]
  <2>1. PICK d \in Decisions : Approves(d, c) /\ scope[d] = grantScope[c]
    BY <1>1 DEF ScopesOK
  <2>. QED  BY <1>1, <2>1, ApprovesKept
<1>2. CASE ~(status[c] = "approved" /\ grantScope'[c] = grantScope[c])
  <2>0. UNCHANGED table => FALSE
    BY <1>2 DEF table
  <2>1. PICK d \in Decisions : UpdateApproval(d)
    <3>1. \A b \in Calls : ~CreateApproval(b)
      BY <1>2 DEF CreateApproval, TypeOK
    <3>. QED
      BY <2>0, <3>1 DEF Next, Invoke, ReadGrants, Decided, AskForApproval, Execute, EmitStarted, RunTool,
                        EmitResult, Resolve, CheckPending, SelectApproval, Tell, Stop, vars
  <2>2. target[d] = c /\ verdict[d] = "approved" /\ grantScope'[c] = scope[d] /\ stage'[d] = "tell"
    BY <1>2, <2>1, KindsDiffer DEF UpdateApproval, Done, Raise, Goto, TypeOK, Handlers, table
  <2>. QED  BY <2>1, <2>2 DEF Approves, UpdateApproval, decision
<1>. QED  BY <1>1, <1>2

\* A tool is run by an allowed call or by a decision that approved the call.
LEMMA ExecutedStep ==
  TypeOK /\ CallsOK /\ DecisionsOK /\ ExecutedIsAuthorised /\ [Next]_vars => ExecutedIsAuthorised'
<1> SUFFICES ASSUME TypeOK, CallsOK, DecisionsOK, ExecutedIsAuthorised, [Next]_vars,
                    NEW c \in Calls, ran'[c] > 0
             PROVE  \/ Outcome(c)' = "allow"
                    \/ status'[c] # "none" /\ \E d \in Decisions : Approves(d, c)'
  BY DEF ExecutedIsAuthorised
<1>1. \/ ran'[c] = ran[c]
      \/ \E h \in Handlers : RunTool(h) /\ Subject(h) = c
  BY DEF Next, Invoke, ReadGrants, Decided, CreateApproval, AskForApproval, Execute, EmitStarted,
         RunTool, EmitResult, Resolve, CheckPending, SelectApproval, UpdateApproval, Tell, Stop, vars, TypeOK
<1>2. CASE ran'[c] = ran[c]
  <2>1. stage[c] # "new"
    BY <1>2 DEF CallsOK
  <2>2. Outcome(c)' = Outcome(c)
    BY <2>1, RowsKept, OutcomeKept
  <2>. QED  BY <1>2, <2>1, <2>2, RowsKept, ApprovesKept DEF ExecutedIsAuthorised
<1>3. ASSUME NEW h \in Handlers, RunTool(h), Subject(h) = c
      PROVE  \/ Outcome(c)' = "allow"
             \/ status'[c] # "none" /\ \E d \in Decisions : Approves(d, c)'
  <2>1. CASE h \in Calls
    <3>1. h = c /\ stage[c] = "run"
      BY <1>3, <2>1 DEF Subject, RunTool
    <3>2. Outcome(c) = "allow"
      BY <3>1 DEF CallsOK
    <3>3. Outcome(c)' = Outcome(c)
      BY <3>1, RowsKept, OutcomeKept
    <3>. QED  BY <3>2, <3>3
  <2>2. CASE h \in Decisions
    <3>1. target[h] = c /\ stage[h] = "run"
      BY <1>3, <2>2, KindsDiffer DEF Subject, RunTool
    <3>2. status[c] # "none" /\ Approves(h, c)
      BY <2>2, <3>1 DEF DecisionsOK, Approves
    <3>3. stage[c] # "new"
      BY <3>2 DEF CallsOK
    <3>. QED  BY <2>2, <3>2, <3>3, RowsKept, ApprovesKept
  <2>. QED  BY <2>1, <2>2 DEF Handlers
<1>. QED  BY <1>1, <1>2, <1>3

\* The grants a call has read go on having a decision behind them.
LEMMA GrantsStep ==
  TypeOK /\ CallsOK /\ DecisionsOK /\ ScopesOK /\ GrantsGoBackToApprovals /\ [Next]_vars
    => GrantsGoBackToApprovals'
<1> DEFINE Backs(d, g, run) ==
      /\ Approves(d, target[d]) /\ request[target[d]].run = run
      /\ \/ g = "all_approved_run" /\ scope[d] = "all_approved_run"
         \/ g = request[target[d]].tool /\ scope[d] \in {"run", "workspace"}
<1> SUFFICES ASSUME TypeOK, CallsOK, DecisionsOK, ScopesOK, GrantsGoBackToApprovals, [Next]_vars,
                    NEW c \in Calls, NEW g \in basis'[c]
             PROVE  \E d \in Decisions : Backs(d, g, request[c].run)'
  BY DEF GrantsGoBackToApprovals
\* A decision that backs a grant keeps on backing it.
<1>1. ASSUME NEW d \in Decisions, NEW run, Backs(d, g, run)
      PROVE  /\ Approves(d, target[d])' /\ request'[target'[d]].run = run
             /\ \/ g = "all_approved_run" /\ scope'[d] = "all_approved_run"
                \/ g = request'[target'[d]].tool /\ scope'[d] \in {"run", "workspace"}
  <2>1. target[d] \in Calls
    BY DEF TypeOK
  <2>2. stage[target[d]] # "new"
    BY <1>1, <2>1 DEF Approves, DecisionsOK, CallsOK
  <2>3. request'[target[d]] = request[target[d]]
    BY <2>1, <2>2, RowsKept
  <2>4. scope'[d] = scope[d] /\ target'[d] = target[d] /\ stage'[d] # "new" /\ verdict'[d] = "approved"
    BY <1>1, <2>1, ApprovesKept DEF Approves
  <2>. QED  BY <1>1, <2>3, <2>4 DEF Approves
<1>2. CASE basis'[c] = basis[c] /\ request'[c] = request[c]
  <2>1. PICK d \in Decisions : Backs(d, g, request[c].run)
    BY <1>2 DEF GrantsGoBackToApprovals
  <2>. QED  BY <1>1, <1>2, <2>1
<1>3. CASE ~(basis'[c] = basis[c] /\ request'[c] = request[c])
  <2>1. ReadGrants(c)
    BY <1>3 DEF Next, Invoke, ReadGrants, Decided, CreateApproval, AskForApproval, Execute, EmitStarted,
                RunTool, EmitResult, Resolve, CheckPending, SelectApproval, UpdateApproval, Tell, Stop, vars, call, TypeOK
  <2>2. basis'[c] = Grants(request'[c].run)
    BY <2>1 DEF ReadGrants, TypeOK
  <2>3. PICK d \in Decisions : Backs(d, g, request'[c].run)
    BY <2>2, GrantsAreBacked
  <2>. QED  BY <1>1, <2>3
<1>. QED  BY <1>2, <1>3

\* The inductive invariant holds throughout.
LEMMA InvariantHolds == Spec => []IInv
<1>1. IInv /\ [Next]_vars => IInv'
  <2> SUFFICES ASSUME IInv, [Next]_vars PROVE IInv'
    OBVIOUS
  <2>1. TypeOK'
    BY TypeStep DEF IInv
  <2>. QED  BY <2>1, CallsStep, DecisionsStep, ScopesStep, ExecutedStep, GrantsStep DEF IInv
<1>. QED  BY <1>1, InitIInv, PTL DEF Spec

-----------------------------------------------------------------------------
(* Theorems *)

\* A call the hard rules refuse is never asked about and never executed, with
\* any grants, modes and overlapping decisions.
THEOREM HardDenyIsNeverOverridden == Spec => []HardDenyIsFinal
<1>1. IInv => HardDenyIsFinal
  <2> SUFFICES ASSUME IInv, NEW c \in Calls, stage[c] # "new", HardDeny(Asked(c))
               PROVE  status[c] = "none" /\ ran[c] = 0
    BY DEF HardDenyIsFinal
  <2>1. Outcome(c) = "deny"
    BY DEF Outcome, Decide
  <2>2. status[c] = "none"
    BY <2>1 DEF IInv, CallsOK
  <2>. QED  BY <2>1, <2>2 DEF IInv, TypeOK, ExecutedIsAuthorised
<1>. QED  BY <1>1, InvariantHolds, PTL

\* Whatever was executed the policy allowed, or a user approved that very call.
THEOREM ExecutedCallsAreAuthorised == Spec => []ExecutedIsAuthorised
<1>1. IInv => ExecutedIsAuthorised
  BY DEF IInv
<1>. QED  BY <1>1, InvariantHolds, PTL

\* Every grant in use goes back to an approving decision of the same run.
THEOREM GrantsAreFromApprovals == Spec => []GrantsGoBackToApprovals
<1>1. IInv => GrantsGoBackToApprovals
  BY DEF IInv
<1>. QED  BY <1>1, InvariantHolds, PTL

-----------------------------------------------------------------------------
(* What was approved is carried out *)

\* A decision on c that approves it and still has the tool to call.
Carries(d, c) == Approves(d, c) /\ stage[d] \in {"tell", "start", "run"}

\* A step in which nothing raises or stops takes such a decision on, until it
\* has called the tool.
LEMMA CarriesOn ==
  ASSUME TypeOK, NEW d \in Decisions, NEW c \in Calls, Carries(d, c), [Next]_vars,
         UNCHANGED <<faults, crashes>>
  PROVE  Carries(d, c)' \/ ran'[c] > 0
<1> USE KindsDiffer DEF TypeOK, Handlers
<1>0. d \in Handlers /\ d \notin Calls /\ Approves(d, c)' /\ faults \in Nat /\ crashes \in Nat
  BY ApprovesKept DEF Carries
<1>1. ASSUME NEW h \in Handlers, h # d, NEW s, Goto(h, s) PROVE Carries(d, c)'
  BY <1>0, <1>1 DEF Goto, Carries
<1>2. ASSUME stage'[d] \in {"start", "run"} PROVE Carries(d, c)'
  BY <1>0, <1>2 DEF Carries
<1>3. ASSUME NEW b \in Calls, Invoke(b) PROVE Carries(d, c)'
  BY <1>0, <1>1, <1>3 DEF Invoke, ReadGrants, Decided, CreateApproval, AskForApproval, Done, Raise
<1>4. ASSUME NEW e \in Decisions, Resolve(e) PROVE Carries(d, c)'
  <2>1. CASE e # d
    BY <1>0, <1>1, <1>4, <2>1 DEF Resolve, CheckPending, SelectApproval, UpdateApproval, Tell, Done, Raise
  <2>2. CASE e = d
    <3>1. Tell(d) /\ Done(d, "start")
      BY <1>0, <1>4, <2>2 DEF Resolve, CheckPending, SelectApproval, UpdateApproval, Tell, Raise, Carries, Approves
    <3> QED BY <1>0, <1>2, <3>1 DEF Done, Goto
  <2> QED BY <2>1, <2>2
<1>5. ASSUME NEW h \in Handlers, Execute(h) PROVE Carries(d, c)' \/ ran'[c] > 0
  <2>1. CASE h # d
    BY <1>0, <1>1, <1>5, <2>1 DEF Execute, EmitStarted, RunTool, EmitResult, Done, Raise
  <2>2. CASE h = d /\ RunTool(h)
    <3>1. Subject(d) = c /\ ran[c] \in Nat
      BY <1>0 DEF Carries, Approves, Subject
    <3> QED BY <2>2, <3>1 DEF RunTool
  <2>3. CASE h = d /\ ~RunTool(h)
    <3>1. EmitStarted(d) /\ Done(d, "run")
      BY <1>0, <1>5, <2>3 DEF Execute, EmitStarted, EmitResult, Raise, Carries
    <3> QED BY <1>0, <1>2, <3>1 DEF Done, Goto
  <2> QED BY <2>1, <2>2, <2>3
<1>6. ASSUME Stop PROVE FALSE
  BY <1>0, <1>6 DEF Stop
<1>7. ASSUME UNCHANGED vars PROVE Carries(d, c)'
  BY <1>0, <1>7 DEF vars, Carries
<1> QED BY <1>3, <1>4, <1>5, <1>6, <1>7 DEF Next

\* A call that becomes approved does so by a decision that carries it out.
LEMMA ApprovedByOne ==
  ASSUME TypeOK, NEW c \in Calls, [Next]_vars, status'[c] = "approved", status[c] # "approved"
  PROVE  \E d \in Decisions : Carries(d, c)'
<1> USE KindsDiffer DEF TypeOK, Handlers
<1>1. ~UNCHANGED status
  OBVIOUS
<1>2. ASSUME NEW b \in Calls, Invoke(b) PROVE FALSE
  BY <1>1, <1>2 DEF Invoke, ReadGrants, Decided, CreateApproval, AskForApproval, table
<1>3. ASSUME NEW d \in Decisions, Resolve(d) PROVE Carries(d, c)'
  <2>1. UpdateApproval(d) /\ status' = [status EXCEPT ![target[d]] = verdict[d]] /\ Done(d, "tell")
    BY <1>1, <1>3 DEF Resolve, CheckPending, SelectApproval, UpdateApproval, Tell, table
  <2>2. target[d] = c /\ verdict[d] = "approved"
    BY <2>1
  <2> QED BY <2>1, <2>2 DEF UpdateApproval, Done, Goto, Carries, Approves, decision
<1>4. ASSUME (\E h \in Handlers : Execute(h)) \/ Stop \/ UNCHANGED vars PROVE FALSE
  BY <1>1, <1>4 DEF Execute, EmitStarted, RunTool, EmitResult, Stop, table, vars
<1> QED BY <1>2, <1>3, <1>4 DEF Next

\* The tool is not uncalled, and what raised or stopped stays counted.
LEMMA CountsGrow ==
  ASSUME TypeOK, [Next]_vars
  PROVE  /\ \A c \in Calls : ran[c] > 0 => ran'[c] > 0
         /\ faults' = 0 /\ crashes' = 0 => faults = 0 /\ crashes = 0
<1>1. /\ UNCHANGED ran \/ \E h \in Handlers : RunTool(h)
      /\ UNCHANGED faults \/ faults' = faults + 1
      /\ UNCHANGED crashes \/ crashes' = crashes + 1
  BY DEF Next, Invoke, ReadGrants, Decided, CreateApproval, AskForApproval, Execute, EmitStarted, RunTool, EmitResult,
         Resolve, CheckPending, SelectApproval, UpdateApproval, Tell, Stop, Done, Raise, vars
<1>2. ASSUME NEW c \in Calls, ran[c] > 0 PROVE ran'[c] > 0
  BY <1>1, <1>2 DEF RunTool, TypeOK
<1> QED BY <1>1, <1>2, FaultsBounded DEF TypeOK

\* Whatever decisions overlap, an approval recorded as approved is carried out as
\* long as no call raises and no process stops: the decision that wrote it goes on.
THEOREM ApprovedCallsAreCarriedOut == Spec => []ApprovedIsCarriedOut
<1>1. Init => ApprovedIsCarriedOut
  BY DEF Init, ApprovedIsCarriedOut
<1>2. TypeOK /\ ApprovedIsCarriedOut /\ [Next]_vars => ApprovedIsCarriedOut'
  <2> SUFFICES ASSUME TypeOK, ApprovedIsCarriedOut, [Next]_vars, faults' = 0, crashes' = 0,
                      NEW c \in Calls, status'[c] = "approved"
               PROVE  ran'[c] > 0 \/ \E d \in Decisions : Carries(d, c)'
    BY DEF ApprovedIsCarriedOut, Carries
  <2>1. UNCHANGED <<faults, crashes>> /\ faults = 0 /\ crashes = 0
    BY CountsGrow
  <2>2. CASE status[c] # "approved"
    BY <2>2, ApprovedByOne
  <2>3. CASE status[c] = "approved"
    <3>1. ran[c] > 0 \/ \E d \in Decisions : Carries(d, c)
      BY <2>1, <2>3 DEF ApprovedIsCarriedOut, Carries
    <3> QED BY <2>1, <3>1, CarriesOn, CountsGrow
  <2> QED BY <2>2, <2>3
<1> QED BY <1>1, <1>2, TypeCorrect, PTL DEF Spec

-----------------------------------------------------------------------------
(* Decisions that do not overlap *)

\* A decision that has passed a check and has not written, and one that will act or has acted.
Waits(d)    == stage[d] \in {"select", "update"}
Acting(d)   == stage[d] \in {"tell", "start", "run"}
Resolved(d) == Acting(d) \/ stage[d] \in {"report", "done", "refused"}

\* No two decisions of one approval are between its check and its write.
OneAtATime == \A d, e \in Decisions : Waits(d) /\ Waits(e) /\ target[d] = target[e] => d = e

\* Then a decision writes to an approval that is pending, it is the only one that acts on it,
\* and nothing was executed before it acts.
SerialOK ==
    /\ \A d \in Decisions : /\ Waits(d) => status[target[d]] = "pending"
                            /\ Resolved(d) => status[target[d]] = verdict[d]
                            /\ Acting(d) => ran[target[d]] = 0
    /\ \A d, e \in Decisions : Resolved(d) /\ Resolved(e) /\ target[d] = target[e] => d = e

\* A call is executed once, on the policy or on its approval, and its row says what was announced.
Early(c) == stage[c] \in {"new", "policy", "create", "start", "run"}
OnceOK ==
    \A c \in Calls : /\ stage[c] = "create" => status[c] = "none"
                     /\ Early(c) => ran[c] = 0
                     /\ announced[c] \subseteq {status[c]}
                     /\ ran[c] # 0 => ran[c] = 1 /\ status[c] \in {"none", "approved"}

\* A step that only moves handlers on, short of a write.
LEMMA QuietStep ==
  ASSUME SerialOK, OnceOK, UNCHANGED <<decision, table, announced, ran>>,
         \A d \in Decisions : /\ Waits(d)' => Waits(d)
                              /\ Resolved(d)' => Resolved(d)
                              /\ Acting(d)' => Acting(d),
         \A c \in Calls : /\ stage'[c] = "create" => stage[c] = "create" \/ status[c] = "none"
                          /\ Early(c)' => Early(c)
  PROVE  SerialOK' /\ OnceOK'
<1>1. SerialOK'
  BY DEF SerialOK, decision, table
<1>2. OnceOK'
  BY DEF OnceOK, table
<1>. QED  BY <1>1, <1>2

\* The handler h alone moves on.
LEMMA HandlerMoves ==
  ASSUME TypeOK, NEW h \in Handlers, NEW s, Goto(h, s)
  PROVE  stage'[h] = s /\ \A g \in Handlers : g # h => stage'[g] = stage[g]
BY DEF TypeOK, Goto

\* Handling a call short of its approval, and all events of an execution.
LEMMA SerialQuiet ==
  ASSUME TypeOK, CallsOK, SerialOK, OnceOK,
         \/ \E b \in Calls : ReadGrants(b) \/ Decided(b) \/ AskForApproval(b)
         \/ \E h \in Handlers : EmitStarted(h) \/ EmitResult(h)
         \/ \E d \in Decisions : SelectApproval(d)
         \/ Stop \/ UNCHANGED vars
  PROVE  SerialOK' /\ OnceOK'
<1> USE KindsDiffer DEF Handlers
<1>1. ASSUME NEW b \in Calls, ReadGrants(b) \/ Decided(b) \/ AskForApproval(b) PROVE SerialOK' /\ OnceOK'
  <2>1. UNCHANGED <<decision, table, announced, ran>> /\ \E s : Goto(b, s)
    BY <1>1 DEF ReadGrants, Decided, AskForApproval, Done, Raise
  <2>2. \A g \in Handlers : g # b => stage'[g] = stage[g]
    BY <2>1, HandlerMoves
  <2>3. \A d \in Decisions : stage'[d] = stage[d]
    BY <2>2
  <2>4. \/ Early(b) /\ (stage'[b] = "create" => stage[b] = "policy")
        \/ stage'[b] \in {"awaiting", "error"}
    <3>1. CASE ReadGrants(b)
      BY <3>1, HandlerMoves DEF ReadGrants, Early
    <3>2. CASE Decided(b)
      BY <3>2 DEF Decided, Early
    <3>3. CASE AskForApproval(b)
      BY <3>3, HandlerMoves DEF AskForApproval, Done, Raise
    <3>. QED  BY <1>1, <3>1, <3>2, <3>3
  <2>5. stage[b] = "policy" => status[b] = "none"
    BY DEF CallsOK
  <2>6. \A c \in Calls : /\ stage'[c] = "create" => stage[c] = "create" \/ status[c] = "none"
                         /\ Early(c)' => Early(c)
    BY <2>2, <2>4, <2>5 DEF Early
  <2>. QED  BY <2>1, <2>3, <2>6, QuietStep DEF Waits, Resolved, Acting
<1>2. ASSUME NEW h \in Handlers, EmitStarted(h) \/ EmitResult(h) PROVE SerialOK' /\ OnceOK'
  <2>1. UNCHANGED <<decision, table, announced, ran>> /\ \E s : Goto(h, s)
    BY <1>2 DEF EmitStarted, EmitResult, Done, Raise
  <2>2. \A g \in Handlers : g # h => stage'[g] = stage[g]
    BY <2>1, HandlerMoves
  <2>3. \/ stage[h] = "start" /\ stage'[h] \in {"run", "error"}
        \/ stage[h] = "report" /\ stage'[h] \in {"done", "error"}
    BY <1>2, HandlerMoves DEF EmitStarted, EmitResult, Done, Raise
  <2>4. \A g \in Handlers : /\ Waits(g)' => Waits(g)
                            /\ Resolved(g)' => Resolved(g)
                            /\ Acting(g)' => Acting(g)
                            /\ stage'[g] = "create" => stage[g] = "create"
                            /\ Early(g)' => Early(g)
    BY <2>2, <2>3 DEF Waits, Resolved, Acting, Early
  <2>. QED  BY <2>1, <2>4, QuietStep
<1>3. ASSUME NEW d \in Decisions, SelectApproval(d) PROVE SerialOK' /\ OnceOK'
  <2>1. UNCHANGED <<decision, table, announced, ran>> /\ \E s : Goto(d, s)
    BY <1>3 DEF SelectApproval, Done, Raise
  <2>2. \A g \in Handlers : g # d => stage'[g] = stage[g]
    BY <2>1, HandlerMoves
  <2>3. stage[d] = "select" /\ status[target[d]] = "pending"
    BY <1>3 DEF SelectApproval, SerialOK, Waits
  <2>4. stage'[d] \in {"update", "error"}
    BY <1>3, <2>3, HandlerMoves DEF SelectApproval, Done, Raise
  <2>5. \A g \in Handlers : /\ Waits(g)' => Waits(g)
                            /\ Resolved(g)' => Resolved(g)
                            /\ Acting(g)' => Acting(g)
                            /\ stage'[g] = "create" => stage[g] = "create"
                            /\ Early(g)' => Early(g)
    BY <2>2, <2>3, <2>4 DEF Waits, Resolved, Acting, Early
  <2>. QED  BY <2>1, <2>5, QuietStep
<1>4. ASSUME Stop PROVE SerialOK' /\ OnceOK'
  <2>1. \A g \in Handlers : stage'[g] = stage[g] \/ stage'[g] = "error"
    BY <1>4 DEF Stop
  <2>2. \A g \in Handlers : /\ Waits(g)' => Waits(g)
                            /\ Resolved(g)' => Resolved(g)
                            /\ Acting(g)' => Acting(g)
                            /\ stage'[g] = "create" => stage[g] = "create"
                            /\ Early(g)' => Early(g)
    BY <2>1 DEF Waits, Resolved, Acting, Early
  <2>. QED  BY <1>4, <2>2, QuietStep DEF Stop
<1>5. ASSUME UNCHANGED vars PROVE SerialOK' /\ OnceOK'
  BY <1>5, QuietStep DEF vars, Waits, Resolved, Acting, Early
<1>. QED  BY <1>1, <1>2, <1>3, <1>4, <1>5

\* A new approval: nobody decides on it yet, and nothing was executed.
LEMMA SerialCreate ==
  ASSUME TypeOK, DecisionsOK, SerialOK, OnceOK, NEW b \in Calls, CreateApproval(b)
  PROVE  SerialOK' /\ OnceOK'
<1> USE KindsDiffer DEF Handlers
<1>1. /\ stage[b] = "create" /\ status[b] = "none" /\ ran[b] = 0
      /\ UNCHANGED <<target, verdict, announced, ran>>
  BY DEF CreateApproval, OnceOK, Early, decision
<1>2. /\ stage'[b] \in {"ask", "error"} /\ \A g \in Handlers : g # b => stage'[g] = stage[g]
      /\ status'[b] \in {"none", "pending"} /\ \A c \in Calls : c # b => status'[c] = status[c]
  BY <1>1, HandlerMoves DEF CreateApproval, Done, Raise, TypeOK
<1>3. \A d \in Decisions : stage[d] # "new" => target[d] # b
  BY <1>1 DEF DecisionsOK
<1>4. \A d \in Decisions : target[d] \in Calls /\ stage'[d] = stage[d]
  BY <1>2 DEF TypeOK
<1>5. \A d \in Decisions : stage[d] # "new" => status'[target[d]] = status[target[d]]
  BY <1>2, <1>3, <1>4
<1>6. SerialOK'
  BY <1>1, <1>4, <1>5 DEF SerialOK, Waits, Resolved, Acting
<1>7. announced[b] = {}
  <2>1. announced[b] \subseteq {"none"} /\ announced[b] \subseteq Verdicts
    BY <1>1 DEF OnceOK, TypeOK
  <2>. QED  BY <2>1 DEF Verdicts
<1>8. OnceOK'
  BY <1>1, <1>2, <1>7 DEF OnceOK, Early
<1>. QED  BY <1>6, <1>8

\* A decision begins on an approval that is pending.
LEMMA SerialCheck ==
  ASSUME TypeOK, SerialOK, OnceOK, NEW d \in Decisions, CheckPending(d)
  PROVE  SerialOK' /\ OnceOK'
<1> USE KindsDiffer DEF Handlers
<1>1. /\ stage'[d] = "select" /\ status[target'[d]] = "pending"
      /\ \A g \in Handlers : g # d => stage'[g] = stage[g]
      /\ \A e \in Decisions : e # d => target'[e] = target[e] /\ verdict'[e] = verdict[e]
      /\ UNCHANGED <<status, announced, ran>>
  BY HandlerMoves DEF CheckPending, TypeOK, table
<1>2. SerialOK'
  BY <1>1 DEF SerialOK, Waits, Resolved, Acting
<1>3. OnceOK'
  BY <1>1 DEF OnceOK, Early
<1>. QED  BY <1>2, <1>3

\* The write: no other decision of the approval is about to write or has acted.
LEMMA SerialUpdate ==
  ASSUME TypeOK, CallsOK, OneAtATime, SerialOK, OnceOK, NEW d \in Decisions, UpdateApproval(d)
  PROVE  SerialOK' /\ OnceOK'
<1> USE KindsDiffer DEF Handlers
<1> DEFINE b == target[d]
<1>1. /\ stage[d] = "update" /\ b \in Calls /\ status[b] = "pending" /\ verdict[d] \in Verdicts
      /\ UNCHANGED <<target, verdict, announced, ran>>
  BY DEF UpdateApproval, SerialOK, Waits, decision, TypeOK
<1>2. /\ \A g \in Handlers : g # d => stage'[g] = stage[g]
      /\ \A c \in Calls : c # b => status'[c] = status[c]
      /\ \/ stage'[d] = "tell" /\ status'[b] = verdict[d]
         \/ stage'[d] = "error" /\ status'[b] = status[b]
  BY <1>1, HandlerMoves DEF UpdateApproval, Done, Raise, TypeOK, table
<1>3. \A e \in Decisions : e # d /\ target[e] = b => ~Waits(e)
  BY <1>1 DEF OneAtATime, Waits
<1>4. \A e \in Decisions : target[e] = b => ~Resolved(e)
  BY <1>1 DEF SerialOK, Verdicts, TypeOK
<1>5. ran[b] = 0 /\ announced[b] = {}
  <2>1. announced[b] \subseteq {"pending"} /\ announced[b] \subseteq Verdicts
    BY <1>1 DEF OnceOK, TypeOK
  <2>. QED  BY <1>1, <2>1 DEF OnceOK, Verdicts
<1>6. \A e \in Decisions : target[e] \in Calls
  BY DEF TypeOK
<1> HIDE DEF b
<1>7. SerialOK'
  <2>1. ASSUME NEW e \in Decisions
        PROVE  /\ Waits(e)' => status'[target'[e]] = "pending"
               /\ Resolved(e)' => status'[target'[e]] = verdict'[e]
               /\ Acting(e)' => ran'[target'[e]] = 0
    <3>1. CASE e = d
      BY <1>1, <1>2, <1>5, <3>1 DEF Waits, Resolved, Acting, b
    <3>2. CASE e # d
      BY <1>1, <1>2, <1>3, <1>4, <1>6, <3>2 DEF SerialOK, Waits, Resolved, Acting
    <3>. QED  BY <3>1, <3>2
  <2>2. \A e, f \in Decisions : Resolved(e)' /\ Resolved(f)' /\ target'[e] = target'[f] => e = f
    BY <1>1, <1>2, <1>4 DEF SerialOK, Resolved, Acting, b
  <2>. QED  BY <2>1, <2>2 DEF SerialOK
<1>8. stage[b] # "create"
  BY <1>1 DEF OnceOK, b
<1>9. OnceOK'
  BY <1>1, <1>2, <1>5, <1>8 DEF OnceOK, Early
<1>. QED  BY <1>7, <1>9

\* The verdict is announced as it was written.
LEMMA SerialTell ==
  ASSUME TypeOK, SerialOK, OnceOK, NEW d \in Decisions, Tell(d)
  PROVE  SerialOK' /\ OnceOK'
<1> USE KindsDiffer DEF Handlers
<1>1. /\ stage[d] = "tell" /\ target[d] \in Calls /\ status[target[d]] = verdict[d]
      /\ UNCHANGED <<target, verdict, status, ran>>
  BY DEF Tell, SerialOK, Resolved, Acting, decision, table, TypeOK
<1>2. /\ \A g \in Handlers : g # d => stage'[g] = stage[g]
      /\ stage'[d] \in {"start", "refused", "error"}
      /\ \A c \in Calls : announced'[c] \subseteq announced[c] \cup {status[c]}
  BY <1>1, HandlerMoves DEF Tell, Done, Raise, TypeOK
<1>3. SerialOK'
  BY <1>1, <1>2 DEF SerialOK, Waits, Resolved, Acting
<1>4. OnceOK'
  BY <1>1, <1>2 DEF OnceOK, Early
<1>. QED  BY <1>3, <1>4

\* A tool is called for a call that was not executed: once.
LEMMA SerialRun ==
  ASSUME TypeOK, CallsOK, DecisionsOK, SerialOK, OnceOK, NEW h \in Handlers, RunTool(h)
  PROVE  SerialOK' /\ OnceOK'
<1> USE KindsDiffer DEF Handlers
<1> DEFINE b == Subject(h)
<1>1. /\ stage[h] = "run" /\ UNCHANGED <<target, verdict, status, announced>>
      /\ stage'[h] = "report" /\ \A g \in Handlers : g # h => stage'[g] = stage[g]
  BY HandlerMoves DEF RunTool, decision, table
<1>2. b \in Calls /\ ran'[b] = ran[b] + 1 /\ \A c \in Calls : c # b => ran'[c] = ran[c]
  BY DEF RunTool, Subject, TypeOK
<1>3. /\ ran[b] = 0 /\ status[b] \in {"none", "approved"}
      /\ stage'[b] \notin {"new", "policy", "create", "start", "run"}
      /\ \A e \in Decisions : Acting(e)' => target[e] # b
  <2>1. CASE h \in Calls
    <3>1. b = h /\ ran[b] = 0 /\ status[b] = "none" /\ stage'[b] = "report"
      BY <1>1, <2>1 DEF Subject, OnceOK, Early, CallsOK
    <3>2. \A e \in Decisions : Acting(e)' => stage[e] # "new"
      BY <1>1, <2>1 DEF Acting
    <3>3. \A e \in Decisions : stage[e] # "new" => target[e] # b
      BY <3>1 DEF DecisionsOK
    <3>. QED  BY <3>1, <3>2, <3>3
  <2>2. CASE h \in Decisions
    <3>1. b = target[h] /\ Acting(h) /\ Resolved(h)
      BY <1>1, <2>2 DEF Subject, Acting, Resolved
    <3>2. ran[b] = 0 /\ status[b] = "approved"
      BY <1>1, <2>2, <3>1 DEF SerialOK, DecisionsOK
    <3>3. stage[b] \notin {"new", "policy", "create", "start", "run"} /\ stage'[b] = stage[b]
      BY <1>1, <1>2, <2>2, <3>2 DEF CallsOK, OnceOK
    <3>4. ASSUME NEW e \in Decisions, Acting(e)', target[e] = b PROVE FALSE
      <4>1. e # h
        BY <1>1, <2>2, <3>4 DEF Acting
      <4>2. Resolved(e)
        BY <1>1, <3>4, <4>1 DEF Acting, Resolved
      <4>. QED  BY <2>2, <3>1, <3>4, <4>1, <4>2 DEF SerialOK
    <3>. QED  BY <3>2, <3>3, <3>4
  <2>. QED  BY <2>1, <2>2
<1>4. \A e \in Decisions : target[e] \in Calls
  BY DEF TypeOK
<1> HIDE DEF b
<1>5. \A e \in Decisions : /\ Waits(e)' => Waits(e)
                           /\ Resolved(e)' => Resolved(e)
                           /\ Acting(e)' => Acting(e)
  BY <1>1 DEF Waits, Resolved, Acting
<1>6. SerialOK'
  BY <1>1, <1>2, <1>3, <1>4, <1>5 DEF SerialOK
<1>7. \A c \in Calls : /\ stage'[c] = "create" => stage[c] = "create"
                       /\ Early(c)' => Early(c)
  BY <1>1 DEF Early
<1>8. OnceOK'
  BY <1>1, <1>2, <1>3, <1>7 DEF OnceOK, Early
<1>. QED  BY <1>6, <1>8

LEMMA SerialStep ==
  TypeOK /\ CallsOK /\ DecisionsOK /\ OneAtATime /\ SerialOK /\ OnceOK /\ [Next]_vars => SerialOK' /\ OnceOK'
BY SerialQuiet, SerialCreate, SerialCheck, SerialUpdate, SerialTell, SerialRun DEF Next, Invoke, Resolve, Execute

\* What a user reads of a denial is true, and no approved action is executed twice, as long
\* as no two decisions of one approval are between the check of resolve_approval and its
\* UPDATE at a time; where they are, both fail (section 6 of the README).
THEOREM SerialDecisionsAreFinal ==
  Spec /\ []OneAtATime => [](DeniedIsNotExecuted /\ \A c \in Calls : ran[c] <= 1)
<1>1. Init => SerialOK /\ OnceOK
  BY DEF Init, SerialOK, OnceOK, Waits, Resolved, Acting, Early, Handlers
<1>2. TypeOK /\ OnceOK => DeniedIsNotExecuted /\ \A c \in Calls : ran[c] <= 1
  <2> SUFFICES ASSUME TypeOK, OnceOK, NEW c \in Calls
               PROVE  ("denied" \in announced[c] => ran[c] = 0) /\ ran[c] <= 1
    BY DEF DeniedIsNotExecuted
  <2>1. ran[c] \in Nat
    BY DEF TypeOK
  <2>. QED  BY <2>1 DEF OnceOK
<1>3. IInv => TypeOK /\ CallsOK /\ DecisionsOK
  BY DEF IInv
<1>. QED  BY <1>1, <1>2, <1>3, SerialStep, InvariantHolds, PTL DEF Spec
=============================================================================
