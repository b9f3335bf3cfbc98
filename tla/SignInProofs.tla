---------------------------- MODULE SignInProofs ----------------------------
(* Theorems of SignIn, for every number of attempts, accounts and calls. *)
EXTENDS SignIn, TLAPS

USE NoneIsNothing, CallsAreDistinct

-----------------------------------------------------------------------------
(* The inductive invariant *)

Exchanged == {"upsert", "insert", "save", "default", "create", "unowned", "own", "finish"}
Known     == {"save", "default", "create", "unowned", "own", "finish"}
Saved     == {"default", "create", "unowned", "own", "finish"}
Placed    == {"unowned", "own", "finish"}

\* What has been stored for a user who is about to be signed in.
SetUp(u) == u \in credentials /\ project /\ owners # {}

\* A callback has stored what its stage is past.
HasStored(c) ==
    /\ call[c].at \notin {"idle", "done"} => call[c].of \in Attempts /\ call[c].as \in Accounts
    /\ call[c].at \in Exchanged => code[<<call[c].of, call[c].as>>] = "exchanged"
    /\ call[c].at \in Known => call[c].as \in users
    /\ call[c].at \in Saved => call[c].as \in credentials
    /\ call[c].at \in Placed => project
    /\ call[c].at = "finish" => owners # {}

CallsHaveStored == \A c \in Callbacks : HasStored(c)

\* A callback that sees no request of a desktop attempt finds its state used up,
\* or too old.
SeesTheRequest(c) ==
    LET a == call[c].of IN
    call[c].at \notin {"idle", "done"} =>
        /\ begun[a] # "no"
        /\ call[c].sees # None => call[c].sees = a /\ begun[a] = "desktop"
        /\ call[c].sees = None /\ begun[a] = "desktop" =>
            /\ call[c].at = "looked up" => a \in expired \/ a \notin states
            /\ call[c].at = "selected" => a \in expired
            /\ call[c].at \notin {"exchange"} \cup Exchanged
        /\ call[c].at \in {"exchange"} \cup Exchanged => a \notin states

CallsSeeTheRequest == \A c \in Callbacks : SeesTheRequest(c)

\* The rows of an attempt.
RowOfAttempt(a) ==
    /\ a \in states => begun[a] # "no"
    /\ \A u \in Accounts : code[<<a, u>>] # "none" => begun[a] # "no"
    /\ request[a].is # "none" => begun[a] = "desktop"
    /\ request[a].is = "none" /\ begun[a] = "desktop" => a \in expired
    /\ request[a].is = "pending" => ~request[a].delivered
    /\ request[a].is = "completed" =>
        a \notin states /\ SetUp(request[a].user) /\ code[<<a, request[a].user>>] = "exchanged"

RowsOfAttempts == \A a \in Attempts : RowOfAttempt(a)

\* What a claim read is still so, unless the row is gone.
ClaimIsRead(k) ==
    LET a == claim[k].of IN
    claim[k].at = "selected" =>
        /\ a \in Attempts /\ begun[a] = "desktop"
        /\ SetUp(claim[k].user) /\ code[<<a, claim[k].user>>] = "exchanged"
        /\ request[a].is # "none" => request[a].is = "completed" /\ request[a].user = claim[k].user

ClaimsReadTheirRequest == \A k \in Claims : ClaimIsRead(k)

\* The sessions there are.
SessionIsRight(s) ==
    LET a == session[s].of IN
    /\ a \in Attempts
    /\ SetUp(session[s].user) /\ code[<<a, session[s].user>>] = "exchanged"
    /\ s \in Callbacks => begun[a] = "browser"
    /\ s \in Claims => /\ begun[a] = "desktop"
                       /\ request[a].is # "none" =>
                            request[a].is = "completed" /\ request[a].delivered /\ request[a].user = session[s].user

SessionsAreRight == \A s \in Sessions : SessionIsRight(s)

\* Pairings and devices.
PairingsAreOfOwners ==
    /\ \A p \in Pairings : pairing[p].owner # None => pairing[p].owner \in owners
    /\ \A p \in Pairings : pairing[p].consumed => \E r \in Registrations : register[r] = [at |-> "device", of |-> p]
    /\ \A r \in Registrations : register[r].at \in {"selected", "device"} =>
        register[r].of \in Pairings /\ pairing[register[r].of].owner # None
    /\ \A r \in Registrations : register[r].at = "device" => pairing[register[r].of].consumed

IInv ==
    /\ TypeOK /\ CallsHaveStored /\ CallsSeeTheRequest /\ RowsOfAttempts /\ ClaimsReadTheirRequest
    /\ SessionsAreRight /\ OneSessionPerRequest /\ PairingsAreOfOwners

-----------------------------------------------------------------------------
(* Types *)

\* A record with one field changed keeps its type.
LEMMA CallUpdate ==
  ASSUME NEW k \in Call, NEW pc \in CallbackAt PROVE [k EXCEPT !.at = pc] \in Call
  BY DEF Call

\* A session that is revoked is a session.
LEMMA SessionUpdate ==
  ASSUME NEW k \in Session PROVE [k EXCEPT !.valid = FALSE] \in Session
  BY DEF Session

\* A claim or a registration that ends is one.
LEMMA ClaimUpdate ==
  ASSUME NEW k \in [at : {"idle", "selected", "done"}, of : Attempts \cup {None}, user : Accounts \cup {None}]
  PROVE  [k EXCEPT !.at = "done"] \in [at : {"idle", "selected", "done"}, of : Attempts \cup {None}, user : Accounts \cup {None}]
  OBVIOUS

LEMMA RegisterUpdate ==
  ASSUME NEW k \in [at : {"idle", "selected", "device", "done"}, of : Pairings \cup {None}], NEW pc \in {"device", "done"}
  PROVE  [k EXCEPT !.at = pc] \in [at : {"idle", "selected", "device", "done"}, of : Pairings \cup {None}]
  OBVIOUS

\* A pairing that is consumed is a pairing.
LEMMA PairingUpdate ==
  ASSUME NEW k \in [owner : users \cup {None}, consumed : BOOLEAN]
  PROVE  [k EXCEPT !.consumed = TRUE] \in [owner : users \cup {None}, consumed : BOOLEAN]
  OBVIOUS

\* Delivering a request changes nothing else of it.
LEMMA RequestUpdate ==
  ASSUME NEW k \in Requests
  PROVE  LET d == [k EXCEPT !.delivered = TRUE] IN
         d \in Requests /\ d.is = k.is /\ d.user = k.user /\ d.delivered
  BY DEF Requests

\* A request that an account completes is a request.
LEMMA CompletionUpdate ==
  ASSUME NEW k \in Requests, NEW u \in Accounts
  PROVE  [k EXCEPT !.is = "completed", !.user = u] \in Requests
  BY DEF Requests

\* A callback that goes to a stage is a callback.
LEMMA CallsStayTyped ==
  ASSUME TypeOK, NEW c \in Callbacks, NEW pc \in CallbackAt, Go(c, pc)
  PROVE  call' \in [Callbacks -> Call]
<1>1. [call[c] EXCEPT !.at = pc] \in Call
  BY CallUpdate DEF TypeOK
<1>2. call' = [call EXCEPT ![c] = [call[c] EXCEPT !.at = pc]]
  BY DEF Go
<1> QED
  BY <1>1, <1>2 DEF TypeOK

\* No step of a callback leaves the types.
LEMMA CallbackKeepsTypes ==
  ASSUME TypeOK, CallsHaveStored, NEW c \in Callbacks, Callback(c) PROVE TypeOK'
<1> USE DEF TypeOK, device
<1>1. ASSUME NEW a \in Attempts, NEW u \in Accounts, LookUpRequest(c, a, u) PROVE TypeOK'
  <2>1. [at |-> "looked up", of |-> a, as |-> u, sees |-> IF CanComplete(a) THEN a ELSE None] \in Call
    BY DEF Call, CallbackAt
  <2>2. call' \in [Callbacks -> Call]
    BY <1>1, <2>1 DEF LookUpRequest
  <2> QED
    BY <1>1, <2>2 DEF LookUpRequest, oauth, tables
<1>2. ASSUME \E pc \in CallbackAt : Go(c, pc) PROVE call' \in [Callbacks -> Call]
  BY <1>2, CallsStayTyped
<1>3. {"selected", "exchange", "upsert", "insert", "save", "default", "create", "unowned", "own", "finish", "done"}
        \subseteq CallbackAt
  BY DEF CallbackAt
<1> USE DEF At
<1>4. CASE SelectState(c)
  BY <1>2, <1>3, <1>4 DEF SelectState, Fail, oauth, tables
<1>5. CASE DeleteState(c)
  BY <1>2, <1>3, <1>5 DEF DeleteState, Fail, tables
<1>6. CASE Exchange(c)
  <2>1. <<call[c].of, call[c].as>> \in Attempts \X Accounts
    BY <1>6 DEF Exchange, CallsHaveStored, HasStored
  <2>2. code' \in [Attempts \X Accounts -> {"none", "issued", "exchanged"}]
    BY <1>6, <2>1 DEF Exchange
  <2> QED
    BY <1>2, <1>3, <1>6, <2>2 DEF Exchange, Fail, tables
<1>7. CASE UpsertUser(c)
  BY <1>2, <1>3, <1>7 DEF UpsertUser, oauth, tables
<1>8. CASE InsertUser(c)
  <2>1. call[c].as \in Accounts
    BY <1>8 DEF InsertUser, CallsHaveStored, HasStored
  <2> QED
    BY <1>2, <1>3, <1>8, <2>1 DEF InsertUser, Fail, oauth
<1>9. CASE SaveCredential(c)
  <2>1. call[c].as \in users
    BY <1>9 DEF SaveCredential, CallsHaveStored, HasStored, Known
  <2> QED
    BY <1>2, <1>3, <1>9, <2>1 DEF SaveCredential, oauth
<1>10. CASE EnsureProject(c)
  BY <1>2, <1>3, <1>10 DEF EnsureProject, oauth, tables
<1>11. CASE CreateProject(c)
  BY <1>2, <1>3, <1>11 DEF CreateProject, Fail, oauth
<1>12. CASE SelectMembers(c)
  BY <1>2, <1>3, <1>12 DEF SelectMembers, oauth, tables
<1>13. CASE InsertOwner(c)
  <2>1. call[c].as \in users /\ project
    BY <1>13 DEF InsertOwner, CallsHaveStored, HasStored, Known, Placed
  <2> QED
    BY <1>2, <1>3, <1>13, <2>1 DEF InsertOwner, Fail, oauth
<1>14. CASE FinishDesktop(c)
  <2>1. call[c].as \in Accounts /\ call[c].sees \in Attempts
    BY <1>14 DEF FinishDesktop, CallsHaveStored, HasStored, Call
  <2>2. request' \in [Attempts -> Requests]
    <3>1. request' = request \/ request' = [request EXCEPT ![call[c].sees] =
                                        [request[call[c].sees] EXCEPT !.is = "completed", !.user = call[c].as]]
      BY <1>14, <2>1 DEF FinishDesktop
    <3>2. [request[call[c].sees] EXCEPT !.is = "completed", !.user = call[c].as] \in Requests
      BY <2>1, CompletionUpdate
    <3> QED
      BY <2>1, <3>1, <3>2
  <2> QED
    BY <1>2, <1>3, <1>14, <2>2 DEF FinishDesktop, tables
<1>15. CASE FinishBrowser(c)
  <2>1. [of |-> call[c].of, user |-> call[c].as, valid |-> TRUE] \in Session
    BY <1>15 DEF FinishBrowser, CallsHaveStored, HasStored, Session
  <2>2. session' \in [Callbacks \cup Claims -> Session]
    BY <1>15, <2>1 DEF FinishBrowser
  <2> QED
    BY <1>2, <1>3, <1>15, <2>2 DEF FinishBrowser, oauth, tables
<1> QED
  BY <1>1, <1>4, <1>5, <1>6, <1>7, <1>8, <1>9, <1>10, <1>11, <1>12, <1>13, <1>14, <1>15 DEF Callback

\* No step leaves the types.
LEMMA TypeStep == TypeOK /\ CallsHaveStored /\ ClaimsReadTheirRequest /\ PairingsAreOfOwners /\ [Next]_vars => TypeOK'
<1> SUFFICES ASSUME TypeOK, CallsHaveStored, ClaimsReadTheirRequest, PairingsAreOfOwners, [Next]_vars PROVE TypeOK'
  OBVIOUS
<1> USE DEF TypeOK
<1>1. ASSUME NEW a \in Attempts, StartBrowser(a) PROVE TypeOK'
  BY <1>1 DEF StartBrowser, tables, device
<1>2. ASSUME NEW a \in Attempts, StartDesktop(a) PROVE TypeOK'
  <2>1. NoRequest \in Requests /\ [NoRequest EXCEPT !.is = "pending"] \in Requests
    BY DEF NoRequest, Requests
  <2> QED
    BY <1>2, <2>1 DEF StartDesktop, tables, device
<1>3. ASSUME NEW a \in Attempts, NEW u \in Accounts, Authorize(a, u) PROVE TypeOK'
  BY <1>3 DEF Authorize, tables, device
<1>4. ASSUME NEW x \in Attempts \cup Pairings, Expire(x) PROVE TypeOK'
  BY <1>4 DEF Expire, tables, device
<1>5. ASSUME NEW c \in Callbacks, Callback(c) PROVE TypeOK'
  BY <1>5, CallbackKeepsTypes
<1>6. ASSUME NEW k \in Claims, Deliver(k) PROVE TypeOK'
  <2>1. claim[k].of \in Attempts /\ claim[k].user \in Accounts
    BY <1>6 DEF Deliver, ClaimsReadTheirRequest, ClaimIsRead, SetUp
  <2>2. [of |-> claim[k].of, user |-> claim[k].user, valid |-> TRUE] \in Session
    BY <2>1 DEF Session
  <2>3. session' \in [Callbacks \cup Claims -> Session]
    BY <1>6, <2>2 DEF Deliver
  <2>4. [request[claim[k].of] EXCEPT !.delivered = TRUE] \in Requests
    BY <2>1, RequestUpdate
  <2>5. request' \in [Attempts -> Requests]
    BY <1>6, <2>1, <2>4 DEF Deliver
  <2>6. claim' \in [Claims -> [at : {"idle", "selected", "done"}, of : Attempts \cup {None}, user : Accounts \cup {None}]]
    BY <1>6 DEF Deliver
  <2> QED
    BY <1>6, <2>3, <2>5, <2>6 DEF Deliver, tables, device
<1>7. ASSUME NEW k \in Claims, NEW a \in Attempts, SelectRequest(k, a) PROVE TypeOK'
  <2>1. request[a].user \in Accounts \cup {None}
    BY DEF Requests
  <2> QED
    BY <1>7, <2>1 DEF SelectRequest, oauth, tables, device
<1>8. ASSUME NEW s \in Callbacks \cup Claims, Revoke(s) PROVE TypeOK'
  <2>1. [session[s] EXCEPT !.valid = FALSE] \in Session
    BY SessionUpdate
  <2>2. session' \in [Callbacks \cup Claims -> Session]
    BY <1>8, <2>1 DEF Revoke
  <2> QED
    BY <1>8, <2>2 DEF Revoke, oauth, tables, device
<1>9. ASSUME NEW s \in Callbacks \cup Claims, NEW p \in Pairings, Pair(p, s) PROVE TypeOK'
  <2>1. session[s].user \in users
    BY <1>9 DEF Pair
  <2>2. pairing' \in [Pairings -> [owner : users \cup {None}, consumed : BOOLEAN]]
    BY <1>9, <2>1 DEF Pair
  <2> QED
    BY <1>9, <2>2 DEF Pair, oauth, tables
<1>10. ASSUME NEW r \in Registrations, InsertDevice(r) PROVE TypeOK'
  <2>1. register[r].of \in Pairings \cup {None} /\ UNCHANGED users
    BY <1>10 DEF InsertDevice, tables
  <2>2. register' \in [Registrations -> [at : {"idle", "selected", "device", "done"}, of : Pairings \cup {None}]]
    <3>1. [register[r] EXCEPT !.at = "device"] \in [at : {"idle", "selected", "device", "done"}, of : Pairings \cup {None}]
      BY RegisterUpdate
    <3> QED
      BY <1>10, <3>1 DEF InsertDevice
  <2>3. pairing' \in [Pairings -> [owner : users \cup {None}, consumed : BOOLEAN]]
    <3>1. \A p \in Pairings : [pairing[p] EXCEPT !.consumed = TRUE] \in [owner : users \cup {None}, consumed : BOOLEAN]
      BY PairingUpdate
    <3>2. pairing' = [pairing EXCEPT ![register[r].of] = [pairing[register[r].of] EXCEPT !.consumed = TRUE]]
      BY <1>10 DEF InsertDevice
    <3> QED
      BY <3>1, <3>2
  <2> QED
    BY <1>10, <2>1, <2>2, <2>3 DEF InsertDevice, oauth, tables
<1>11. ASSUME NEW r \in Registrations, NEW p \in Pairings, SelectPairing(r, p) PROVE TypeOK'
  BY <1>11 DEF SelectPairing, oauth, tables
<1>12. CASE ListProjects
  BY <1>12 DEF ListProjects, oauth, device
<1>13. CASE Restart
  <2>1. \A c \in Callbacks : [call[c] EXCEPT !.at = "done"] \in Call
    BY CallUpdate DEF CallbackAt
  <2>2. call' \in [Callbacks -> Call]
    BY <1>13, <2>1 DEF Restart
  <2>3. claim' \in [Claims -> [at : {"idle", "selected", "done"}, of : Attempts \cup {None}, user : Accounts \cup {None}]]
    <3>1. \A k \in Claims : [claim[k] EXCEPT !.at = "done"]
              \in [at : {"idle", "selected", "done"}, of : Attempts \cup {None}, user : Accounts \cup {None}]
      BY ClaimUpdate
    <3> QED
      BY <1>13, <3>1 DEF Restart
  <2>4. register' \in [Registrations -> [at : {"idle", "selected", "device", "done"}, of : Pairings \cup {None}]]
    <3>1. \A r \in Registrations : [register[r] EXCEPT !.at = "done"]
              \in [at : {"idle", "selected", "device", "done"}, of : Pairings \cup {None}]
      BY RegisterUpdate
    <3> QED
      BY <1>13, <3>1 DEF Restart
  <2> QED
    BY <1>13, <2>2, <2>3, <2>4 DEF Restart, oauth, tables
<1>14. CASE UNCHANGED vars
  BY <1>14 DEF vars, oauth, tables, device
<1> QED
  BY <1>1, <1>2, <1>3, <1>4, <1>5, <1>6, <1>7, <1>8, <1>9, <1>10, <1>11, <1>12, <1>13, <1>14 DEF Next

-----------------------------------------------------------------------------
(* What no step undoes *)

Grown ==
    /\ users \subseteq users' /\ credentials \subseteq credentials' /\ owners \subseteq owners'
    /\ project => project'
    /\ expired \subseteq expired'
    /\ \A a \in Attempts : begun[a] # "no" =>
        /\ begun'[a] = begun[a]
        /\ a \notin states => a \notin states'
        /\ request[a].is = "none" => request'[a].is = "none"
    /\ \A k \in Attempts \X Accounts : code[k] = "exchanged" => code'[k] = "exchanged"
    /\ \A a \in Attempts : request[a].is = "completed" =>
        \/ request'[a].is = "none"
        \/ request'[a].is = "completed" /\ request'[a].user = request[a].user
           /\ (request[a].delivered => request'[a].delivered)

\* The steps of a callback undo nothing.
LEMMA CallbackGrows ==
  ASSUME TypeOK, CallsHaveStored, NEW c \in Callbacks, Callback(c) PROVE Grown
<1> USE DEF Grown, oauth, tables
<1>1. ASSUME NEW a \in Attempts, NEW u \in Accounts, LookUpRequest(c, a, u) PROVE Grown
  BY <1>1 DEF LookUpRequest
<1>2. CASE SelectState(c)
  BY <1>2 DEF SelectState
<1>3. CASE DeleteState(c)
  BY <1>3 DEF DeleteState
<1>4. CASE Exchange(c)
  <2>1. \A k \in Attempts \X Accounts : code[k] = "exchanged" => code'[k] = "exchanged"
    BY <1>4 DEF Exchange, TypeOK
  <2> QED
    BY <1>4, <2>1 DEF Exchange
<1>5. CASE UpsertUser(c)
  BY <1>5 DEF UpsertUser
<1>6. CASE InsertUser(c)
  BY <1>6 DEF InsertUser
<1>7. CASE SaveCredential(c)
  BY <1>7 DEF SaveCredential
<1>8. CASE EnsureProject(c)
  BY <1>8 DEF EnsureProject
<1>9. CASE CreateProject(c)
  BY <1>9 DEF CreateProject
<1>10. CASE SelectMembers(c)
  BY <1>10 DEF SelectMembers
<1>11. CASE InsertOwner(c)
  BY <1>11 DEF InsertOwner
<1>12. CASE FinishDesktop(c)
  <2>1. /\ \A a \in Attempts : request[a].is = "none" => request'[a].is = "none"
        /\ \A a \in Attempts : request[a].is = "completed" => request'[a] = request[a]
    BY <1>12 DEF FinishDesktop, CanComplete, TypeOK
  <2> QED
    BY <1>12, <2>1 DEF FinishDesktop
<1>13. CASE FinishBrowser(c)
  BY <1>13 DEF FinishBrowser
<1> QED
  BY <1>1, <1>2, <1>3, <1>4, <1>5, <1>6, <1>7, <1>8, <1>9, <1>10, <1>11, <1>12, <1>13 DEF Callback

\* Nor does any other step.
LEMMA StepGrows ==
  ASSUME TypeOK, CallsHaveStored, RowsOfAttempts, ClaimsReadTheirRequest, [Next]_vars PROVE Grown
<1> USE DEF Grown
<1>1. ASSUME NEW a \in Attempts, StartBrowser(a) PROVE Grown
  BY <1>1 DEF StartBrowser, tables, TypeOK
<1>2. ASSUME NEW a \in Attempts, StartDesktop(a) PROVE Grown
  <2>1. request[a].is = "none" /\ NoRequest.is = "none"
    BY <1>2 DEF StartDesktop, RowsOfAttempts, RowOfAttempt, NoRequest
  <2>2. \A b \in Attempts : b # a => request'[b] = IF b \in expired THEN NoRequest ELSE request[b]
    BY <1>2 DEF StartDesktop, TypeOK
  <2>3. \A b \in Attempts : request[b].is = "completed" => request'[b].is = "none" \/ request'[b] = request[b]
    BY <2>1, <2>2
  <2>4. \A b \in Attempts : begun[b] # "no" /\ request[b].is = "none" => request'[b].is = "none"
    BY <1>2, <2>1, <2>2 DEF StartDesktop
  <2> QED
    BY <1>2, <2>3, <2>4 DEF StartDesktop, tables, TypeOK
<1>3. ASSUME NEW a \in Attempts, NEW u \in Accounts, Authorize(a, u) PROVE Grown
  BY <1>3 DEF Authorize, tables, TypeOK
<1>4. ASSUME NEW x \in Attempts \cup Pairings, Expire(x) PROVE Grown
  BY <1>4 DEF Expire, tables
<1>5. ASSUME NEW c \in Callbacks, Callback(c) PROVE Grown
  BY <1>5, CallbackGrows
<1>6. ASSUME NEW k \in Claims, Deliver(k) PROVE Grown
  <2>1. \A a \in Attempts : /\ request'[a].is = request[a].is /\ request'[a].user = request[a].user
                            /\ request[a].delivered => request'[a].delivered
    <3>1. request' = request \/ request' = [request EXCEPT ![claim[k].of].delivered = TRUE]
      BY <1>6 DEF Deliver
    <3>2. request \in [Attempts -> Requests]
      BY DEF TypeOK
    <3>3. \A a \in Attempts : request'[a] = request[a] \/ request'[a] = [request[a] EXCEPT !.delivered = TRUE]
      BY <3>1, <3>2
    <3>4. ASSUME NEW a \in Attempts
          PROVE  /\ request'[a].is = request[a].is /\ request'[a].user = request[a].user
                 /\ request[a].delivered => request'[a].delivered
      BY <3>2, <3>3, RequestUpdate
    <3> QED
      BY <3>4
  <2>2. \A a \in Attempts : request[a].is = "completed" =>
            /\ request'[a].is = "completed" /\ request'[a].user = request[a].user
            /\ request[a].delivered => request'[a].delivered
    BY <2>1
  <2>3. \A a \in Attempts : request[a].is = "none" => request'[a].is = "none"
    BY <2>1
  <2>4. UNCHANGED <<begun, states, expired, code, users, credentials, project, owners>>
    BY <1>6 DEF Deliver, tables
  <2> QED
    BY <2>2, <2>3, <2>4
<1>7. ASSUME NEW k \in Claims, NEW a \in Attempts, SelectRequest(k, a) PROVE Grown
  BY <1>7 DEF SelectRequest, oauth, tables
<1>8. ASSUME NEW s \in Callbacks \cup Claims, Revoke(s) PROVE Grown
  BY <1>8 DEF Revoke, oauth, tables
<1>9. ASSUME NEW s \in Callbacks \cup Claims, NEW p \in Pairings, Pair(p, s) PROVE Grown
  BY <1>9 DEF Pair, oauth, tables
<1>10. ASSUME NEW r \in Registrations, InsertDevice(r) PROVE Grown
  BY <1>10 DEF InsertDevice, oauth, tables
<1>11. ASSUME NEW r \in Registrations, NEW p \in Pairings, SelectPairing(r, p) PROVE Grown
  BY <1>11 DEF SelectPairing, oauth, tables
<1>12. CASE ListProjects
  BY <1>12 DEF ListProjects, oauth
<1>13. CASE Restart
  BY <1>13 DEF Restart, oauth, tables
<1>14. CASE UNCHANGED vars
  BY <1>14 DEF vars, oauth, tables
<1> QED
  BY <1>1, <1>2, <1>3, <1>4, <1>5, <1>6, <1>7, <1>8, <1>9, <1>10, <1>11, <1>12, <1>13, <1>14 DEF Next

-----------------------------------------------------------------------------
(* The parts of the invariant *)

\* A callback changes by its own steps, or is cut short.
LEMMA CallMoves ==
  ASSUME [Next]_vars PROVE UNCHANGED call \/ Restart \/ \E c \in Callbacks : Callback(c)
  BY DEF Next, vars, StartBrowser, StartDesktop, Expire, Authorize, Deliver, SelectRequest, Revoke, Pair,
         InsertDevice, SelectPairing, ListProjects

\* What a callback that does not move has stored stays stored.
LEMMA StoredStays ==
  ASSUME TypeOK, Grown, NEW d \in Callbacks, HasStored(d), call'[d] = call[d] PROVE HasStored(d)'
<1>1. Exchanged \cap {"idle", "done"} = {}
  BY DEF Exchanged
<1> QED
  BY <1>1 DEF HasStored, Grown

\* A callback that is over has nothing to have stored, nor to see.
LEMMA OverIsFine ==
  ASSUME NEW d \in Callbacks, call'[d].at \in {"idle", "done"} PROVE HasStored(d)' /\ SeesTheRequest(d)'
  BY DEF HasStored, SeesTheRequest, Exchanged, Known, Saved, Placed

\* A step of a callback moves that callback alone.
LEMMA OthersStay ==
  ASSUME TypeOK, NEW c \in Callbacks, Callback(c), NEW d \in Callbacks, d # c PROVE call'[d] = call[d]
  BY DEF Callback, TypeOK, LookUpRequest, SelectState, DeleteState, Exchange, UpsertUser, InsertUser, SaveCredential,
         EnsureProject, CreateProject, SelectMembers, InsertOwner, FinishDesktop, FinishBrowser, Go, Fail

\* A callback that goes to a stage is there, for the same attempt and user.
LEMMA GoesTo ==
  ASSUME TypeOK, NEW c \in Callbacks, NEW pc \in CallbackAt, Go(c, pc)
  PROVE  call'[c].at = pc /\ call'[c].of = call[c].of /\ call'[c].as = call[c].as /\ call'[c].sees = call[c].sees
<1>1. call'[c] = [call[c] EXCEPT !.at = pc]
  BY DEF TypeOK, Go
<1>2. call[c] \in Call
  BY DEF TypeOK
<1> QED
  BY <1>1, <1>2 DEF Call

\* A callback stores before it goes on.
LEMMA StoredStep ==
  ASSUME TypeOK, CallsHaveStored, Grown, [Next]_vars PROVE CallsHaveStored'
<1>1. CASE UNCHANGED call
  BY <1>1, StoredStays DEF CallsHaveStored
<1>2. CASE Restart
  <2>1. \A d \in Callbacks : call'[d].at \in {"idle", "done"}
    BY <1>2 DEF Restart, At, TypeOK, Call
  <2> QED
    BY <2>1, OverIsFine DEF CallsHaveStored
<1>3. ASSUME NEW c \in Callbacks, Callback(c) PROVE HasStored(c)'
  <2> USE DEF HasStored, Exchanged, Known, Saved, Placed
  <2>0. HasStored(c)
    BY DEF CallsHaveStored
  <2>1. ASSUME NEW a \in Attempts, NEW u \in Accounts, LookUpRequest(c, a, u) PROVE HasStored(c)'
    <3>1. call'[c].at = "looked up" /\ call'[c].of = a /\ call'[c].as = u
      BY <2>1 DEF LookUpRequest, TypeOK
    <3> QED
      BY <3>1
  <2>2. \A pc \in CallbackAt : Go(c, pc) =>
          call'[c].at = pc /\ call'[c].of = call[c].of /\ call'[c].as = call[c].as
    BY GoesTo
  <2>3. CallbackAt = {"idle", "looked up", "selected", "exchange", "upsert", "insert", "save", "default",
                      "create", "unowned", "own", "finish", "done"}
    BY DEF CallbackAt
  <2>4. CASE SelectState(c)
    BY <2>0, <2>2, <2>3, <2>4 DEF SelectState, Fail, At
  <2>5. CASE DeleteState(c)
    BY <2>0, <2>2, <2>3, <2>5 DEF DeleteState, Fail, At
  <2>6. CASE Exchange(c)
    <3>1. <<call[c].of, call[c].as>> \in Attempts \X Accounts
      BY <2>0, <2>6 DEF Exchange, At
    <3>2. CASE code[<<call[c].of, call[c].as>>] = "issued" /\ Go(c, "upsert")
               /\ code' = [code EXCEPT ![<<call[c].of, call[c].as>>] = "exchanged"]
      <4>1. code'[<<call[c].of, call[c].as>>] = "exchanged"
        BY <3>1, <3>2 DEF TypeOK
      <4> QED
        BY <2>2, <2>3, <3>1, <3>2, <4>1
    <3>3. CASE Go(c, "done")
      BY <2>2, <2>3, <3>3
    <3> QED
      BY <2>6, <3>2, <3>3 DEF Exchange, Fail
  <2>7. CASE UpsertUser(c)
    BY <2>0, <2>2, <2>3, <2>7 DEF UpsertUser, At, oauth, tables
  <2>8. CASE InsertUser(c)
    BY <2>0, <2>2, <2>3, <2>8 DEF InsertUser, Fail, At, oauth
  <2>9. CASE SaveCredential(c)
    BY <2>0, <2>2, <2>3, <2>9 DEF SaveCredential, At, oauth
  <2>10. CASE EnsureProject(c)
    BY <2>0, <2>2, <2>3, <2>10 DEF EnsureProject, At, oauth, tables
  <2>11. CASE CreateProject(c)
    BY <2>0, <2>2, <2>3, <2>11 DEF CreateProject, Fail, At, oauth
  <2>12. CASE SelectMembers(c)
    BY <2>0, <2>2, <2>3, <2>12 DEF SelectMembers, At, oauth, tables
  <2>13. CASE InsertOwner(c)
    BY <2>0, <2>2, <2>3, <2>13 DEF InsertOwner, Fail, At, oauth
  <2>14. CASE FinishDesktop(c)
    BY <2>2, <2>3, <2>14 DEF FinishDesktop
  <2>15. CASE FinishBrowser(c)
    BY <2>2, <2>3, <2>15 DEF FinishBrowser
  <2> QED
    BY <1>3, <2>1, <2>4, <2>5, <2>6, <2>7, <2>8, <2>9, <2>10, <2>11, <2>12, <2>13, <2>14, <2>15 DEF Callback
<1>4. ASSUME NEW c \in Callbacks, Callback(c) PROVE CallsHaveStored'
  BY <1>3, <1>4, OthersStay, StoredStays DEF CallsHaveStored
<1> QED
  BY <1>1, <1>2, <1>4, CallMoves

\* What a callback that does not move has seen stays so.
LEMMA SeenStays ==
  ASSUME TypeOK, Grown, NEW d \in Callbacks, HasStored(d), SeesTheRequest(d), call'[d] = call[d]
  PROVE  SeesTheRequest(d)'
<1> DEFINE a == call[d].of
<1>1. CASE call[d].at \in {"idle", "done"}
  BY <1>1 DEF SeesTheRequest
<1>2. CASE call[d].at \notin {"idle", "done"}
  <2>1. a \in Attempts
    BY <1>2 DEF HasStored
  <2>2. begun'[a] = begun[a] \/ begun[a] = "no"
    BY <2>1 DEF Grown
  <2>3. (a \in expired => a \in expired') /\ (begun[a] # "no" /\ a \notin states => a \notin states')
    BY <2>1 DEF Grown
  <2>4. begun[a] # "no"
    BY <1>2 DEF SeesTheRequest
  <2> HIDE DEF a
  <2> QED
    BY <1>2, <2>2, <2>3, <2>4 DEF SeesTheRequest, a
<1> QED
  BY <1>1, <1>2

\* A callback that goes past the state of a desktop attempt has seen its request.
LEMMA SeenStep ==
  ASSUME IInv, Grown, [Next]_vars PROVE CallsSeeTheRequest'
<1> USE DEF IInv
<1>1. CASE UNCHANGED call
  BY <1>1, SeenStays DEF CallsSeeTheRequest, CallsHaveStored
<1>2. CASE Restart
  <2>1. \A d \in Callbacks : call'[d].at \in {"idle", "done"}
    BY <1>2 DEF Restart, At, TypeOK, Call
  <2> QED
    BY <2>1, OverIsFine DEF CallsSeeTheRequest
<1>3. ASSUME NEW c \in Callbacks, Callback(c) PROVE SeesTheRequest(c)'
  <2> USE DEF SeesTheRequest, Exchanged
  <2>0. SeesTheRequest(c) /\ HasStored(c)
    BY DEF CallsSeeTheRequest, CallsHaveStored
  <2>1. ASSUME NEW a \in Attempts, NEW u \in Accounts, LookUpRequest(c, a, u) PROVE SeesTheRequest(c)'
    <3>1. call' = [call EXCEPT ![c] = [at |-> "looked up", of |-> a, as |-> u,
                                       sees |-> IF CanComplete(a) THEN a ELSE None]]
          /\ UNCHANGED <<begun, states, expired>> /\ code[<<a, u>>] # "none"
      BY <2>1 DEF LookUpRequest, oauth
    <3>2. begun[a] # "no" /\ (request[a].is # "none" => begun[a] = "desktop")
      BY <3>1 DEF RowsOfAttempts, RowOfAttempt
    <3>3. begun[a] = "desktop" /\ request[a].is # "pending" => a \in expired \/ a \notin states
      <4>1. request[a].is \in {"none", "pending", "completed"}
        BY DEF TypeOK, Requests
      <4> QED
        BY <4>1 DEF RowsOfAttempts, RowOfAttempt
    <3>4. call'[c].at = "looked up" /\ call'[c].of = a
          /\ call'[c].sees = IF CanComplete(a) THEN a ELSE None
      BY <3>1 DEF TypeOK
    <3> QED
      <4>1. CASE CanComplete(a)
        BY <3>1, <3>2, <3>4, <4>1 DEF CanComplete
      <4>2. CASE ~CanComplete(a)
        <5>1. a \in expired \/ request[a].is # "pending"
          BY <4>2 DEF CanComplete
        <5>2. call'[c].sees = None
          BY <3>4, <4>2
        <5>3. begun[a] = "desktop" => a \in expired \/ a \notin states
          BY <3>3, <5>1
        <5>4. call'[c].at = "looked up" /\ call'[c].of = a
          BY <3>4
        <5>5. UNCHANGED <<begun, states, expired>>
          BY <3>1
        <5> QED
          BY <3>2, <5>2, <5>3, <5>4, <5>5
      <4> QED
        BY <4>1, <4>2
  <2>2. \A pc \in CallbackAt : Go(c, pc) =>
          call'[c].at = pc /\ call'[c].of = call[c].of /\ call'[c].sees = call[c].sees
    BY GoesTo
  <2>3. CallbackAt = {"idle", "looked up", "selected", "exchange", "upsert", "insert", "save", "default",
                      "create", "unowned", "own", "finish", "done"}
    BY DEF CallbackAt
  <2>4. CASE SelectState(c)
    BY <2>0, <2>2, <2>3, <2>4 DEF SelectState, Fail, At, oauth
  <2>5. CASE DeleteState(c)
    BY <2>0, <2>2, <2>3, <2>5 DEF DeleteState, Fail, At
  <2>6. CASE call[c].at \in {"exchange"} \cup Exchanged /\ UNCHANGED <<begun, states, expired>>
             /\ \E pc \in Exchanged \cup {"done"} : Go(c, pc)
    BY <2>0, <2>2, <2>3, <2>6
  <2>7. Exchange(c) => Go(c, "upsert") \/ Go(c, "done")
    BY DEF Exchange, Fail
  <2> QED
    BY <1>3, <2>1, <2>4, <2>5, <2>6, <2>7
       DEF Callback, Exchange, UpsertUser, InsertUser, SaveCredential, EnsureProject, CreateProject,
           SelectMembers, InsertOwner, FinishDesktop, FinishBrowser, Fail, At, oauth
<1>4. ASSUME NEW c \in Callbacks, Callback(c) PROVE CallsSeeTheRequest'
  BY <1>3, <1>4, OthersStay, SeenStays DEF CallsSeeTheRequest, CallsHaveStored
<1> QED
  BY <1>1, <1>2, <1>4, CallMoves

\* A step leaves what has been stored for a user.
LEMMA SetUpStays == ASSUME Grown, NEW u, SetUp(u) PROVE u \in credentials' /\ project' /\ owners' # {}
  BY DEF Grown, SetUp

\* A step that leaves the rows of an attempt leaves what is said of them.
LEMMA RowStays ==
  ASSUME TypeOK, Grown, NEW a \in Attempts, RowOfAttempt(a),
         begun'[a] = begun[a], request'[a] = request[a], a \in states' => a \in states,
         \A u \in Accounts : \/ code'[<<a, u>>] = code[<<a, u>>]
                             \/ code[<<a, u>>] = "issued" /\ code'[<<a, u>>] = "exchanged"
  PROVE  RowOfAttempt(a)'
<1>1. request[a].user \in Accounts \cup {None}
  BY DEF TypeOK, Requests
<1>2. ASSUME request[a].is = "completed"
      PROVE  /\ a \notin states' /\ code'[<<a, request[a].user>>] = "exchanged"
             /\ request[a].user \in credentials' /\ project' /\ owners' # {}
  <2>1. SetUp(request[a].user) /\ code[<<a, request[a].user>>] = "exchanged" /\ a \notin states
    BY <1>2 DEF RowOfAttempt
  <2>2. request[a].user \in Accounts
    BY <2>1 DEF SetUp, TypeOK
  <2> QED
    BY <2>1, <2>2, SetUpStays
<1>3. /\ a \in states' => begun'[a] # "no"
      /\ \A u \in Accounts : code'[<<a, u>>] # "none" => begun'[a] # "no"
  BY DEF RowOfAttempt
<1>4. /\ request'[a].is # "none" => begun'[a] = "desktop"
      /\ request'[a].is = "none" /\ begun'[a] = "desktop" => a \in expired'
      /\ request'[a].is = "pending" => ~request'[a].delivered
  BY DEF RowOfAttempt, Grown
<1> QED
  BY <1>2, <1>3, <1>4 DEF RowOfAttempt, SetUp

\* The steps that change the rows of attempts.
LEMMA RowMoves ==
  ASSUME [Next]_vars
  PROVE  \/ UNCHANGED <<begun, states, request, code>>
         \/ \E a \in Attempts : StartBrowser(a) \/ StartDesktop(a) \/ \E u \in Accounts : Authorize(a, u)
         \/ \E c \in Callbacks : DeleteState(c) \/ Exchange(c) \/ FinishDesktop(c)
         \/ \E k \in Claims : Deliver(k)
  BY DEF Next, vars, Callback, Expire, SelectRequest, Revoke, Pair, InsertDevice, SelectPairing, ListProjects, Restart,
         LookUpRequest, SelectState, UpsertUser, InsertUser, SaveCredential, EnsureProject, CreateProject,
         SelectMembers, InsertOwner, FinishBrowser, oauth

\* The rows of an attempt stay consistent.
LEMMA RowStep ==
  ASSUME IInv, Grown, [Next]_vars PROVE RowsOfAttempts'
<1> USE DEF IInv
<1>0. \A b \in Attempts : RowOfAttempt(b)
  BY DEF RowsOfAttempts
<1>1. CASE UNCHANGED <<begun, states, request, code>>
  BY <1>0, <1>1, RowStays DEF RowsOfAttempts
<1>2. ASSUME NEW a \in Attempts, StartBrowser(a) \/ StartDesktop(a) PROVE RowsOfAttempts'
  <2>1. UNCHANGED code /\ begun'[a] \in {"browser", "desktop"} /\ begun[a] = "no"
        /\ states' = (states \ expired) \cup {a} /\ \A b \in Attempts : b # a => begun'[b] = begun[b]
    BY <1>2 DEF StartBrowser, StartDesktop, TypeOK
  <2>2. request[a].is = "none" /\ NoRequest.is = "none"
    BY <1>0, <2>1 DEF RowOfAttempt, NoRequest
  <2>3. RowOfAttempt(a)'
    <3>1. CASE StartBrowser(a)
      BY <2>1, <2>2, <3>1 DEF RowOfAttempt, StartBrowser, TypeOK
    <3>2. CASE StartDesktop(a)
      <4>1. request'[a] = [NoRequest EXCEPT !.is = "pending"] /\ begun'[a] = "desktop"
        BY <3>2 DEF StartDesktop, TypeOK
      <4>2. request'[a].is = "pending" /\ ~request'[a].delivered
        BY <4>1 DEF NoRequest
      <4> QED
        BY <2>1, <4>1, <4>2 DEF RowOfAttempt
    <3> QED
      BY <1>2, <3>1, <3>2
  <2>4. ASSUME NEW b \in Attempts, b # a PROVE RowOfAttempt(b)'
    <3>1. RowOfAttempt(b)
      BY <1>0
    <3>2. CASE request'[b] = request[b]
      BY <2>1, <2>4, <3>1, <3>2, RowStays
    <3>3. CASE request'[b] = NoRequest /\ b \in expired
      BY <2>1, <2>2, <2>4, <3>1, <3>3 DEF RowOfAttempt, Grown
    <3>4. request'[b] = request[b] \/ (request'[b] = NoRequest /\ b \in expired)
      BY <1>2, <2>4 DEF StartBrowser, StartDesktop, TypeOK
    <3> QED
      BY <3>2, <3>3, <3>4
  <2> QED
    BY <2>3, <2>4 DEF RowsOfAttempts
<1>3. ASSUME NEW a \in Attempts, NEW u \in Accounts, Authorize(a, u) PROVE RowsOfAttempts'
  <2>1. \A b \in Attempts : begun'[b] = begun[b] /\ request'[b] = request[b] /\ (b \in states' => b \in states)
    BY <1>3 DEF Authorize
  <2>2. \A b \in Attempts : b # a => \A v \in Accounts : code'[<<b, v>>] = code[<<b, v>>]
    BY <1>3 DEF Authorize, TypeOK
  <2>3. RowOfAttempt(a)'
    <3>1. begun[a] # "no"
      BY <1>3 DEF Authorize
    <3>2. request[a].is = "completed" =>
              /\ code'[<<a, request[a].user>>] = "exchanged"
              /\ request[a].user \in credentials' /\ project' /\ owners' # {}
      <4>1. request[a].is = "completed" => SetUp(request[a].user) /\ code[<<a, request[a].user>>] = "exchanged"
        BY <1>0 DEF RowOfAttempt
      <4>2. SetUp(request[a].user) => request[a].user \in Accounts
        BY DEF SetUp, TypeOK
      <4> QED
        BY <4>1, <4>2, SetUpStays DEF Grown
    <3>3. RowOfAttempt(a)
      BY <1>0
    <3>4. begun'[a] = begun[a] /\ request'[a] = request[a] /\ (a \in states' => a \in states)
      BY <2>1
    <3> QED
      BY <3>1, <3>2, <3>3, <3>4 DEF RowOfAttempt, Grown, SetUp
  <2> QED
    BY <1>0, <2>1, <2>2, <2>3, RowStays DEF RowsOfAttempts
<1>4. ASSUME NEW c \in Callbacks, DeleteState(c) PROVE RowsOfAttempts'
  BY <1>0, <1>4, RowStays DEF RowsOfAttempts, DeleteState
<1>5. ASSUME NEW c \in Callbacks, Exchange(c) PROVE RowsOfAttempts'
  <2>1. \A b \in Attempts, v \in Accounts : code'[<<b, v>>] = code[<<b, v>>]
            \/ (code[<<b, v>>] = "issued" /\ code'[<<b, v>>] = "exchanged")
    BY <1>5 DEF Exchange, TypeOK
  <2> QED
    BY <1>0, <1>5, <2>1, RowStays DEF RowsOfAttempts, Exchange
<1>6. ASSUME NEW c \in Callbacks, FinishDesktop(c) PROVE RowsOfAttempts'
  <2>1. UNCHANGED <<begun, states, expired, code, credentials, project, owners>>
    BY <1>6 DEF FinishDesktop, tables
  <2>2. HasStored(c) /\ SeesTheRequest(c) /\ call[c].at = "finish" /\ call[c].sees # None
    BY <1>6 DEF FinishDesktop, At, CallsHaveStored, CallsSeeTheRequest
  <2>3. PICK a \in Attempts, u \in Accounts : a = call[c].sees /\ u = call[c].as /\ a \notin states /\ begun[a] = "desktop"
                                              /\ SetUp(u) /\ code[<<a, u>>] = "exchanged"
    BY <2>2 DEF HasStored, SeesTheRequest, Exchanged, Saved, Placed, SetUp
  <2>4. request' = request \/ request' = [request EXCEPT ![a] = [request[a] EXCEPT !.is = "completed", !.user = u]]
    BY <1>6, <2>3 DEF FinishDesktop
  <2>5. \A b \in Attempts : b # a => request'[b] = request[b]
    BY <2>4 DEF TypeOK
  <2>6. CASE request'[a] = request[a]
    BY <1>0, <2>1, <2>5, <2>6, RowStays DEF RowsOfAttempts
  <2>7. CASE request'[a] = [request[a] EXCEPT !.is = "completed", !.user = u]
    <3>1. request'[a].is = "completed" /\ request'[a].user = u
      <4>1. request[a] \in Requests
        BY DEF TypeOK
      <4>2. request'[a].is = "completed"
        BY <2>7, <4>1 DEF Requests
      <4>3. request'[a].user = u
        BY <2>7, <4>1 DEF Requests
      <4> QED
        BY <4>2, <4>3
    <3>2. RowOfAttempt(a)
      BY <1>0, <2>3
    <3>3. RowOfAttempt(a)'
      BY <2>1, <2>3, <3>1, <3>2 DEF RowOfAttempt, SetUp
    <3> QED
      BY <1>0, <2>1, <2>5, <3>3, RowStays DEF RowsOfAttempts
  <2> QED
    BY <2>3, <2>4, <2>6, <2>7 DEF TypeOK
<1>7. ASSUME NEW k \in Claims, Deliver(k) PROVE RowsOfAttempts'
  <2>1. UNCHANGED <<begun, states, expired, code>>
    BY <1>7 DEF Deliver
  <2>2. PICK a \in Attempts : a = claim[k].of /\ (request[a].is # "none" => request[a].is = "completed")
    BY <1>7 DEF Deliver, ClaimsReadTheirRequest, ClaimIsRead
  <2>3. request' = request
        \/ (request[a].is = "completed" /\ request' = [request EXCEPT ![a] = [request[a] EXCEPT !.delivered = TRUE]])
    BY <1>7, <2>2 DEF Deliver
  <2>4. \A b \in Attempts : b # a => request'[b] = request[b]
    BY <2>3 DEF TypeOK
  <2>5. CASE request'[a] = request[a]
    BY <1>0, <2>1, <2>4, <2>5, RowStays DEF RowsOfAttempts
  <2>6. CASE request[a].is = "completed" /\ request'[a] = [request[a] EXCEPT !.delivered = TRUE]
    <3>1. request'[a].is = "completed" /\ request'[a].user = request[a].user
      BY <2>2, <2>6, RequestUpdate DEF TypeOK
    <3>2. RowOfAttempt(a)
      BY <1>0, <2>2
    <3>3. request[a].user \in credentials' /\ project' /\ owners' # {}
      BY <2>6, <3>2, SetUpStays DEF RowOfAttempt
    <3>4. RowOfAttempt(a)'
      BY <2>1, <2>6, <3>1, <3>2, <3>3 DEF RowOfAttempt, SetUp
    <3> QED
      BY <1>0, <2>1, <2>4, <3>4, RowStays DEF RowsOfAttempts
  <2> QED
    BY <2>2, <2>3, <2>5, <2>6 DEF TypeOK
<1> QED
  BY <1>1, <1>2, <1>3, <1>4, <1>5, <1>6, <1>7, RowMoves

\* What a claim read stays so, unless the row goes.
LEMMA ClaimStep ==
  ASSUME IInv, Grown, [Next]_vars PROVE ClaimsReadTheirRequest'
<1> USE DEF IInv
<1>1. ASSUME NEW k \in Claims, claim'[k] = claim[k] PROVE ClaimIsRead(k)'
  <2>1. ClaimIsRead(k)
    BY DEF ClaimsReadTheirRequest
  <2>2. claim[k].user \in Accounts \cup {None}
    BY DEF TypeOK
  <2>3. SetUp(claim[k].user) => claim[k].user \in Accounts
    BY DEF SetUp, TypeOK
  <2> QED
    BY <1>1, <2>1, <2>3, SetUpStays DEF ClaimIsRead, Grown, SetUp
<1>2. ASSUME NEW k \in Claims, claim'[k].at # "selected" PROVE ClaimIsRead(k)'
  BY <1>2 DEF ClaimIsRead
<1>3. ASSUME NEW k \in Claims, NEW a \in Attempts, SelectRequest(k, a) PROVE ClaimIsRead(k)'
  <2>1. RowOfAttempt(a)
    BY DEF RowsOfAttempts
  <2>2. UNCHANGED <<begun, request, code, credentials, project, owners>>
    BY <1>3 DEF SelectRequest, oauth, tables
  <2>3. CASE request[a].is = "completed" /\ a \notin expired /\ ~request[a].delivered
    <3>1. claim'[k] = [at |-> "selected", of |-> a, user |-> request[a].user]
      BY <1>3, <2>3 DEF SelectRequest, TypeOK
    <3> QED
      BY <2>1, <2>2, <2>3, <3>1 DEF ClaimIsRead, RowOfAttempt, SetUp
  <2>4. CASE ~(request[a].is = "completed" /\ a \notin expired /\ ~request[a].delivered)
    <3>1. claim'[k] = [at |-> "done", of |-> a, user |-> None]
      BY <1>3, <2>4 DEF SelectRequest, TypeOK
    <3> QED
      BY <3>1, <1>2
  <2> QED
    BY <2>3, <2>4
<1>4. ASSUME NEW k \in Claims PROVE ClaimIsRead(k)'
  <2>1. CASE \E l \in Claims, a \in Attempts : SelectRequest(l, a)
    <3>1. PICK l \in Claims, a \in Attempts : SelectRequest(l, a)
      BY <2>1
    <3>2. l # k => claim'[k] = claim[k]
      BY <3>1 DEF SelectRequest, TypeOK
    <3> QED
      BY <1>1, <1>3, <3>1, <3>2
  <2>2. CASE \E l \in Claims : Deliver(l)
    <3>1. PICK l \in Claims : Deliver(l)
      BY <2>2
    <3>2. claim'[k] = claim[k] \/ claim'[k].at = "done"
      BY <3>1 DEF Deliver, TypeOK
    <3> QED
      BY <1>1, <1>2, <3>2
  <2>3. CASE Restart
    <3>1. claim'[k] = claim[k] \/ claim'[k].at = "done"
      BY <2>3 DEF Restart, TypeOK
    <3> QED
      BY <1>1, <1>2, <3>1
  <2>4. CASE UNCHANGED claim
    BY <1>1, <2>4
  <2> QED
    BY <2>1, <2>2, <2>3, <2>4 DEF Next, vars, Callback, StartBrowser, StartDesktop, Expire, Authorize, Revoke, Pair,
       InsertDevice, SelectPairing, ListProjects, LookUpRequest, SelectState, DeleteState, Exchange, UpsertUser,
       InsertUser, SaveCredential, EnsureProject, CreateProject, SelectMembers, InsertOwner, FinishDesktop, FinishBrowser
<1> QED
  BY <1>4 DEF ClaimsReadTheirRequest

\* A session stays right, unless it is gone.
LEMMA SessionStays ==
  ASSUME TypeOK, Grown, NEW s \in Callbacks \cup Claims, SessionIsRight(s),
         session'[s].of = session[s].of, session'[s].user = session[s].user
  PROVE  SessionIsRight(s)'
<1>1. session[s].user \in Accounts /\ session[s].of \in Attempts
  BY DEF SessionIsRight, SetUp, TypeOK
<1>2. begun[session[s].of] # "no"
  BY DEF SessionIsRight
<1> QED
  BY <1>1, <1>2, SetUpStays DEF SessionIsRight, Grown, SetUp

\* The sessions change when one is made and when one is over.
LEMMA SessionMoves ==
  ASSUME [Next]_vars
  PROVE  \/ UNCHANGED session
         \/ \E c \in Callbacks : FinishBrowser(c)
         \/ \E k \in Claims : Deliver(k)
         \/ \E s \in Callbacks \cup Claims : Revoke(s)
  BY DEF Next, vars, Callback, StartBrowser, StartDesktop, Expire, Authorize, SelectRequest, Pair,
       InsertDevice, SelectPairing, ListProjects, Restart, LookUpRequest, SelectState, DeleteState, Exchange, UpsertUser,
       InsertUser, SaveCredential, EnsureProject, CreateProject, SelectMembers, InsertOwner, FinishDesktop

\* A session has an attempt; there is none without.
LEMMA SessionsHaveAttempts ==
  ASSUME IInv, NEW s \in Callbacks \cup Claims
  PROVE  s \in Sessions <=> session[s].of \in Attempts
<1>1. session[s].of \in Attempts => session[s] # NoSession
  BY NoneIsNothing DEF NoSession
<1> QED
  BY <1>1 DEF IInv, SessionsAreRight, SessionIsRight, Sessions

\* What a claim delivers, and that nothing was delivered before.
LEMMA DeliverIs ==
  ASSUME IInv, Grown, NEW k \in Claims, Deliver(k)
  PROVE  \/ UNCHANGED <<session, request>>
         \/ /\ \A s \in Callbacks \cup Claims : s # k => session'[s] = session[s]
            /\ session'[k] # NoSession /\ session'[k].of = claim[k].of /\ SessionIsRight(k)'
            /\ \A l \in Sessions \cap Claims : session[l].of # claim[k].of
<1> USE DEF IInv
<1>1. CASE ~(request[claim[k].of].is # "none" /\ ~request[claim[k].of].delivered)
  BY <1>1 DEF Deliver
<1>2. CASE request[claim[k].of].is # "none" /\ ~request[claim[k].of].delivered
  <2>1. PICK a \in Attempts, u \in Accounts :
            /\ a = claim[k].of /\ u = claim[k].user /\ begun[a] = "desktop" /\ SetUp(u) /\ code[<<a, u>>] = "exchanged"
            /\ request[a].is = "completed" /\ request[a].user = u
    <3>1. ClaimIsRead(k) /\ claim[k].at = "selected"
      BY DEF Deliver, ClaimsReadTheirRequest
    <3>2. claim[k].of \in Attempts /\ SetUp(claim[k].user)
      BY <3>1 DEF ClaimIsRead
    <3>3. claim[k].user \in Accounts
      BY <3>2 DEF SetUp, TypeOK
    <3> QED
      BY <1>2, <3>1, <3>2, <3>3 DEF ClaimIsRead
  <2>2. /\ session' = [session EXCEPT ![k] = [of |-> a, user |-> u, valid |-> TRUE]]
        /\ request' = [request EXCEPT ![a] = [request[a] EXCEPT !.delivered = TRUE]]
        /\ UNCHANGED <<begun, code, credentials, project, owners>>
    BY <1>2, <2>1 DEF Deliver, tables
  <2>3. session'[k] = [of |-> a, user |-> u, valid |-> TRUE] /\ \A s \in Callbacks \cup Claims : s # k => session'[s] = session[s]
    BY <2>2 DEF TypeOK
  <2>4. request'[a].is = "completed" /\ request'[a].delivered /\ request'[a].user = u
    <3>1. request[a] \in Requests /\ request'[a] = [request[a] EXCEPT !.delivered = TRUE]
      BY <2>2 DEF TypeOK
    <3> QED
      BY <2>1, <3>1, RequestUpdate
  <2>5. SessionIsRight(k)'
    BY <2>1, <2>2, <2>3, <2>4 DEF SessionIsRight, SetUp
  <2>6. \A l \in Sessions \cap Claims : session[l].of # a
    BY <1>2, <2>1 DEF SessionsAreRight, SessionIsRight
  <2>7. session'[k] # NoSession
    BY <2>3 DEF NoSession
  <2> QED
    BY <2>1, <2>3, <2>5, <2>6, <2>7
<1> QED
  BY <1>1, <1>2

\* Every session is right, and a request has one at most.
LEMMA SessionStep ==
  ASSUME IInv, Grown, [Next]_vars PROVE SessionsAreRight' /\ OneSessionPerRequest'
<1> USE DEF IInv
<1>1. \A s \in Sessions : SessionIsRight(s)
  BY DEF SessionsAreRight
<1>2. CASE UNCHANGED session
  BY <1>1, <1>2, SessionStays DEF SessionsAreRight, Sessions, OneSessionPerRequest
<1>3. ASSUME NEW c \in Callbacks, FinishBrowser(c) PROVE SessionsAreRight' /\ OneSessionPerRequest'
  <2>1. HasStored(c) /\ SeesTheRequest(c) /\ call[c].at = "finish" /\ call[c].sees = None
    BY <1>3 DEF FinishBrowser, At, CallsHaveStored, CallsSeeTheRequest
  <2>2. PICK a \in Attempts, u \in Accounts : a = call[c].of /\ u = call[c].as /\ begun[a] = "browser"
                                              /\ SetUp(u) /\ code[<<a, u>>] = "exchanged"
    BY <2>1 DEF HasStored, SeesTheRequest, Exchanged, Saved, Placed, SetUp, TypeOK
  <2>3. session'[c] = [of |-> a, user |-> u, valid |-> TRUE] /\ \A s \in Callbacks \cup Claims : s # c => session'[s] = session[s]
    BY <1>3, <2>2 DEF FinishBrowser, TypeOK
  <2>4. UNCHANGED <<begun, code, request, credentials, project, owners>> /\ c \notin Claims
    BY <1>3 DEF FinishBrowser, oauth, tables
  <2>5. SessionIsRight(c)'
    BY <2>2, <2>3, <2>4 DEF SessionIsRight, SetUp
  <2>6. \A s \in Callbacks \cup Claims : s # c /\ s \in Sessions' => s \in Sessions /\ SessionIsRight(s)'
    BY <1>1, <2>3, SessionStays DEF Sessions
  <2>7. SessionsAreRight'
    BY <2>5, <2>6 DEF SessionsAreRight, Sessions
  <2> QED
    BY <2>3, <2>4, <2>6, <2>7 DEF OneSessionPerRequest, Sessions
<1>4. ASSUME NEW k \in Claims, Deliver(k) PROVE SessionsAreRight' /\ OneSessionPerRequest'
  <2>1. CASE UNCHANGED session
    BY <1>2, <2>1
  <2>2. CASE /\ \A s \in Callbacks \cup Claims : s # k => session'[s] = session[s]
             /\ session'[k].of = claim[k].of /\ SessionIsRight(k)'
             /\ \A l \in Sessions \cap Claims : session[l].of # claim[k].of
    <3>1. \A s \in Callbacks \cup Claims : s # k /\ s \in Sessions' => s \in Sessions /\ SessionIsRight(s)'
      BY <1>1, <2>2, SessionStays DEF Sessions
    <3>2. SessionsAreRight'
      BY <2>2, <3>1 DEF SessionsAreRight, Sessions
    <3> QED
      BY <2>2, <3>1, <3>2 DEF OneSessionPerRequest, Sessions
  <2> QED
    BY <1>4, <2>1, <2>2, DeliverIs
<1>5. ASSUME NEW s \in Callbacks \cup Claims, Revoke(s) PROVE SessionsAreRight' /\ OneSessionPerRequest'
  <2>1. session[s] \in Session /\ session[s] # NoSession
    BY <1>5 DEF Revoke, NoSession, TypeOK
  <2>2. session'[s] = [session[s] EXCEPT !.valid = FALSE] /\ \A r \in Callbacks \cup Claims : r # s => session'[r] = session[r]
    BY <1>5 DEF Revoke, TypeOK
  <2>3. session'[s].of = session[s].of /\ session'[s].user = session[s].user
    BY <2>1, <2>2 DEF Session
  <2>4. \A r \in Callbacks \cup Claims : /\ session'[r].of = session[r].of /\ session'[r].user = session[r].user
                                         /\ r \in Sessions' => r \in Sessions
    BY <2>1, <2>2, <2>3 DEF Sessions
  <2>5. SessionsAreRight'
    BY <1>1, <2>4, SessionStays DEF SessionsAreRight, Sessions
  <2> QED
    BY <2>4, <2>5 DEF OneSessionPerRequest, Sessions
<1> QED
  BY <1>2, <1>3, <1>4, <1>5, SessionMoves

\* Pairings change when one is made, read or used.
LEMMA PairingMoves ==
  ASSUME [Next]_vars
  PROVE  \/ UNCHANGED <<pairing, register>>
         \/ \E s \in Callbacks \cup Claims, p \in Pairings : Pair(p, s)
         \/ \E r \in Registrations : InsertDevice(r) \/ \E p \in Pairings : SelectPairing(r, p)
         \/ Restart
  BY DEF Next, vars, Callback, StartBrowser, StartDesktop, Expire, Authorize, SelectRequest, Deliver, Revoke,
       ListProjects, LookUpRequest, SelectState, DeleteState, Exchange, UpsertUser, device,
       InsertUser, SaveCredential, EnsureProject, CreateProject, SelectMembers, InsertOwner, FinishDesktop, FinishBrowser

\* Pairings are of owners, and are used up with a device.
LEMMA PairingStep ==
  ASSUME IInv, Grown, [Next]_vars PROVE PairingsAreOfOwners'
<1> USE DEF IInv
<1>0. owners \subseteq owners'
  BY DEF Grown
<1>1. CASE UNCHANGED <<pairing, register>>
  BY <1>0, <1>1 DEF PairingsAreOfOwners
<1>2. ASSUME NEW s \in Callbacks \cup Claims, NEW p \in Pairings, Pair(p, s) PROVE PairingsAreOfOwners'
  <2>1. UNCHANGED <<register, owners>> /\ session[s].user \in owners
    BY <1>2 DEF Pair, tables
  <2>2. /\ \A q \in Pairings : q # p => pairing'[q] = pairing[q]
        /\ pairing'[p].owner = session[s].user /\ pairing'[p].consumed = pairing[p].consumed
    BY <1>2 DEF Pair, TypeOK
  <2>3. session[s].user # None
    BY <2>1 DEF TypeOK
  <2> QED
    BY <2>1, <2>2, <2>3 DEF PairingsAreOfOwners
<1>3. ASSUME NEW r \in Registrations, InsertDevice(r) PROVE PairingsAreOfOwners'
  <2>1. register[r].at = "selected" /\ UNCHANGED owners
    BY <1>3 DEF InsertDevice, tables
  <2>2. PICK p \in Pairings : p = register[r].of /\ pairing[p].owner # None
    BY <2>1 DEF PairingsAreOfOwners
  <2>3. /\ register'[r] = [at |-> "device", of |-> p] /\ \A q \in Registrations : q # r => register'[q] = register[q]
    <3>1. register[r] \in [at : {"idle", "selected", "device", "done"}, of : Pairings \cup {None}]
      BY DEF TypeOK
    <3>2. [register[r] EXCEPT !.at = "device"] = [at |-> "device", of |-> p]
      BY <2>2, <3>1
    <3> QED
      BY <1>3, <3>2 DEF InsertDevice, TypeOK
  <2>4. /\ pairing'[p].owner = pairing[p].owner /\ pairing'[p].consumed
        /\ \A q \in Pairings : q # p => pairing'[q] = pairing[q]
    BY <1>3, <2>2 DEF InsertDevice, TypeOK
  <2>5. \A q \in Pairings : pairing'[q].owner # None => pairing'[q].owner \in owners'
    BY <2>1, <2>2, <2>4 DEF PairingsAreOfOwners
  <2>6. \A q \in Pairings : pairing'[q].consumed => \E d \in Registrations : register'[d] = [at |-> "device", of |-> q]
    <3>1. ASSUME NEW q \in Pairings, q # p, pairing'[q].consumed
          PROVE  \E d \in Registrations : register'[d] = [at |-> "device", of |-> q]
      <4>1. PICK d \in Registrations : register[d] = [at |-> "device", of |-> q]
        BY <2>4, <3>1 DEF PairingsAreOfOwners
      <4>2. d # r
        BY <2>1, <4>1
      <4> QED
        BY <2>3, <4>1, <4>2
    <3> QED
      BY <2>3, <3>1
  <2>7. ASSUME NEW d \in Registrations
        PROVE  /\ register'[d].at \in {"selected", "device"} =>
                   register'[d].of \in Pairings /\ pairing'[register'[d].of].owner # None
               /\ register'[d].at = "device" => pairing'[register'[d].of].consumed
    <3>1. CASE d = r
      BY <2>2, <2>3, <2>4, <3>1
    <3>2. CASE d # r
      BY <2>2, <2>3, <2>4, <3>2 DEF PairingsAreOfOwners
    <3> QED
      BY <3>1, <3>2
  <2> QED
    BY <2>5, <2>6, <2>7 DEF PairingsAreOfOwners
<1>4. ASSUME NEW r \in Registrations, NEW p \in Pairings, SelectPairing(r, p) PROVE PairingsAreOfOwners'
  <2>1. UNCHANGED <<pairing, owners>> /\ register[r].at = "idle" /\ pairing[p].owner # None
    BY <1>4 DEF SelectPairing, tables
  <2>2. /\ \A q \in Registrations : q # r => register'[q] = register[q]
        /\ register'[r].of = p /\ register'[r].at \in {"selected", "done"}
    BY <1>4 DEF SelectPairing, TypeOK
  <2> QED
    BY <2>1, <2>2 DEF PairingsAreOfOwners
<1>5. CASE Restart
  <2>1. UNCHANGED <<pairing, owners>>
    BY <1>5 DEF Restart, tables
  <2>2. \A r \in Registrations : register'[r] = register[r] \/ (register[r].at = "selected" /\ register'[r].at = "done")
    BY <1>5 DEF Restart, TypeOK
  <2>3. \A r \in Registrations : register[r].at = "device" => register'[r] = register[r]
    BY <2>2
  <2> QED
    BY <2>1, <2>2, <2>3 DEF PairingsAreOfOwners
<1> QED
  BY <1>1, <1>2, <1>3, <1>4, <1>5, PairingMoves

-----------------------------------------------------------------------------
(* Theorems *)

\* The invariant holds at the start.
LEMMA Starts == Init => IInv
<1> SUFFICES ASSUME Init PROVE IInv
  OBVIOUS
<1>1. NoRequest \in Requests /\ NoCall \in Call /\ NoSession \in Session
  BY DEF NoRequest, Requests, NoCall, Call, CallbackAt, NoSession, Session
<1>2. TypeOK
  BY <1>1 DEF Init, TypeOK
<1>3. CallsHaveStored /\ CallsSeeTheRequest
  BY DEF Init, CallsHaveStored, HasStored, CallsSeeTheRequest, SeesTheRequest, NoCall, Exchanged, Known, Saved, Placed
<1>4. RowsOfAttempts
  BY DEF Init, RowsOfAttempts, RowOfAttempt, NoRequest
<1>5. ClaimsReadTheirRequest
  BY DEF Init, ClaimsReadTheirRequest, ClaimIsRead
<1>6. SessionsAreRight /\ OneSessionPerRequest
  BY DEF Init, SessionsAreRight, OneSessionPerRequest, Sessions
<1>7. PairingsAreOfOwners
  BY DEF Init, PairingsAreOfOwners
<1> QED
  BY <1>2, <1>3, <1>4, <1>5, <1>6, <1>7 DEF IInv

\* Every step keeps it.
LEMMA Goes == IInv /\ [Next]_vars => IInv'
<1> SUFFICES ASSUME IInv, [Next]_vars PROVE IInv'
  OBVIOUS
<1>1. Grown
  BY StepGrows DEF IInv
<1> QED
  BY <1>1, TypeStep, StoredStep, SeenStep, RowStep, ClaimStep, SessionStep, PairingStep DEF IInv

\* So it always holds.
LEMMA Invariance == Spec => []IInv
  BY Starts, Goes, PTL DEF Spec

\* Type correctness.
THEOREM TypeCorrect == Spec => []TypeOK
<1>1. IInv => TypeOK
  BY DEF IInv
<1> QED
  BY <1>1, Invariance, PTL

\* A sign-in begun in the desktop application gives the browser no session
\* (routes.py:199-237), with any number of callbacks and claims.
THEOREM DesktopSignInsStay == Spec => []DesktopSignsInTheDesktop
<1>1. IInv => DesktopSignsInTheDesktop
  BY DEF IInv, SessionsAreRight, SessionIsRight, DesktopSignsInTheDesktop, Sessions
<1> QED
  BY <1>1, Invariance, PTL

\* A desktop request is claimed once (auth/store.py:235-257).
THEOREM RequestsAreClaimedOnce == Spec => []OneSessionPerRequest
<1>1. IInv => OneSessionPerRequest
  BY DEF IInv
<1> QED
  BY <1>1, Invariance, PTL

\* A session is of the user whose code was exchanged for its attempt.
THEOREM SessionsGoBackToTheirUser == Spec => []SessionsAreOfTheirUser
<1>1. IInv => SessionsAreOfTheirUser
  BY DEF IInv, SessionsAreRight, SessionIsRight, SessionsAreOfTheirUser
<1> QED
  BY <1>1, Invariance, PTL

\* Whoever is signed in is set up (routes.py:218-222).
THEOREM SignedInUsersAreSetUp == Spec => []SignedInIsSetUp
<1>1. IInv => SignedInIsSetUp
  BY DEF IInv, SessionsAreRight, SessionIsRight, SignedInIsSetUp, SetUp
<1> QED
  BY <1>1, Invariance, PTL

\* Devices are registered by pairings of owners (workspace/store.py:1194-1236).
THEOREM DevicesAreOfOwners == Spec => []DevicesFollowOwners
<1>1. IInv => DevicesFollowOwners
  BY DEF IInv, PairingsAreOfOwners, DevicesFollowOwners
<1> QED
  BY <1>1, Invariance, PTL

-----------------------------------------------------------------------------
(* Sessions come once and do not come back *)

\* A session is the last a callback or a claim does.
SessionsAreLast ==
    /\ \A c \in Callbacks : session[c] # NoSession => call[c].at = "done"
    /\ \A k \in Claims : session[k] # NoSession => claim[k].at = "done"

\* The callback c goes on with, or has signed in with, the code of a and u.
Uses(c, a, u) ==
    \/ call[c].at \in Exchanged /\ call[c].of = a /\ call[c].as = u
    \/ session[c] # NoSession /\ session[c].of = a /\ session[c].user = u

\* A code that GitHub issued is used by one callback.
CodesAreUsedOnce ==
    \A c, d \in Callbacks : \A a \in Attempts, u \in Accounts : Uses(c, a, u) /\ Uses(d, a, u) => c = d

\* What a step does to the sessions: it adds the one of a callback or a claim that
\* ends with it, or revokes one.
LEMMA SessionsChange ==
  ASSUME IInv, [Next]_vars
  PROVE  \/ session' = session
         \/ \E c \in Callbacks :
              /\ call[c].at = "finish" /\ call' = [call EXCEPT ![c].at = "done"] /\ claim' = claim
              /\ session' = [session EXCEPT ![c] = [of |-> call[c].of, user |-> call[c].as, valid |-> TRUE]]
         \/ \E k \in Claims :
              /\ claim[k].at = "selected" /\ claim' = [claim EXCEPT ![k].at = "done"] /\ call' = call
              /\ session' = [session EXCEPT ![k] = [of |-> claim[k].of, user |-> claim[k].user, valid |-> TRUE]]
         \/ \E s \in Callbacks \cup Claims :
              /\ session[s].valid /\ session' = [session EXCEPT ![s].valid = FALSE]
              /\ UNCHANGED <<call, claim>>
<1>1. ASSUME NEW c \in Callbacks, Callback(c), ~FinishBrowser(c) PROVE session' = session
  BY <1>1 DEF Callback, LookUpRequest, SelectState, DeleteState, Exchange, UpsertUser, InsertUser, SaveCredential,
     EnsureProject, CreateProject, SelectMembers, InsertOwner, FinishDesktop
<1>2. ASSUME ~(\E c \in Callbacks : Callback(c)), ~(\E k \in Claims : Deliver(k)),
             ~(\E s \in Callbacks \cup Claims : Revoke(s))
      PROVE  session' = session
  BY <1>2 DEF Next, StartBrowser, StartDesktop, Authorize, Expire, SelectRequest, Pair, InsertDevice, SelectPairing,
     ListProjects, Restart, vars
<1>3. ASSUME NEW c \in Callbacks, FinishBrowser(c)
      PROVE  /\ call[c].at = "finish" /\ call' = [call EXCEPT ![c].at = "done"] /\ claim' = claim
             /\ session' = [session EXCEPT ![c] = [of |-> call[c].of, user |-> call[c].as, valid |-> TRUE]]
  BY <1>3 DEF FinishBrowser, At, Go
<1>4. ASSUME NEW k \in Claims, Deliver(k), session' # session
      PROVE  /\ claim[k].at = "selected" /\ claim' = [claim EXCEPT ![k].at = "done"] /\ call' = call
             /\ session' = [session EXCEPT ![k] = [of |-> claim[k].of, user |-> claim[k].user, valid |-> TRUE]]
  BY <1>4 DEF Deliver
<1>5. ASSUME NEW s \in Callbacks \cup Claims, Revoke(s)
      PROVE  /\ session[s].valid /\ session' = [session EXCEPT ![s].valid = FALSE]
             /\ UNCHANGED <<call, claim>>
  BY <1>5 DEF Revoke
<1> QED
  BY <1>1, <1>2, <1>3, <1>4, <1>5

\* What is done stays done.
LEMMA DoneStays ==
  ASSUME IInv, [Next]_vars
  PROVE  /\ \A c \in Callbacks : call[c].at = "done" => call'[c].at = "done"
         /\ \A k \in Claims : claim[k].at = "done" => claim'[k].at = "done"
<1>0. /\ call \in [Callbacks -> Call]
      /\ claim \in [Claims -> [at : {"idle", "selected", "done"}, of : Attempts \cup {None}, user : Accounts \cup {None}]]
  BY DEF IInv, TypeOK
<1>1. ASSUME NEW c \in Callbacks, Callback(c)
      PROVE  call[c].at # "done" /\ claim' = claim /\ \A d \in Callbacks : d # c => call'[d] = call[d]
  BY <1>0, <1>1 DEF Callback, LookUpRequest, SelectState, DeleteState, Exchange, UpsertUser, InsertUser, SaveCredential,
     EnsureProject, CreateProject, SelectMembers, InsertOwner, FinishDesktop, FinishBrowser, At, Go, Fail
<1>2. ASSUME NEW k \in Claims, Deliver(k) \/ \E a \in Attempts : SelectRequest(k, a)
      PROVE  claim[k].at # "done" /\ call' = call /\ \A l \in Claims : l # k => claim'[l] = claim[l]
  BY <1>0, <1>2 DEF Deliver, SelectRequest
<1>3. ASSUME Restart
      PROVE  /\ \A c \in Callbacks : call[c].at = "done" => call'[c].at = "done"
             /\ \A k \in Claims : claim[k].at = "done" => claim'[k].at = "done"
  BY <1>0, <1>3 DEF Restart, Call, At
<1>4. ASSUME ~(\E c \in Callbacks : Callback(c)), ~Restart,
             ~(\E k \in Claims : Deliver(k) \/ \E a \in Attempts : SelectRequest(k, a))
      PROVE  UNCHANGED <<call, claim>>
  BY <1>4 DEF Next, StartBrowser, StartDesktop, Authorize, Expire, Revoke, Pair, InsertDevice, SelectPairing,
     ListProjects, vars
<1> QED
  BY <1>1, <1>2, <1>3, <1>4

\* A callback or a claim has no session before it is done, and one at most after.
LEMMA SessionsStayLast == IInv /\ SessionsAreLast /\ [Next]_vars => SessionsAreLast'
<1> SUFFICES ASSUME IInv, SessionsAreLast, [Next]_vars PROVE SessionsAreLast'
  OBVIOUS
<1>0. /\ call \in [Callbacks -> Call] /\ session \in [Callbacks \cup Claims -> Session]
      /\ claim \in [Claims -> [at : {"idle", "selected", "done"}, of : Attempts \cup {None}, user : Accounts \cup {None}]]
  BY DEF IInv, TypeOK
<1>1. CASE session' = session
  BY <1>1, DoneStays DEF SessionsAreLast
<1>2. ASSUME NEW c \in Callbacks,
             call' = [call EXCEPT ![c].at = "done"], claim' = claim,
             session' = [session EXCEPT ![c] = [of |-> call[c].of, user |-> call[c].as, valid |-> TRUE]]
      PROVE  SessionsAreLast'
  BY <1>0, <1>2 DEF SessionsAreLast, Call
<1>3. ASSUME NEW k \in Claims,
             claim' = [claim EXCEPT ![k].at = "done"], call' = call,
             session' = [session EXCEPT ![k] = [of |-> claim[k].of, user |-> claim[k].user, valid |-> TRUE]]
      PROVE  SessionsAreLast'
  BY <1>0, <1>3 DEF SessionsAreLast
<1>4. ASSUME NEW s \in Callbacks \cup Claims, session[s].valid,
             session' = [session EXCEPT ![s].valid = FALSE], UNCHANGED <<call, claim>>
      PROVE  SessionsAreLast'
  <2>1. session[s] # NoSession
    BY <1>4 DEF NoSession
  <2> QED
    BY <1>0, <1>4, <2>1 DEF SessionsAreLast
<1> QED
  BY <1>1, <1>2, <1>3, <1>4, SessionsChange

\* A session stays the one of its attempt and of its user, and once it is revoked, or
\* its seven days are over, nothing makes it valid again (auth/store.py).
THEOREM RevokedStaysRevoked ==
  Spec => [][\A s \in Callbacks \cup Claims : session[s] # NoSession =>
               /\ session'[s].of = session[s].of /\ session'[s].user = session[s].user
               /\ session'[s].valid => session[s].valid]_vars
<1>1. Init => SessionsAreLast
  BY DEF Init, SessionsAreLast
<1>2. IInv /\ SessionsAreLast /\ [Next]_vars =>
        [\A s \in Callbacks \cup Claims : session[s] # NoSession =>
           /\ session'[s].of = session[s].of /\ session'[s].user = session[s].user
           /\ session'[s].valid => session[s].valid]_vars
  <2> SUFFICES ASSUME IInv, SessionsAreLast, [Next]_vars, NEW s \in Callbacks \cup Claims, session[s] # NoSession
               PROVE  /\ session'[s].of = session[s].of /\ session'[s].user = session[s].user
                      /\ session'[s].valid => session[s].valid
    OBVIOUS
  <2>1. session \in [Callbacks \cup Claims -> Session]
    BY DEF IInv, TypeOK
  <2>2. /\ \A c \in Callbacks : call[c].at = "finish" => c # s
        /\ \A k \in Claims : claim[k].at = "selected" => k # s
    BY DEF SessionsAreLast
  <2> QED
    BY <2>1, <2>2, SessionsChange DEF Session
<1> QED
  BY <1>1, <1>2, SessionsStayLast, Invariance, PTL DEF Spec

\* A callback comes to use a code by exchanging it, and no other way.
LEMMA UseBegins ==
  ASSUME IInv, SessionsAreLast, [Next]_vars,
         NEW c \in Callbacks, NEW a \in Attempts, NEW u \in Accounts, Uses(c, a, u)', ~Uses(c, a, u)
  PROVE  Exchange(c) /\ code[<<a, u>>] = "issued"
<1>0. call \in [Callbacks -> Call] /\ session \in [Callbacks \cup Claims -> Session]
  BY DEF IInv, TypeOK
<1>1. session'[c] # NoSession /\ session'[c].of = a /\ session'[c].user = u => Uses(c, a, u)
  <2> SUFFICES ASSUME session'[c] # NoSession, session'[c].of = a, session'[c].user = u PROVE Uses(c, a, u)
    OBVIOUS
  <2>1. CASE session' = session
    BY <2>1 DEF Uses
  <2>2. ASSUME NEW d \in Callbacks, call[d].at = "finish",
               session' = [session EXCEPT ![d] = [of |-> call[d].of, user |-> call[d].as, valid |-> TRUE]]
        PROVE  Uses(c, a, u)
    BY <1>0, <2>2 DEF Uses, Exchanged
  <2>3. ASSUME NEW k \in Claims,
               session' = [session EXCEPT ![k] = [of |-> claim[k].of, user |-> claim[k].user, valid |-> TRUE]]
        PROVE  Uses(c, a, u)
    BY <1>0, <2>3 DEF Uses
  <2>4. ASSUME NEW s \in Callbacks \cup Claims, session[s].valid,
               session' = [session EXCEPT ![s].valid = FALSE]
        PROVE  Uses(c, a, u)
    <3>1. session[s] # NoSession
      BY <2>4 DEF NoSession
    <3> QED
      BY <1>0, <2>4, <3>1 DEF Uses, Session
  <2> QED
    BY <2>1, <2>2, <2>3, <2>4, SessionsChange
<1>2. /\ call'[c].at \in Exchanged /\ call'[c].of = a /\ call'[c].as = u
      /\ ~(call[c].at \in Exchanged /\ call[c].of = a /\ call[c].as = u)
  BY <1>1 DEF Uses
<1>3. Callback(c)
  <2>1. ASSUME NEW d \in Callbacks, Callback(d), d # c PROVE call'[c] = call[c]
    BY <1>0, <2>1 DEF Callback, LookUpRequest, SelectState, DeleteState, Exchange, UpsertUser, InsertUser, SaveCredential,
       EnsureProject, CreateProject, SelectMembers, InsertOwner, FinishDesktop, FinishBrowser, At, Go, Fail
  <2>2. ASSUME Restart PROVE call'[c] = call[c] \/ call'[c].at = "done"
    BY <1>0, <2>2 DEF Restart, Call
  <2>3. ASSUME ~(\E d \in Callbacks : Callback(d)), ~Restart PROVE call' = call
    BY <2>3 DEF Next, StartBrowser, StartDesktop, Authorize, Expire, Deliver, SelectRequest, Revoke, Pair,
       InsertDevice, SelectPairing, ListProjects, vars
  <2> QED
    BY <1>2, <2>1, <2>2, <2>3 DEF Exchanged
<1>4. ASSUME NEW b \in Attempts, NEW v \in Accounts, LookUpRequest(c, b, v) PROVE FALSE
  <2>1. call'[c].at = "looked up"
    BY <1>0, <1>4 DEF LookUpRequest
  <2> QED
    BY <1>2, <2>1 DEF Exchanged
<1>5. \/ Exchange(c)
      \/ call[c].at \in Exchanged /\ \E pc \in CallbackAt : Go(c, pc)
      \/ \E pc \in {"selected", "exchange", "done"} : Go(c, pc)
  BY <1>3, <1>4 DEF Callback, SelectState, DeleteState, UpsertUser, InsertUser, SaveCredential, EnsureProject,
     CreateProject, SelectMembers, InsertOwner, FinishDesktop, FinishBrowser, At, Fail, Exchanged, CallbackAt
<1>6. \E pc \in CallbackAt : Go(c, pc)
  BY <1>5 DEF Exchange, Fail, CallbackAt
<1>7. call'[c].of = call[c].of /\ call'[c].as = call[c].as /\ Exchange(c)
  <2>1. call'[c].of = call[c].of /\ call'[c].as = call[c].as
    BY <1>6, GoesTo DEF IInv
  <2>2. call[c].at \notin Exchanged
    BY <1>2, <2>1
  <2>3. \A pc \in {"selected", "exchange", "done"} : Go(c, pc) => call'[c].at \notin Exchanged
    BY GoesTo DEF IInv, CallbackAt, Exchanged
  <2> QED
    BY <1>2, <1>5, <2>1, <2>2, <2>3
<1>8. code[<<call[c].of, call[c].as>>] = "issued"
  BY <1>0, <1>2, <1>7 DEF Exchange, Fail, Go, Call, Exchanged
<1> QED
  BY <1>2, <1>7, <1>8

\* The code a callback uses is exchanged.
LEMMA UsedIsExchanged ==
  ASSUME IInv, NEW c \in Callbacks, NEW a \in Attempts, NEW u \in Accounts, Uses(c, a, u)
  PROVE  code[<<a, u>>] = "exchanged"
  BY DEF IInv, CallsHaveStored, HasStored, SessionsAreRight, SessionIsRight, Sessions, Uses

\* So no second callback uses it.
LEMMA CodesStayUsedOnce ==
  ASSUME IInv, SessionsAreLast, CodesAreUsedOnce, [Next]_vars PROVE CodesAreUsedOnce'
<1> SUFFICES ASSUME NEW c \in Callbacks, NEW d \in Callbacks, NEW a \in Attempts, NEW u \in Accounts,
                    Uses(c, a, u)', Uses(d, a, u)', c # d
             PROVE  FALSE
  BY DEF CodesAreUsedOnce
<1>1. Uses(c, a, u) \/ (Exchange(c) /\ code[<<a, u>>] = "issued")
  BY UseBegins
<1>2. Uses(d, a, u) \/ (Exchange(d) /\ code[<<a, u>>] = "issued")
  BY UseBegins
<1>3. ~(Uses(c, a, u) /\ Uses(d, a, u))
  BY DEF CodesAreUsedOnce
<1>4. ~(Exchange(c) /\ Exchange(d) /\ Uses(c, a, u)' /\ Uses(d, a, u)' /\ ~Uses(c, a, u) /\ ~Uses(d, a, u))
  <2> SUFFICES ASSUME Exchange(c), Exchange(d), Uses(d, a, u)', ~Uses(d, a, u) PROVE FALSE
    OBVIOUS
  <2>1. call'[d] = call[d] /\ session'[d] = session[d]
    BY DEF Exchange, Fail, Go, IInv, TypeOK
  <2> QED
    BY <2>1 DEF Uses
<1>5. ~(Uses(c, a, u) /\ code[<<a, u>>] = "issued") /\ ~(Uses(d, a, u) /\ code[<<a, u>>] = "issued")
  BY UsedIsExchanged
<1> QED
  BY <1>1, <1>2, <1>3, <1>4, <1>5

\* A sign-in of one account at one attempt gives one browser session at most, although
\* callbacks that overlap may find the same state (auth/store.py, consume_oauth_state).
THEOREM CodesSignInOnce ==
  Spec => [](\A c, d \in Sessions \cap Callbacks :
               session[c].of = session[d].of /\ session[c].user = session[d].user => c = d)
<1>1. Init => SessionsAreLast /\ CodesAreUsedOnce
  BY DEF Init, SessionsAreLast, CodesAreUsedOnce, Uses, NoCall, Exchanged
<1>2. IInv /\ CodesAreUsedOnce =>
        \A c, d \in Sessions \cap Callbacks :
          session[c].of = session[d].of /\ session[c].user = session[d].user => c = d
  <2> SUFFICES ASSUME IInv, CodesAreUsedOnce, NEW c \in Sessions \cap Callbacks, NEW d \in Sessions \cap Callbacks,
                      session[c].of = session[d].of, session[c].user = session[d].user
               PROVE  c = d
    OBVIOUS
  <2>1. session[c].of \in Attempts /\ session[c].user \in Accounts
    BY DEF IInv, SessionsAreRight, SessionIsRight, SetUp, TypeOK
  <2>2. Uses(c, session[c].of, session[c].user) /\ Uses(d, session[c].of, session[c].user)
    BY DEF Uses, Sessions
  <2> QED
    BY <2>1, <2>2 DEF CodesAreUsedOnce
<1> QED
  BY <1>1, <1>2, SessionsStayLast, CodesStayUsedOnce, Invariance, PTL DEF Spec
=============================================================================
