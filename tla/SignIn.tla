------------------------------- MODULE SignIn -------------------------------
(***************************************************************************)
(* Signing in with GitHub, in a browser or for the desktop application, and *)
(* pairing a device (auth/store.py, auth/github.py, the auth and device      *)
(* endpoints of api/routes.py, the pairings of workspace/store.py).         *)
(*                                                                         *)
(* A handler awaits between its transactions, and the SELECT that precedes a *)
(* write is outside the write's transaction, so every SELECT and every write *)
(* is a step of its own. Nothing but the tables survives a restart.         *)
(***************************************************************************)
EXTENDS FiniteSets

CONSTANTS
    Attempts,      \* sign-ins begun, each with its OAuth state
    Accounts,      \* GitHub accounts; a user is named by its account
    Callbacks,     \* calls of the callback endpoint
    Claims,        \* calls of the claim endpoint
    Pairings,      \* pairings created
    Registrations, \* calls that register a device
    None

ASSUME NoneIsNothing == None \notin Accounts \cup Attempts \cup Pairings
ASSUME CallsAreDistinct == Callbacks \cap Claims = {}

VARIABLES
    begun,     \* where each attempt was begun
    states,    \* auth_oauth_states: the attempts that have a row
    request,   \* auth_desktop_authorizations: of each attempt
    expired,   \* attempts and pairings whose time is over
    code,      \* GitHub: the codes it issued, and those exchanged
    users, credentials, project, owners,  \* the tables of those names; project: "default" exists
    session,   \* auth_sessions, by the call that created it
    call,      \* the callbacks under way
    claim,     \* the claims under way
    pairing,   \* device_pairings
    register   \* the registrations under way, and project_devices

oauth  == <<begun, states, request, expired, code>>
tables == <<users, credentials, project, owners>>
device == <<pairing, register>>
vars   == <<oauth, tables, session, call, claim, device>>

-----------------------------------------------------------------------------
(* Data *)

NoRequest == [is |-> "none", user |-> None, delivered |-> FALSE]
Requests  == [is : {"none", "pending", "completed"}, user : Accounts \cup {None}, delivered : BOOLEAN]

CallbackAt == {"idle", "looked up", "selected", "exchange", "upsert", "insert", "save", "default",
               "create", "unowned", "own", "finish", "done"}
Call       == [at : CallbackAt, of : Attempts \cup {None}, as : Accounts \cup {None},
                sees : Attempts \cup {None}]
NoCall     == [at |-> "idle", of |-> None, as |-> None, sees |-> None]

NoSession == [of |-> None, user |-> None, valid |-> FALSE]
Session   == [of : Attempts \cup {None}, user : Accounts \cup {None}, valid : BOOLEAN]

TypeOK ==
    /\ begun \in [Attempts -> {"no", "browser", "desktop"}] /\ states \subseteq Attempts
    /\ request \in [Attempts -> Requests]
    /\ expired \subseteq Attempts \cup Pairings
    /\ code \in [Attempts \X Accounts -> {"none", "issued", "exchanged"}]
    /\ users \subseteq Accounts /\ credentials \subseteq users /\ project \in BOOLEAN
    /\ owners \subseteq users /\ (owners # {} => project)
    /\ session \in [Callbacks \cup Claims -> Session]
    /\ call \in [Callbacks -> Call]
    /\ claim \in [Claims -> [at : {"idle", "selected", "done"}, of : Attempts \cup {None}, user : Accounts \cup {None}]]
    /\ pairing \in [Pairings -> [owner : users \cup {None}, consumed : BOOLEAN]]
    /\ register \in [Registrations -> [at : {"idle", "selected", "device", "done"}, of : Pairings \cup {None}]]

Init ==
    /\ begun = [a \in Attempts |-> "no"] /\ states = {} /\ request = [a \in Attempts |-> NoRequest]
    /\ expired = {} /\ code = [c \in Attempts \X Accounts |-> "none"]
    /\ users = {} /\ credentials = {} /\ project \in BOOLEAN /\ owners = {}
    /\ session = [s \in Callbacks \cup Claims |-> NoSession]
    /\ call = [c \in Callbacks |-> NoCall]
    /\ claim = [k \in Claims |-> [at |-> "idle", of |-> None, user |-> None]]
    /\ pairing = [p \in Pairings |-> [owner |-> None, consumed |-> FALSE]]
    /\ register = [r \in Registrations |-> [at |-> "idle", of |-> None]]

-----------------------------------------------------------------------------
(* Beginning a sign-in *)

\* Rows whose time is over are deleted first.
StartBrowser(a) ==
    /\ begun[a] = "no"
    /\ begun' = [begun EXCEPT ![a] = "browser"]
    /\ states' = (states \ expired) \cup {a}
    /\ UNCHANGED <<request, expired, code, tables, session, call, claim, device>>

StartDesktop(a) ==
    /\ begun[a] = "no"
    /\ begun' = [begun EXCEPT ![a] = "desktop"]
    /\ states' = (states \ expired) \cup {a}
    /\ request' = [b \in Attempts |-> IF b = a THEN [NoRequest EXCEPT !.is = "pending"]
                                      ELSE IF b \in expired THEN NoRequest ELSE request[b]]
    /\ UNCHANGED <<expired, code, tables, session, call, claim, device>>

\* The ten minutes of an attempt, for its state and its request alike, or of a
\* pairing.
Expire(x) ==
    /\ x \notin expired /\ (x \in Attempts => begun[x] # "no") /\ (x \in Pairings => pairing[x].owner # None)
    /\ expired' = expired \cup {x}
    /\ UNCHANGED <<begun, states, request, code, tables, session, call, claim, device>>

\* GitHub issues a code to whoever opens the attempt's URL and agrees.
Authorize(a, u) ==
    /\ begun[a] # "no" /\ code[<<a, u>>] = "none"
    /\ code' = [code EXCEPT ![<<a, u>>] = "issued"]
    /\ UNCHANGED <<begun, states, request, expired, tables, session, call, claim, device>>

-----------------------------------------------------------------------------
(* github_callback: the browser comes back with a code, and may come twice *)

At(c, pc)  == call[c].at = pc
Go(c, pc)  == call' = [call EXCEPT ![c].at = pc]
Fail(c)    == Go(c, "done")

\* Mutant: a request is completed by whoever comes last.
CanCompleteAgain(a) == request[a].is # "none" /\ a \notin expired

\* The desktop request of an attempt, while it may be completed.
CanComplete(a) == request[a].is = "pending" /\ a \notin expired

\* A desktop request is looked for before the state is used up.
LookUpRequest(c, a, u) ==
    /\ At(c, "idle") /\ code[<<a, u>>] # "none"
    /\ call' = [call EXCEPT ![c] = [at |-> "looked up", of |-> a, as |-> u,
                                    sees |-> IF CanComplete(a) THEN a ELSE None]]
    /\ UNCHANGED <<oauth, tables, session, claim, device>>

\* consume_oauth_state: a row that two callbacks read before either deletes it
\* serves both.
SelectState(c) ==
    /\ At(c, "looked up")
    /\ IF call[c].of \in states THEN Go(c, "selected") ELSE Fail(c)
    /\ UNCHANGED <<oauth, tables, session, claim, device>>

\* Mutant: the row counts whatever its age.
DeleteStateOfAnyAge(c) ==
    /\ At(c, "selected")
    /\ states' = states \ {call[c].of}
    /\ Go(c, "exchange")
    /\ UNCHANGED <<begun, request, expired, code, tables, session, claim, device>>

DeleteState(c) ==
    /\ At(c, "selected")
    /\ states' = states \ {call[c].of}
    /\ IF call[c].of \in expired THEN Fail(c) ELSE Go(c, "exchange")
    /\ UNCHANGED <<begun, request, expired, code, tables, session, claim, device>>

\* GitHub exchanges a code once.
Exchange(c) ==
    LET k == <<call[c].of, call[c].as>> IN
    /\ At(c, "exchange")
    /\ \/ code[k] = "issued" /\ code' = [code EXCEPT ![k] = "exchanged"] /\ Go(c, "upsert")
       \/ code' = code /\ Fail(c)
    /\ UNCHANGED <<begun, states, request, expired, tables, session, claim, device>>

\* Mutant: a user that is known keeps the credential it has.
UpsertUserOnly(c) ==
    /\ At(c, "upsert")
    /\ Go(c, IF call[c].as \in users THEN "default" ELSE "insert")
    /\ UNCHANGED <<oauth, tables, session, claim, device>>

\* Mutant: every user is taken for known.
UpsertNoUser(c) ==
    /\ At(c, "upsert")
    /\ Go(c, "save")
    /\ UNCHANGED <<oauth, tables, session, claim, device>>

UpsertUser(c) ==
    /\ At(c, "upsert")
    /\ Go(c, IF call[c].as \in users THEN "save" ELSE "insert")
    /\ UNCHANGED <<oauth, tables, session, claim, device>>

\* github_id is unique: the INSERT of a user that is there by now raises.
InsertUser(c) ==
    /\ At(c, "insert")
    /\ users' = users \cup {call[c].as}
    /\ IF call[c].as \in users THEN Fail(c) ELSE Go(c, "save")
    /\ UNCHANGED <<oauth, credentials, project, owners, session, claim, device>>

SaveCredential(c) ==
    /\ At(c, "save")
    /\ credentials' = credentials \cup {call[c].as}
    /\ Go(c, "default")
    /\ UNCHANGED <<oauth, users, project, owners, session, claim, device>>

\* ensure_default_project
EnsureProject(c) ==
    /\ At(c, "default")
    /\ Go(c, IF project THEN "unowned" ELSE "create")
    /\ UNCHANGED <<oauth, tables, session, claim, device>>

CreateProject(c) ==
    /\ At(c, "create")
    /\ project' = TRUE
    /\ IF project THEN Fail(c) ELSE Go(c, "unowned")
    /\ UNCHANGED <<oauth, users, credentials, owners, session, claim, device>>

\* claim_unowned_default: whoever finds the project without a member owns it.
SelectMembers(c) ==
    /\ At(c, "unowned")
    /\ Go(c, IF project /\ owners = {} THEN "own" ELSE "finish")
    /\ UNCHANGED <<oauth, tables, session, claim, device>>

InsertOwner(c) ==
    /\ At(c, "own")
    /\ owners' = owners \cup {call[c].as}
    /\ IF call[c].as \in owners THEN Fail(c) ELSE Go(c, "finish")
    /\ UNCHANGED <<oauth, users, credentials, project, session, claim, device>>

\* complete_desktop_authorization
FinishDesktop(c) ==
    LET a == call[c].sees IN
    /\ At(c, "finish") /\ a # None
    /\ request' = IF CanComplete(a) THEN [request EXCEPT ![a].is = "completed", ![a].user = call[c].as] ELSE request
    /\ Go(c, "done")
    /\ UNCHANGED <<begun, states, expired, code, tables, session, claim, device>>

FinishBrowser(c) ==
    /\ At(c, "finish") /\ call[c].sees = None
    /\ session' = [session EXCEPT ![c] = [of |-> call[c].of, user |-> call[c].as, valid |-> TRUE]]
    /\ Go(c, "done")
    /\ UNCHANGED <<oauth, tables, claim, device>>

-----------------------------------------------------------------------------
(* claim_desktop_authorization: the desktop asks for its session *)

SelectRequest(k, a) ==
    /\ claim[k].at = "idle" /\ begun[a] = "desktop"
    /\ claim' = [claim EXCEPT ![k] =
                    IF request[a].is = "completed" /\ a \notin expired /\ ~request[a].delivered
                    THEN [at |-> "selected", of |-> a, user |-> request[a].user]
                    ELSE [at |-> "done", of |-> a, user |-> None]]
    /\ UNCHANGED <<oauth, tables, session, call, device>>

\* Mutant: the update is not asked whether it delivered anything.
DeliverUnasked(k) ==
    LET a == claim[k].of IN
    /\ claim[k].at = "selected"
    /\ claim' = [claim EXCEPT ![k].at = "done"]
    /\ session' = [session EXCEPT ![k] = [of |-> a, user |-> claim[k].user, valid |-> TRUE]]
    /\ request' = [request EXCEPT ![a].delivered = TRUE]
    /\ UNCHANGED <<begun, states, expired, code, tables, call, device>>

\* The session is inserted and, when the request was delivered meanwhile or is
\* gone, deleted, in one transaction.
Deliver(k) ==
    LET a == claim[k].of
        delivers == request[a].is # "none" /\ ~request[a].delivered
    IN
    /\ claim[k].at = "selected"
    /\ claim' = [claim EXCEPT ![k].at = "done"]
    /\ IF delivers
       THEN /\ session' = [session EXCEPT ![k] = [of |-> a, user |-> claim[k].user, valid |-> TRUE]]
            /\ request' = [request EXCEPT ![a].delivered = TRUE]
       ELSE UNCHANGED <<session, request>>
    /\ UNCHANGED <<begun, states, expired, code, tables, call, device>>

\* revoke_session, or the seven days of a session are over.
Revoke(s) ==
    /\ session[s].valid
    /\ session' = [session EXCEPT ![s].valid = FALSE]
    /\ UNCHANGED <<oauth, tables, call, claim, device>>

-----------------------------------------------------------------------------
(* Pairing a device *)

\* Mutant: whoever is signed in may pair.
PairAnyone(p, s) ==
    /\ pairing[p].owner = None /\ session[s].valid
    /\ pairing' = [pairing EXCEPT ![p].owner = session[s].user]
    /\ UNCHANGED <<oauth, tables, session, call, claim, register>>

\* create_device_pairing, for an owner of the project.
Pair(p, s) ==
    /\ pairing[p].owner = None /\ session[s].valid /\ session[s].user \in owners
    /\ pairing' = [pairing EXCEPT ![p].owner = session[s].user]
    /\ UNCHANGED <<oauth, tables, session, call, claim, register>>

\* register_device
SelectPairing(r, p) ==
    /\ register[r].at = "idle" /\ pairing[p].owner # None
    /\ register' = [register EXCEPT ![r] = [at |-> IF pairing[p].consumed \/ p \in expired THEN "done" ELSE "selected",
                                            of |-> p]]
    /\ UNCHANGED <<oauth, tables, session, call, claim, pairing>>

\* The device is inserted and the pairing consumed in one transaction, whatever
\* has become of the pairing since it was read.
InsertDevice(r) ==
    /\ register[r].at = "selected"
    /\ register' = [register EXCEPT ![r].at = "device"]
    /\ pairing' = [pairing EXCEPT ![register[r].of].consumed = TRUE]
    /\ UNCHANGED <<oauth, tables, session, call, claim>>

-----------------------------------------------------------------------------

\* list_projects creates the default project as well.
ListProjects ==
    /\ ~project /\ project' = TRUE
    /\ UNCHANGED <<oauth, users, credentials, owners, session, call, claim, device>>

\* The process stops and starts again: what was under way is gone.
Restart ==
    /\ call' = [c \in Callbacks |-> IF At(c, "idle") THEN call[c] ELSE [call[c] EXCEPT !.at = "done"]]
    /\ claim' = [k \in Claims |-> IF claim[k].at = "idle" THEN claim[k] ELSE [claim[k] EXCEPT !.at = "done"]]
    /\ register' = [r \in Registrations |-> IF register[r].at = "selected" THEN [register[r] EXCEPT !.at = "done"]
                                            ELSE register[r]]
    /\ UNCHANGED <<oauth, tables, session, pairing>>

Callback(c) ==
    \/ \E a \in Attempts, u \in Accounts : LookUpRequest(c, a, u)
    \/ SelectState(c) \/ DeleteState(c) \/ Exchange(c) \/ UpsertUser(c) \/ InsertUser(c) \/ SaveCredential(c)
    \/ EnsureProject(c) \/ CreateProject(c) \/ SelectMembers(c) \/ InsertOwner(c)
    \/ FinishDesktop(c) \/ FinishBrowser(c)

Next ==
    \/ \E a \in Attempts : StartBrowser(a) \/ StartDesktop(a) \/ \E u \in Accounts : Authorize(a, u)
    \/ \E x \in Attempts \cup Pairings : Expire(x)
    \/ \E c \in Callbacks : Callback(c)
    \/ \E k \in Claims : Deliver(k) \/ \E a \in Attempts : SelectRequest(k, a)
    \/ \E s \in Callbacks \cup Claims : Revoke(s) \/ \E p \in Pairings : Pair(p, s)
    \/ \E r \in Registrations : InsertDevice(r) \/ \E p \in Pairings : SelectPairing(r, p)
    \/ ListProjects \/ Restart

Spec == Init /\ [][Next]_vars

-----------------------------------------------------------------------------
(* Properties *)

Sessions == {s \in Callbacks \cup Claims : session[s] # NoSession}

\* A sign-in begun in the desktop application gives the browser no session: "This
\* browser did not receive a desktop session credential" (routes.py:231). A
\* callback decides by the request it saw before it used up the state, however
\* late it does so.
DesktopSignsInTheDesktop == \A s \in Sessions :
    begun[session[s].of] = IF s \in Callbacks THEN "browser" ELSE "desktop"

\* A request is claimed once, however many claims overlap.
OneSessionPerRequest == \A k, l \in Sessions \cap Claims : session[k].of = session[l].of => k = l

\* A session is of the user a code of its attempt was exchanged for; when the
\* desktop claimed it, of the one user its request was completed by, although
\* the claim read the row before it wrote.
SessionsAreOfTheirUser == \A s \in Sessions :
    LET a == session[s].of IN
    /\ code[<<a, session[s].user>>] = "exchanged"
    /\ s \in Claims /\ request[a].is # "none" => request[a].user = session[s].user

\* Whoever is signed in is set up: the user, a GitHub credential and an owner of
\* the default project are stored, whatever a restart cut short before.
SignedInIsSetUp ==
    /\ \A s \in Sessions : session[s].user \in credentials
    /\ Sessions # {} => project /\ owners # {}

\* A device is registered by a pairing of an owner of the project, and a pairing
\* is consumed only with its device.
DevicesFollowOwners ==
    /\ \A r \in Registrations : register[r].at = "device" =>
           pairing[register[r].of].consumed /\ pairing[register[r].of].owner \in owners
    /\ \A p \in Pairings : pairing[p].consumed => \E r \in Registrations : register[r] = [at |-> "device", of |-> p]
=============================================================================
