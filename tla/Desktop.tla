------------------------------- MODULE Desktop -------------------------------
(***************************************************************************)
(* The desktop application: Electron's main process with its IPC handlers  *)
(* and its encrypted state file (desktop/main.mjs), the setup window that  *)
(* calls them (desktop/renderer/app.mjs), and the cloud's side of a browser  *)
(* authorization (auth/store.py).                                          *)
(*                                                                         *)
(* Every handler is asynchronous, the window does not wait for one before  *)
(* it calls the next, and each of them changes the state file by reading   *)
(* it, adding its patch and writing it back.                               *)
(***************************************************************************)
EXTENDS Naturals

CONSTANTS
    Calls,         \* IPC calls, timer ticks included, that are under way at one time
    Workspaces,    \* folders the user may choose or clone into
    None,          \* no folder
    MaxRequests,   \* bound on authorization requests
    MaxStarts      \* bound on starts of the application

Requests == 1..MaxRequests
Folders  == Workspaces \cup {None}

ASSUME NoFolder     == None \notin Workspaces
ASSUME BoundsAreNat == MaxRequests \in Nat /\ MaxStarts \in Nat

VARIABLES
    disk,       \* desktop-secrets.bin: whole, or truncated, or two writes mixed
    file,       \* what it holds while it is whole
    config,     \* runtime.json: the workspace it names, and whether it has a credential
    page,       \* what the window shows: the setup page or the project's page
    ui,         \* the setup page: panel, enabled buttons, poll timer, chosen folder
    call,       \* per call: what it is and the await it stands at
    request,    \* the cloud's auth_desktop_authorizations
    cookie,     \* the session the window's cookie names, 0 without one
    starts      \* starts of the application

local == <<disk, file, config, cookie>>
vars  == <<disk, file, config, page, ui, call, request, cookie, starts>>

-----------------------------------------------------------------------------
(* Data *)

\* A session is named by the request it was claimed from, 0 is none.
State  == [token : 0..MaxRequests, pending : 0..MaxRequests, workspace : Folders, paired : Folders]
Empty  == [token |-> 0, pending |-> 0, workspace |-> None, paired |-> None]
Config == [workspace : Folders, registered : BOOLEAN]

Panels  == {"intro", "authorizing", "source", "setup", "ready"}
Buttons == {"connect", "reconnect", "install"}
Ui      == [panel : Panels, enabled : SUBSET Buttons, timer : BOOLEAN, leaked : BOOLEAN, selected : Folders]
NewUi   == [panel |-> "intro", enabled |-> {"connect", "reconnect"}, timer |-> FALSE, leaked |-> FALSE, selected |-> None]

Ops    == {"idle", "start", "poll", "open", "install", "restore", "repair"}
Stages == {"idle", "request", "read", "status", "claim", "deliver", "cookie", "session",
           "init", "pair", "save", "patch", "open", "write", "return", "shown"}
Call   == [op : Ops, at : Stages, req : 0..MaxRequests, ws : Folders, base : State, loaded : Folders]
Idle   == [op |-> "idle", at |-> "idle", req |-> 0, ws |-> None, base |-> Empty, loaded |-> None]

TypeOK ==
    /\ disk \in {"whole", "truncated", "mixed"}
    /\ file \in State /\ (disk # "whole" => file = Empty)
    /\ config \in Config
    /\ page \in {"closed", "setup", "project"}
    /\ ui \in Ui
    /\ call \in [Calls -> Call]
    /\ request \in [Requests -> {"none", "pending", "completed", "delivered", "expired", "gone"}]
    /\ cookie \in 0..MaxRequests
    /\ starts \in 0..MaxStarts

Init ==
    /\ disk = "whole" /\ file = Empty
    /\ config = [workspace |-> None, registered |-> FALSE]
    /\ page = "closed" /\ ui = NewUi
    /\ call = [c \in Calls |-> Idle]
    /\ request = [r \in Requests |-> "none"]
    /\ cookie = 0 /\ starts = 0

-----------------------------------------------------------------------------
(* Calls, and the page that waits for their answers *)

In(c, op, at)  == call[c].op = op /\ call[c].at = at
Become(c, k)   == call' = [call EXCEPT ![c] = k]
Goto(c, at)    == Become(c, [call[c] EXCEPT !.at = at])
Begin(c, k)    == call[c] = Idle /\ Become(c, k)
Readable       == disk = "whole"

\* The page continues after an answer only if it is still the one that asked.
Show(next) == ui' = IF page = "setup" THEN next ELSE ui

\* Mutant: an error of a poll is left to the next poll.
AfterErrorWaits(op) ==
    IF op = "start" THEN [ui EXCEPT !.enabled = @ \cup {"connect", "reconnect"}]
    ELSE IF op = "install" THEN [ui EXCEPT !.enabled = @ \cup {"install"}]
    ELSE ui

\* What the page makes of a call that was rejected: one catch block per call.
AfterError(op) ==
    IF op = "start" THEN [ui EXCEPT !.enabled = @ \cup {"connect", "reconnect"}]
    ELSE IF op = "poll" THEN [ui EXCEPT !.timer = FALSE, !.enabled = @ \cup {"connect"}, !.panel = "intro"]
    ELSE IF op = "install" THEN [ui EXCEPT !.enabled = @ \cup {"install"}]
    ELSE ui

Fail(c) ==
    /\ Show(AfterError(call[c].op))
    /\ Become(c, Idle)
    /\ UNCHANGED <<page, local, request, starts>>

\* A request, git, or a command of the runtime fails: git rev-parse or git clone
\* before a folder is saved, register's announcement before it counts as paired.
Raise(c) ==
    /\ \/ call[c].at \in {"request", "status", "deliver", "init", "pair", "save"}
       \/ call[c].at = "patch" /\ call[c].op \in {"open", "install", "repair"}
    /\ Fail(c)

-----------------------------------------------------------------------------
(* patchState: readState, then a write that truncates the file first *)

Patched(k) ==
    CASE k.op = "start"   -> [k.base EXCEPT !.pending = k.req]
      [] k.op = "poll"    -> [k.base EXCEPT !.token = k.req, !.pending = 0]
      [] k.op = "open"    -> [k.base EXCEPT !.workspace = k.ws]
      [] k.op \in {"install", "restore"} -> [k.base EXCEPT !.paired = k.ws]
      [] OTHER -> k.base

ReadForPatch(c) ==
    /\ call[c].at = "patch"
    /\ IF Readable
       THEN /\ Become(c, [call[c] EXCEPT !.at = "open", !.base = file])
            /\ UNCHANGED <<page, ui, local, request, starts>>
       ELSE Fail(c)

\* Mutant: the old text stays readable until the new one is complete.
TruncateKeeps(c) ==
    /\ call[c].at = "open"
    /\ disk' = "truncated"
    /\ Goto(c, "write")
    /\ UNCHANGED <<file, config, page, ui, request, cookie, starts>>

Truncate(c) ==
    /\ call[c].at = "open"
    /\ disk' = "truncated" /\ file' = Empty
    /\ Goto(c, "write")
    /\ UNCHANGED <<config, page, ui, request, cookie, starts>>

\* A file that is no longer empty was written by another call since this one
\* truncated it: the longer text of the two shows through.
Write(c) ==
    /\ call[c].at = "write"
    /\ \/ disk' = "whole" /\ file' = Patched(call[c])
       \/ disk # "truncated" /\ disk' = "mixed" /\ file' = Empty
    /\ Become(c, [call[c] EXCEPT !.at = "return", !.base = Empty])
    /\ UNCHANGED <<config, page, ui, request, cookie, starts>>

-----------------------------------------------------------------------------
(* Browser authorization *)

\* startAuthorization: the buttons stay disabled until something ends it.
ClickConnect(c) ==
    /\ page = "setup"
    /\ \/ ui.panel = "intro" /\ "connect" \in ui.enabled
       \/ ui.panel = "source" /\ "reconnect" \in ui.enabled
    /\ Begin(c, [Idle EXCEPT !.op = "start", !.at = "request"])
    /\ ui' = [ui EXCEPT !.enabled = @ \ {"connect", "reconnect"}]
    /\ UNCHANGED <<page, local, request, starts>>

\* POST /v1/auth/desktop/start: expired requests are deleted, one is added.
RequestAuthorization(c) ==
    /\ In(c, "start", "request")
    /\ \E r \in Requests :
        /\ request[r] = "none"
        /\ \A q \in 1..(r - 1) : request[q] # "none"
        /\ request' = [q \in Requests |->
              IF q = r THEN "pending" ELSE IF request[q] = "expired" THEN "gone" ELSE request[q]]
        /\ Become(c, [call[c] EXCEPT !.at = "patch", !.req = r])
    /\ UNCHANGED <<page, ui, local, starts>>

\* The handle of a timer that still runs is overwritten, and no one can stop it.
AuthorizationStarted(c) ==
    /\ In(c, "start", "return")
    /\ Show([ui EXCEPT !.panel = "authorizing", !.leaked = @ \/ ui.timer, !.timer = TRUE])
    /\ Become(c, Idle)
    /\ UNCHANGED <<page, local, request, starts>>

\* Every 1800 ms, whether the last poll has been answered or not.
Tick(c) ==
    /\ page = "setup" /\ (ui.timer \/ ui.leaked)
    /\ Begin(c, [Idle EXCEPT !.op = "poll", !.at = "read"])
    /\ UNCHANGED <<page, ui, local, request, starts>>

\* desktop:authorization-status and desktop:claim-authorization read the file.
ReadPending(c) ==
    /\ \/ In(c, "poll", "read")
       \/ In(c, "poll", "claim")
    /\ IF Readable /\ file.pending # 0
       THEN /\ Become(c, [call[c] EXCEPT !.req = file.pending,
                                         !.at = IF @ = "read" THEN "status" ELSE "deliver"])
            /\ UNCHANGED <<page, ui, local, request, starts>>
       ELSE Fail(c)

\* Mutant: the timer is stopped whatever the answer is.
StatusStops(c) ==
    /\ In(c, "poll", "status")
    /\ Show([ui EXCEPT !.timer = FALSE])
    /\ Become(c, Idle)
    /\ UNCHANGED <<page, local, request, starts>>

\* pollAuthorization: the answer and what the page does with it.
Status(c) ==
    LET answer == request[call[c].req]
        claims == answer \in {"completed", "delivered"} /\ page = "setup"
    IN
    /\ In(c, "poll", "status")
    /\ answer # "gone"
    /\ IF claims THEN Goto(c, "claim") ELSE Become(c, Idle)
    /\ Show(IF claims THEN [ui EXCEPT !.timer = FALSE]
            ELSE IF answer = "expired"
            THEN [ui EXCEPT !.timer = FALSE, !.enabled = @ \cup {"connect", "reconnect"}, !.panel = "intro"]
            ELSE ui)
    /\ UNCHANGED <<page, local, request, starts>>

\* A request that was deleted: 404.
StatusGone(c) ==
    /\ In(c, "poll", "status") /\ request[call[c].req] = "gone"
    /\ Fail(c)

\* POST …/claim: one transaction, conditional on delivered_at IS NULL.
Deliver(c) ==
    /\ In(c, "poll", "deliver")
    /\ IF request[call[c].req] = "completed"
       THEN /\ request' = [request EXCEPT ![call[c].req] = "delivered"]
            /\ Goto(c, "cookie")
            /\ UNCHANGED <<page, ui, local, starts>>
       ELSE Fail(c)

SetSessionCookie(c) ==
    /\ In(c, "poll", "cookie")
    /\ cookie' = call[c].req
    /\ Goto(c, "patch")
    /\ UNCHANGED <<disk, file, config, page, ui, request, starts>>

Claimed(c) ==
    /\ In(c, "poll", "return")
    /\ Show([ui EXCEPT !.panel = "source", !.enabled = @ \cup {"reconnect"}])
    /\ Become(c, Idle)
    /\ UNCHANGED <<page, local, request, starts>>

\* The user approves in the browser; ten minutes pass.
Approve(r) ==
    /\ request[r] = "pending"
    /\ request' = [request EXCEPT ![r] = "completed"]
    /\ UNCHANGED <<page, ui, call, local, starts>>

Expire(r) ==
    /\ request[r] \in {"pending", "completed", "delivered"}
    /\ request' = [request EXCEPT ![r] = "expired"]
    /\ UNCHANGED <<page, ui, call, local, starts>>

-----------------------------------------------------------------------------
(* Project source *)

\* desktop:choose-workspace, after the native dialog; desktop:clone-github-repository
\* needs the session first. Neither button waits for the other.
ChooseWorkspace(c, w) ==
    /\ page = "setup" /\ ui.panel = "source"
    /\ Begin(c, [Idle EXCEPT !.op = "open", !.at = "patch", !.ws = w])
    /\ UNCHANGED <<page, ui, local, request, starts>>

CloneRepository(c, w) ==
    /\ page = "setup" /\ ui.panel = "source"
    /\ Begin(c, [Idle EXCEPT !.op = "open", !.at = "session", !.ws = w])
    /\ UNCHANGED <<page, ui, local, request, starts>>

ReadSession(c) ==
    /\ In(c, "open", "session")
    /\ IF Readable /\ file.token # 0
       THEN Goto(c, "patch") /\ UNCHANGED <<page, ui, local, request, starts>>
       ELSE Fail(c)

\* continueToSetup, whatever panel the page has gone to meanwhile.
ContinueToSetup(c) ==
    /\ In(c, "open", "return")
    /\ Show([ui EXCEPT !.panel = "setup", !.selected = call[c].ws, !.enabled = @ \cup {"install"}])
    /\ Become(c, Idle)
    /\ UNCHANGED <<page, local, request, starts>>

-----------------------------------------------------------------------------
(* desktop:install-and-pair *)

ClickInstall(c) ==
    /\ page = "setup" /\ ui.panel = "setup" /\ "install" \in ui.enabled /\ ui.selected # None
    /\ Begin(c, [Idle EXCEPT !.op = "install", !.at = "read", !.ws = ui.selected])
    /\ ui' = [ui EXCEPT !.enabled = @ \ {"install"}]
    /\ UNCHANGED <<page, local, request, starts>>

ReadForInstall(c) ==
    /\ In(c, "install", "read")
    /\ IF Readable /\ file.token # 0 /\ file.workspace = call[c].ws
       THEN /\ Become(c, [call[c] EXCEPT !.at = "init", !.req = file.token])
            /\ UNCHANGED <<page, ui, local, request, starts>>
       ELSE Fail(c)

\* agent-room-runtime init writes a new configuration, without a credential.
InitRuntime(c) ==
    /\ In(c, "install", "init")
    /\ config' = [workspace |-> call[c].ws, registered |-> FALSE]
    /\ Goto(c, "pair")
    /\ UNCHANGED <<disk, file, page, ui, request, cookie, starts>>

\* POST …/devices/pair; then agent-room-runtime register loads the configuration,
\* asks the cloud, saves what it loaded with the credential, and announces it.
LoadConfig(c) ==
    /\ In(c, "install", "pair")
    /\ Become(c, [call[c] EXCEPT !.at = "save", !.loaded = config.workspace])
    /\ UNCHANGED <<page, ui, local, request, starts>>

SaveCredential(c) ==
    /\ In(c, "install", "save")
    /\ config' = [workspace |-> call[c].loaded, registered |-> TRUE]
    /\ Become(c, [call[c] EXCEPT !.at = "patch", !.loaded = None])
    /\ UNCHANGED <<disk, file, page, ui, request, cookie, starts>>

Installed(c) ==
    /\ In(c, "install", "return")
    /\ Show([ui EXCEPT !.panel = "ready"])
    /\ Become(c, Idle)
    /\ UNCHANGED <<page, local, request, starts>>

OpenWorkspace ==
    /\ page = "setup" /\ ui.panel = "ready"
    /\ page' = "project" /\ ui' = NewUi
    /\ UNCHANGED <<call, local, request, starts>>

-----------------------------------------------------------------------------
(* Start, desktop:status, repair, quit *)

\* whenReady: a state file that cannot be read leaves the application without a window.
Launch(c) ==
    /\ page = "closed" /\ starts < MaxStarts /\ Readable
    /\ Begin(c, [Idle EXCEPT !.op = "restore", !.at = "read"])
    /\ page' = "setup" /\ ui' = NewUi
    /\ cookie' = IF file.token # 0 THEN file.token ELSE cookie
    /\ starts' = starts + 1
    /\ UNCHANGED <<disk, file, config, request>>

\* Mutant: the migration does not look for the runtime's configuration.
PairedAnyway == file.workspace # None

\* desktop:status: a folder with a configuration counts as paired.
Paired ==
    \/ file.paired # None /\ file.paired = file.workspace
    \/ file.workspace # None /\ config.workspace # None

ReadStatus(c) ==
    /\ In(c, "restore", "read")
    /\ IF Readable
       THEN /\ Become(c, [call[c] EXCEPT !.req = file.token, !.ws = file.workspace,
                  !.at = IF ~Paired THEN "shown" ELSE IF file.paired # file.workspace THEN "patch" ELSE "return"])
            /\ UNCHANGED <<page, ui, local, request, starts>>
       ELSE Fail(c)

\* restoreState: a paired folder is opened at once.
Restored(c) ==
    LET k == call[c]
        opens  == k.at = "return" /\ k.req # 0 /\ page = "setup"
        filled == [ui EXCEPT !.selected = IF k.ws # None THEN k.ws ELSE @,
                             !.enabled = IF k.ws # None THEN @ \cup {"install"} ELSE @]
    IN
    /\ In(c, "restore", "return") \/ In(c, "restore", "shown")
    /\ page' = IF opens THEN "project" ELSE page
    /\ IF opens THEN ui' = NewUi
       ELSE Show(IF k.req = 0 THEN filled
                 ELSE [filled EXCEPT !.panel = IF k.ws # None THEN "setup" ELSE "source"])
    /\ Become(c, Idle)
    /\ UNCHANGED <<local, request, starts>>

\* desktop:repair-runtime, from the settings of the project's page.
ClickRepair(c) ==
    /\ page = "project"
    /\ Begin(c, [Idle EXCEPT !.op = "repair", !.at = "read"])
    /\ UNCHANGED <<page, ui, local, request, starts>>

Repair(c) ==
    /\ In(c, "repair", "read")
    /\ IF Readable /\ (file.paired # None \/ file.workspace # None) /\ config.workspace # None
       THEN Goto(c, "patch") /\ UNCHANGED <<page, ui, local, request, starts>>
       ELSE Fail(c)

Repaired(c) ==
    /\ In(c, "repair", "return")
    /\ Become(c, Idle)
    /\ UNCHANGED <<page, ui, local, request, starts>>

\* The window is closed or the process ends, at any await.
Quit ==
    /\ page # "closed"
    /\ page' = "closed" /\ ui' = NewUi
    /\ call' = [c \in Calls |-> Idle]
    /\ UNCHANGED <<local, request, starts>>

-----------------------------------------------------------------------------

User(c) ==
    \/ ClickConnect(c) \/ ClickInstall(c) \/ ClickRepair(c)
    \/ \E w \in Workspaces : ChooseWorkspace(c, w) \/ CloneRepository(c, w)

\* What a call that is under way does next.
Step(c) ==
    \/ ReadForPatch(c) \/ Truncate(c) \/ Write(c)
    \/ RequestAuthorization(c) \/ AuthorizationStarted(c)
    \/ ReadPending(c) \/ Status(c) \/ StatusGone(c) \/ Deliver(c) \/ SetSessionCookie(c) \/ Claimed(c)
    \/ ReadSession(c) \/ ContinueToSetup(c)
    \/ ReadForInstall(c) \/ InitRuntime(c) \/ LoadConfig(c) \/ SaveCredential(c) \/ Installed(c)
    \/ ReadStatus(c) \/ Restored(c) \/ Repair(c) \/ Repaired(c)

Next ==
    \/ \E c \in Calls : User(c) \/ Tick(c) \/ Step(c) \/ Raise(c) \/ Launch(c)
    \/ \E r \in Requests : Approve(r) \/ Expire(r)
    \/ OpenWorkspace \/ Quit

Spec == Init /\ [][Next]_vars

\* The timer ticks, a call that was made goes on or is rejected, and a request
\* that no one approves or claims expires.
Fairness ==
    /\ WF_vars(\E c \in Calls : Tick(c))
    /\ WF_vars(\E c \in Calls : Step(c))
    /\ WF_vars(\E r \in Requests : Expire(r))

FairSpec == Spec /\ Fairness

-----------------------------------------------------------------------------
(* Properties *)

InFlight(op) == \E c \in Calls : call[c].op = op

\* A poll that has stopped the timer and not yet shown the next panel.
Claims(c) == call[c].op = "poll" /\ call[c].at \in {"claim", "deliver", "cookie", "patch", "open", "write", "return"}

\* A poll that carries a session token.
Holds(c) == call[c].op = "poll" /\ call[c].at \in {"cookie", "patch", "open", "write", "return"}

\* The setup page never stands on a panel it cannot leave: where it disabled the
\* button, or stopped the timer, something is under way that will show another
\* panel or enable the button again, whatever overlaps and fails.
NoDeadEnd == page = "setup" =>
    /\ ui.panel = "intro" => "connect" \in ui.enabled \/ InFlight("start")
    /\ ui.panel = "authorizing" => ui.timer \/ ui.leaked \/ \E c \in Calls : Claims(c)
    /\ ui.panel = "setup" => "install" \in ui.enabled \/ InFlight("install")

\* However many polls overlap, the token of a request is given to one of them.
TokensDeliveredOnce == \A c, d \in Calls : c # d /\ Holds(c) /\ Holds(d) => call[c].req # call[d].req

\* The state file calls a folder paired only when the runtime has a configuration,
\* over stale writes of the file and over restarts.
PairedIsConfigured == file.paired # None => config.workspace # None

\* The project's page is opened only in a window whose cookie names a session.
ProjectHasSession == page = "project" => cookie # 0

\* The page does not wait for the browser for ever: an approval that is late,
\* lost, overwritten or refused ends on another panel.
AuthorizationSettles == ui.panel = "authorizing" ~> ui.panel # "authorizing"

\* A folder the application opens as paired is one the runtime is registered for:
\* "proof of completed setup" (main.mjs:325).
PairedIsRegistered == page = "project" => config.registered

=============================================================================
