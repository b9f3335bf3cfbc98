---------------------------- MODULE DesktopProofs ----------------------------
(* Theorems of Desktop, for every number of calls, folders, requests and starts. *)
EXTENDS Desktop, TLAPS

USE NoFolder, BoundsAreNat

-----------------------------------------------------------------------------
(* Types *)

\* An empty state file is a state file.
LEMMA EmptyIsState == Empty \in State
  BY DEF Empty, State, Folders

\* No call is a call.
LEMMA IdleIsCall == Idle \in Call
  BY EmptyIsState DEF Idle, Call, Ops, Stages, Folders

\* What a call writes has the type of the state file.
LEMMA PatchedIsState ==
  ASSUME NEW k \in Call PROVE Patched(k) \in State
<1>1. k.base \in State /\ k.req \in 0..MaxRequests /\ k.ws \in Folders
  BY DEF Call
<1>2. CASE k.op = "start"
  BY <1>1, <1>2 DEF Patched, State
<1>3. CASE k.op = "poll"
  <2>1. Patched(k) = [k.base EXCEPT !.token = k.req, !.pending = 0]
    BY <1>3 DEF Patched
  <2>2. 0 \in 0..MaxRequests
    OBVIOUS
  <2> QED
    BY <1>1, <2>1, <2>2 DEF State
<1>4. CASE k.op = "open"
  BY <1>1, <1>4 DEF Patched, State
<1>5. CASE k.op \in {"install", "restore"}
  BY <1>1, <1>5 DEF Patched, State
<1>6. CASE k.op \notin {"start", "poll", "open", "install", "restore"}
  BY <1>1, <1>6 DEF Patched
<1> QED
  BY <1>2, <1>3, <1>4, <1>5, <1>6

\* What the page makes of an error has the type of the page.
LEMMA AfterErrorIsUi ==
  ASSUME TypeOK, NEW op PROVE AfterError(op) \in Ui
  BY DEF TypeOK, AfterError, Ui, Buttons, Panels

\* The page keeps its type when it shows something, or no longer listens.
LEMMA ShownIsUi ==
  ASSUME TypeOK, NEW next \in Ui, Show(next) PROVE ui' \in Ui
  BY DEF TypeOK, Show

\* One call changes and the others stay.
LEMMA CallsStayTyped ==
  ASSUME TypeOK, NEW c \in Calls, NEW k \in Call, Become(c, k)
  PROVE  call' \in [Calls -> Call]
  BY DEF TypeOK, Become

\* A call that goes to a stage is a call.
LEMMA GoesOn ==
  ASSUME TypeOK, NEW c \in Calls, NEW at \in Stages, Goto(c, at)
  PROVE  call' \in [Calls -> Call]
<1>1. [call[c] EXCEPT !.at = at] \in Call
  BY DEF TypeOK, Call
<1> QED
  BY <1>1, CallsStayTyped DEF Goto

\* A call that is rejected leaves every variable its type.
LEMMA FailureKeepsTypes ==
  ASSUME TypeOK, NEW c \in Calls, Fail(c) PROVE TypeOK'
<1>1. ui' \in Ui
  BY AfterErrorIsUi, ShownIsUi DEF Fail
<1>2. call' \in [Calls -> Call]
  BY IdleIsCall, CallsStayTyped DEF Fail
<1> QED
  BY <1>1, <1>2 DEF TypeOK, Fail, local

\* So do the three steps of patchState.
LEMMA PatchesKeepTypes ==
  ASSUME TypeOK, NEW c \in Calls, ReadForPatch(c) \/ Truncate(c) \/ Write(c)
  PROVE  TypeOK'
<1>1. CASE ReadForPatch(c)
  <2>1. CASE Readable
    <3>1. [call[c] EXCEPT !.at = "open", !.base = file] \in Call
      BY DEF TypeOK, Call, Stages
    <3>2. call' \in [Calls -> Call]
      BY <1>1, <2>1, <3>1, CallsStayTyped DEF ReadForPatch
    <3> QED
      BY <1>1, <2>1, <3>2 DEF TypeOK, ReadForPatch, local
  <2> QED
    BY <1>1, <2>1, FailureKeepsTypes DEF ReadForPatch
<1>2. CASE Truncate(c)
  <2>1. call' \in [Calls -> Call]
    BY <1>2, GoesOn DEF Truncate, Stages
  <2> QED
    BY <1>2, <2>1, EmptyIsState DEF TypeOK, Truncate
<1>3. CASE Write(c)
  <2>1. [call[c] EXCEPT !.at = "return", !.base = Empty] \in Call
    BY EmptyIsState DEF TypeOK, Call, Stages
  <2>2. call' \in [Calls -> Call]
    BY <1>3, <2>1, CallsStayTyped DEF Write
  <2>3. Patched(call[c]) \in State
    BY PatchedIsState DEF TypeOK
  <2> QED
    BY <1>3, <2>2, <2>3, EmptyIsState DEF TypeOK, Write
<1> QED
  BY <1>1, <1>2, <1>3

\* The fields of the variables that are records.
LEMMA FieldTypes ==
  ASSUME TypeOK, NEW c \in Calls
  PROVE  /\ file.token \in 0..MaxRequests /\ file.pending \in 0..MaxRequests
         /\ file.workspace \in Folders /\ file.paired \in Folders /\ config.workspace \in Folders
         /\ call[c] \in Call /\ call[c].req \in 0..MaxRequests
         /\ call[c].ws \in Folders /\ call[c].loaded \in Folders /\ call[c].base \in State
  BY DEF TypeOK, State, Config, Call

\* The page as it is loaded has its type.
LEMMA NewUiIsUi == NewUi \in Ui
  BY DEF NewUi, Ui, Panels, Buttons, Folders

\* The fields of the page.
LEMMA UiFields ==
  ASSUME TypeOK
  PROVE  /\ ui \in Ui /\ ui.enabled \in SUBSET Buttons /\ ui.timer \in BOOLEAN /\ ui.leaked \in BOOLEAN
         /\ ui.selected \in Folders /\ ui.panel \in Panels
         /\ \A B \in SUBSET {"connect", "reconnect", "install"} :
                ui.enabled \cup B \in SUBSET Buttons /\ ui.enabled \ B \in SUBSET Buttons
  BY DEF TypeOK, Ui, Buttons

\* A step of one call and the page, or of one call alone.
LEMMA CallAndPage ==
  ASSUME TypeOK, NEW c \in Calls, NEW k \in Call, Become(c, k), ui' \in Ui, UNCHANGED <<page, local, request, starts>>
  PROVE  TypeOK'
  BY CallsStayTyped DEF TypeOK, local

LEMMA CallAlone ==
  ASSUME TypeOK, NEW c \in Calls, NEW k \in Call, Become(c, k), UNCHANGED <<page, ui, local, request, starts>>
  PROVE  TypeOK'
  BY CallAndPage DEF TypeOK

\* No step of the user leaves the types.
LEMMA UserTypes == ASSUME TypeOK, NEW c \in Calls, User(c) PROVE TypeOK'
<1>1. CASE ClickConnect(c)
  <2>1. [Idle EXCEPT !.op = "start", !.at = "request"] \in Call
    BY IdleIsCall DEF Call, Ops, Stages
  <2>2. ui' \in Ui
    BY <1>1, UiFields DEF ClickConnect, Ui
  <2> QED
    BY <1>1, <2>1, <2>2, CallAndPage DEF ClickConnect, Begin
<1>2. CASE ClickInstall(c)
  <2>1. [Idle EXCEPT !.op = "install", !.at = "read", !.ws = ui.selected] \in Call
    BY IdleIsCall, UiFields DEF Call, Ops, Stages
  <2>2. ui' \in Ui
    BY <1>2, UiFields DEF ClickInstall, Ui
  <2> QED
    BY <1>2, <2>1, <2>2, CallAndPage DEF ClickInstall, Begin
<1>3. CASE ClickRepair(c)
  <2>1. [Idle EXCEPT !.op = "repair", !.at = "read"] \in Call
    BY IdleIsCall DEF Call, Ops, Stages
  <2> QED
    BY <1>3, <2>1, CallAlone DEF ClickRepair, Begin
<1>4. ASSUME NEW w \in Workspaces, ChooseWorkspace(c, w) \/ CloneRepository(c, w) PROVE TypeOK'
  <2>1. \A at \in {"patch", "session"} : [Idle EXCEPT !.op = "open", !.at = at, !.ws = w] \in Call
    BY IdleIsCall DEF Call, Ops, Stages, Folders
  <2> QED
    BY <1>4, <2>1, CallAlone DEF ChooseWorkspace, CloneRepository, Begin
<1> QED
  BY <1>1, <1>2, <1>3, <1>4 DEF User

\* No answer to a call, and nothing the page makes of it, leaves the types.
LEMMA AnswersKeepTypes ==
  ASSUME TypeOK, NEW c \in Calls,
         AuthorizationStarted(c) \/ Claimed(c) \/ ContinueToSetup(c) \/ Installed(c) \/ Repaired(c) \/ Restored(c) \/ Status(c)
  PROVE  TypeOK'
<1> DEFINE k      == call[c]
           filled == [ui EXCEPT !.selected = IF k.ws # None THEN k.ws ELSE @,
                                !.enabled = IF k.ws # None THEN @ \cup {"install"} ELSE @]
           moved  == [filled EXCEPT !.panel = IF k.ws # None THEN "setup" ELSE "source"]
<1>0. filled \in Ui /\ moved \in Ui
  <2>1. filled \in Ui
    BY UiFields, FieldTypes DEF Ui
  <2> HIDE DEF filled
  <2> QED
    BY <2>1 DEF Ui, Panels
<1>1. CASE AuthorizationStarted(c)
  <2>1. [ui EXCEPT !.panel = "authorizing", !.leaked = @ \/ ui.timer, !.timer = TRUE] \in Ui
    BY UiFields, FieldTypes DEF Ui, Panels
  <2> QED
    BY <1>1, <2>1, IdleIsCall, ShownIsUi, CallAndPage DEF AuthorizationStarted
<1>2. CASE Claimed(c)
  <2>1. [ui EXCEPT !.panel = "source", !.enabled = @ \cup {"reconnect"}] \in Ui
    BY UiFields, FieldTypes DEF Ui, Panels
  <2> QED
    BY <1>2, <2>1, IdleIsCall, ShownIsUi, CallAndPage DEF Claimed
<1>3. CASE ContinueToSetup(c)
  <2>1. [ui EXCEPT !.panel = "setup", !.selected = call[c].ws, !.enabled = @ \cup {"install"}] \in Ui
    BY UiFields, FieldTypes DEF Ui, Panels
  <2> QED
    BY <1>3, <2>1, IdleIsCall, ShownIsUi, CallAndPage DEF ContinueToSetup
<1>4. CASE Installed(c)
  <2>1. [ui EXCEPT !.panel = "ready"] \in Ui
    BY UiFields, FieldTypes DEF Ui, Panels
  <2> QED
    BY <1>4, <2>1, IdleIsCall, ShownIsUi, CallAndPage DEF Installed
<1>5. CASE Repaired(c)
  BY <1>5, IdleIsCall, CallAlone DEF Repaired
<1>6. CASE Restored(c)
  <2>1. ui' \in {ui, NewUi, filled, moved} /\ page' \in {"project", page}
    BY <1>6 DEF Restored, Show
  <2>2. call' \in [Calls -> Call]
    BY <1>6, IdleIsCall, CallsStayTyped DEF Restored
  <2>3. ui' \in Ui
    BY <1>0, <2>1, UiFields, NewUiIsUi
  <2> QED
    BY <1>6, <2>1, <2>2, <2>3 DEF TypeOK, Restored, local
<1>7. CASE Status(c)
  <2>1. /\ [ui EXCEPT !.timer = FALSE] \in Ui
        /\ [ui EXCEPT !.timer = FALSE, !.enabled = @ \cup {"connect", "reconnect"}, !.panel = "intro"] \in Ui
    BY UiFields, FieldTypes DEF Ui, Panels
  <2>2. ui' \in Ui
    BY <1>7, <2>1, UiFields, ShownIsUi DEF Status, Show
  <2>3. [call[c] EXCEPT !.at = "claim"] \in Call
    BY FieldTypes DEF Call, Stages
  <2> QED
    BY <1>7, <2>2, <2>3, IdleIsCall, CallAndPage DEF Status, Goto
<1> QED
  BY <1>1, <1>2, <1>3, <1>4, <1>5, <1>6, <1>7

\* No step of an authorization, as the cloud and the handlers take it, leaves the types.
LEMMA AuthorizationTypes ==
  ASSUME TypeOK, NEW c \in Calls, RequestAuthorization(c) \/ ReadPending(c) \/ Deliver(c) \/ SetSessionCookie(c)
  PROVE  TypeOK'
<1>1. CASE RequestAuthorization(c)
  <2>1. PICK r \in Requests : Become(c, [call[c] EXCEPT !.at = "patch", !.req = r])
    BY <1>1 DEF RequestAuthorization
  <2>2. r \in 0..MaxRequests
    BY DEF Requests
  <2>3. [call[c] EXCEPT !.at = "patch", !.req = r] \in Call
    BY <2>2, FieldTypes DEF Call, Stages
  <2>4. call' \in [Calls -> Call]
    BY <2>1, <2>3, CallsStayTyped
  <2>5. request' \in [Requests -> {"none", "pending", "completed", "delivered", "expired", "gone"}]
    BY <1>1 DEF TypeOK, RequestAuthorization
  <2> QED
    BY <1>1, <2>4, <2>5 DEF TypeOK, RequestAuthorization, local
<1>2. CASE ReadPending(c)
  <2>1. [call[c] EXCEPT !.req = file.pending, !.at = IF @ = "read" THEN "status" ELSE "deliver"] \in Call
    BY FieldTypes DEF Call, Stages
  <2> QED
    BY <1>2, <2>1, CallAlone, FailureKeepsTypes DEF ReadPending
<1>3. CASE Deliver(c)
  <2>1. CASE request[call[c].req] = "completed"
    <3>1. call' \in [Calls -> Call]
      BY <1>3, <2>1, GoesOn DEF Deliver, Stages
    <3>2. request' \in [Requests -> {"none", "pending", "completed", "delivered", "expired", "gone"}]
      BY <1>3, <2>1 DEF TypeOK, Deliver
    <3> QED
      BY <1>3, <2>1, <3>1, <3>2 DEF TypeOK, Deliver, local
  <2> QED
    BY <1>3, <2>1, FailureKeepsTypes DEF Deliver
<1>4. CASE SetSessionCookie(c)
  <2>1. call' \in [Calls -> Call]
    BY <1>4, GoesOn DEF SetSessionCookie, Stages
  <2> QED
    BY <1>4, <2>1, FieldTypes DEF TypeOK, SetSessionCookie
<1> QED
  BY <1>1, <1>2, <1>3, <1>4

\* No step of a handler that opens, installs, restores or repairs leaves the types.
LEMMA SetupTypes ==
  ASSUME TypeOK, NEW c \in Calls,
         ReadSession(c) \/ ReadForInstall(c) \/ InitRuntime(c) \/ LoadConfig(c) \/ SaveCredential(c) \/ ReadStatus(c) \/ Repair(c)
  PROVE  TypeOK'
<1>0. \A at \in Stages : [call[c] EXCEPT !.at = at] \in Call
  BY FieldTypes DEF Call
<1>1. CASE ReadSession(c)
  BY <1>0, <1>1, CallAlone, FailureKeepsTypes DEF ReadSession, Goto, Stages
<1>2. CASE ReadForInstall(c)
  <2>1. [call[c] EXCEPT !.at = "init", !.req = file.token] \in Call
    BY FieldTypes DEF Call, Stages
  <2> QED
    BY <1>2, <2>1, CallAlone, FailureKeepsTypes DEF ReadForInstall
<1>3. CASE InitRuntime(c)
  <2>1. call' \in [Calls -> Call]
    BY <1>3, GoesOn DEF InitRuntime, Stages
  <2>2. config' \in Config
    BY <1>3, FieldTypes DEF InitRuntime, Config
  <2> QED
    BY <1>3, <2>1, <2>2 DEF TypeOK, InitRuntime
<1>4. CASE LoadConfig(c)
  <2>1. [call[c] EXCEPT !.at = "save", !.loaded = config.workspace] \in Call
    BY FieldTypes DEF Call, Stages
  <2> QED
    BY <1>4, <2>1, CallAlone DEF LoadConfig
<1>5. CASE SaveCredential(c)
  <2>1. [call[c] EXCEPT !.at = "patch", !.loaded = None] \in Call
    BY FieldTypes DEF Call, Stages, Folders
  <2>2. call' \in [Calls -> Call]
    BY <1>5, <2>1, CallsStayTyped DEF SaveCredential
  <2>3. config' \in Config
    BY <1>5, FieldTypes DEF SaveCredential, Config
  <2> QED
    BY <1>5, <2>2, <2>3 DEF TypeOK, SaveCredential
<1>6. CASE ReadStatus(c)
  <2>1. [call[c] EXCEPT !.req = file.token, !.ws = file.workspace,
          !.at = IF ~Paired THEN "shown" ELSE IF file.paired # file.workspace THEN "patch" ELSE "return"] \in Call
    BY FieldTypes DEF Call, Stages
  <2> QED
    BY <1>6, <2>1, CallAlone, FailureKeepsTypes DEF ReadStatus
<1>7. CASE Repair(c)
  BY <1>0, <1>7, CallAlone, FailureKeepsTypes DEF Repair, Goto, Stages
<1> QED
  BY <1>1, <1>2, <1>3, <1>4, <1>5, <1>6, <1>7

\* No step leaves the types.
LEMMA TypeStep == TypeOK /\ [Next]_vars => TypeOK'
<1> SUFFICES ASSUME TypeOK, [Next]_vars PROVE TypeOK'
  OBVIOUS
<1>1. ASSUME NEW c \in Calls, Step(c) PROVE TypeOK'
  BY <1>1, PatchesKeepTypes, AnswersKeepTypes, AuthorizationTypes, SetupTypes, FailureKeepsTypes DEF Step, StatusGone
<1>2. ASSUME NEW c \in Calls, Raise(c) PROVE TypeOK'
  BY <1>2, FailureKeepsTypes DEF Raise
<1>3. ASSUME NEW c \in Calls, Tick(c) PROVE TypeOK'
  <2>1. [Idle EXCEPT !.op = "poll", !.at = "read"] \in Call
    BY IdleIsCall DEF Call, Ops, Stages
  <2> QED
    BY <1>3, <2>1, CallAlone DEF Tick, Begin
<1>4. ASSUME NEW c \in Calls, Launch(c) PROVE TypeOK'
  <2>1. [Idle EXCEPT !.op = "restore", !.at = "read"] \in Call
    BY IdleIsCall DEF Call, Ops, Stages
  <2>2. call' \in [Calls -> Call]
    BY <1>4, <2>1, CallsStayTyped DEF Launch, Begin
  <2>3. cookie' \in 0..MaxRequests /\ starts' \in 0..MaxStarts
    BY <1>4, FieldTypes DEF TypeOK, Launch
  <2> QED
    BY <1>4, <2>2, <2>3, NewUiIsUi DEF TypeOK, Launch
<1>5. ASSUME NEW r \in Requests, Approve(r) \/ Expire(r) PROVE TypeOK'
  BY <1>5 DEF TypeOK, Approve, Expire, local
<1>6. CASE OpenWorkspace
  BY <1>6, NewUiIsUi DEF TypeOK, OpenWorkspace, local
<1>7. CASE Quit
  BY <1>7, IdleIsCall, NewUiIsUi DEF TypeOK, Quit, local
<1>8. CASE UNCHANGED vars
  BY <1>8 DEF TypeOK, vars
<1> QED
  BY <1>1, <1>2, <1>3, <1>4, <1>5, <1>6, <1>7, <1>8, UserTypes DEF Next

\* The initial state has the types.
LEMMA TypeInit == Init => TypeOK
  BY EmptyIsState, IdleIsCall DEF Init, TypeOK, Config, Folders, NewUi, Ui, Panels, Buttons

\* Every variable has its type, for any calls, folders, requests and starts.
THEOREM TypeCorrect == Spec => []TypeOK
  BY TypeInit, TypeStep, PTL DEF Spec

-----------------------------------------------------------------------------
(* The setup page always has a way on *)

Claiming == {"claim", "deliver", "cookie", "patch", "open", "write", "return"}

\* A call that goes on as what it is takes no way from the page.
LEMMA QuietStep ==
  ASSUME TypeOK, NoDeadEnd, NEW c \in Calls, NEW k, Become(c, k), UNCHANGED <<page, ui>>,
         call[c].op \in {"start", "install"} => k.op = call[c].op,
         Claims(c) => k.op = "poll" /\ k.at \in Claiming
  PROVE  NoDeadEnd'
<1>1. call'[c] = k /\ \A d \in Calls : d # c => call'[d] = call[d]
  BY DEF TypeOK, Become
<1>2. \A op \in {"start", "install"} : InFlight(op) => InFlight(op)'
  BY <1>1 DEF InFlight
<1>3. (\E d \in Calls : Claims(d)) => (\E d \in Calls : Claims(d))'
  BY <1>1 DEF Claims, Claiming
<1> QED
  BY <1>2, <1>3 DEF NoDeadEnd

\* A call that was rejected gives the page back the button it had disabled, or
\* takes it to the first panel.
LEMMA FailureLeavesAWay ==
  ASSUME TypeOK, NoDeadEnd, NEW c \in Calls, Fail(c) PROVE NoDeadEnd'
<1>1. call'[c] = Idle /\ (\A d \in Calls : d # c => call'[d] = call[d]) /\ page' = page
  BY DEF TypeOK, Fail, Become
<1> SUFFICES ASSUME page = "setup" PROVE NoDeadEnd'
  BY <1>1 DEF NoDeadEnd
<1>2. ui' = AfterError(call[c].op)
  BY DEF Fail, Show
<1>3. CASE call[c].op = "start"
  <2>1. ui' = [ui EXCEPT !.enabled = @ \cup {"connect", "reconnect"}]
    BY <1>2, <1>3 DEF AfterError
  <2>2. ui'.panel = ui.panel /\ ui'.timer = ui.timer /\ ui'.leaked = ui.leaked
        /\ "connect" \in ui'.enabled /\ ui.enabled \subseteq ui'.enabled
    BY <2>1 DEF TypeOK, Ui
  <2>3. InFlight("install") => InFlight("install")'
    BY <1>1, <1>3 DEF InFlight
  <2>4. (\E d \in Calls : Claims(d)) => (\E d \in Calls : Claims(d))'
    BY <1>1, <1>3 DEF Claims
  <2> QED
    BY <2>2, <2>3, <2>4 DEF NoDeadEnd
<1>4. CASE call[c].op = "poll"
  <2>1. ui'.panel = "intro" /\ "connect" \in ui'.enabled
    BY <1>2, <1>4 DEF AfterError, TypeOK, Ui
  <2> QED
    BY <2>1 DEF NoDeadEnd
<1>5. CASE call[c].op = "install"
  <2>1. ui' = [ui EXCEPT !.enabled = @ \cup {"install"}]
    BY <1>2, <1>5 DEF AfterError
  <2>2. ui'.panel = ui.panel /\ ui'.timer = ui.timer /\ ui'.leaked = ui.leaked
        /\ "install" \in ui'.enabled /\ ui.enabled \subseteq ui'.enabled
    BY <2>1 DEF TypeOK, Ui
  <2>3. InFlight("start") => InFlight("start")'
    BY <1>1, <1>5 DEF InFlight
  <2>4. (\E d \in Calls : Claims(d)) => (\E d \in Calls : Claims(d))'
    BY <1>1, <1>5 DEF Claims
  <2> QED
    BY <2>2, <2>3, <2>4 DEF NoDeadEnd
<1>6. CASE call[c].op \notin {"start", "poll", "install"}
  <2>1. UNCHANGED <<page, ui>>
    BY <1>1, <1>2, <1>6 DEF AfterError
  <2> QED
    BY <1>6, <2>1, QuietStep DEF Fail, Claims
<1> QED
  BY <1>3, <1>4, <1>5, <1>6

\* Whatever overlaps, no step takes the last way on from the page.
LEMMA NoDeadEndStep == TypeOK /\ NoDeadEnd /\ [Next]_vars => NoDeadEnd'
<1> SUFFICES ASSUME TypeOK, NoDeadEnd, [Next]_vars PROVE NoDeadEnd'
  OBVIOUS
<1>1. ASSUME NEW c \in Calls, Tick(c) PROVE NoDeadEnd'
  BY <1>1, QuietStep DEF Tick, Begin, Idle, Claims, Claiming
<1>2. ASSUME NEW c \in Calls, NEW w \in Workspaces, ChooseWorkspace(c, w) PROVE NoDeadEnd'
  BY <1>2, QuietStep DEF ChooseWorkspace, Begin, Idle, Claims, Claiming
<1>3. ASSUME NEW c \in Calls, NEW w \in Workspaces, CloneRepository(c, w) PROVE NoDeadEnd'
  BY <1>3, QuietStep DEF CloneRepository, Begin, Idle, Claims, Claiming
<1>4. ASSUME NEW c \in Calls, ClickRepair(c) PROVE NoDeadEnd'
  BY <1>4, QuietStep DEF ClickRepair, Begin, Idle, Claims, Claiming
<1>5. ASSUME NEW c \in Calls, Repaired(c) PROVE NoDeadEnd'
  BY <1>5, QuietStep DEF Repaired, In, Claims, Claiming
<1>6. ASSUME NEW c \in Calls, RequestAuthorization(c) PROVE NoDeadEnd'
  <2>1. PICK r \in Requests : Become(c, [call[c] EXCEPT !.at = "patch", !.req = r])
    BY <1>6 DEF RequestAuthorization
  <2> QED
    BY <1>6, <2>1, FieldTypes, QuietStep DEF RequestAuthorization, In, Call, Claims, Claiming
<1>7. ASSUME NEW c \in Calls, SetSessionCookie(c) PROVE NoDeadEnd'
  <2>1. Become(c, [call[c] EXCEPT !.at = "patch"]) /\ UNCHANGED <<page, ui>>
    BY <1>7 DEF SetSessionCookie, Goto
  <2> QED
    BY <1>7, <2>1, FieldTypes, QuietStep DEF SetSessionCookie, In, Call, Claims, Claiming
<1>8. ASSUME NEW c \in Calls, InitRuntime(c) PROVE NoDeadEnd'
  <2>1. Become(c, [call[c] EXCEPT !.at = "pair"]) /\ UNCHANGED <<page, ui>>
    BY <1>8 DEF InitRuntime, Goto
  <2> QED
    BY <1>8, <2>1, FieldTypes, QuietStep DEF InitRuntime, In, Call, Claims, Claiming
<1>9. ASSUME NEW c \in Calls, LoadConfig(c) PROVE NoDeadEnd'
  <2>1. Become(c, [call[c] EXCEPT !.at = "save", !.loaded = config.workspace]) /\ UNCHANGED <<page, ui>>
    BY <1>9 DEF LoadConfig, Goto
  <2> QED
    BY <1>9, <2>1, FieldTypes, QuietStep DEF LoadConfig, In, Call, Claims, Claiming
<1>10. ASSUME NEW c \in Calls, SaveCredential(c) PROVE NoDeadEnd'
  <2>1. Become(c, [call[c] EXCEPT !.at = "patch", !.loaded = None]) /\ UNCHANGED <<page, ui>>
    BY <1>10 DEF SaveCredential, Goto
  <2> QED
    BY <1>10, <2>1, FieldTypes, QuietStep DEF SaveCredential, In, Call, Claims, Claiming
<1>11. ASSUME NEW c \in Calls, Truncate(c) PROVE NoDeadEnd'
  <2>1. Become(c, [call[c] EXCEPT !.at = "write"]) /\ UNCHANGED <<page, ui>>
    BY <1>11 DEF Truncate, Goto
  <2> QED
    BY <1>11, <2>1, FieldTypes, QuietStep DEF Truncate, In, Call, Claims, Claiming
<1>12. ASSUME NEW c \in Calls, Write(c) PROVE NoDeadEnd'
  <2>1. Become(c, [call[c] EXCEPT !.at = "return", !.base = Empty]) /\ UNCHANGED <<page, ui>>
    BY <1>12 DEF Write, Goto
  <2> QED
    BY <1>12, <2>1, FieldTypes, QuietStep DEF Write, In, Call, Claims, Claiming
<1>13. ASSUME NEW c \in Calls, ReadPending(c) PROVE NoDeadEnd'
  <2>1. CASE Readable /\ file.pending # 0
    <3>1. Become(c, [call[c] EXCEPT !.req = file.pending, !.at = IF @ = "read" THEN "status" ELSE "deliver"]) /\ UNCHANGED <<page, ui>>
      BY <1>13, <2>1 DEF ReadPending, Goto
    <3> QED
      BY <1>13, <3>1, FieldTypes, QuietStep DEF ReadPending, In, Call, Claims, Claiming
  <2>2. CASE ~(Readable /\ file.pending # 0)
    BY <1>13, <2>2, FailureLeavesAWay DEF ReadPending
  <2> QED
    BY <2>1, <2>2
<1>14. ASSUME NEW c \in Calls, Deliver(c) PROVE NoDeadEnd'
  <2>1. CASE request[call[c].req] = "completed"
    <3>1. Become(c, [call[c] EXCEPT !.at = "cookie"]) /\ UNCHANGED <<page, ui>>
      BY <1>14, <2>1 DEF Deliver, Goto
    <3> QED
      BY <1>14, <3>1, FieldTypes, QuietStep DEF Deliver, In, Call, Claims, Claiming
  <2>2. CASE ~(request[call[c].req] = "completed")
    BY <1>14, <2>2, FailureLeavesAWay DEF Deliver
  <2> QED
    BY <2>1, <2>2
<1>15. ASSUME NEW c \in Calls, ReadSession(c) PROVE NoDeadEnd'
  <2>1. CASE Readable /\ file.token # 0
    <3>1. Become(c, [call[c] EXCEPT !.at = "patch"]) /\ UNCHANGED <<page, ui>>
      BY <1>15, <2>1 DEF ReadSession, Goto
    <3> QED
      BY <1>15, <3>1, FieldTypes, QuietStep DEF ReadSession, In, Call, Claims, Claiming
  <2>2. CASE ~(Readable /\ file.token # 0)
    BY <1>15, <2>2, FailureLeavesAWay DEF ReadSession
  <2> QED
    BY <2>1, <2>2
<1>16. ASSUME NEW c \in Calls, ReadForInstall(c) PROVE NoDeadEnd'
  <2>1. CASE Readable /\ file.token # 0 /\ file.workspace = call[c].ws
    <3>1. Become(c, [call[c] EXCEPT !.at = "init", !.req = file.token]) /\ UNCHANGED <<page, ui>>
      BY <1>16, <2>1 DEF ReadForInstall, Goto
    <3> QED
      BY <1>16, <3>1, FieldTypes, QuietStep DEF ReadForInstall, In, Call, Claims, Claiming
  <2>2. CASE ~(Readable /\ file.token # 0 /\ file.workspace = call[c].ws)
    BY <1>16, <2>2, FailureLeavesAWay DEF ReadForInstall
  <2> QED
    BY <2>1, <2>2
<1>17. ASSUME NEW c \in Calls, ReadForPatch(c) PROVE NoDeadEnd'
  <2>1. CASE Readable
    <3>1. Become(c, [call[c] EXCEPT !.at = "open", !.base = file]) /\ UNCHANGED <<page, ui>>
      BY <1>17, <2>1 DEF ReadForPatch, Goto
    <3> QED
      BY <1>17, <3>1, FieldTypes, QuietStep DEF ReadForPatch, In, Call, Claims, Claiming
  <2>2. CASE ~(Readable)
    BY <1>17, <2>2, FailureLeavesAWay DEF ReadForPatch
  <2> QED
    BY <2>1, <2>2
<1>18. ASSUME NEW c \in Calls, ReadStatus(c) PROVE NoDeadEnd'
  <2>1. CASE Readable
    <3>1. Become(c, [call[c] EXCEPT !.req = file.token, !.ws = file.workspace,
              !.at = IF ~Paired THEN "shown" ELSE IF file.paired # file.workspace THEN "patch" ELSE "return"]) /\ UNCHANGED <<page, ui>>
      BY <1>18, <2>1 DEF ReadStatus, Goto
    <3> QED
      BY <1>18, <3>1, FieldTypes, QuietStep DEF ReadStatus, In, Call, Claims, Claiming
  <2>2. CASE ~(Readable)
    BY <1>18, <2>2, FailureLeavesAWay DEF ReadStatus
  <2> QED
    BY <2>1, <2>2
<1>19. ASSUME NEW c \in Calls, Repair(c) PROVE NoDeadEnd'
  <2>1. CASE Readable /\ (file.paired # None \/ file.workspace # None) /\ config.workspace # None
    <3>1. Become(c, [call[c] EXCEPT !.at = "patch"]) /\ UNCHANGED <<page, ui>>
      BY <1>19, <2>1 DEF Repair, Goto
    <3> QED
      BY <1>19, <3>1, FieldTypes, QuietStep DEF Repair, In, Call, Claims, Claiming
  <2>2. CASE ~(Readable /\ (file.paired # None \/ file.workspace # None) /\ config.workspace # None)
    BY <1>19, <2>2, FailureLeavesAWay DEF Repair
  <2> QED
    BY <2>1, <2>2
<1>20. ASSUME NEW c \in Calls, StatusGone(c) \/ Raise(c) PROVE NoDeadEnd'
  BY <1>20, FailureLeavesAWay DEF StatusGone, Raise
<1>21. ASSUME NEW c \in Calls, AuthorizationStarted(c) PROVE NoDeadEnd'
  <2>1. call'[c] = Idle /\ (\A d \in Calls : d # c => call'[d] = call[d]) /\ page' = page
    BY <1>21 DEF TypeOK, AuthorizationStarted, Become
  <2>2. CASE page = "setup"
    <3>1. ui'.panel = "authorizing" /\ ui'.timer
      BY <1>21, <2>2 DEF TypeOK, AuthorizationStarted, Show, Ui, Panels
    <3> QED
      BY <2>2, <3>1 DEF NoDeadEnd
  <2>3. CASE page # "setup"
    BY <2>1, <2>3 DEF NoDeadEnd
  <2> QED
    BY <2>2, <2>3
<1>22. ASSUME NEW c \in Calls, Claimed(c) PROVE NoDeadEnd'
  <2>1. call'[c] = Idle /\ (\A d \in Calls : d # c => call'[d] = call[d]) /\ page' = page
    BY <1>22 DEF TypeOK, Claimed, Become
  <2>2. CASE page = "setup"
    <3>1. ui'.panel = "source"
      BY <1>22, <2>2 DEF TypeOK, Claimed, Show, Ui, Panels
    <3> QED
      BY <2>2, <3>1 DEF NoDeadEnd
  <2>3. CASE page # "setup"
    BY <2>1, <2>3 DEF NoDeadEnd
  <2> QED
    BY <2>2, <2>3
<1>23. ASSUME NEW c \in Calls, ContinueToSetup(c) PROVE NoDeadEnd'
  <2>1. call'[c] = Idle /\ (\A d \in Calls : d # c => call'[d] = call[d]) /\ page' = page
    BY <1>23 DEF TypeOK, ContinueToSetup, Become
  <2>2. CASE page = "setup"
    <3>1. ui'.panel = "setup" /\ "install" \in ui'.enabled
      BY <1>23, <2>2 DEF TypeOK, ContinueToSetup, Show, Ui, Panels
    <3> QED
      BY <2>2, <3>1 DEF NoDeadEnd
  <2>3. CASE page # "setup"
    BY <2>1, <2>3 DEF NoDeadEnd
  <2> QED
    BY <2>2, <2>3
<1>24. ASSUME NEW c \in Calls, Installed(c) PROVE NoDeadEnd'
  <2>1. call'[c] = Idle /\ (\A d \in Calls : d # c => call'[d] = call[d]) /\ page' = page
    BY <1>24 DEF TypeOK, Installed, Become
  <2>2. CASE page = "setup"
    <3>1. ui'.panel = "ready"
      BY <1>24, <2>2 DEF TypeOK, Installed, Show, Ui, Panels
    <3> QED
      BY <2>2, <3>1 DEF NoDeadEnd
  <2>3. CASE page # "setup"
    BY <2>1, <2>3 DEF NoDeadEnd
  <2> QED
    BY <2>2, <2>3
<1>25. ASSUME NEW c \in Calls, ClickConnect(c) PROVE NoDeadEnd'
  <2>1. call'[c].op = "start" /\ ui'.panel \in {"intro", "source"}
    BY <1>25 DEF TypeOK, ClickConnect, Begin, Become, Idle, Ui
  <2> QED
    BY <2>1 DEF NoDeadEnd, InFlight
<1>26. ASSUME NEW c \in Calls, ClickInstall(c) PROVE NoDeadEnd'
  <2>1. call'[c].op = "install" /\ ui'.panel = "setup"
    BY <1>26 DEF TypeOK, ClickInstall, Begin, Become, Idle, Ui
  <2> QED
    BY <2>1 DEF NoDeadEnd, InFlight
<1>27. ASSUME NEW c \in Calls, Launch(c) PROVE NoDeadEnd'
  <2>1. ui'.panel = "intro" /\ "connect" \in ui'.enabled
    BY <1>27 DEF Launch, NewUi
  <2> QED
    BY <2>1 DEF NoDeadEnd
<1>28. ASSUME OpenWorkspace \/ Quit PROVE NoDeadEnd'
  BY <1>28 DEF OpenWorkspace, Quit, NoDeadEnd
<1>29. ASSUME NEW r \in Requests, Approve(r) \/ Expire(r) PROVE NoDeadEnd'
  BY <1>29 DEF Approve, Expire, NoDeadEnd, InFlight, Claims
<1>30. ASSUME UNCHANGED vars PROVE NoDeadEnd'
  BY <1>30 DEF vars, NoDeadEnd, InFlight, Claims
<1>31. ASSUME NEW c \in Calls, Status(c) PROVE NoDeadEnd'
  <2>1. (\A d \in Calls : d # c => call'[d] = call[d]) /\ page' = page /\ call[c].op = "poll"
    BY <1>31 DEF TypeOK, Status, Become, Goto, In
  <2>2. \A op \in {"start", "install"} : InFlight(op) => InFlight(op)'
    BY <2>1 DEF InFlight
  <2>3. (\E d \in Calls : Claims(d)) => (\E d \in Calls : Claims(d))'
    BY <1>31, <2>1 DEF Status, In, Claims
  <2>4. CASE page # "setup"
    BY <2>1, <2>4 DEF NoDeadEnd
  <2>5. CASE page = "setup" /\ request[call[c].req] \in {"completed", "delivered"}
    <3>1. ui' = [ui EXCEPT !.timer = FALSE] /\ call' = [call EXCEPT ![c] = [call[c] EXCEPT !.at = "claim"]]
      BY <1>31, <2>5 DEF Status, Show, Goto, Become
    <3>2. call'[c].op = "poll" /\ call'[c].at = "claim"
      BY <2>1, <3>1 DEF TypeOK, Call
    <3>3. ui'.panel = ui.panel /\ ui'.enabled = ui.enabled /\ Claims(c)'
      BY <3>1, <3>2 DEF TypeOK, Ui, Claims
    <3> QED
      BY <2>1, <2>2, <2>5, <3>3 DEF NoDeadEnd
  <2>6. CASE page = "setup" /\ request[call[c].req] = "expired"
    <3>1. ui'.panel = "intro" /\ "connect" \in ui'.enabled
      BY <1>31, <2>6 DEF Status, Show, TypeOK, Ui
    <3> QED
      BY <3>1 DEF NoDeadEnd
  <2>7. CASE page = "setup" /\ request[call[c].req] \notin {"completed", "delivered", "expired"}
    <3>1. ui' = ui
      BY <1>31, <2>7 DEF Status, Show
    <3> QED
      BY <2>1, <2>2, <2>3, <3>1 DEF NoDeadEnd
  <2> QED
    BY <2>4, <2>5, <2>6, <2>7
<1>32. ASSUME NEW c \in Calls, Restored(c) PROVE NoDeadEnd'
  <2> DEFINE k      == call[c]
             filled == [ui EXCEPT !.selected = IF k.ws # None THEN k.ws ELSE @,
                                  !.enabled = IF k.ws # None THEN @ \cup {"install"} ELSE @]
             moved  == [filled EXCEPT !.panel = IF k.ws # None THEN "setup" ELSE "source"]
  <2>1. call[c].op = "restore" /\ (\A d \in Calls : d # c => call'[d] = call[d])
    BY <1>32 DEF TypeOK, Restored, Become, In
  <2>2. \A op \in {"start", "install"} : InFlight(op) => InFlight(op)'
    BY <2>1 DEF InFlight
  <2>3. (\E d \in Calls : Claims(d)) => (\E d \in Calls : Claims(d))'
    BY <2>1 DEF Claims
  <2>4. filled.panel = ui.panel /\ filled.timer = ui.timer /\ filled.leaked = ui.leaked
        /\ ui.enabled \subseteq filled.enabled
    BY DEF TypeOK, Ui
  <2>5. moved.panel = "setup" => "install" \in moved.enabled
    BY DEF TypeOK, Ui
  <2>6. moved.panel \in {"setup", "source"}
    BY DEF TypeOK, Ui
  <2>7. page' = "setup" => page = "setup" /\ ui' \in {filled, moved}
    BY <1>32 DEF Restored, Show
  <2>8. CASE ui' = filled
    BY <2>2, <2>3, <2>4, <2>7, <2>8 DEF NoDeadEnd
  <2>9. CASE ui' = moved
    BY <2>5, <2>6, <2>9 DEF NoDeadEnd
  <2> QED
    BY <2>7, <2>8, <2>9 DEF NoDeadEnd
<1> QED
  BY <1>1, <1>2, <1>3, <1>4, <1>5, <1>6, <1>7, <1>8, <1>9, <1>10, <1>11, <1>12, <1>13, <1>14, <1>15, <1>16, <1>17, <1>18, <1>19, <1>20, <1>21, <1>22, <1>23, <1>24, <1>25, <1>26, <1>27, <1>28, <1>29, <1>30, <1>31, <1>32 DEF Next, User, Step

\* However calls, timers and failures overlap, and however often the application
\* is stopped, the setup page is never left on a panel without a way on.
THEOREM SetupHasAWayOn == Spec => []NoDeadEnd
<1>1. Init => NoDeadEnd
  BY DEF Init, NoDeadEnd
<1> QED
  BY <1>1, TypeCorrect, NoDeadEndStep, PTL DEF Spec

-----------------------------------------------------------------------------
(* Tokens, folders and sessions *)

\* A request in one of these states is not delivered again.
Given == {"delivered", "expired", "gone"}

Holding(k) == k.op = "poll" /\ k.at \in {"cookie", "patch", "open", "write", "return"}

\* A token that is carried is the one of a request that will not be delivered again.
DeliveryOK(k, asked) ==
    /\ k.op = "poll" /\ k.at = "deliver" => k.req \in Requests
    /\ Holding(k) => k.req \in Requests /\ asked[k.req] \in Given

\* A call that is going to write a paired folder has found or made a configuration.
ConfiguredOK(k, made) ==
    /\ k.op = "install" => k.ws # None
    /\ k.op = "install" /\ k.at \in {"pair", "save", "patch", "open", "write"} => made.workspace # None
    /\ k.op = "install" /\ k.at = "save" => k.loaded # None
    /\ k.op = "restore" /\ k.at \in {"patch", "open", "write"} => made.workspace # None
    /\ k.base.paired # None => made.workspace # None

\* A call that carries a token it has saved, or read, runs after the cookie was set.
SessionOK(k, set) ==
    /\ k.op = "poll" /\ k.at \in {"patch", "open", "write", "return"} => set # 0
    /\ k.op = "install" /\ k.at # "read" => set # 0
    /\ k.op = "restore" /\ k.req # 0 => set # 0
    /\ k.base.token # 0 => set # 0

CallOK(k, asked, made, set) == DeliveryOK(k, asked) /\ ConfiguredOK(k, made) /\ SessionOK(k, set)

Now(k)  == CallOK(k, request, config, cookie)
After(k) == CallOK(k, request', config', cookie')

\* What the state file and the page owe to the calls that came before.
PageOK ==
    /\ PairedIsConfigured
    /\ file.token # 0 => cookie # 0
    /\ ui.panel = "ready" => cookie # 0
    /\ ProjectHasSession

\* The inductive invariant.
Inv == TokensDeliveredOnce /\ (\A c \in Calls : Now(call[c])) /\ PageOK

\* What no step takes back.
Keeps ==
    /\ cookie # 0 => cookie' # 0
    /\ config.workspace # None => config'.workspace # None
    /\ \A r \in Requests : request[r] \in Given => request'[r] \in Given

\* A call that becomes k, holds no token another one holds, and owes what it must.
LEMMA CallStep ==
  ASSUME TypeOK, Inv, NEW c \in Calls, NEW k, Become(c, k), Keeps, After(k), PageOK',
         Holding(k) => \/ Holds(c) /\ call[c].req = k.req
                       \/ k.req = call[c].req /\ request[k.req] \notin Given
  PROVE  Inv'
<1>1. call'[c] = k /\ \A d \in Calls : d # c => call'[d] = call[d]
  BY DEF TypeOK, Become
<1>2. ASSUME NEW d \in Calls, d # c PROVE After(call[d])
  BY <1>2 DEF Inv, Keeps, Now, After, CallOK, DeliveryOK, ConfiguredOK, SessionOK
<1>3. TokensDeliveredOnce'
  <2>1. \A d \in Calls : Holds(d) => call[d].req \in Requests /\ request[call[d].req] \in Given
    BY DEF Inv, Now, CallOK, DeliveryOK, Holds, Holding
  <2>2. \A d \in Calls : d # c => (Holds(d)' <=> Holds(d)) /\ call'[d].req = call[d].req
    BY <1>1 DEF Holds
  <2>3. Holds(c)' => Holding(k)
    BY <1>1 DEF Holds, Holding
  <2> QED
    BY <1>1, <2>1, <2>2, <2>3 DEF Inv, TokensDeliveredOnce
<1> QED
  BY <1>1, <1>2, <1>3 DEF Inv, Now, After, CallOK, DeliveryOK, ConfiguredOK, SessionOK, Holding

\* A call that ends leaves the invariant to the others.
LEMMA IdleStep ==
  ASSUME TypeOK, Inv, NEW c \in Calls, Become(c, Idle), Keeps, PageOK' PROVE Inv'
<1>1. After(Idle) /\ ~Holding(Idle)
  BY DEF After, CallOK, DeliveryOK, ConfiguredOK, SessionOK, Holding, Idle, Empty
<1> QED
  BY <1>1, CallStep

\* A call that is rejected breaks nothing: it wrote nothing.
LEMMA FailureKeepsInv ==
  ASSUME TypeOK, Inv, NEW c \in Calls, Fail(c) PROVE Inv'
<1>1. Become(c, Idle) /\ Keeps
  BY DEF Fail, Keeps, local
<1>2. ui'.panel = "ready" => ui.panel = "ready"
  BY DEF TypeOK, Fail, Show, AfterError, Ui
<1>3. PageOK'
  BY <1>2 DEF Inv, PageOK, PairedIsConfigured, ProjectHasSession, Fail, local
<1> QED
  BY <1>1, <1>3, IdleStep

\* What a call writes is as sound as what it read.
LEMMA PatchedIsSound ==
  ASSUME TypeOK, NEW c \in Calls, Now(call[c]), call[c].at = "write"
  PROVE  /\ Patched(call[c]).paired # None => config.workspace # None
         /\ Patched(call[c]).token # 0 => cookie # 0
<1> DEFINE k == call[c]
<1>1. k.op = "poll" => Patched(k) = [k.base EXCEPT !.token = k.req, !.pending = 0]
  BY DEF Patched
<1>2. k.op # "poll" => Patched(k).token = k.base.token
  BY FieldTypes DEF Patched, State
<1>3. k.op \notin {"install", "restore"} => Patched(k).paired = k.base.paired
  BY <1>1, FieldTypes DEF Patched, State
<1> QED
  BY <1>1, <1>2, <1>3 DEF Now, CallOK, ConfiguredOK, SessionOK

\* No step of a call, of the page, of the cloud or of the user leaves the invariant.
LEMMA InvStep == TypeOK /\ Inv /\ [Next]_vars => Inv'
<1> SUFFICES ASSUME TypeOK, Inv, [Next]_vars PROVE Inv'
  OBVIOUS
<1> USE DEF Inv, PairedIsConfigured, ProjectHasSession
<1>1. ASSUME NEW c \in Calls, ClickConnect(c) PROVE Inv'
  <2>1. Become(c, [Idle EXCEPT !.op = "start", !.at = "request"]) /\ Keeps
    BY <1>1 DEF ClickConnect, Begin, Keeps, local
  <2>2. After([Idle EXCEPT !.op = "start", !.at = "request"]) /\ ~Holding([Idle EXCEPT !.op = "start", !.at = "request"])
    BY <1>1 DEF ClickConnect, Idle, Now, After, CallOK, DeliveryOK, ConfiguredOK, SessionOK, Holding, Empty
  <2>3. PageOK'
    BY <1>1 DEF TypeOK, ClickConnect, PageOK, local, Ui, NewUi, State, Readable
  <2> QED
    BY <2>1, <2>2, <2>3, CallStep
<1>2. ASSUME NEW c \in Calls, Tick(c) PROVE Inv'
  <2>1. Become(c, [Idle EXCEPT !.op = "poll", !.at = "read"]) /\ Keeps
    BY <1>2 DEF Tick, Begin, Keeps, local
  <2>2. After([Idle EXCEPT !.op = "poll", !.at = "read"]) /\ ~Holding([Idle EXCEPT !.op = "poll", !.at = "read"])
    BY <1>2 DEF Tick, Idle, Now, After, CallOK, DeliveryOK, ConfiguredOK, SessionOK, Holding, Empty
  <2>3. PageOK'
    BY <1>2 DEF TypeOK, Tick, PageOK, local, Ui, NewUi, State, Readable
  <2> QED
    BY <2>1, <2>2, <2>3, CallStep
<1>3. ASSUME NEW c \in Calls, NEW w \in Workspaces, ChooseWorkspace(c, w) PROVE Inv'
  <2>1. Become(c, [Idle EXCEPT !.op = "open", !.at = "patch", !.ws = w]) /\ Keeps
    BY <1>3 DEF ChooseWorkspace, Begin, Keeps, local
  <2>2. After([Idle EXCEPT !.op = "open", !.at = "patch", !.ws = w]) /\ ~Holding([Idle EXCEPT !.op = "open", !.at = "patch", !.ws = w])
    BY <1>3 DEF ChooseWorkspace, Idle, Now, After, CallOK, DeliveryOK, ConfiguredOK, SessionOK, Holding, Empty
  <2>3. PageOK'
    BY <1>3 DEF TypeOK, ChooseWorkspace, PageOK, local, Ui, NewUi, State, Readable
  <2> QED
    BY <2>1, <2>2, <2>3, CallStep
<1>4. ASSUME NEW c \in Calls, NEW w \in Workspaces, CloneRepository(c, w) PROVE Inv'
  <2>1. Become(c, [Idle EXCEPT !.op = "open", !.at = "session", !.ws = w]) /\ Keeps
    BY <1>4 DEF CloneRepository, Begin, Keeps, local
  <2>2. After([Idle EXCEPT !.op = "open", !.at = "session", !.ws = w]) /\ ~Holding([Idle EXCEPT !.op = "open", !.at = "session", !.ws = w])
    BY <1>4 DEF CloneRepository, Idle, Now, After, CallOK, DeliveryOK, ConfiguredOK, SessionOK, Holding, Empty
  <2>3. PageOK'
    BY <1>4 DEF TypeOK, CloneRepository, PageOK, local, Ui, NewUi, State, Readable
  <2> QED
    BY <2>1, <2>2, <2>3, CallStep
<1>5. ASSUME NEW c \in Calls, ClickInstall(c) PROVE Inv'
  <2>1. Become(c, [Idle EXCEPT !.op = "install", !.at = "read", !.ws = ui.selected]) /\ Keeps
    BY <1>5 DEF ClickInstall, Begin, Keeps, local
  <2>2. After([Idle EXCEPT !.op = "install", !.at = "read", !.ws = ui.selected]) /\ ~Holding([Idle EXCEPT !.op = "install", !.at = "read", !.ws = ui.selected])
    BY <1>5 DEF ClickInstall, Idle, Now, After, CallOK, DeliveryOK, ConfiguredOK, SessionOK, Holding, Empty
  <2>3. PageOK'
    BY <1>5 DEF TypeOK, ClickInstall, PageOK, local, Ui, NewUi, State, Readable
  <2> QED
    BY <2>1, <2>2, <2>3, CallStep
<1>6. ASSUME NEW c \in Calls, Launch(c) PROVE Inv'
  <2>1. Become(c, [Idle EXCEPT !.op = "restore", !.at = "read"]) /\ Keeps
    BY <1>6 DEF Launch, Begin, Keeps, local
  <2>2. After([Idle EXCEPT !.op = "restore", !.at = "read"]) /\ ~Holding([Idle EXCEPT !.op = "restore", !.at = "read"])
    BY <1>6 DEF Launch, Idle, Now, After, CallOK, DeliveryOK, ConfiguredOK, SessionOK, Holding, Empty
  <2>3. PageOK'
    BY <1>6 DEF TypeOK, Launch, PageOK, local, Ui, NewUi, State, Readable
  <2> QED
    BY <2>1, <2>2, <2>3, CallStep
<1>7. ASSUME NEW c \in Calls, ClickRepair(c) PROVE Inv'
  <2>1. Become(c, [Idle EXCEPT !.op = "repair", !.at = "read"]) /\ Keeps
    BY <1>7 DEF ClickRepair, Begin, Keeps, local
  <2>2. After([Idle EXCEPT !.op = "repair", !.at = "read"]) /\ ~Holding([Idle EXCEPT !.op = "repair", !.at = "read"])
    BY <1>7 DEF ClickRepair, Idle, Now, After, CallOK, DeliveryOK, ConfiguredOK, SessionOK, Holding, Empty
  <2>3. PageOK'
    BY <1>7 DEF TypeOK, ClickRepair, PageOK, local, Ui, NewUi, State, Readable
  <2> QED
    BY <2>1, <2>2, <2>3, CallStep
<1>8. ASSUME NEW c \in Calls, AuthorizationStarted(c) PROVE Inv'
  <2>1. Become(c, Idle) /\ Keeps
    BY <1>8 DEF AuthorizationStarted, Keeps, local
  <2>2. PageOK'
    BY <1>8, FieldTypes DEF TypeOK, AuthorizationStarted, In, Now, After, CallOK, DeliveryOK, ConfiguredOK, SessionOK, PageOK, local, Show, Ui, NewUi
  <2> QED
    BY <2>1, <2>2, IdleStep
<1>9. ASSUME NEW c \in Calls, Claimed(c) PROVE Inv'
  <2>1. Become(c, Idle) /\ Keeps
    BY <1>9 DEF Claimed, Keeps, local
  <2>2. PageOK'
    BY <1>9, FieldTypes DEF TypeOK, Claimed, In, Now, After, CallOK, DeliveryOK, ConfiguredOK, SessionOK, PageOK, local, Show, Ui, NewUi
  <2> QED
    BY <2>1, <2>2, IdleStep
<1>10. ASSUME NEW c \in Calls, ContinueToSetup(c) PROVE Inv'
  <2>1. Become(c, Idle) /\ Keeps
    BY <1>10 DEF ContinueToSetup, Keeps, local
  <2>2. PageOK'
    BY <1>10, FieldTypes DEF TypeOK, ContinueToSetup, In, Now, After, CallOK, DeliveryOK, ConfiguredOK, SessionOK, PageOK, local, Show, Ui, NewUi
  <2> QED
    BY <2>1, <2>2, IdleStep
<1>11. ASSUME NEW c \in Calls, Installed(c) PROVE Inv'
  <2>1. Become(c, Idle) /\ Keeps
    BY <1>11 DEF Installed, Keeps, local
  <2>2. PageOK'
    BY <1>11, FieldTypes DEF TypeOK, Installed, In, Now, After, CallOK, DeliveryOK, ConfiguredOK, SessionOK, PageOK, local, Show, Ui, NewUi
  <2> QED
    BY <2>1, <2>2, IdleStep
<1>12. ASSUME NEW c \in Calls, Restored(c) PROVE Inv'
  <2>1. Become(c, Idle) /\ Keeps
    BY <1>12 DEF Restored, Keeps, local
  <2>2. PageOK'
    BY <1>12, FieldTypes DEF TypeOK, Restored, In, Now, After, CallOK, DeliveryOK, ConfiguredOK, SessionOK, PageOK, local, Show, Ui, NewUi
  <2> QED
    BY <2>1, <2>2, IdleStep
<1>13. ASSUME NEW c \in Calls, Repaired(c) PROVE Inv'
  <2>1. Become(c, Idle) /\ Keeps
    BY <1>13 DEF Repaired, Keeps, local
  <2>2. PageOK'
    BY <1>13, FieldTypes DEF TypeOK, Repaired, In, Now, After, CallOK, DeliveryOK, ConfiguredOK, SessionOK, PageOK, local, Show, Ui, NewUi
  <2> QED
    BY <2>1, <2>2, IdleStep
<1>14. ASSUME NEW c \in Calls, Status(c) PROVE Inv'
  <2>1. Keeps /\ PageOK'
    BY <1>14 DEF TypeOK, Status, Keeps, PageOK, local, Show, Ui
  <2>2. CASE Become(c, Idle)
    BY <2>1, <2>2, IdleStep
  <2>3. CASE Goto(c, "claim")
    <3>1. After([call[c] EXCEPT !.at = "claim"]) /\ ~Holding([call[c] EXCEPT !.at = "claim"])
      BY <1>14, FieldTypes DEF TypeOK, Status, In, Now, After, CallOK, DeliveryOK, ConfiguredOK, SessionOK, Holding, Call, local
    <3> QED
      BY <2>1, <2>3, <3>1, CallStep DEF Goto
  <2> QED
    BY <1>14, <2>2, <2>3 DEF Status
<1>15. ASSUME NEW c \in Calls, StatusGone(c) \/ Raise(c) PROVE Inv'
  BY <1>15, FailureKeepsInv DEF StatusGone, Raise
<1>16. ASSUME NEW c \in Calls, ReadPending(c) PROVE Inv'
  <2>1. CASE Readable /\ file.pending # 0
    <3> DEFINE k == [call[c] EXCEPT !.req = file.pending, !.at = IF call[c].at = "read" THEN "status" ELSE "deliver"]
    <3>1. Become(c, k) /\ Keeps /\ PageOK'
      BY <1>16, <2>1 DEF ReadPending, Goto, Keeps, PageOK, local
    <3>2. /\ k.op = call[c].op
          /\ k.at = IF call[c].at = "read" THEN "status" ELSE "deliver"
          /\ k.req = file.pending
          /\ k.ws = call[c].ws
          /\ k.base = call[c].base
          /\ k.loaded = call[c].loaded
      BY FieldTypes DEF Call
    <3> HIDE DEF k
    <3>3. Now(call[c]) /\ PageOK /\ file.pending \in 0..MaxRequests
      BY FieldTypes
    <3>4. UNCHANGED <<request, config, cookie>>
      BY <1>16, <2>1 DEF ReadPending, local
    <3>5. After(k)
      BY <1>16, <2>1, <3>2, <3>3, <3>4 DEF ReadPending, In, Now, After, CallOK, DeliveryOK, ConfiguredOK, SessionOK, Holding, Requests, PageOK
    <3>6. Holding(k) => Holds(c) /\ call[c].req = k.req
      BY <1>16, <3>2 DEF ReadPending, In, Holding, Holds
    <3> QED
      BY <3>1, <3>5, <3>6, CallStep
  <2>2. CASE ~(Readable /\ file.pending # 0)
    BY <1>16, <2>2, FailureKeepsInv DEF ReadPending
  <2> QED
    BY <2>1, <2>2
<1>17. ASSUME NEW c \in Calls, ReadSession(c) PROVE Inv'
  <2>1. CASE Readable /\ file.token # 0
    <3> DEFINE k == [call[c] EXCEPT !.at = "patch"]
    <3>1. Become(c, k) /\ Keeps /\ PageOK'
      BY <1>17, <2>1 DEF ReadSession, Goto, Keeps, PageOK, local
    <3>2. /\ k.op = call[c].op
          /\ k.at = "patch"
          /\ k.req = call[c].req
          /\ k.ws = call[c].ws
          /\ k.base = call[c].base
          /\ k.loaded = call[c].loaded
      BY FieldTypes DEF Call
    <3> HIDE DEF k
    <3>3. Now(call[c]) /\ PageOK /\ file.pending \in 0..MaxRequests
      BY FieldTypes
    <3>4. UNCHANGED <<request, config, cookie>>
      BY <1>17, <2>1 DEF ReadSession, local
    <3>5. After(k)
      BY <1>17, <2>1, <3>2, <3>3, <3>4 DEF ReadSession, In, Now, After, CallOK, DeliveryOK, ConfiguredOK, SessionOK, Holding, Requests, PageOK
    <3>6. Holding(k) => Holds(c) /\ call[c].req = k.req
      BY <1>17, <3>2 DEF ReadSession, In, Holding, Holds
    <3> QED
      BY <3>1, <3>5, <3>6, CallStep
  <2>2. CASE ~(Readable /\ file.token # 0)
    BY <1>17, <2>2, FailureKeepsInv DEF ReadSession
  <2> QED
    BY <2>1, <2>2
<1>18. ASSUME NEW c \in Calls, ReadForInstall(c) PROVE Inv'
  <2>1. CASE Readable /\ file.token # 0 /\ file.workspace = call[c].ws
    <3> DEFINE k == [call[c] EXCEPT !.at = "init", !.req = file.token]
    <3>1. Become(c, k) /\ Keeps /\ PageOK'
      BY <1>18, <2>1 DEF ReadForInstall, Goto, Keeps, PageOK, local
    <3>2. /\ k.op = call[c].op
          /\ k.at = "init"
          /\ k.req = file.token
          /\ k.ws = call[c].ws
          /\ k.base = call[c].base
          /\ k.loaded = call[c].loaded
      BY FieldTypes DEF Call
    <3> HIDE DEF k
    <3>3. Now(call[c]) /\ PageOK /\ file.pending \in 0..MaxRequests
      BY FieldTypes
    <3>4. UNCHANGED <<request, config, cookie>>
      BY <1>18, <2>1 DEF ReadForInstall, local
    <3>5. After(k)
      BY <1>18, <2>1, <3>2, <3>3, <3>4 DEF ReadForInstall, In, Now, After, CallOK, DeliveryOK, ConfiguredOK, SessionOK, Holding, Requests, PageOK
    <3>6. Holding(k) => Holds(c) /\ call[c].req = k.req
      BY <1>18, <3>2 DEF ReadForInstall, In, Holding, Holds
    <3> QED
      BY <3>1, <3>5, <3>6, CallStep
  <2>2. CASE ~(Readable /\ file.token # 0 /\ file.workspace = call[c].ws)
    BY <1>18, <2>2, FailureKeepsInv DEF ReadForInstall
  <2> QED
    BY <2>1, <2>2
<1>19. ASSUME NEW c \in Calls, ReadForPatch(c) PROVE Inv'
  <2>1. CASE Readable
    <3> DEFINE k == [call[c] EXCEPT !.at = "open", !.base = file]
    <3>1. Become(c, k) /\ Keeps /\ PageOK'
      BY <1>19, <2>1 DEF ReadForPatch, Goto, Keeps, PageOK, local
    <3>2. /\ k.op = call[c].op
          /\ k.at = "open"
          /\ k.req = call[c].req
          /\ k.ws = call[c].ws
          /\ k.base = file
          /\ k.loaded = call[c].loaded
      BY FieldTypes DEF Call
    <3> HIDE DEF k
    <3>3. Now(call[c]) /\ PageOK /\ file.pending \in 0..MaxRequests
      BY FieldTypes
    <3>4. UNCHANGED <<request, config, cookie>>
      BY <1>19, <2>1 DEF ReadForPatch, local
    <3>5. After(k)
      BY <1>19, <2>1, <3>2, <3>3, <3>4 DEF ReadForPatch, In, Now, After, CallOK, DeliveryOK, ConfiguredOK, SessionOK, Holding, Requests, PageOK
    <3>6. Holding(k) => Holds(c) /\ call[c].req = k.req
      BY <1>19, <3>2 DEF ReadForPatch, In, Holding, Holds
    <3> QED
      BY <3>1, <3>5, <3>6, CallStep
  <2>2. CASE ~(Readable)
    BY <1>19, <2>2, FailureKeepsInv DEF ReadForPatch
  <2> QED
    BY <2>1, <2>2
<1>20. ASSUME NEW c \in Calls, ReadStatus(c) PROVE Inv'
  <2>1. CASE Readable
    <3> DEFINE k == [call[c] EXCEPT !.req = file.token, !.ws = file.workspace, !.at = IF ~Paired THEN "shown" ELSE IF file.paired # file.workspace THEN "patch" ELSE "return"]
    <3>1. Become(c, k) /\ Keeps /\ PageOK'
      BY <1>20, <2>1 DEF ReadStatus, Goto, Keeps, PageOK, local
    <3>2. /\ k.op = call[c].op
          /\ k.at = IF ~Paired THEN "shown" ELSE IF file.paired # file.workspace THEN "patch" ELSE "return"
          /\ k.req = file.token
          /\ k.ws = file.workspace
          /\ k.base = call[c].base
          /\ k.loaded = call[c].loaded
      BY FieldTypes DEF Call
    <3> HIDE DEF k
    <3>3. Now(call[c]) /\ PageOK /\ file.pending \in 0..MaxRequests
      BY FieldTypes
    <3>4. UNCHANGED <<request, config, cookie>>
      BY <1>20, <2>1 DEF ReadStatus, local
    <3>5. After(k)
      BY <1>20, <2>1, <3>2, <3>3, <3>4 DEF ReadStatus, In, Now, After, CallOK, DeliveryOK, ConfiguredOK, SessionOK, Holding, Requests, PageOK, Paired
    <3>6. Holding(k) => Holds(c) /\ call[c].req = k.req
      BY <1>20, <3>2 DEF ReadStatus, In, Holding, Holds
    <3> QED
      BY <3>1, <3>5, <3>6, CallStep
  <2>2. CASE ~(Readable)
    BY <1>20, <2>2, FailureKeepsInv DEF ReadStatus
  <2> QED
    BY <2>1, <2>2
<1>21. ASSUME NEW c \in Calls, Repair(c) PROVE Inv'
  <2>1. CASE Readable /\ (file.paired # None \/ file.workspace # None) /\ config.workspace # None
    <3> DEFINE k == [call[c] EXCEPT !.at = "patch"]
    <3>1. Become(c, k) /\ Keeps /\ PageOK'
      BY <1>21, <2>1 DEF Repair, Goto, Keeps, PageOK, local
    <3>2. /\ k.op = call[c].op
          /\ k.at = "patch"
          /\ k.req = call[c].req
          /\ k.ws = call[c].ws
          /\ k.base = call[c].base
          /\ k.loaded = call[c].loaded
      BY FieldTypes DEF Call
    <3> HIDE DEF k
    <3>3. Now(call[c]) /\ PageOK /\ file.pending \in 0..MaxRequests
      BY FieldTypes
    <3>4. UNCHANGED <<request, config, cookie>>
      BY <1>21, <2>1 DEF Repair, local
    <3>5. After(k)
      BY <1>21, <2>1, <3>2, <3>3, <3>4 DEF Repair, In, Now, After, CallOK, DeliveryOK, ConfiguredOK, SessionOK, Holding, Requests, PageOK
    <3>6. Holding(k) => Holds(c) /\ call[c].req = k.req
      BY <1>21, <3>2 DEF Repair, In, Holding, Holds
    <3> QED
      BY <3>1, <3>5, <3>6, CallStep
  <2>2. CASE ~(Readable /\ (file.paired # None \/ file.workspace # None) /\ config.workspace # None)
    BY <1>21, <2>2, FailureKeepsInv DEF Repair
  <2> QED
    BY <2>1, <2>2
<1>22. ASSUME NEW c \in Calls, SetSessionCookie(c) PROVE Inv'
  <2> DEFINE k == [call[c] EXCEPT !.at = "patch"]
  <2>1. Become(c, k)
    BY <1>22 DEF SetSessionCookie, Goto
  <2>2. /\ k.op = call[c].op
        /\ k.at = "patch"
        /\ k.req = call[c].req
        /\ k.ws = call[c].ws
        /\ k.base = call[c].base
        /\ k.loaded = call[c].loaded
    BY FieldTypes DEF Call
  <2> HIDE DEF k
  <2>3. Now(call[c]) /\ PageOK /\ call[c].req \in 0..MaxRequests
    BY FieldTypes
  <2>4. Keeps /\ PageOK'
    BY <1>22, <2>3 DEF SetSessionCookie, In, Now, After, CallOK, DeliveryOK, ConfiguredOK, SessionOK, Holding, Requests, Keeps, PageOK, Empty
  <2>5. After(k)
    BY <1>22, <2>2, <2>3, <2>4 DEF SetSessionCookie, In, Now, After, CallOK, DeliveryOK, ConfiguredOK, SessionOK, Holding, Requests, Keeps, Empty
  <2>6. Holding(k) => Holds(c) /\ call[c].req = k.req
    BY <1>22, <2>2 DEF SetSessionCookie, In, Holding, Holds
  <2> QED
    BY <2>1, <2>4, <2>5, <2>6, CallStep
<1>23. ASSUME NEW c \in Calls, InitRuntime(c) PROVE Inv'
  <2> DEFINE k == [call[c] EXCEPT !.at = "pair"]
  <2>1. Become(c, k)
    BY <1>23 DEF InitRuntime, Goto
  <2>2. /\ k.op = call[c].op
        /\ k.at = "pair"
        /\ k.req = call[c].req
        /\ k.ws = call[c].ws
        /\ k.base = call[c].base
        /\ k.loaded = call[c].loaded
    BY FieldTypes DEF Call
  <2> HIDE DEF k
  <2>3. Now(call[c]) /\ PageOK /\ call[c].req \in 0..MaxRequests
    BY FieldTypes
  <2>4. Keeps /\ PageOK'
    BY <1>23, <2>3 DEF InitRuntime, In, Now, After, CallOK, DeliveryOK, ConfiguredOK, SessionOK, Holding, Requests, Keeps, PageOK, Empty
  <2>5. After(k)
    BY <1>23, <2>2, <2>3, <2>4 DEF InitRuntime, In, Now, After, CallOK, DeliveryOK, ConfiguredOK, SessionOK, Holding, Requests, Keeps, Empty
  <2>6. Holding(k) => Holds(c) /\ call[c].req = k.req
    BY <1>23, <2>2 DEF InitRuntime, In, Holding, Holds
  <2> QED
    BY <2>1, <2>4, <2>5, <2>6, CallStep
<1>24. ASSUME NEW c \in Calls, LoadConfig(c) PROVE Inv'
  <2> DEFINE k == [call[c] EXCEPT !.at = "save", !.loaded = config.workspace]
  <2>1. Become(c, k)
    BY <1>24 DEF LoadConfig, Goto
  <2>2. /\ k.op = call[c].op
        /\ k.at = "save"
        /\ k.req = call[c].req
        /\ k.ws = call[c].ws
        /\ k.base = call[c].base
        /\ k.loaded = config.workspace
    BY FieldTypes DEF Call
  <2> HIDE DEF k
  <2>3. Now(call[c]) /\ PageOK /\ call[c].req \in 0..MaxRequests
    BY FieldTypes
  <2>4. Keeps /\ PageOK'
    BY <1>24, <2>3 DEF LoadConfig, In, Now, After, CallOK, DeliveryOK, ConfiguredOK, SessionOK, Holding, Requests, Keeps, PageOK, Empty, local
  <2>5. After(k)
    BY <1>24, <2>2, <2>3, <2>4 DEF LoadConfig, In, Now, After, CallOK, DeliveryOK, ConfiguredOK, SessionOK, Holding, Requests, Keeps, Empty, local
  <2>6. Holding(k) => Holds(c) /\ call[c].req = k.req
    BY <1>24, <2>2 DEF LoadConfig, In, Holding, Holds
  <2> QED
    BY <2>1, <2>4, <2>5, <2>6, CallStep
<1>25. ASSUME NEW c \in Calls, SaveCredential(c) PROVE Inv'
  <2> DEFINE k == [call[c] EXCEPT !.at = "patch", !.loaded = None]
  <2>1. Become(c, k)
    BY <1>25 DEF SaveCredential, Goto
  <2>2. /\ k.op = call[c].op
        /\ k.at = "patch"
        /\ k.req = call[c].req
        /\ k.ws = call[c].ws
        /\ k.base = call[c].base
        /\ k.loaded = None
    BY FieldTypes DEF Call
  <2> HIDE DEF k
  <2>3. Now(call[c]) /\ PageOK /\ call[c].req \in 0..MaxRequests
    BY FieldTypes
  <2>4. Keeps /\ PageOK'
    BY <1>25, <2>3 DEF SaveCredential, In, Now, After, CallOK, DeliveryOK, ConfiguredOK, SessionOK, Holding, Requests, Keeps, PageOK, Empty
  <2>5. After(k)
    BY <1>25, <2>2, <2>3, <2>4 DEF SaveCredential, In, Now, After, CallOK, DeliveryOK, ConfiguredOK, SessionOK, Holding, Requests, Keeps, Empty
  <2>6. Holding(k) => Holds(c) /\ call[c].req = k.req
    BY <1>25, <2>2 DEF SaveCredential, In, Holding, Holds
  <2> QED
    BY <2>1, <2>4, <2>5, <2>6, CallStep
<1>26. ASSUME NEW c \in Calls, Truncate(c) PROVE Inv'
  <2> DEFINE k == [call[c] EXCEPT !.at = "write"]
  <2>1. Become(c, k)
    BY <1>26 DEF Truncate, Goto
  <2>2. /\ k.op = call[c].op
        /\ k.at = "write"
        /\ k.req = call[c].req
        /\ k.ws = call[c].ws
        /\ k.base = call[c].base
        /\ k.loaded = call[c].loaded
    BY FieldTypes DEF Call
  <2> HIDE DEF k
  <2>3. Now(call[c]) /\ PageOK /\ call[c].req \in 0..MaxRequests
    BY FieldTypes
  <2>4. Keeps /\ PageOK'
    BY <1>26, <2>3 DEF Truncate, In, Now, After, CallOK, DeliveryOK, ConfiguredOK, SessionOK, Holding, Requests, Keeps, PageOK, Empty
  <2>5. After(k)
    BY <1>26, <2>2, <2>3, <2>4 DEF Truncate, In, Now, After, CallOK, DeliveryOK, ConfiguredOK, SessionOK, Holding, Requests, Keeps, Empty
  <2>6. Holding(k) => Holds(c) /\ call[c].req = k.req
    BY <1>26, <2>2 DEF Truncate, In, Holding, Holds
  <2> QED
    BY <2>1, <2>4, <2>5, <2>6, CallStep
<1>27. ASSUME NEW c \in Calls, Write(c) PROVE Inv'
  <2> DEFINE k == [call[c] EXCEPT !.at = "return", !.base = Empty]
  <2>1. Become(c, k)
    BY <1>27 DEF Write, Goto
  <2>2. /\ k.op = call[c].op
        /\ k.at = "return"
        /\ k.req = call[c].req
        /\ k.ws = call[c].ws
        /\ k.base = Empty
        /\ k.loaded = call[c].loaded
    BY FieldTypes DEF Call
  <2> HIDE DEF k
  <2>3. Now(call[c]) /\ PageOK /\ call[c].req \in 0..MaxRequests
    BY FieldTypes
  <2>4. Keeps /\ PageOK'
    BY <1>27, <2>3, PatchedIsSound DEF Write, In, Now, After, CallOK, DeliveryOK, ConfiguredOK, SessionOK, Holding, Requests, Keeps, PageOK, Empty
  <2>5. After(k)
    BY <1>27, <2>2, <2>3, <2>4, PatchedIsSound DEF Write, In, Now, After, CallOK, DeliveryOK, ConfiguredOK, SessionOK, Holding, Requests, Keeps, Empty
  <2>6. Holding(k) => Holds(c) /\ call[c].req = k.req
    BY <1>27, <2>2 DEF Write, In, Holding, Holds
  <2> QED
    BY <2>1, <2>4, <2>5, <2>6, CallStep
<1>28. ASSUME NEW c \in Calls, RequestAuthorization(c) PROVE Inv'
  <2>1. PICK r \in Requests : Become(c, [call[c] EXCEPT !.at = "patch", !.req = r])
    BY <1>28 DEF RequestAuthorization
  <2>2. Keeps /\ PageOK'
    BY <1>28 DEF TypeOK, RequestAuthorization, Keeps, Given, PageOK, local
  <2>3. After([call[c] EXCEPT !.at = "patch", !.req = r]) /\ ~Holding([call[c] EXCEPT !.at = "patch", !.req = r])
    BY <1>28, FieldTypes DEF TypeOK, RequestAuthorization, In, Now, After, CallOK, DeliveryOK, ConfiguredOK, SessionOK, Holding, Call, local
  <2> QED
    BY <2>1, <2>2, <2>3, CallStep
<1>29. ASSUME NEW c \in Calls, Deliver(c) PROVE Inv'
  <2>1. CASE request[call[c].req] = "completed"
    <3>1. Become(c, [call[c] EXCEPT !.at = "cookie"]) /\ Keeps /\ PageOK'
      BY <1>29, <2>1 DEF TypeOK, Deliver, Goto, Keeps, Given, PageOK, local
    <3>2. After([call[c] EXCEPT !.at = "cookie"])
      BY <1>29, <2>1, FieldTypes DEF TypeOK, Deliver, In, Now, After, CallOK, DeliveryOK, ConfiguredOK, SessionOK, Given, Call, local
    <3>3. ([call[c] EXCEPT !.at = "cookie"]).req = call[c].req /\ request[call[c].req] \notin Given
      BY <2>1, FieldTypes DEF Call, Given
    <3> QED
      BY <3>1, <3>2, <3>3, CallStep
  <2>2. CASE request[call[c].req] # "completed"
    BY <1>29, <2>2, FailureKeepsInv DEF Deliver
  <2> QED
    BY <2>1, <2>2
<1>30. ASSUME OpenWorkspace PROVE Inv'
  BY <1>30 DEF OpenWorkspace, PageOK, NewUi, Now, After, CallOK, DeliveryOK, ConfiguredOK, SessionOK, TokensDeliveredOnce, Holds, local
<1>31. ASSUME Quit PROVE Inv'
  <2>1. \A d \in Calls : call'[d] = Idle
    BY <1>31 DEF Quit
  <2>2. \A d \in Calls : Now(call[d])'
    BY <2>1 DEF Now, After, CallOK, DeliveryOK, ConfiguredOK, SessionOK, Holding, Idle, Empty
  <2>3. TokensDeliveredOnce'
    BY <2>1 DEF TokensDeliveredOnce, Holds, Idle
  <2> QED
    BY <1>31, <2>2, <2>3 DEF Quit, PageOK, NewUi, local
<1>32. ASSUME NEW r \in Requests, Approve(r) \/ Expire(r) PROVE Inv'
  <2>1. \A q \in Requests : request[q] \in Given => request'[q] \in Given
    BY <1>32 DEF TypeOK, Approve, Expire, Given
  <2> QED
    BY <1>32, <2>1 DEF Approve, Expire, PageOK, Now, After, CallOK, DeliveryOK, ConfiguredOK, SessionOK, TokensDeliveredOnce, Holds, local
<1>33. ASSUME UNCHANGED vars PROVE Inv'
  BY <1>33 DEF vars, PageOK, Now, After, CallOK, DeliveryOK, ConfiguredOK, SessionOK, TokensDeliveredOnce, Holds
<1> QED
  BY <1>1, <1>2, <1>3, <1>4, <1>5, <1>6, <1>7, <1>8, <1>9, <1>10, <1>11, <1>12, <1>13, <1>14, <1>15, <1>16, <1>17, <1>18, <1>19, <1>20, <1>21, <1>22, <1>23, <1>24, <1>25, <1>26, <1>27, <1>28, <1>29, <1>30, <1>31, <1>32, <1>33 DEF Next, User, Step

\* The invariant holds of every behaviour.
LEMMA InvHolds == Spec => []Inv
<1>1. Init => Inv
  BY DEF Init, Inv, TokensDeliveredOnce, Now, CallOK, DeliveryOK, ConfiguredOK, SessionOK, PageOK, PairedIsConfigured,
         ProjectHasSession, Holds, Holding, Idle, Empty, NewUi
<1> QED
  BY <1>1, TypeCorrect, InvStep, PTL DEF Spec

\* No two polls are given the token of one request, whatever their number.
THEOREM TokensAreDeliveredOnce == Spec => []TokensDeliveredOnce
<1>1. Inv => TokensDeliveredOnce
  BY DEF Inv
<1> QED
  BY <1>1, InvHolds, PTL

\* A paired folder has a configuration, over stale writes, crashes and restarts.
THEOREM PairedFoldersAreConfigured == Spec => []PairedIsConfigured
<1>1. Inv => PairedIsConfigured
  BY DEF Inv, PageOK
<1> QED
  BY <1>1, InvHolds, PTL

\* The project's page always has a session cookie.
THEOREM ProjectsHaveSessions == Spec => []ProjectHasSession
<1>1. Inv => ProjectHasSession
  BY DEF Inv, PageOK
<1> QED
  BY <1>1, InvHolds, PTL
=============================================================================
