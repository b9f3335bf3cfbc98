# Verification of the agent room

TLA+ models of the parts of this repository that keep state which several
requests, processes, windows or devices change at the same time (backend, local
runtime, desktop application and the web frontend's chat), the TLC runs that
check them on small instances, and theorems about them that TLAPS checks for
every value of the constants. Paths below are relative to the root of the repository
(`src/src/queueing/worker.py` in the map is the backend's worker, which the text calls `queueing/worker.py`).

1. [The system](#1-the-system)
2. [Modules and the code they model](#2-modules-and-the-code-they-model)
3. [The runs](#3-the-runs)
4. [Fairness](#4-fairness)
5. [What is proved](#5-what-is-proved)
6. [Where code and documentation disagree](#6-where-code-and-documentation-disagree)
7. [What is abstracted, and what is not modelled](#7-what-is-abstracted-and-what-is-not-modelled)
8. [Plan](#8-plan)

## 1. The system

A FastAPI server keeps everything durable in one SQLite database, delivers runs
through Redis or an in-process queue, talks to models through OmniRoute, and is
polled by *local runtimes*, one per paired device, that execute jobs in a local
workspace. Browsers read a run's timeline as an SSE stream. A desktop application
(Electron) signs its user in through the browser, sets the local runtime up and then
shows the web frontend in its window.

Three facts about the code shape every model. Handlers are coroutines: between two
awaits any other one may run, and another process may work on the same database.
Every store method opens its own `sqlite3` connection, whose transaction
starts at its first *write*: a method that writes first is atomic, a method that
reads first decides on what may no longer be so. And in the JavaScript parts one
function runs to its next await undisturbed, but nothing keeps a second click or
timer tick from starting another before the first has had its answer.

| Component | State | Operations that change it | Interacts with | Hard behaviour | Correct means |
|---|---|---|---|---|---|
| Run lifecycle (`queueing/worker.py`, `run_queue.py`, `storage/run_store.py`) | `runs` rows: status, attempt_count, lease; the queue; where `serve()` stands | recover, dequeue, claim, renew, complete, release for retry | request handlers write the same rows | crash at any await, leases that run out, redelivery, calls that raise | attempts bounded, no run lost, none executed twice or revived after its end |
| Run endpoints (`api/routes.py`, `api/websocket.py`) | the run a handler executes inline | create run, first events, agent, outcome | the worker's recovery sees their rows | a handler that dies with its process; a row without a lease | as above |
| Event log and stream (`run_store.append_events`, `events/broker.py`, `routes.stream_run_events`, `useChat.ts`) | `run_events`, subscriptions, each generator's cursor | append, publish, fetch, send, wait, resume | writers of other processes publish to nobody here | lost wakeups, lost connections, the end of a run between two appends | a client has an unbroken prefix of the log and catches up |
| Policy engine (`policy/engine.py`) | none | `decide` | tool gateway | rules in the right order | hard deny is final |
| Tool gateway and approvals (`tools/gateway.py`, `routes.py`) | `approvals` rows, grants read by a call | invoke, resolve, execute | policy engine, event log | overlapping decisions, stale grants, a failure between approval and execution | executions and grants go back to approvals |
| Device jobs relay (`workspace/store.py`, `agent_room_runtime/`) | `device_jobs` rows with leases and expiries; the device's outbox of results | create, approve, sweep, claim, complete; execute, store | carried by sync requests | lost answers, overlapping syncs, late results, a device that stops | only approved jobs run, a result is accepted once and in time, jobs end |
| Project event log and device sync (same files) | `project_events`, `project_entity_revisions`; the device's outbox, cursor, received events | record, push, judge, pull, acknowledge | workspace tasks and notes record events | lost answers, pages, conflicts, unlocked read of a revision, an event that raises | no event doubled or skipped, conflicts explicit |
| Orchestrator graph (`orchestrator/`) | the state handed from node to node | planner, executor, reviewer, the clarification task | run lifecycle, event log | models that fail, a revision cycle | one outcome per run |
| Model routing (`omniroute/router.py`) | none between calls | fallback over an ordered list | orchestrator | errors that end the list and errors that go on | the first usable answer, or one error |
| Authentication and sessions (`auth/store.py`, `auth/github.py`, `routes.py`) | OAuth states, desktop requests, users, credentials, members, sessions | begin, call back, exchange, store, complete, claim, revoke | GitHub; the desktop application claims what the browser completed | two callbacks or claims at once, ten minutes that run out between two steps, a restart halfway | a session goes once, to the right user, to where the sign-in began |
| Pairing (`workspace/store.py`) | pairings, devices | create, consume | owners; sync requests | two registrations at once | a device goes back to an owner's pairing |
| Desktop application (`desktop/main.mjs`, `desktop/renderer/app.mjs`) | the encrypted state file, the runtime's configuration, the window's cookie, panel, buttons and poll timer of the setup page | authorize, poll, claim, choose, clone, install and pair, repair, start, quit | authorization requests of the cloud; the runtime's commands | handlers overlap, each reads, patches and rewrites one file; a file is truncated before it is written; a quit at any await | the setup page can always go on, a paired folder has a configuration |
| Web chat (`hooks/useChat.ts`, `Chat.tsx`, `ApprovalCards.tsx`) | messages, current run, timeline, approval cards, the EventSource, requests under way | send, stream, poll, decide, capture | run endpoints, event stream, approvals | answers out of order, handlers that keep an old run, a reconnection across runs | one stream, a timeline and an answer of its run, a chat that stops waiting |
| Workspace tasks, notes, markers | their rows, with an event recorded in a second call | create, update, archive | project event log | rows and events written in different orders | the last event tells what the row says |
| Runtime updater (`updates.py`) | staged release, installed release | download, verify, stage, install | file system | a stop between two steps | only verified releases are installed |
| Workspace hook (`hooks/useWorkspace.ts`) | a snapshot, the selected module | refresh, create, update | workspace endpoints | overlapping refreshes answered out of order | the last answer shown is no older than the last change |
| Repository index, memory, Serena, observability, the frontends' pages and components, installers | none that several actors change, or none at all | | | I/O | |

The hazards of this code, each at its line, with the properties that cover it or
the reason why none does, are listed in `PROJECT.json`.

## 2. Modules and the code they model

`PROJECT.json` (`map`) names for every definition the lines it translates. An
action is one awaited call, or one transaction where a store method has several.
Each module has a section of properties; what a definition named `Mutant:` above
its text is for is said at the end of section 3.

**RunLifecycle** — `status`, `attempt`, `lease` are the columns of the runs
table; `lease` is `null`, `live` or `expired`, so that time is an action
(`LeaseExpires`) and no clock. `queue` is Redis' list or the fallback queue
(`Durable`). `pc[p]`, `job[p]`, `rows[p]` say at which await the `serve()` task
of process `p` stands, which job it has in hand, and what a recovery has read.
`recover_runs` reads and then writes by id, so it is `RecoverSelect`, `RecoverApply`
and, for each row, `RecoverNotify`; `release_for_retry` is `Release` and
`ReleaseWrite`; `claim_run`, one conditional UPDATE, is `Claim`. `dead` is a
`serve()` task that an exception ended while its process goes on answering. The
three endpoints that execute a run in the request are `Submit` and
`HandlerBegin`, `HandlerWork`, `HandlerEnd`, with the order of write and announcement each
of them has (`Writes`). `Stop` and `Fault` are the process stops and the calls
that raise, possible at every await.

**RunContract** is what queue, table and worker promise of a run together: it
waits or is executed, an execution gives it back or ends it, at most `Limit` executions,
only the last of them may fail it, and what is over stays over.
**RunRefinement** maps `queued` to waiting, `running` to executing and
`attempt_count` to `tries`, and states `KeepsContract`.

**EventStream** — one run that `POST /v1/runs` executes in the background
(`execute_project_clarification_run`), tool calls that append to its log at the
same time, and the clients of its stream. `append_events` reads `MAX(sequence)`
before its INSERT starts a transaction: `ReadMax`, `Insert`, and the UNIQUE
constraint raises in the loser, whose program continues as its `try` block says
(`AfterError`). The generator is `Connect` (subscribe, then), `Fetch`, `Send`, `Check`,
`Wake`. `Readers` read the text of the response as the repository's test does;
`Browsers` are `EventSource`s.

**PolicyEngine** — `decide()` as an operator; **Approvals** — `invoke`
(`ReadGrants`, `Decided`, `CreateApproval`, `AskForApproval`), the decision
endpoint with `resolve` (`CheckPending`, `SelectApproval`, `UpdateApproval`,
`Tell`) and `_execute`. Several decisions on one approval may overlap.

**DeviceJobs** — the table with its sweep (`Swept`), with which every store
method begins; the browser's requests; `sync_device` as `HandleResults`, then
`HandleJobs`, then the answer; the runtime's `sync_once` (`Begin`, `Answer`, `Execute`);
and what may be lost (`GiveUp`, `HandlerStops`, `RuntimeStops`). A request the
runtime has given up is still handled while the next one is under way.

**JobContract** is what the relay promises of a job: it is lent only after it was granted, each time
under the next number; it is executed only under numbers that were lent; it is settled once, while it is lent, by an
execution under the last number; and what is over stays over. **JobRefinement** maps `status` to
asked, waiting, lent and the four ends, `given` to the numbers used, `ran` and `resultOf` to what was executed and
settled, and states `KeepsJobContract`. One transaction may move several jobs, since each begins with the sweep.

**EventSync** — `record_cloud_event` in its two steps; the transaction of a sync request, which its first
write opens (`Open`), which judges the request's events one by one on what it has written so far (`JudgeNext`)
and ends with the page and the cursor of the answer (`Commit`); and the device, which acknowledges
and applies in two transactions. `draft` is what the open transaction has written: nobody else reads it,
nobody else writes while `writer` is set, and a handler that stops leaves nothing of it. Requests that
overlap are under way at the same time, and one waits for the other's transaction. An event is taken (`Accept`,
`Repeat`), is a conflict because its revision is not the entity's or because its projection refuses it (`Refuses`: `LookupError`, `ValueError`),
or raises (`Raises`): what creates a row that is there gets `sqlite3.IntegrityError` from its INSERT, which nothing between there
and the route catches, so that `Fail` rolls the request back and ends it. `rows` says which entities have their row; `MakeRow` is
the row a cloud request makes, in a transaction before that of its event.

**LogContract** is what the log promises a device: it only grows; what is taken from a device is taken in one piece, each event once
and on the last revision of its entity; the device learns only of events that are there, and reads on from its cursor a page
at a time. **LogRefinement** maps `acknowledged` to what is settled and `received` to what was read, and states
`KeepsLogContract`: opening, judging and rolling back are stuttering steps, a commit is `Take`.

**SignIn** — the tables of `auth/store.py` with the code each attempt gets from
GitHub. The callback endpoint is `LookUpRequest`, which reads the desktop request
before the OAuth state is used up, `SelectState` and `DeleteState` (`consume_oauth_state`
reads before it deletes), `Exchange`, `UpsertUser`/`InsertUser`/`SaveCredential`,
`EnsureProject`/`CreateProject`, `SelectMembers`/`InsertOwner`, and `FinishDesktop`
or `FinishBrowser`, by what the first step saw. A claim is `SelectRequest` and
`Deliver`. Pairing is `Pair`, `SelectPairing`, `InsertDevice`. Every SELECT outside
the transaction of the write it decides about is a step, any two
calls may overlap, and `Restart` cuts every call short.

**Desktop** — `disk` and `file` are `desktop-secrets.bin`: whole, truncated by a
write that is under way, or two writes mixed. `call[c]` is an IPC handler or timer
tick with the await it stands at; `patchState` is `ReadForPatch`, `Truncate`, `Write`.
`ui` is the setup page: which panel, which enabled buttons, whether its poll timer
runs, and whether an older timer leaked. `request` is the cloud's row of an authorization,
as far as the desktop sees it (SignIn has the detail). `Raise` is a handler that is rejected, and
`AfterError` what the page's catch block of that call does; a page answers only while it
is still the setup page (`Show`). `Quit` ends the process at any await, `Launch` starts it.

**ChatClient** — what `useChat` keeps, the server's runs and approvals as far as it sees them, and the
requests under way. `PostProject` records the run that was current when the message
was sent in the source's `label`, as the closure of its handlers does. `AppendEvent` is
`appendEvent` with its duplicate check by number, its window and the close at the end of
the run; `Connect`, `Disconnect`, `Refuse` are what an EventSource does by itself; `Poll`, `ListPending`,
`RefreshApprovals`, `Decide`, `Decided` the requests about approvals, of which
several may be under way.

**MC…** modules add symmetry sets where they are sound (safety runs only).
**…Proofs** modules hold the theorems.

## 3. The runs

`tlc -config <run>.cfg <module>` in this directory runs one of them.

| Run | Module | Expected | States | What it shows |
|---|---|---|---|---|
| `lifecycle_safety` | MCRunLifecycle | pass | 2 372 823 | leases, attempts, failures and deliveries stay consistent with one restart, one raising call and one stalled lease anywhere |
| `lifecycle_liveness` | MCRunLifecycle | pass | 174 577 | every run left queued ends, over two restarts of the in-process queue; worker and table implement RunContract |
| `stream_readers` | MCEventStream | pass | 113 694 | the log has no hole, a reader misses and repeats nothing and catches up |
| `stream_browser` | MCEventStream | violation | | an EventSource dispatches no event of the stream |
| `approvals` | MCApprovals | pass | 2 412 998 | executions and grants go back to approving decisions; approved actions are carried out unless a call raises or the process stops |
| `approvals_overlap` | MCApprovals | violation | | a denial and an approval that overlap: denied and executed |
| `device_jobs` | MCDeviceJobs | pass | 310 858 | each lease is delivered once, results are not dropped before they are settled, the relay implements JobContract, every job ends |
| `device_jobs_released` | MCDeviceJobs | violation | | the result of a second lease is dropped by the outbox |
| `event_sync` | MCEventSync | pass | 709 676 | no event skipped, conflicts explicit, log and device implement LogContract, events settled or held by a conflict, by older conflicts or by an event that raises |
| `desktop` | MCDesktop | pass | 1 484 249 | the setup page has a way on, paired folders are configured, waiting for the browser ends, over overlapping calls, failures and quits |
| `chat_client` | MCChatClient | pass | 297 338 | one stream, a timeline and captures of their run, waiting and stale cards end, with one failure anywhere |
| `sign_in` | MCSignIn | pass | 1 328 147 | sessions go where the sign-in began, once, to the right user, who is set up; devices go back to owners |

### Bounds, and why they are enough

* **lifecycle_safety**: two orphans and one request of any of the three endpoints,
  `MaxAttempts = 2`. Properties speak of one run, or of one run in a worker's hands
  while another waits; two orphans give a recovery several rows and the queue several
  deliveries of one run; two attempts are the least with both a retry and an exhausted
  run. One stop, one fault and one stall may each fall on any await, which includes the
  stop or the fault of a recovery from an earlier one. `Durable = TRUE` keeps deliveries over
  the restart, and so has duplicates. `MaxAttempts`, `Batch`, and the three `Max…`
  are the only bounds; the queue needs none, since each delivery in it takes a
  claim, a release or a recovery.
* **lifecycle_liveness**: the fallback queue, which a restart empties, so that only
  the recovery at the start delivers again; two restarts, one of them during that
  recovery. No faults: an append that raises outside the `try` block ends `serve()`
  for good, and nothing is promised until the process is restarted.
* **stream_readers**: the task's four events, a tool call in another process, one
  reader that loses its connection twice. Clients share nothing but the log, so one is
  enough for what a client observes. The tool call can overtake each of the task's appends or lose
  to it; its event is the one no notification announces.
* **approvals**: two calls on two runs (grants must not cross), two decisions, so
  that they overlap on one approval or each resolve their own; a tool that is
  read-only, one that edits and one that is denied; two modes, one that asks and one that allows edits.
* **device_jobs**: two jobs but one per delivery, two requests, so that one that was given up is
  handled beside the next; two leases per job, the least with a late result of an
  older lease; `MaxLeases` is the one bound the code does not have, and a job at the bound waits for its expiry.
* **event_sync**: all events on one entity, since entities are independent; a
  cloud event and two of the device; `PageLimit = PendingLimit = 2` stand for 500 and
  100: three events overfill a page, and two device events are judged in one transaction, of which the second
  sees what the first has written, a row it made included. One loss: a request given up is still handled beside the next, and every
  message, handler and answer can be the one that is lost; an event that raises is no loss and ends requests as often as it is sent.
  What the safety theorems say holds for any number of events and losses and for both limits.
* **desktop**: two calls, the least that overlap: two polls, a poll and an
  install, a clone and an install, two writes of the file. Two authorization requests, so
  that one can replace another in the file, and two starts, so that what a quit left behind
  is read. One folder: paths are compared only for equality, and `None` is the other value.
* **chat_client**: two messages, so that everything of the first run can arrive during the second;
  two requests about approvals, so that polls overtake each other and a decision; one approval
  per run. `MaxSteps = 1` counts `run.created`, so the second event of a run ends it, and `Window = 1`,
  which stands for 40, drops the first. What the run adds to the theorems, which hold for runs and windows
  of any length, is liveness; its safety properties were also checked with `MaxSteps = Window = 2` (1 551 724 states).
  `Framed = TRUE` is a server that ends its lines: with the server as it is, a project run
  waits for ever, which is what `stream_browser` shows of the server.
* **sign_in**: two attempts, of either kind, with two accounts, callbacks, claims, registrations: every
  pair that can race for a row. One pairing, since pairings share nothing. No bound but
  the sets: each call is made once.

Symmetry is declared in the safety runs without fairness only (`lifecycle_safety`,
`approvals`, `sign_in`). `CHECK_DEADLOCK FALSE` is set where requests come to an
end and nothing is left to do: `lifecycle_safety`, whose process may be stopped for good
in `dead`, the two runs of Approvals, `desktop` (no starts left), `chat_client` (no messages
left) and `sign_in` (every call made).

### Mutants

Every property of a passing run has a mutant of the code that breaks it: a
definition marked *Mutant* in the module, with a dropped guard, a
missing reset or an off-by-one, put in the place of the definition after it. They
are never part of a specification; they show that a property can fail.

## 4. Fairness

* **RunLifecycle**: the platform restarts a stopped process (`railway.toml`:
  on failure, three times, one more than the bound on stops), coroutines that can run do, leases run out. The loop in
  `serve()` comes back to its head with a timeout on each dequeue, and recovers whenever
  the interval has passed: both a recovery and a dequeue are possible again and again although each
  disables the other for a while, hence strong fairness of `PeriodicRecover` and `Dequeue`. Nothing is assumed of
  `Submit`, `Stop`, `Heartbeat`, `Disconnect` or of a call that raises.
* **EventStream**: writers and generators are coroutines that are scheduled;
  `wait_for(…, 15)` passes; bytes arrive; clients whose stream ended or broke come back,
  as an EventSource does. Nothing is assumed of `Drop`.
* **DeviceJobs**: `sync_forever` goes on, handlers return, every `expires_at` passes.
  Nothing is assumed of the browser, who may never approve, nor of `LeaseRunsOut`.
* **EventSync**: the runtime goes on syncing, as `sync_forever` does after an error too, and handlers return or raise. Nothing is assumed of new events.
  `PendingIsSettled` says `[]Held(e)` and not `Held(e)`: an event that is held for a while is settled in the end, and one that never is must be held at every moment.
* **Desktop**: the page's interval ticks (`Tick`), a call that was made goes on or is
  rejected (`Step`), and a request nobody approves or claims runs out (`Expire`, its
  `expires_at`). Nothing is assumed of the user, of `Raise`, or of the approval in the browser.
  `AuthorizationSettles` needs no fairness for one particular call: as long as a timer runs, polls are made.
* **ChatClient**: the POST is answered or fails, an EventSource connects and dispatches what
  there is, requests about approvals are answered. `Poll` is strongly fair: the interval ticks again and again while a
  run is awaited, and only the bound on requests, which is not the code's, disables it for a while. Nothing
  is assumed of the user, nor that a run ends; `LoadingEnds` promises an end of waiting only for one that does.

Approvals has no liveness: a user may never decide. SignIn has none either: a user may
never come back from GitHub.

## 5. What is proved

TLAPS checks eight modules of proofs. The theorems hold for any
sets of processes, runs, calls, devices and so on, and any values of the limits and bounds that satisfy
the named assumptions of the modules; those a theorem adds are in its table row. In each of them
the property alone is not inductive: code that reads in one step and writes in a
later one needs an invariant that says what is still known of a value when it is used.

**RunLifecycleProofs**

| Theorem | States | Assumes | Argument |
|---|---|---|---|
| `TypeCorrect` | `[]TypeOK` | | inductive; one lemma per group of actions |
| `LeasesAreHeldByRunningRuns` | `[]LeaseOnlyWhenRunning` | | inductive with TypeOK: `Write` clears the lease whenever it writes something else than running (`WriteKeepsLeases`) |
| `FailedRunsAreExhausted` | `[]FailedMeansExhausted` | | `ExhaustionInv` adds that a worker at `bury` has read a count that is used up and that the count a recovery read is at most the row's; counts only grow (`AttemptsGrow`), so what was read stays true however late it is acted upon |
| `AttemptsAreBounded` | `[]AttemptsBounded` | one process | `AttemptsInv` adds that a run that waits has an attempt left, that a recovery's rows are still current, and that a requeue is decided on such a run |
| `ExecutedRunsAreLeased` | `[]ExecutedRunIsLeased` | one process | `CustodyInv`: orphans have no handler, the held run is running, so is one about to be given back, what a recovery read is current, the held run is leased unless a lease stalled. That only a running row is leased, so that no late heartbeat leases a run that was given back or is over, is `LeasesAreHeldByRunningRuns`; `OnlyTheWorkerWrites` names the four actions that can change an orphan's row |
| `FinishedRunsStayFinished` | `FinishedStaysFinished` | one process | from `CustodyInv`: each of those four actions finds the run queued or running |
| `QueuedRunsAreDelivered` | `[]QueuedHasDelivery` | one process, a recovery batch that takes every run | `DeliveryInv`: a queued run has a handler that will still write it, or a delivery, or the recovery has it in hand; a run given up is over. The batch bounds the set a recovery picks (`FiniteSetTheorems`) |
| `WorkerKeepsContract` | `KeepsContract` | one process, no raising call | `InitContract`, `NextContract`: every step is a step of RunContract or a stutter, by custody and attempts |

With two processes `AttemptsBounded`, `ExecutedRunIsLeased`, `FinishedStaysFinished` and the contract are
false (a recovery may write what another process has changed since); the first three theorems hold for any number.

**ApprovalsProofs** — `TypeCorrect`, `HardDenyIsNeverOverridden` (no mode, grant or
approval lets a denied action through), `ExecutedCallsAreAuthorised`,
`GrantsAreFromApprovals` and `ApprovedCallsAreCarriedOut`, for any number of calls, overlapping
decisions, faults and restarts. They rest on one invariant: `TypeOK`; a call past `policy` is
where its outcome allows it to be and has an approval only if the policy asked (`CallsOK`); a decision past
`new` is about a call that was asked about (`DecisionsOK`); an approved row has a verdict and a scope
that some decision brought (`ScopesOK`); and the properties themselves. `ScopesOK` is what
overlapping decisions make necessary: status and scope of a row are those of
*one* decision, the last that wrote, since one UPDATE sets both.

`SerialDecisionsAreFinal` is the converse of the run `approvals_overlap` (section 6, item 2): in every behaviour in which no two decisions of one
approval are between the SELECT and the UPDATE of `resolve_approval` at a time (`OneAtATime`), a denial the timeline tells
was not and will not be executed, and nothing is executed twice. So the overlap is the whole of the disagreement; calls that raise,
restarts and decisions that begin later add nothing. Its invariant: a decision that waits for its write finds the row pending, one that has written
finds its own verdict, and is the only one (`SerialOK`); a call is executed at most once, and what is announced is what the row says (`OnceOK`).

**EventStreamProofs** — `TypeCorrect`, `LogStaysNumbered` (sequence numbers are 1, 2, … without a hole,
although two writers read the same maximum), `LogGrowsAtItsEnd` (no step changes, removes or inserts an event), `OutcomesAreToldTruly`
(`TimelineIsTrue`: an outcome in the log is the status of the run, there are never both, and the task appends nothing after it),
`ClientsReceiveInOrder`, `NoWakeupIsLost`. `OutcomesAreToldTruly` is not obvious because the status is written first and may be written
again: a run whose `run.completed` cannot be appended becomes failed. Its invariant ties the outcome to where the task stands (`OutcomeOK`). For the readers, the invariant says that
what a reader received, what is on the wire and what the generator has yet to send
from its batch are one beginning of the log (`ReadersAreInOrder`, `BatchesAreOfLog`), that cursors never pass the log, and
that a generator that waits without a notification has the whole log of its process
(`GeneratorsKnowTheLog`): an append that is not yet published is the exception it names.

**DeviceJobsProofs** — `TypeCorrect`; `DeliveriesHappenOnce`; `OnlyApprovedJobsRun`; `ResultsAreAcceptedInTime`;
`AcknowledgedResultsAreSettled`; `TerminalJobsStay`; `RelayKeepsContract`; `FirstResultsAreStored`; and `CustodyHolds`, the invariant most of them share: every lease
a message, a runtime or an outbox row names was given (`LeasesAreGiven`), every result in the
outbox is of an execution and every result a request carries is in the outbox
(`OutboxIsOfRuns`, `CarriedIsInOutbox`), a result of a job that is over is final, and one a request has handled is
settled. `JobsMove` lists how one step may change a job's row; that jobs that are over stay so follows from it alone.
`RelayKeepsContract` is the refinement of JobContract: `OneContract` says that what a step does to one job is a step of the contract or
none, and `NextContract` puts the jobs together; that an execution is under a number that was lent, and not executed before, is
`LeasesAreGiven` and `DeliveriesAreNew`. `FirstResultsAreStored` bounds what `device_jobs_released` shows: unless something was lost, an executed job has a
result of one of its executions in the outbox, and while its first lease lasts it is that lease's.

**EventSyncProofs** — `TypeCorrect`; `NothingIsSkipped` (`ReceivedUpToCursor`); `DeviceConflictsAreExplicit`; `AcknowledgedEventsAreInTheLog`;
`LogIsAppendOnly`; `RevisionsAreOfTheLastEvents` (the revision table has, of each entity, the revision of its last event);
`CloudKeepsLogContract`. Three invariants, each on the one before. `TypeOK` needs `DraftBegins`: the open transaction has the log and writes behind it, because it
locks every other writer out. `SyncInv` says that the log *and* the draft have each device event once and no device event on a base it does not
include (`LogOK`, `DraftOK`), that what any answer under way accepts is in the log (`KnownOK`), and that the request that is waited for has the
device's cursor, and its answer the page after it (`CursorOK`), which is what an answer given up and overtaken does not have. `TakenOK`
adds that both tables agree and that what the draft adds are events as LogContract takes them. A request is judged event by event, so
that each fact is about one step (`JudgeKeepsTaken`) and no induction over a request is needed.

**DesktopProofs** — `TypeCorrect`; `SetupHasAWayOn` (`NoDeadEnd`); `PairedFoldersAreConfigured`; `TokensAreDeliveredOnce`, for
any number of overlapping polls; `ProjectsHaveSessions`. `NoDeadEnd` is preserved by each action alone: whoever
disables a button or stops a timer holds the call that is the way on, and only its end, which shows a panel or
enables the button, takes it away. The others need what a call knows at each await: a delivered request is delivered
only once (`DeliveryOK`), a handler that will write `paired` has seen or written a configuration (`ConfiguredOK`), a session
that was read is set in the window (`SessionOK`).

**ChatClientProofs** — `TypeCorrect`; `StreamsAreClosed` (`OneStream`); `TimelinesAreOfTheirRun`; `CapturesAreOfTheirRun`. An open stream has
dispatched exactly what is shown, or more than the window holds (`ShownIsDispatched`), which makes the duplicate check by number
sound across reconnections. That an answer labelled with the run *before* its own is never taken for that run's is due to order:
a label is at most the run it is about, which is at most the current run (`SaidInOrder`), so the last message with the current
label is of the current run (`LastPlace`).

**SignInProofs** — `TypeCorrect`; `DesktopSignInsStay`; `RequestsAreClaimedOnce`; `SessionsGoBackToTheirUser`;
`SignedInUsersAreSetUp`; `DevicesAreOfOwners`. A callback of a desktop attempt saw its request, or its ten minutes are over
and the state it is about to use up is refused (`CallsSeeTheRequest`, `RowsOfAttempts`); each stage of a callback implies what is stored by then (`CallsHaveStored`);
a claim's copy of a row is still the row's user, if the row still exists (`ClaimsReadTheirRequest`). `RevokedStaysRevoked` is an action property: a session
is the last thing its callback or claim does (`SessionsAreLast`), so nothing that is still under way can give it again. `CodesSignInOnce` is why two
callbacks that pass with one state row (section 6) do not make two sessions of one account's code: a callback comes to use a code only
by exchanging it (`UseBegins`), and GitHub exchanges it once.

**Only model-checked**: liveness (`OrphansFinish`, `ReadersCatchUp`, `JobsEnd`, `PendingIsSettled`, `AuthorizationSettles`, `LoadingEnds`, `CardsFollow`),
which is out of the prover's reach, as is ENABLED. Every invariant and every refinement a passing run checks is also a theorem. The
converse does not hold: `AttemptsBounded`, `FinishedStaysFinished`, `HardDenyIsFinal`, `TokensDeliveredOnce`,
`ProjectHasSession`, `AcceptedInTime`, `OnlyApprovedRun`, `TerminalIsFinal`, `AcknowledgedIsInLog` and `LogIsNumbered` are proved and no longer part of a run, and
`TablesAgree`, `TimelineIsTrue` and the theorems that state their formula themselves never were.

## 6. Where code and documentation disagree

Three runs find a statement of the repository's documents, comments or tests violated by
what the code does. `PROJECT.json` (`findings`) quotes each statement.

1. **stream_browser**: frames end in a literal backslash-n; a test that looks for
   substrings passes, an EventSource never dispatches. `chat_client` is checked against a server that ends its lines; against the server
   as it is (`Framed = FALSE`) the chat waits for a project run for ever.
2. **approvals_overlap**: both decisions pass the pending check, the timeline tells
   "denied", and the action is executed.
3. **device_jobs_released**: the outbox has one result per job for good; a job that
   is leased again can no longer complete and is executed once per lease.

The runs are kept to distinct questions of the system. The following were found with the modules and can be
reproduced by checking the named definition with the constants given:

4. `OneExecutor` with the constants of `lifecycle_safety.cfg` and `Doors = {"ws"}`: the socket creates its run `running` with no lease (`src/api/websocket.py:28`); recovery
   reads that as abandoned, queues it, and the worker executes it beside the socket. The worker's docstring (`src/queueing/worker.py:18`) promises no second execution.
5. `OrphansFinish` with the constants of `lifecycle_liveness.cfg` and `Batch = 1`: only the recovery at a start lists queued runs, and at most
   `worker_recovery_batch_size` of them (`worker.py:106`); the rest wait for a start that may not come.
   `QueuedRunsAreDelivered` is proved for a batch that takes them all.
6. `NothingIsOverwritten` with the constants of `event_sync.cfg`: a cloud event reads the revision of its entity
   (`src/workspace/store.py:1362`) before a device event takes the next one and writes after it, so it silently replaces that event;
   two cloud events do the same to each other. Events of a device never do (`DeviceConflictsAreExplicit`).
7. `PairedIsRegistered` with `Calls = {c1}`, `MaxRequests = 1`, `MaxStarts = 2`: a quit between `init` and `register` leaves a configuration
   without a credential, and the next start takes it for "proof of completed setup" (`desktop/main.mjs:325-328`)
   and opens the project. So does a clone that finishes while an install is under way: its folder was never paired.
8. `CapturedIsAnswer` with the constants of `chat_client.cfg`: the answer that comes through the stream carries the label of the run before (`useChat.ts:111`, `:117`), so
   what "Save decision" finds for the current run is the placeholder, not the answer (`BETA_ACCEPTANCE.md:16`).
9. `PushedIsAnswered` with the constants of `event_sync.cfg`: an event that creates a note, task or marker whose row is
   there, on the entity's current revision (`src/workspace/store.py:1270`, `:1282`, `:1299`), raises `IntegrityError`, and line 1334 catches `LookupError` and `ValueError` only. The
   request is rolled back and answers 500; the runtime keeps its outbox and sends the same batch for ever. Neither the events beside it nor any
   page or job reach their end, while `docs/adr/006-hybrid-local-first-runtime.md:25` has the runtime receive "accepted/conflict results". The promise
   of `device_jobs` that jobs end therefore holds for a device whose requests no such event ends.

Seen while modelling, without a definition of their own:

* Runs: with two processes on one database a recovery can
  take back a run that another process has claimed since it was read (the theorems that say "one
  process"); jobs put in the in-process fallback are never read once `initialize()` finds Redis (`run_queue.py:59`).
* Devices: a result the runtime cut to 24000 characters is longer than that with its
  envelope, and refused; an answer carries 500 events and the cursor of the end of the log, so a device that
  missed more never gets the rest; a hundred conflicts at the head of the device's outbox keep everything behind them
  from being sent; two registrations that overlap make two devices of one pairing (`workspace/store.py:1218`).
* Sign-in: two callbacks that overlap can both pass with one OAuth state row; of two first users who sign in at
  once both may become owner of the default project.
* Desktop: a state file that a quit left truncated keeps the application from
  starting (`main.mjs:37`); a desktop whose session has ended cannot sign in again, since each start opens the paired
  project at once, while the chat's message says to reconnect from the setup screen (`useChat.ts:160`); a repair starts a second `serve`
  (`main.mjs:261`); a second authorization leaks the first one's interval (`app.mjs:173`); of two polls that overlap the second claim
  fails and shows the intro although the first has connected.
* Chat: a decision on a card of an older run is sent to the current run and gets 404; `decideApproval` clears an error
  that told of something else.

## 7. What is abstracted, and what is not modelled

* Time is the steps that let a lease, a job, a request or a session run out. A lease outlasts several
  heartbeats, so under a live worker its end is a stall, which is bounded.
* `run_agent` and `run_project_clarification` are one step and one sequence of events;
  the nodes between them keep no state that anyone else reads.
* A tool, a job on the device, `git`, `init`, `register` are one step each, which may fail. What they do to files is
  not modelled; that a job may be executed twice is (`ran`).
* Payloads are the data properties tell apart: a path is plain or secret, a result
  fits or was cut, a projection makes a row, changes one, leaves all alone or is not valid, a session is named by where it came from.
* One runtime process per device: `sync_forever` sends one request after the other. (Nothing in the
  code keeps a second process from being started on the same outbox; that is not modelled.)
* EventSync has one row per entity, not one per table (an entity that is a note is no task), and not what the row says. The rows of markers that
  indexing a repository deletes with their modules are left out.
* `RunLifecycle` has the kind of queue as a constant: the switch from the fallback
  to Redis during a process is not an action.
* ChatClient: the chat is part of the root component, so it is never unmounted; React applies the state updates of one handler together.
* Desktop: one instance of the application per profile (it takes no lock against a second one; two are not modelled); the installer, Serena and Graphiti
  are part of the step that may fail. A write that stops halfway leaves a file that cannot be decrypted (`truncated`).
* SignIn: roles below owner, and the projects users create, are left out; no endpoint revokes a device, so no action does.

Not modelled:

* **The frontends' pages.** By far most of the JavaScript and TypeScript of the repository has no logic of
  this project: `components/ui/*.tsx` (some 12 400 of 16 800 lines) is a component library, kept in two identical copies
  under `frontend/client/src` and `frontend/src`; `debug-collector.js` is a script no page loads; `frontend/src` is an
  older build of the client's pages. What is left renders, apart from the two hooks. `useChat` is modelled; `useWorkspace` is in the
  plan: a refresh replaces the snapshot by what it read, and overlapping ones are not ordered.
* **Observability, memory adapters, Serena, installers**: pass-through or counters, no state that steps of several actors change.
* **Repository index and local workspaces**: file system and Git input.
* **Workspace tasks, model routing, runtime updater, the orchestrator's nodes**: in the plan.

## 8. Plan

Done, in this order because each rests on the one before: RunLifecycle, RunContract and their refinement; EventStream;
PolicyEngine and Approvals; DeviceJobs; EventSync; SignIn; Desktop, which sees the authorization requests of SignIn from outside;
ChatClient, which sees the log of EventStream and the approvals; the proofs of each of them; JobContract and LogContract with their refinements.

Next:

1. **WorkspaceTasks**: rows of tasks and notes with the event each change records in a
   second call; the order of row and last event under concurrent updates (`routes.update_workspace_task`).
2. **WorkspaceClient**: `useWorkspace`, whose overlapping refreshes may show an older snapshot last; composed with WorkspaceTasks.
3. **ModelRouter**: the fallback over models as a recursive function, against a
   reference definition over all outcomes of short lists; nothing concurrent.
4. **RuntimeUpdater**: download, verify, stage, verify, install, with a stop between any two.
5. **Orchestrator**: the nodes with their revision cycle, refined to `RunAgent`.
6. The switch of RunQueue to Redis while jobs wait in the fallback.
7. One relay: DeviceJobs and EventSync share the sync request, and their contracts could be composed over it.

Where a new module asks the question of an older run on a larger system, it
takes the place of that run, so that the list of runs stays one of distinct questions.
