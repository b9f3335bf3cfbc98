----------------------------- MODULE EventStream -----------------------------
(***************************************************************************)
(* The event log of one run, the writers that append to it, the broker     *)
(* that wakes local readers and the SSE endpoint that replays the log from *)
(* a cursor (run_store.py append_events/get_events, events/broker.py,      *)
(* routes.py execute_project_clarification_run and stream_run_events,      *)
(* tools/gateway.py _emit, frontend useChat.ts).                           *)
(*                                                                         *)
(* The run is one POST /v1/runs executes as a background task; tool calls  *)
(* on the same run append to its log concurrently.                         *)
(***************************************************************************)
EXTENDS Naturals, Sequences, FiniteSetsExt

CONSTANTS
    Task,        \* the background task that executes the run
    Calls,       \* tool-call requests on the run: each appends one event
    Remote,      \* writers whose publish() wakes nobody here: they run in another process
    Readers,     \* SSE clients that read the response text, as test_run_queue.py does
    Browsers,    \* SSE clients that are an EventSource, as in useChat.ts
    MaxDrops     \* bound on connections lost, per client

Writers == {Task} \cup Calls
Clients == Readers \cup Browsers

ASSUME NamesDiffer  == Task \notin Calls /\ Readers \cap Browsers = {}
ASSUME RemoteKnown  == Remote \subseteq Writers
ASSUME DropsBounded == MaxDrops \in Nat

VARIABLES
    status,      \* the run's status in the runs table
    stage,       \* per writer: where its program stands
    append,      \* per writer: where its append_events call stands
    base,        \* per writer: the MAX(sequence) it read
    log,         \* the run_events table
    conn,        \* per client: where the generator that serves it stands
    cursor,      \* per client: the generator's cursor
    batch,       \* per client: the sequences it fetched and has not sent
    woken,       \* per client: its subscription's queue holds a notification
    wire,        \* per client: frames sent and not received
    seen,        \* per client: the sequences it received, in order
    drops        \* per client: connections lost

run     == <<status, stage>>
writing == <<append, base>>
serving == <<conn, cursor, batch>>
client  == <<wire, seen, drops>>
vars    == <<run, writing, log, serving, woken, client>>

-----------------------------------------------------------------------------
(* Data *)

\* What the task does, in order; the stages that append an event name it.
TaskEvents == {"run.started", "task.clarifying", "task.clarified", "run.completed", "run.failed"}
Stages     == TaskEvents \cup {"ask", "complete", "fail", "tool", "over"}
Terminal   == {"completed", "failed"}
Row        == [sequence : Nat, event : TaskEvents \cup {"run.created", "tool"}, by : Writers]

MaxSequence == Max({row.sequence : row \in log} \cup {0})
Sequences   == {row.sequence : row \in log}

TypeOK ==
    /\ status \in {"queued"} \cup Terminal
    /\ stage \in [Writers -> Stages]
    /\ append \in [Writers -> {"ready", "insert", "publish"}]
    /\ base \in [Writers -> Nat]
    /\ log \subseteq Row
    /\ conn \in [Clients -> {"off", "fetch", "send", "check", "wait", "ended"}]
    /\ cursor \in [Clients -> Nat]
    /\ batch \in [Clients -> SUBSET Nat]
    /\ woken \in [Clients -> BOOLEAN]
    /\ wire \in [Clients -> Seq(Nat)]
    /\ seen \in [Clients -> Seq(Nat)]
    /\ drops \in [Clients -> 0..MaxDrops]

\* POST /v1/runs has created the run and its first event and answers.
Init ==
    /\ status = "queued"
    /\ stage = [w \in Writers |-> IF w = Task THEN "run.started" ELSE "tool"]
    /\ append = [w \in Writers |-> "ready"]
    /\ base = [w \in Writers |-> 0]
    /\ log = {[sequence |-> 1, event |-> "run.created", by |-> Task]}
    /\ conn = [c \in Clients |-> "off"]
    /\ cursor = [c \in Clients |-> 0]
    /\ batch = [c \in Clients |-> {}]
    /\ woken = [c \in Clients |-> FALSE]
    /\ wire = [c \in Clients |-> <<>>]
    /\ seen = [c \in Clients |-> <<>>]
    /\ drops = [c \in Clients |-> 0]

-----------------------------------------------------------------------------
(* Writers: event_sink and _emit append an event, then publish *)

Goto(w, s) == stage' = [stage EXCEPT ![w] = s]

\* The stage after an event is in the log and published ...
AfterEvent == [s \in TaskEvents \cup {"tool"} |->
    IF s = "run.started" THEN "task.clarifying"
    ELSE IF s = "task.clarifying" THEN "ask"
    ELSE IF s = "task.clarified" THEN "complete" ELSE "over"]

\* ... and after its append raised: run.started is appended outside the try
\* block, run.failed inside the except clause, a tool call answers 500.
AfterError == [s \in TaskEvents \cup {"tool"} |->
    IF s \in {"task.clarifying", "task.clarified", "run.completed"} THEN "fail" ELSE "over"]

\* append_events: the SELECT runs before the INSERT opens a transaction.
ReadMax(w) ==
    /\ append[w] = "ready" /\ stage[w] \in TaskEvents \cup {"tool"}
    /\ append' = [append EXCEPT ![w] = "insert"]
    /\ base' = [base EXCEPT ![w] = MaxSequence]
    /\ UNCHANGED <<run, log, serving, woken, client>>

\* UNIQUE(run_id, sequence): the INSERT of a writer that was overtaken raises.
Insert(w) ==
    /\ append[w] = "insert"
    /\ IF base[w] + 1 \in Sequences
       THEN /\ append' = [append EXCEPT ![w] = "ready"]
            /\ Goto(w, AfterError[stage[w]])
            /\ UNCHANGED log
       ELSE /\ log' = log \cup {[sequence |-> base[w] + 1, event |-> stage[w], by |-> w]}
            /\ append' = [append EXCEPT ![w] = "publish"]
            /\ UNCHANGED stage
    /\ base' = [base EXCEPT ![w] = 0]
    /\ UNCHANGED <<status, serving, woken, client>>

\* A subscription exists while its generator runs.
Subscribed(c) == conn[c] \notin {"off", "ended"}

\* Mutant: only a generator that waits already is woken.
PublishToWaiting(w) ==
    /\ append[w] = "publish"
    /\ append' = [append EXCEPT ![w] = "ready"]
    /\ Goto(w, AfterEvent[stage[w]])
    /\ woken' = [c \in Clients |-> woken[c] \/ (conn[c] = "wait" /\ w \notin Remote)]
    /\ UNCHANGED <<status, base, log, serving, client>>

\* publish(): a queue of one notification per subscriber, full or not.
Publish(w) ==
    /\ append[w] = "publish"
    /\ append' = [append EXCEPT ![w] = "ready"]
    /\ Goto(w, AfterEvent[stage[w]])
    /\ woken' = [c \in Clients |-> woken[c] \/ (Subscribed(c) /\ w \notin Remote)]
    /\ UNCHANGED <<status, base, log, serving, client>>

\* The model answers or raises.
Ask ==
    /\ stage[Task] = "ask" /\ \E s \in {"task.clarified", "fail"} : Goto(Task, s)
    /\ UNCHANGED <<status, writing, log, serving, woken, client>>

\* complete_run comes before the event that announces it, in either outcome.
Finish ==
    /\ \/ stage[Task] = "complete" /\ status' = "completed" /\ Goto(Task, "run.completed")
       \/ stage[Task] = "fail" /\ status' = "failed" /\ Goto(Task, "run.failed")
    /\ UNCHANGED <<writing, log, serving, woken, client>>

Write(w) == ReadMax(w) \/ Insert(w) \/ Publish(w)

-----------------------------------------------------------------------------
(* stream_run_events: one generator per connection *)

Serve(c, s) == conn' = [conn EXCEPT ![c] = s]

\* The generator is gone with its cursor and its subscription.
Unserve(c) == /\ Serve(c, "off")
              /\ cursor' = [cursor EXCEPT ![c] = 0]
              /\ batch' = [batch EXCEPT ![c] = {}]
              /\ woken' = [woken EXCEPT ![c] = FALSE]

\* The id a client resumes from: EventSource sends the one of the last frame
\* it dispatched as Last-Event-ID, a reader its own as after_sequence.
LastSeen(c) == IF seen[c] = <<>> THEN 0 ELSE seen[c][Len(seen[c])]

\* Mutant: a reader counts from the frame after the last one.
SkipOne(c) == LastSeen(c) + 1

\* Mutant: a client asks for the last frame again, the first time too.
OneAgain(c) == LastSeen(c) - 1

ResumeFrom(c) == LastSeen(c)

\* subscribe() comes before the first get_events.
Connect(c) ==
    /\ conn[c] = "off" /\ Serve(c, "fetch")
    /\ cursor' = [cursor EXCEPT ![c] = ResumeFrom(c)]
    /\ woken' = [woken EXCEPT ![c] = FALSE]
    /\ UNCHANGED <<run, writing, log, batch, client>>

Fetch(c) ==
    /\ conn[c] = "fetch" /\ Serve(c, "send")
    /\ batch' = [batch EXCEPT ![c] = {n \in Sequences : n > cursor[c]}]
    /\ UNCHANGED <<run, writing, log, cursor, woken, client>>

\* A frame per event in the order of their sequences; the cursor moves with it.
Send(c) ==
    /\ conn[c] = "send"
    /\ \/ /\ batch[c] = {} /\ Serve(c, "check")
          /\ UNCHANGED <<cursor, batch, wire>>
       \/ /\ batch[c] # {}
          /\ LET n == Min(batch[c]) IN
               /\ cursor' = [cursor EXCEPT ![c] = n]
               /\ batch' = [batch EXCEPT ![c] = @ \ {n}]
               /\ wire' = [wire EXCEPT ![c] = Append(@, n)]
          /\ UNCHANGED conn
    /\ UNCHANGED <<run, writing, log, woken, seen, drops>>

\* A run that is over ends the stream, whatever was appended since the fetch.
Check(c) ==
    /\ conn[c] = "check" /\ Serve(c, IF status \in Terminal THEN "ended" ELSE "wait")
    /\ UNCHANGED <<run, writing, log, cursor, batch, woken, client>>

\* Mutant: without the fifteen seconds' timeout.
WakeOnly(c) ==
    /\ conn[c] = "wait" /\ woken[c] /\ Serve(c, "fetch")
    /\ woken' = [woken EXCEPT ![c] = FALSE]
    /\ UNCHANGED <<run, writing, log, cursor, batch, client>>

\* A notification, or a timeout: either way the log is read again.
Wake(c) ==
    /\ conn[c] = "wait" /\ Serve(c, "fetch")
    /\ woken' = [woken EXCEPT ![c] = FALSE]
    /\ UNCHANGED <<run, writing, log, cursor, batch, client>>

\* The frames are written with a backslash and an n where a line should end, so
\* an EventSource, which dispatches an event at an empty line, never does.
Dispatches(c) == c \in Readers

Receive(c) ==
    /\ wire[c] # <<>>
    /\ wire' = [wire EXCEPT ![c] = Tail(@)]
    /\ seen' = IF Dispatches(c) THEN [seen EXCEPT ![c] = Append(@, Head(wire[c]))] ELSE seen
    /\ UNCHANGED <<run, writing, log, serving, woken, drops>>

\* The client has read the response to its end; both kinds connect again.
Close(c) ==
    /\ conn[c] = "ended" /\ wire[c] = <<>> /\ Unserve(c)
    /\ UNCHANGED <<run, writing, log, client>>

\* The connection is lost with the frames on it.
Drop(c) ==
    /\ conn[c] # "off" /\ drops[c] < MaxDrops
    /\ Unserve(c)
    /\ wire' = [wire EXCEPT ![c] = <<>>]
    /\ drops' = [drops EXCEPT ![c] = @ + 1]
    /\ UNCHANGED <<run, writing, log, seen>>

Stream(c) == Connect(c) \/ Fetch(c) \/ Send(c) \/ Check(c) \/ Wake(c) \/ Close(c)

-----------------------------------------------------------------------------

Next ==
    \/ \E w \in Writers : Write(w)
    \/ Ask \/ Finish
    \/ \E c \in Clients : Stream(c) \/ Receive(c) \/ Drop(c)

Spec == Init /\ [][Next]_vars

\* Coroutines are scheduled, the timeout of wait_for passes, bytes arrive and
\* clients come back.
Fairness ==
    /\ \A w \in Writers : WF_vars(Write(w))
    /\ WF_vars(Ask) /\ WF_vars(Finish)
    /\ \A c \in Clients : WF_vars(Stream(c)) /\ WF_vars(Receive(c))

FairSpec == Spec /\ Fairness

-----------------------------------------------------------------------------
(* Properties *)

\* Writers that overlap never leave two events one number, nor a hole: what
\* every cursor relies on (the loser of a race raises instead).
LogIsNumbered ==
    /\ Sequences = 1..Cardinality(log)
    /\ \A w \in Writers : append[w] = "insert" => base[w] <= Cardinality(log)

\* A client has an unbroken beginning of the log, each event once and in order,
\* over any number of lost connections, ended streams and concurrent writers.
ReceivedInOrder ==
    \A c \in Clients : /\ \A i \in DOMAIN seen[c] : seen[c][i] = i
                       /\ Len(seen[c]) <= Cardinality(log)

\* A generator goes to sleep only if everything after its cursor is still to be
\* published, or was appended where its broker does not hear of it.
NoLostWakeup ==
    \A c \in Clients : conn[c] = "wait" /\ ~woken[c] =>
        \A row \in log : row.sequence > cursor[c] =>
            row.by \in Remote \/ append[row.by] = "publish"

\* Every reader has the whole log again and again, the last event included,
\* although the stream may end between complete_run and the event that
\* announces it: readers come back.
ReadersCatchUp == \A c \in Readers : []<>(Len(seen[c]) = Cardinality(log))

\* The browser shows something of a run that is over.
BrowsersSeeTheTimeline ==
    \A c \in Browsers : status \in Terminal ~> seen[c] # <<>>
=============================================================================
