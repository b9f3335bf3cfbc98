----------------------------- MODULE EventSync -----------------------------
(***************************************************************************)
(* The project event log of the cloud (project_events with the revisions   *)
(* of project_entity_revisions, src/src/workspace/store.py) and a paired   *)
(* device that pushes its own events and pulls the log: its outbox, cursor *)
(* and received events (src/local-runtime/agent_room_runtime).             *)
(*                                                                         *)
(* record_cloud_event reads the revision of its entity before its first    *)
(* write, that is before its transaction.  A sync request opens its        *)
(* transaction with a write, judges its events one by one in it, reads the *)
(* page and commits; until then nobody else writes, and readers see        *)
(* nothing of it.  An event that creates what is there already is neither  *)
(* accepted nor a conflict: it ends the request and all it has written.    *)
(***************************************************************************)
EXTENDS Naturals, Sequences, FiniteSets

CONSTANTS
    Entities,
    CloudEvents,   \* calls of record_cloud_event
    DeviceEvents,
    Syncs,         \* sync requests on their way, handled or answered
    NoSync,        \* "no request"
    PendingLimit,  \* events one request carries
    PageLimit,     \* events one answer carries
    MaxLost        \* bound on requests, answers and runtimes lost

ASSUME EventKindsDiffer == CloudEvents \cap DeviceEvents = {}
ASSUME NoSyncIsNone     == NoSync \notin Syncs
ASSUME BoundsKnown      == /\ MaxLost \in Nat
                           /\ PendingLimit \in Nat \ {0} /\ PageLimit \in Nat \ {0}

VARIABLES
    log,                     \* project_events; the sequence of an event is its index
    revision,                \* per entity
    rows,                    \* entities that have their row: a note, a task, a marker
    call,                    \* per cloud event: where its call stands, the entity, the base read
    writer, draft, left,     \* the request whose transaction is open, what it has written
                             \* and the places of its events that are still to be judged
    outbox,                  \* the device's events in the order they were put there
    acknowledged,            \* those with acknowledged_at
    received, cursor,        \* received_events and server_cursor
    sync, request, answer,   \* per sync request: its stage, what it carries, what it is answered
    mine,                    \* the request whose answer the runtime waits for
    cut,                     \* history: sequences PageLimit left out of the answers applied
    lost

cloud  == <<log, revision, rows, call>>
tx     == <<writer, draft, left>>
device == <<outbox, acknowledged, received, cursor>>
wire   == <<sync, request, answer, mine>>
vars   == <<cloud, tx, device, wire, cut, lost>>

-----------------------------------------------------------------------------
(* Data *)

Events     == CloudEvents \cup DeviceEvents
Entry      == [id : Events, entity : Entities, revision : Nat]
\* What a mutation does to the row of its entity: makes it, changes it, leaves it
\* alone (an episode), or nothing, since its payload or its module is not accepted.
Projections == {"creates", "changes", "records", "invalid"}
Mutation   == [id : DeviceEvents, entity : Entities, base : Nat, projection : Projections]
NoRequest  == [events |-> {}, cursor |-> 0]
NoAnswer   == [accepted |-> {}, events |-> {}, cursor |-> 0]
NoDraft    == [log |-> <<>>, revision |-> [x \in Entities |-> 0], rows |-> {}, accepted |-> {}]
Of(l, x)   == {i \in DOMAIN l : l[i].entity = x}
Ids(l)     == {l[i].id : i \in DOMAIN l}
InOutbox   == Ids(outbox)

\* Every variable has its type: a revision counts entries of the log, what a message
\* names exists, and a request that is not under way is empty.
TypeOK ==
    /\ log \in Seq(Entry)
    /\ revision \in [Entities -> 0..Len(log)]
    /\ rows \subseteq Entities
    /\ call \in [CloudEvents -> [at : {"none", "made", "read", "done"}, entity : Entities, base : 0..Len(log)]]
    /\ writer \in Syncs \cup {NoSync}
    /\ draft.log \in Seq(Entry) /\ draft.revision \in [Entities -> 0..Len(draft.log)]
    /\ draft = [log |-> draft.log, revision |-> draft.revision, rows |-> draft.rows, accepted |-> draft.accepted]
    /\ draft.rows \subseteq Entities /\ draft.accepted \subseteq InOutbox
    /\ IF writer = NoSync THEN draft = NoDraft /\ left = {}
       ELSE sync[writer] = "sent" /\ left \subseteq request[writer].events
    /\ outbox \in Seq(Mutation)
    /\ acknowledged \subseteq InOutbox
    /\ received \subseteq DOMAIN log
    /\ cursor \in 0..Len(log)
    /\ sync \in [Syncs -> {"free", "sent", "answered", "acknowledged"}]
    /\ request \in [Syncs -> [events : SUBSET DOMAIN outbox, cursor : 0..Len(log)]]
    /\ answer \in [Syncs -> [accepted : SUBSET InOutbox, events : SUBSET DOMAIN log, cursor : 0..Len(log)]]
    /\ \A s \in Syncs : /\ sync[s] = "free" => request[s] = NoRequest
                        /\ sync[s] \in {"free", "sent"} => answer[s] = NoAnswer
    /\ mine \in Syncs \cup {NoSync}
    /\ mine # NoSync => sync[mine] # "free"
    /\ cut \subseteq DOMAIN log
    /\ lost \in 0..MaxLost

Init ==
    /\ log = <<>>
    /\ revision = [x \in Entities |-> 0]
    /\ rows = {}
    /\ call \in [CloudEvents -> [at : {"none"}, entity : Entities, base : {0}]]
    /\ writer = NoSync /\ draft = NoDraft /\ left = {}
    /\ outbox = <<>> /\ acknowledged = {} /\ received = {} /\ cursor = 0
    /\ sync = [s \in Syncs |-> "free"]
    /\ request = [s \in Syncs |-> NoRequest]
    /\ answer = [s \in Syncs |-> NoAnswer]
    /\ mine = NoSync /\ cut = {} /\ lost = 0

-----------------------------------------------------------------------------
(* The routes that record an event of the cloud *)

\* create_note and create_task: the row, under a new id and in a transaction of its own.
MakeRow(w) ==
    /\ call[w].at = "none" /\ writer = NoSync
    /\ LET x == call[w].entity IN
       /\ x \notin rows /\ Of(log, x) = {} /\ Of(outbox, x) = {}
       /\ rows' = rows \cup {x}
    /\ call' = [call EXCEPT ![w] = [at |-> "made", entity |-> @.entity, base |-> @.base]]
    /\ UNCHANGED <<log, revision, tx, device, wire, cut, lost>>

\* record_cloud_event, alone (an episode, the change of a task) or after its row was
\* made: the SELECT of the revision, in no transaction.
ReadRevision(w) ==
    /\ call[w].at \in {"none", "made"}
    /\ call' = [call EXCEPT ![w] = [at |-> "read", entity |-> @.entity, base |-> revision[@.entity]]]
    /\ UNCHANGED <<log, revision, rows, tx, device, wire, cut, lost>>

\* The transaction, which waits while another one is open.
WriteEvent(w) ==
    /\ call[w].at = "read" /\ writer = NoSync
    /\ LET x == call[w].entity
           n == call[w].base + 1 IN
       /\ revision' = [revision EXCEPT ![x] = n]
       /\ log' = Append(log, [id |-> w, entity |-> x, revision |-> n])
    /\ call' = [call EXCEPT ![w] = [at |-> "done", entity |-> @.entity, base |-> @.base]]
    /\ UNCHANGED <<rows, tx, device, wire, cut, lost>>

-----------------------------------------------------------------------------
(* The handler of a sync request *)

\* The UPDATE of the device opens the transaction.
Open(s) ==
    /\ sync[s] = "sent" /\ writer = NoSync
    /\ writer' = s
    /\ draft' = [log |-> log, revision |-> revision, rows |-> rows, accepted |-> {}]
    /\ left' = request[s].events
    /\ UNCHANGED <<cloud, device, wire, cut, lost>>

\* _apply_remote_projection refuses an event: LookupError or ValueError.
Refuses(db, e) ==
    e.projection = "invalid" \/ (e.projection = "changes" /\ e.entity \notin db.rows)

\* An INSERT of _apply_remote_projection meets the row: sqlite3.IntegrityError, which
\* nobody catches.
Raises(db, e) ==
    /\ e.id \notin Ids(db.log) /\ e.base = db.revision[e.entity]
    /\ e.projection = "creates" /\ e.entity \in db.rows

Repeat(db, e) == [log |-> db.log, revision |-> db.revision, rows |-> db.rows, accepted |-> db.accepted \cup {e.id}]

Accept(db, e) ==
    [log |-> Append(db.log, [id |-> e.id, entity |-> e.entity, revision |-> e.base + 1]),
     revision |-> [db.revision EXCEPT ![e.entity] = e.base + 1],
     rows |-> IF e.projection = "creates" THEN db.rows \cup {e.entity} ELSE db.rows,
     accepted |-> db.accepted \cup {e.id}]

\* Mutants: an older base is no conflict; what is known already is not accepted again.
JudgeStale(db, e) ==
    IF e.id \in Ids(db.log) THEN Repeat(db, e)
    ELSE IF e.base > db.revision[e.entity] \/ Refuses(db, e) THEN db
    ELSE Accept(db, e)
JudgeOnce(db, e) ==
    IF e.id \in Ids(db.log) \/ e.base # db.revision[e.entity] \/ Refuses(db, e) THEN db
    ELSE Accept(db, e)

\* One mutation that does not raise is accepted, again or for the first time, or is a
\* conflict: the entity has another revision, or the projection refuses it.  db holds
\* what the transaction has written so far.
Judge(db, e) ==
    IF e.id \in Ids(db.log) THEN Repeat(db, e)
    ELSE IF e.base # db.revision[e.entity] \/ Refuses(db, e) THEN db
    ELSE Accept(db, e)

\* The places of the events come in the order of the outbox.
First(k) == k \in left /\ \A j \in left : k <= j

JudgeNext(s) ==
    /\ writer = s
    /\ \E k \in left :
         /\ First(k) /\ ~Raises(draft, outbox[k])
         /\ draft' = Judge(draft, outbox[k])
         /\ left' = left \ {k}
    /\ UNCHANGED <<cloud, writer, device, wire, cut, lost>>

\* The sequences after a cursor, and the first PageLimit of them; the mutants do
\* not end with the log, and begin one too late.
After(c, n)       == c+1..n
PagePast(c, n)    == After(c, c + PageLimit)
PageShort(c, n)   == {i \in After(c + 1, n) : i <= c + PageLimit}
Page(c, n)        == {i \in After(c, n) : i <= c + PageLimit}

Close == writer' = NoSync /\ draft' = NoDraft /\ left' = {}

\* The answer has a page of the log after the request's cursor, and the cursor of
\* the end of the log, read before the commit.
Commit(s) ==
    /\ writer = s /\ left = {}
    /\ log' = draft.log /\ revision' = draft.revision /\ rows' = draft.rows
    /\ answer' = [answer EXCEPT ![s] =
         [accepted |-> draft.accepted, events |-> Page(request[s].cursor, Len(draft.log)),
          cursor |-> Len(draft.log)]]
    /\ sync' = [sync EXCEPT ![s] = "answered"]
    /\ Close
    /\ UNCHANGED <<call, device, request, mine, cut, lost>>

-----------------------------------------------------------------------------
(* The device *)

\* LocalRuntime.enqueue: an event on an entity as the device knows it.
Enqueue(e) ==
    /\ e \notin InOutbox
    /\ \E x \in Entities : \E b \in {0} \cup {log[i].revision : i \in received \cap Of(log, x)} :
       \E p \in Projections :
         outbox' = Append(outbox, [id |-> e, entity |-> x, base |-> b, projection |-> p])
    /\ UNCHANGED <<cloud, tx, acknowledged, received, cursor, wire, cut, lost>>

\* The places of the oldest events not acknowledged.
Pending ==
    LET open == {k \in DOMAIN outbox : outbox[k].id \notin acknowledged}
    IN {k \in open : Cardinality({j \in open : j < k}) < PendingLimit}

\* sync_once sends the cursor and the pending events.
Begin(s) ==
    /\ sync[s] = "free" /\ mine = NoSync
    /\ mine' = s
    /\ sync' = [sync EXCEPT ![s] = "sent"]
    /\ request' = [request EXCEPT ![s] = [events |-> Pending, cursor |-> cursor]]
    /\ UNCHANGED <<cloud, tx, device, answer, cut, lost>>

\* The accepted events are acknowledged, conflicts are not; the mutant takes all
\* that was sent, as is done with the results of jobs.
SettledSent(s) == {outbox[k].id : k \in request[s].events}
Settled(s)     == answer[s].accepted

Acknowledge(s) ==
    /\ sync[s] = "answered" /\ s = mine
    /\ acknowledged' = acknowledged \cup Settled(s)
    /\ sync' = [sync EXCEPT ![s] = "acknowledged"]
    /\ UNCHANGED <<cloud, tx, outbox, received, cursor, request, answer, mine, cut, lost>>

Free(s) == /\ sync' = [sync EXCEPT ![s] = "free"]
           /\ request' = [request EXCEPT ![s] = NoRequest]
           /\ answer' = [answer EXCEPT ![s] = NoAnswer]
           /\ mine' = IF mine = s THEN NoSync ELSE mine

\* apply_server_events, in a transaction of its own.
Apply(s) ==
    /\ sync[s] = "acknowledged" /\ s = mine
    /\ received' = received \cup answer[s].events
    /\ cursor' = answer[s].cursor
    /\ cut' = cut \cup {i \in After(request[s].cursor, answer[s].cursor) : i > request[s].cursor + PageLimit}
    /\ Free(s)
    /\ UNCHANGED <<cloud, tx, outbox, acknowledged, lost>>

-----------------------------------------------------------------------------
(* What gets lost *)

Lose == lost < MaxLost /\ lost' = lost + 1

\* The runtime gives a request up or stops, at any point of it; the server goes on.
GiveUp ==
    /\ Lose /\ mine # NoSync /\ mine' = NoSync
    /\ UNCHANGED <<cloud, tx, device, sync, request, answer, cut>>

\* A request that nobody waits for is dropped with its answer.
Drop(s) ==
    /\ sync[s] \in {"answered", "acknowledged"} /\ s # mine
    /\ Free(s)
    /\ UNCHANGED <<cloud, tx, device, cut, lost>>

\* An event raises: the transaction is rolled back and the request ends in an error,
\* which tells the runtime nothing.
Fail(s) ==
    /\ writer = s
    /\ \E k \in left : First(k) /\ Raises(draft, outbox[k])
    /\ Close /\ Free(s)
    /\ UNCHANGED <<cloud, device, cut, lost>>

\* A request never arrives, or its handler stops, which rolls its transaction back.
HandlerStops(s) ==
    /\ Lose /\ sync[s] = "sent" /\ Free(s)
    /\ IF writer = s THEN Close ELSE UNCHANGED tx
    /\ UNCHANGED <<cloud, device, cut>>

Next ==
    \/ \E w \in CloudEvents : MakeRow(w) \/ ReadRevision(w) \/ WriteEvent(w)
    \/ \E e \in DeviceEvents : Enqueue(e)
    \/ \E s \in Syncs : \/ Begin(s) \/ Open(s) \/ JudgeNext(s) \/ Fail(s) \/ Commit(s)
                        \/ Acknowledge(s) \/ Apply(s) \/ Drop(s) \/ HandlerStops(s)
    \/ GiveUp

Spec == Init /\ [][Next]_vars

\* The runtime goes on syncing and handlers return.
Fairness ==
    /\ WF_vars(\E s \in Syncs : Begin(s))
    /\ \A s \in Syncs : WF_vars(\/ Open(s) \/ JudgeNext(s) \/ Fail(s) \/ Commit(s)
                                \/ Acknowledge(s) \/ Apply(s) \/ Drop(s))

FairSpec == Spec /\ Fairness

-----------------------------------------------------------------------------
(* Properties *)

\* However often an event is sent, the log has it once at most; the device stops
\* sending it only when it is there.
AcknowledgedIsInLog ==
    /\ \A i, j \in DOMAIN log : log[i].id \in DeviceEvents /\ log[j].id = log[i].id => i = j
    /\ acknowledged \subseteq Ids(log)

\* The device has every event up to its cursor, its own included, but for those a
\* full page left out, whatever was lost and sent again.
ReceivedUpToCursor == 1..cursor \subseteq received \cup cut

\* At place i of a log a cloud event was written on a revision that was not the last one.
Overwrote(l, i) ==
    /\ l[i].id \in CloudEvents
    /\ \E k \in Of(l, l[i].entity) : k < i /\ l[k].revision >= l[i].revision

Explicit(l, i) == \A k \in Of(l, l[i].entity) : k < i => l[k].revision < l[i].revision

\* An event of a device never goes on top of one its base does not include, unless a
\* cloud event had set the revision back.
ConflictsAreExplicit ==
    \A i \in DOMAIN log :
        log[i].id \in DeviceEvents =>
            Explicit(log, i) \/ \E k \in Of(log, log[i].entity) : k < i /\ Overwrote(log, k)

Tables == [log |-> log, revision |-> revision, rows |-> rows, accepted |-> {}]

Conflict(e) == /\ e.id \notin Ids(log)
               /\ e.base # revision[e.entity] \/ Refuses(Tables, e)

Older(e) ==
    {k \in DOMAIN outbox : /\ outbox[k].id \notin acknowledged /\ Conflict(outbox[k])
                           /\ \E p \in DOMAIN outbox : k < p /\ outbox[p].id = e}

\* One of the events that the next request carries will raise, when those before it
\* have been judged.
Doomed ==
    LET judged[n \in 0..Len(outbox)] ==
          IF n = 0 THEN Tables
          ELSE IF n \in Pending THEN Judge(judged[n-1], outbox[n]) ELSE judged[n-1]
    IN \E n \in Pending : Raises(judged[n-1], outbox[n])

HeldByConflicts(e) == \/ \E k \in DOMAIN outbox : outbox[k].id = e /\ Conflict(outbox[k])
                      \/ Cardinality(Older(e)) >= PendingLimit

Held(e) == HeldByConflicts(e) \/ Doomed

\* An event of the device is acknowledged in the end, unless one of three things holds
\* it for ever: it is a conflict, as many older conflicts as a request carries keep it
\* from being sent, or an event that raises ends every request that could carry it.
PendingIsSettled ==
    \A e \in DeviceEvents : e \in InOutbox ~> (e \in acknowledged \/ []Held(e))

\* ADR 006: what the device pushes is accepted or a conflict.
PushedIsAnswered ==
    \A e \in DeviceEvents : e \in InOutbox ~> (e \in acknowledged \/ []HeldByConflicts(e))

\* ADR 006: conflicts are explicit, not silently last-write-wins.
NothingIsOverwritten == \A i \in DOMAIN log : Explicit(log, i)
=============================================================================
