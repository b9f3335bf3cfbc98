---------------------------- MODULE RunLifecycle ----------------------------
(***************************************************************************)
(* The durable runs table, the delivery queue in front of it, the worker   *)
(* of each server process and the request handlers that execute a run      *)
(* inline (src/src/queueing/worker.py, src/src/queueing/run_queue.py,      *)
(* src/src/storage/run_store.py, src/src/api/routes.py and websocket.py).  *)
(*                                                                         *)
(* One action is one awaited call: between two of them any other coroutine *)
(* or process may run.  SQLiteRunStore opens a connection per call and a   *)
(* Python sqlite3 connection takes the write lock at its first write, so a *)
(* method that reads first and writes later is two actions.                *)
(***************************************************************************)
EXTENDS Naturals, Sequences, FiniteSets

CONSTANTS
    Procs,         \* server processes, each with one RunWorker
    Orphans,       \* runs an earlier process left queued when it stopped
    Requests,      \* runs that a client may still submit
    NoRun,         \* "no job in hand"
    Doors,         \* the endpoints clients use, a subset of Endpoints
    MaxAttempts,   \* settings.worker_max_attempts
    Batch,         \* settings.worker_recovery_batch_size
    Durable,       \* TRUE: the queue is Redis; FALSE: the in-process fallback
    MaxCrashes,    \* bound on process stops
    MaxFaults,     \* bound on calls to the store or to Redis that raise
    MaxStalls      \* bound on leases that run out under a live worker

Endpoints == {"runs", "chat", "ws"}

ASSUME RunsDisjoint == Orphans \cap Requests = {} /\ NoRun \notin Orphans \cup Requests
ASSUME DoorsKnown   == Doors \subseteq Endpoints
ASSUME LimitsKnown  == /\ MaxAttempts \in Nat \ {0}
                       /\ Batch \in Nat \ {0}
                       /\ Durable \in BOOLEAN
                       /\ MaxCrashes \in Nat /\ MaxFaults \in Nat /\ MaxStalls \in Nat
ASSUME ProcsExist == Procs # {}

\* The fallback queue is an object of one process.
ASSUME FallbackIsLocal == Durable \/ \A p, q \in Procs : p = q

Runs == Orphans \cup Requests

VARIABLES
    status, attempt, lease,   \* the runs table, per run
    queue,                    \* run ids waiting in QUEUE_KEY or in the fallback queue
    pc, job, rows,            \* per process: where its serve() task stands
    handler, door, host,      \* per run: the request handler that executes it inline
    crashes, faults, stalls   \* how much of each bound is used

table    == <<status, attempt, lease>>
workers  == <<pc, job, rows>>
handlers == <<handler, door, host>>
vars     == <<table, queue, workers, handlers, crashes, faults, stalls>>

-----------------------------------------------------------------------------
(* Data *)

Outcomes == {"completed", "needs_revision"}   \* what the reviewer node decides
Terminal == Outcomes \cup {"failed"}
Status   == {"absent", "queued", "running"} \cup Terminal
Leases   == {"null", "live", "expired"}

\* Where serve() is suspended: "startup" and "select" are recover(True) and
\* recover(False) before they read.  "dead" is a serve() task that an exception
\* ended while its process goes on answering requests.
Executing == {"started", "agent", "complete", "announce",
              "release", "requeue", "bury", "retry", "giveup"}
WorkerPc  == {"off", "dead", "startup", "select", "apply", "notify", "idle", "claim"}
                \cup Executing

\* A row as recover_runs read it: the copy it decides on.
Snapshot == [run : Runs, status : {"queued", "running"}, attempt : Nat]

\* Where an inline handler is suspended; "none" before and after it runs.
Ending    == {"first", "second", "failFirst", "failSecond"}
HandlerPc == {"none", "begin", "work"} \cup Ending

TableOK ==
    /\ status \in [Runs -> Status]
    /\ attempt \in [Runs -> Nat]
    /\ lease \in [Runs -> Leases]

WorkersOK ==
    /\ pc \in [Procs -> WorkerPc]
    /\ job \in [Procs -> Runs \cup {NoRun}]
    /\ rows \in [Procs -> SUBSET Snapshot]
    /\ \A p \in Procs : pc[p] \in Executing \cup {"claim"} => job[p] \in Runs

HandlersOK ==
    /\ handler \in [Runs -> HandlerPc]
    /\ door \in [Runs -> Endpoints]
    /\ host \in [Runs -> Procs]

BoundsOK == crashes \in 0..MaxCrashes /\ faults \in 0..MaxFaults /\ stalls \in 0..MaxStalls

\* Every variable has its type, and a worker past the dequeue has a job.
TypeOK == TableOK /\ queue \in Seq(Runs) /\ WorkersOK /\ HandlersOK /\ BoundsOK

Init ==
    /\ status = [r \in Runs |-> IF r \in Orphans THEN "queued" ELSE "absent"]
    /\ attempt = [r \in Runs |-> 0]
    /\ lease = [r \in Runs |-> "null"]
    /\ queue = <<>>
    /\ pc = [p \in Procs |-> "off"]
    /\ job = [p \in Procs |-> NoRun]
    /\ rows = [p \in Procs |-> {}]
    /\ handler = [r \in Runs |-> "none"]
    /\ door = [r \in Runs |-> "runs"]
    /\ host = [r \in Runs |-> CHOOSE p \in Procs : TRUE]
    /\ crashes = 0 /\ faults = 0 /\ stalls = 0

Up(p) == pc[p] # "off"

\* A call to SQLite or to Redis raises; how often is bounded.
Fault == faults < MaxFaults /\ faults' = faults + 1
NoFault == UNCHANGED faults

\* The worker of p is suspended at c next, with what it holds ...
Goto(p, c) == pc' = [pc EXCEPT ![p] = c] /\ UNCHANGED <<job, rows>>

\* ... or with nothing in hand: at the head of the serve() loop ("idle"), or
\* with its task ended by an exception that nothing in serve() catches ("dead").
Drop(p, c) == /\ pc' = [pc EXCEPT ![p] = c]
              /\ job' = [job EXCEPT ![p] = NoRun]
              /\ rows' = [rows EXCEPT ![p] = {}]
ToLoop(p) == Drop(p, "idle")
Die(p)    == Drop(p, "dead")

\* Every UPDATE that changes a status, except claim_run's, clears the lease too.
Write(r, s) == /\ status' = [status EXCEPT ![r] = s]
               /\ lease' = [lease EXCEPT ![r] = "null"]
               /\ UNCHANGED attempt

-----------------------------------------------------------------------------
(* A server process starts and stops *)

\* lifespan() creates the worker task, whose first call is recover(True).
Start(p) ==
    /\ ~Up(p)
    /\ Goto(p, "startup")
    /\ UNCHANGED <<table, queue, handlers, crashes, faults, stalls>>

\* The process is killed, or shut down and its worker task cancelled: no
\* handler of serve() or execute() catches a CancelledError.  The fallback
\* queue and the coroutines of the process go with it.
Stop(p) ==
    /\ Up(p) /\ crashes < MaxCrashes
    /\ crashes' = crashes + 1
    /\ Drop(p, "off")
    /\ handler' = [r \in Runs |-> IF host[r] = p THEN "none" ELSE handler[r]]
    /\ queue' = IF Durable THEN queue ELSE <<>>
    /\ UNCHANGED <<table, door, host, faults, stalls>>

-----------------------------------------------------------------------------
(* RunWorker.recover *)

Stale(r) == status[r] = "running" /\ lease[r] # "live"

\* Mutant: recover(True) forgets the queued runs.
RecoverableRunning(p) == {r \in Runs : Stale(r)}

\* What the SELECT of recover_runs matches; only recover(True) lists queued runs.
Recoverable(p) == {r \in Runs : Stale(r) \/ (pc[p] = "startup" /\ status[r] = "queued")}

\* LIMIT: at most Batch rows are seen.
RecoverSelect(p) ==
    /\ pc[p] \in {"startup", "select"}
    /\ \/ /\ NoFault
          /\ \E S \in SUBSET Recoverable(p) :
               /\ Cardinality(S) <= Batch
               /\ Cardinality(S) < Batch => S = Recoverable(p)
               /\ \/ S = {} /\ ToLoop(p)
                  \/ /\ S # {}
                     /\ pc' = [pc EXCEPT ![p] = "apply"]
                     /\ rows' = [rows EXCEPT ![p] =
                          {[run |-> r, status |-> status[r], attempt |-> attempt[r]] : r \in S}]
                     /\ UNCHANGED job
       \/ Fault /\ Die(p)
    /\ UNCHANGED <<table, queue, handlers, crashes, stalls>>

Exhausted(row) == row.status = "running" /\ row.attempt >= MaxAttempts

GaveUp(p) == {row.run : row \in {x \in rows[p] : Exhausted(x)}}
Again(p)  == {row.run : row \in {x \in rows[p] : x.status = "running" /\ ~Exhausted(x)}}

\* The UPDATEs, by id alone: what a row says by now is not looked at again.
RecoverApply(p) ==
    /\ pc[p] = "apply"
    /\ \/ /\ NoFault
          /\ status' = [r \in Runs |-> IF r \in GaveUp(p) THEN "failed"
                                    ELSE IF r \in Again(p) THEN "queued" ELSE status[r]]
          /\ lease' = [r \in Runs |-> IF r \in GaveUp(p) \cup Again(p) THEN "null" ELSE lease[r]]
          /\ UNCHANGED attempt
          /\ Goto(p, "notify")
       \/ Fault /\ Die(p) /\ UNCHANGED table
    /\ UNCHANGED <<queue, handlers, crashes, stalls>>

\* The row announced next: the exhausted ones come first.
NextRow(p, row) == row \in rows[p] /\ (Exhausted(row) \/ \A x \in rows[p] : ~Exhausted(x))

RowDone(p, row) ==
    \/ rows[p] = {row} /\ ToLoop(p)
    \/ /\ rows[p] # {row}
       /\ rows' = [rows EXCEPT ![p] = @ \ {row}] /\ UNCHANGED <<pc, job>>

\* One row of the result: its event is appended (an exception there ends the
\* worker) and a queued run is enqueued (an exception there is swallowed).
RecoverNotify(p) ==
    /\ pc[p] = "notify"
    /\ \E row \in rows[p] :
         /\ NextRow(p, row)
         /\ \/ NoFault /\ RowDone(p, row)
               /\ queue' = IF Exhausted(row) THEN queue ELSE Append(queue, row.run)
            \/ Fault /\ RowDone(p, row) /\ ~Exhausted(row) /\ UNCHANGED queue
            \/ Fault /\ Die(p) /\ UNCHANGED queue
    /\ UNCHANGED <<table, handlers, crashes, stalls>>

Recover(p) == RecoverSelect(p) \/ RecoverApply(p) \/ RecoverNotify(p)

-----------------------------------------------------------------------------
(* RunWorker.serve and RunWorker.execute *)

\* The recovery interval has passed: the loop recovers before it dequeues.
PeriodicRecover(p) ==
    /\ pc[p] = "idle"
    /\ Goto(p, "select")
    /\ UNCHANGED <<table, queue, handlers, crashes, faults, stalls>>

\* Mutant: a timed out dequeue() is not told from a job.
DequeueNothing(p) ==
    /\ pc[p] = "idle"
    /\ queue' = IF queue = <<>> THEN queue ELSE Tail(queue)
    /\ job' = IF queue = <<>> THEN job ELSE [job EXCEPT ![p] = Head(queue)]
    /\ pc' = [pc EXCEPT ![p] = "claim"]
    /\ UNCHANGED <<table, rows, handlers, crashes, faults, stalls>>

\* A job leaves the queue for good when it is handed to a worker.
Dequeue(p) ==
    /\ pc[p] = "idle" /\ queue # <<>>
    /\ \/ /\ NoFault
          /\ queue' = Tail(queue)
          /\ job' = [job EXCEPT ![p] = Head(queue)]
          /\ pc' = [pc EXCEPT ![p] = "claim"]
          /\ UNCHANGED rows
       \/ Durable /\ Fault /\ Die(p) /\ UNCHANGED queue
    /\ UNCHANGED <<table, handlers, crashes, stalls>>

\* Mutant: claim_run does not count the attempt.
ClaimUncounted(p) ==
    LET r == job[p] IN
    /\ pc[p] = "claim"
    /\ \/ /\ status[r] = "queued"
          /\ status' = [status EXCEPT ![r] = "running"]
          /\ lease' = [lease EXCEPT ![r] = "live"]
          /\ Goto(p, "started") /\ UNCHANGED attempt
       \/ status[r] # "queued" /\ ToLoop(p) /\ UNCHANGED table
    /\ UNCHANGED <<queue, handlers, crashes, faults, stalls>>

\* claim_run: a compare-and-set from queued to running; the loser just returns.
Claim(p) ==
    LET r == job[p] IN
    /\ pc[p] = "claim"
    /\ \/ /\ NoFault /\ status[r] = "queued"
          /\ status' = [status EXCEPT ![r] = "running"]
          /\ attempt' = [attempt EXCEPT ![r] = @ + 1]
          /\ lease' = [lease EXCEPT ![r] = "live"]
          /\ Goto(p, "started")
       \/ NoFault /\ status[r] # "queued" /\ ToLoop(p) /\ UNCHANGED table
       \/ Fault /\ Die(p) /\ UNCHANGED table
    /\ UNCHANGED <<queue, handlers, crashes, stalls>>

\* get_run and the run.started event come before the try block.
EmitStarted(p) ==
    /\ pc[p] = "started"
    /\ \/ NoFault /\ Goto(p, "agent")
       \/ Fault /\ Die(p)
    /\ UNCHANGED <<table, queue, handlers, crashes, stalls>>

\* run_agent returns a reviewed state, or raises: a model, the timeout or an
\* event of its own may fail it.
RunAgent(p) ==
    /\ pc[p] = "agent"
    /\ Goto(p, "complete") \/ Goto(p, "release")
    /\ UNCHANGED <<table, queue, handlers, crashes, faults, stalls>>

\* complete_run writes by id, whatever the row says.
Complete(p) ==
    /\ pc[p] = "complete"
    /\ \/ NoFault /\ (\E s \in Outcomes : Write(job[p], s)) /\ Goto(p, "announce")
       \/ Fault /\ Goto(p, "release") /\ UNCHANGED table
    /\ UNCHANGED <<queue, handlers, crashes, stalls>>

\* The run.completed event is still inside the try block.  A renewal that
\* raised while the run was executed is raised again by the finally clause, once
\* everything else is done: it ends the serve() task here, in Retry and in GiveUp.
EmitCompleted(p) ==
    /\ pc[p] = "announce"
    /\ \/ NoFault /\ ToLoop(p)
       \/ Fault /\ (Goto(p, "release") \/ Die(p))
    /\ UNCHANGED <<table, queue, handlers, crashes, stalls>>

\* Mutant: the last attempt is not granted.
ReleaseEarly(p) ==
    /\ pc[p] = "release"
    /\ IF attempt[job[p]] + 1 < MaxAttempts THEN Goto(p, "requeue") ELSE Goto(p, "bury")
    /\ UNCHANGED <<table, queue, handlers, crashes, faults, stalls>>

\* release_for_retry reads attempt_count ...
Release(p) ==
    /\ pc[p] = "release"
    /\ \/ NoFault /\ attempt[job[p]] < MaxAttempts /\ Goto(p, "requeue")
       \/ NoFault /\ attempt[job[p]] >= MaxAttempts /\ Goto(p, "bury")
       \/ Fault /\ Die(p)
    /\ UNCHANGED <<table, queue, handlers, crashes, stalls>>

\* ... and overwrites the row by id, whatever its status is by then.
ReleaseWrite(p) ==
    /\ \/ pc[p] = "requeue" /\ NoFault /\ Write(job[p], "queued") /\ Goto(p, "retry")
       \/ pc[p] = "bury" /\ NoFault /\ Write(job[p], "failed") /\ Goto(p, "giveup")
       \/ pc[p] \in {"requeue", "bury"} /\ Fault /\ Die(p) /\ UNCHANGED table
    /\ UNCHANGED <<queue, handlers, crashes, stalls>>

\* Mutant: the released run is left to a recovery.
RetryLater(p) == /\ pc[p] = "retry" /\ ToLoop(p)
                 /\ UNCHANGED <<table, queue, handlers, crashes, faults, stalls>>

\* run.retry_scheduled, then the job is enqueued again; a failing enqueue is swallowed.
Retry(p) ==
    /\ pc[p] = "retry"
    /\ \/ NoFault /\ queue' = Append(queue, job[p]) /\ ToLoop(p)
       \/ Fault /\ UNCHANGED queue /\ (ToLoop(p) \/ Die(p))
       \/ Fault /\ queue' = Append(queue, job[p]) /\ Die(p)
    /\ UNCHANGED <<table, handlers, crashes, stalls>>

GiveUp(p) ==
    /\ pc[p] = "giveup"
    /\ \/ NoFault /\ ToLoop(p)
       \/ Fault /\ Die(p)
    /\ UNCHANGED <<table, queue, handlers, crashes, stalls>>

Execute(p) == \/ Claim(p) \/ EmitStarted(p) \/ RunAgent(p) \/ Complete(p) \/ EmitCompleted(p)
              \/ Release(p) \/ ReleaseWrite(p) \/ Retry(p) \/ GiveUp(p)

-----------------------------------------------------------------------------
(* Leases *)

Holders(r) == {p \in Procs : job[p] = r /\ pc[p] \in Executing}

\* execute() keeps its heartbeat task from the run.started event on.
Heartbeats(r) == {p \in Holders(r) : pc[p] # "started"}

\* A lease outlasts the agent's timeout and several heartbeats, so under a
\* worker that still executes the run it runs out only if that worker stalls.
LeaseExpires(r) ==
    /\ lease[r] = "live"
    /\ lease' = [lease EXCEPT ![r] = "expired"]
    /\ \/ Holders(r) = {} /\ UNCHANGED stalls
       \/ Holders(r) # {} /\ stalls < MaxStalls /\ stalls' = stalls + 1
    /\ UNCHANGED <<status, attempt, queue, workers, handlers, crashes, faults>>

\* Mutant: a heartbeat renews the lease of its run whatever the row says.
HeartbeatLate(r) ==
    /\ Heartbeats(r) # {} /\ lease[r] # "live"
    /\ lease' = [lease EXCEPT ![r] = "live"]
    /\ UNCHANGED <<status, attempt, queue, workers, handlers, crashes, faults, stalls>>

\* renew_lease asks for a running row only: not whose it is, nor if it had expired.
Heartbeat(r) ==
    /\ Heartbeats(r) # {}
    /\ status[r] = "running" /\ lease[r] # "live"
    /\ lease' = [lease EXCEPT ![r] = "live"]
    /\ UNCHANGED <<status, attempt, queue, workers, handlers, crashes, faults, stalls>>

-----------------------------------------------------------------------------
(* Request handlers that execute a run inline, outside the worker:         *)
(*   "runs"  POST /v1/runs: execute_conversation_run and                   *)
(*           execute_project_clarification_run                             *)
(*   "chat"  POST /v1/chat        "ws"  the /v1/ws socket                  *)

ToHandler(r, c) == handler' = [handler EXCEPT ![r] = c]

Submit(r, p, d) ==
    /\ status[r] = "absent" /\ Up(p)
    /\ status' = [status EXCEPT ![r] = IF d = "ws" THEN "running" ELSE "queued"]
    /\ ToHandler(r, IF d = "chat" THEN "work" ELSE "begin")
    /\ door' = [door EXCEPT ![r] = d]
    /\ host' = [host EXCEPT ![r] = p]
    /\ UNCHANGED <<attempt, lease, queue, workers, crashes, faults, stalls>>

Inline(r) == UNCHANGED <<queue, workers, door, host, crashes, stalls>>

\* The first events.  POST /v1/runs leaves its run queued if they fail.
HandlerBegin(r) ==
    /\ handler[r] = "begin"
    /\ \/ NoFault /\ ToHandler(r, "work")
       \/ Fault /\ ToHandler(r, IF door[r] = "ws" THEN "failFirst" ELSE "none")
    /\ UNCHANGED table /\ Inline(r)

\* The model or the agent answers, or raises.
HandlerWork(r) ==
    /\ handler[r] = "work"
    /\ ToHandler(r, "first") \/ ToHandler(r, "failFirst")
    /\ UNCHANGED table /\ NoFault /\ Inline(r)

\* Two calls end a run: POST /v1/runs writes its status and then announces it,
\* the other two announce it and then write.
Writes(r) == IF door[r] = "runs" THEN handler[r] \in {"first", "failFirst"}
                                 ELSE handler[r] \in {"second", "failSecond"}

Verdicts(r) == IF handler[r] \in {"failFirst", "failSecond"} THEN {"failed"}
               ELSE IF door[r] = "runs" THEN {"completed"} ELSE Outcomes

After == [c \in Ending |-> IF c = "first" THEN "second"
                         ELSE IF c = "failFirst" THEN "failSecond" ELSE "none"]

\* If one of them raises, the except clause makes the same two for a failed
\* run; if one of those raises as well, nothing more is done.
HandlerEnd(r) ==
    /\ \/ /\ handler[r] \in Ending /\ NoFault
          /\ ToHandler(r, After[handler[r]])
          /\ IF Writes(r) THEN \E s \in Verdicts(r) : Write(r, s) ELSE UNCHANGED table
       \/ /\ handler[r] \in {"first", "second"} /\ Fault
          /\ ToHandler(r, "failFirst") /\ UNCHANGED table
       \/ /\ handler[r] \in {"failFirst", "failSecond"} /\ Fault
          /\ ToHandler(r, "none") /\ UNCHANGED table
    /\ Inline(r)

\* A socket that is gone by the time an event is sent ends its handler.
Disconnect(r) ==
    /\ door[r] = "ws" /\ handler[r] \in {"work", "first"}
    /\ ToHandler(r, "none")
    /\ UNCHANGED table /\ NoFault /\ Inline(r)

Handle(r) == HandlerBegin(r) \/ HandlerWork(r) \/ HandlerEnd(r)

-----------------------------------------------------------------------------

Next ==
    \/ \E p \in Procs : \/ Start(p) \/ Stop(p)
                        \/ Recover(p) \/ PeriodicRecover(p) \/ Dequeue(p) \/ Execute(p)
    \/ \E r \in Runs : LeaseExpires(r) \/ Heartbeat(r)
    \/ \E r \in Runs : Handle(r) \/ Disconnect(r)
    \/ \E r \in Requests, p \in Procs, d \in Doors : Submit(r, p, d)

Spec == Init /\ [][Next]_vars

\* A supervisor starts a stopped process, coroutines are scheduled, clocks run
\* on; a loop that keeps coming back to its head both recovers and dequeues.
Fairness ==
    /\ \A p \in Procs : /\ WF_vars(Start(p))
                        /\ WF_vars(Recover(p))
                        /\ WF_vars(Execute(p))
                        /\ SF_vars(PeriodicRecover(p))
                        /\ SF_vars(Dequeue(p))
    /\ \A r \in Runs : WF_vars(LeaseExpires(r)) /\ WF_vars(Handle(r))

FairSpec == Spec /\ Fairness

-----------------------------------------------------------------------------
(* Properties *)

\* A lease is held by a running row only: no path that ends, requeues or fails
\* a run leaves one behind for recover_runs or renew_lease to act on.
LeaseOnlyWhenRunning ==
    \A r \in Runs : lease[r] # "null" => status[r] = "running"

\* recover_runs and release_for_retry between them never let claim_run start
\* more than worker_max_attempts attempts (with one process).
AttemptsBounded == \A r \in Runs : attempt[r] <= MaxAttempts

\* Only a run whose attempts are used up is failed by the worker; whatever a
\* restart, a fault or a lost lease interrupts before that is retried.
FailedMeansExhausted ==
    \A r \in Orphans : status[r] = "failed" => attempt[r] >= MaxAttempts

\* While a worker executes a run its row is running under a live lease, so no
\* recovery takes the run away (one process; a stall may let the lease run out);
\* and when it is given back or over it has no lease, however late a heartbeat comes.
ExecutedRunIsLeased ==
    /\ \A p \in Procs :
          pc[p] \in {"started", "agent", "complete"} /\ job[p] \in Orphans =>
              /\ status[job[p]] = "running"
              /\ stalls = 0 => lease[job[p]] = "live"
    /\ LeaseOnlyWhenRunning

\* As long as no call has failed, a queued run always has a delivery under
\* way: it is in the queue, in a worker's hands or with its request handler, or
\* a recovery that lists queued runs is still to come (one process, Batch not
\* exceeded).  Nothing but these delivers it: later recoveries skip queued runs.
Delivering(p, r) ==
    \/ pc[p] = "off"
    \/ pc[p] = "startup"
    \/ pc[p] \in {"claim", "retry"} /\ job[p] = r
    \/ pc[p] \in {"apply", "notify"} /\ \E row \in rows[p] : row.run = r

QueuedHasDelivery ==
    faults = 0 =>
        \A r \in Runs : status[r] = "queued" =>
            \/ \E i \in DOMAIN queue : queue[i] = r
            \/ \E p \in Procs : Delivering(p, r)
            \/ handler[r] # "none"

\* A run the worker has finished stays as it is, however often the queue
\* delivers it again and whenever the process restarts (one process, no fault).
FinishedStaysFinished ==
    [][\A r \in Orphans : status[r] \in Terminal /\ faults' = 0
            => status'[r] = status[r]]_vars

\* At most one of the workers and the request handler runs the agent for a run.
OneExecutor ==
    \A r \in Runs :
        Cardinality({p \in Procs : pc[p] = "agent" /\ job[p] = r})
            + (IF handler[r] = "work" THEN 1 ELSE 0) <= 1

\* Every run an earlier process left queued is brought to an end.
OrphansFinish == \A r \in Orphans : <>(status[r] \in Terminal)
=============================================================================
