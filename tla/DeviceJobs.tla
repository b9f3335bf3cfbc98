----------------------------- MODULE DeviceJobs -----------------------------
(***************************************************************************)
(* The relay of jobs to one paired device: the device_jobs table with its  *)
(* approvals, leases and expiries (src/src/workspace/store.py), the sync   *)
(* requests that carry results one way and jobs the other, and the runtime *)
(* with its outbox of results (src/local-runtime/agent_room_runtime).      *)
(*                                                                         *)
(* A store method whose first statement is a write is one transaction and  *)
(* one action; each of them begins with the sweep.  A sync request is      *)
(* handled in several transactions, of which two touch this table.         *)
(***************************************************************************)
EXTENDS Naturals, FiniteSets

CONSTANTS
    Jobs,
    Syncs,         \* sync requests the server may be handling at a time
    NoSync,        \* "the runtime waits for no answer"
    ClaimLimit,    \* jobs one sync delivers
    Sizes,         \* the sizes results have here, of "fits" and "cut"
    MaxLeases,     \* bound on leases given per job
    MaxLost        \* bound on requests given up, handlers and runtimes stopped

ASSUME NoSyncIsNone == NoSync \notin Syncs
ASSUME SizesKnown   == Sizes # {} /\ Sizes \subseteq {"fits", "cut"}
ASSUME LimitsKnown  == ClaimLimit \in Nat \ {0} /\ MaxLeases \in Nat /\ MaxLost \in Nat

VARIABLES
    status, lease, clock, over,   \* the table: status, lease (0: none) and the lease's
                                  \* time per job, and the jobs whose expires_at has passed
    given,                        \* per job: leases given so far; they are numbered
    sync, carried, delivered,     \* per request: where its handler stands, the results it
                                  \* brings and the jobs it delivers
    mine,                         \* the request whose answer the runtime waits for
    todo,                         \* jobs delivered to the runtime and not executed yet
    outbox,                       \* its job_results table: one row per job
    approved, ran, resultOf,      \* history: approved jobs, and per job the leases under
                                  \* which it was executed and its result accepted
    lost                          \* how much of the bound is used

table   == <<status, lease, clock, over, given>>
request == <<sync, carried, delivered>>
runtime == <<mine, todo, outbox>>
vars    == <<table, request, runtime, approved, ran, resultOf, lost>>

-----------------------------------------------------------------------------
(* Data *)

Finished == {"completed", "failed"}
Terminal == Finished \cup {"cancelled", "expired"}
Open     == {"pending_approval", "queued", "leased"}
Leases   == 1..MaxLeases
Delivery == [job : Jobs, lease : Leases]
Row      == [lease : Leases, size : Sizes, acknowledged : {"no", "yes"}]
NoRow    == [lease |-> 0, size |-> "fits", acknowledged |-> "no"]

\* Every variable has its type, and exactly the leased jobs have a lease.
TypeOK ==
    /\ status \in [Jobs -> {"none"} \cup Open \cup Terminal]
    /\ lease \in [Jobs -> Leases \cup {0}]
    /\ clock \in [Jobs -> {"none", "live", "out"}]
    /\ over \subseteq Jobs
    /\ given \in [Jobs -> 0..MaxLeases]
    /\ sync \in [Syncs -> {"free", "results", "jobs", "answer"}]
    /\ carried \in [Syncs -> SUBSET [job : Jobs, lease : Leases, size : Sizes]]
    /\ delivered \in [Syncs -> SUBSET Delivery]
    /\ mine \in Syncs \cup {NoSync}
    /\ todo \subseteq Delivery
    /\ outbox \in [Jobs -> Row \cup {NoRow}]
    /\ approved \subseteq Jobs
    /\ ran \in [Jobs -> SUBSET Leases]
    /\ resultOf \in [Jobs -> Leases \cup {0}]
    /\ lost \in 0..MaxLost
    /\ \A j \in Jobs : /\ status[j] = "leased" <=> lease[j] # 0
                       /\ status[j] = "leased" <=> clock[j] # "none"

Init ==
    /\ status = [j \in Jobs |-> "none"]
    /\ lease = [j \in Jobs |-> 0]
    /\ clock = [j \in Jobs |-> "none"]
    /\ over = {}
    /\ given = [j \in Jobs |-> 0]
    /\ sync = [s \in Syncs |-> "free"]
    /\ carried = [s \in Syncs |-> {}]
    /\ delivered = [s \in Syncs |-> {}]
    /\ mine = NoSync /\ todo = {}
    /\ outbox = [j \in Jobs |-> NoRow]
    /\ approved = {}
    /\ ran = [j \in Jobs |-> {}]
    /\ resultOf = [j \in Jobs |-> 0]
    /\ lost = 0

-----------------------------------------------------------------------------
(* The sweep every store method begins with, and what it writes after it *)

\* Mutant: a leased job neither returns to the queue nor expires once its own time
\* is over.
SweptNotLeased(j) ==
    IF status[j] \in Open \ {"leased"} /\ j \in over THEN "expired"
    ELSE IF status[j] = "leased" /\ clock[j] = "out" /\ j \notin over THEN "queued" ELSE status[j]

\* A lease that ran out returns the job to the queue, unless the job has expired.
Swept(j) ==
    IF status[j] \in Open /\ j \in over THEN "expired"
    ELSE IF status[j] = "leased" /\ clock[j] = "out" THEN "queued" ELSE status[j]

SweptTable == [j \in Jobs |-> Swept(j)]

\* Mutant: a job that is not leased any more keeps its lease.
CommitKeepsLease(now, fresh) ==
    /\ status' = now
    /\ given' = [j \in Jobs |-> IF j \in fresh THEN given[j] + 1 ELSE given[j]]
    /\ lease' = [j \in Jobs |-> IF j \in fresh THEN given[j] + 1 ELSE lease[j]]
    /\ clock' = [j \in Jobs |-> IF j \in fresh THEN "live" ELSE clock[j]]
    /\ UNCHANGED over

\* The statuses at the end of a transaction; the jobs in fresh get a new lease,
\* and a job that is not leased any more has none.
Commit(now, fresh) ==
    /\ status' = now
    /\ given' = [j \in Jobs |-> IF j \in fresh THEN given[j] + 1 ELSE given[j]]
    /\ lease' = [j \in Jobs |-> IF j \in fresh THEN given[j] + 1
                                ELSE IF now[j] = "leased" THEN lease[j] ELSE 0]
    /\ clock' = [j \in Jobs |-> IF j \in fresh THEN "live"
                                ELSE IF now[j] = "leased" THEN clock[j] ELSE "none"]
    /\ UNCHANGED over

-----------------------------------------------------------------------------
(* Browser requests and time *)

\* create_device_job: a job waits for its approval.
Create(j) ==
    /\ status[j] = "none"
    /\ Commit([SweptTable EXCEPT ![j] = "pending_approval"], {})
    /\ UNCHANGED <<request, runtime, approved, ran, resultOf, lost>>

\* Mutant: an answer that comes late is taken all the same.
ApproveLate(j) ==
    /\ status[j] # "none"
    /\ \/ Commit([SweptTable EXCEPT ![j] = "queued"], {}) /\ approved' = approved \cup {j}
       \/ Commit([SweptTable EXCEPT ![j] = "cancelled"], {}) /\ UNCHANGED approved
    /\ UNCHANGED <<request, runtime, ran, resultOf, lost>>

\* approve_device_job: an UPDATE of a job that is still pending.
Approve(j) ==
    /\ status[j] # "none"
    /\ \/ /\ Swept(j) = "pending_approval"
          /\ \/ /\ Commit([SweptTable EXCEPT ![j] = "queued"], {})
                /\ approved' = approved \cup {j}
             \/ /\ Commit([SweptTable EXCEPT ![j] = "cancelled"], {})
                /\ UNCHANGED approved
       \/ Swept(j) # "pending_approval" /\ Commit(SweptTable, {}) /\ UNCHANGED approved
    /\ UNCHANGED <<request, runtime, ran, resultOf, lost>>

\* list_device_jobs sweeps too.
List ==
    /\ Commit(SweptTable, {})
    /\ UNCHANGED <<request, runtime, approved, ran, resultOf, lost>>

LeaseRunsOut(j) ==
    /\ clock[j] = "live"
    /\ clock' = [clock EXCEPT ![j] = "out"]
    /\ UNCHANGED <<status, lease, over, given, request, runtime, approved, ran, resultOf, lost>>

\* A lease never outlasts its job; a job that is over is not looked at again.
JobExpires(j) ==
    /\ status[j] \in Open /\ j \notin over
    /\ over' = over \cup {j}
    /\ clock' = [clock EXCEPT ![j] = IF @ = "live" THEN "out" ELSE @]
    /\ UNCHANGED <<status, lease, given, request, runtime, approved, ran, resultOf, lost>>

-----------------------------------------------------------------------------
(* sync_device: the handler of one request *)

\* A result of the job's lease, while it lasts, that is not too large: what the
\* runtime cuts to 24000 characters is more than that with its envelope.
Acceptable(r) == Swept(r.job) = "leased" /\ lease[r.job] = r.lease /\ r.size = "fits"

\* complete_device_job_results: results are accepted or a conflict is reported.
HandleResults(s) ==
    /\ sync[s] = "results"
    /\ LET good == {r \in carried[s] : Acceptable(r)}
           done == {r.job : r \in good} IN
       \E outcome \in [done -> Finished] :
         /\ Commit([j \in Jobs |-> IF j \in done THEN outcome[j] ELSE Swept(j)], {})
         /\ resultOf' = [j \in Jobs |-> IF j \in done THEN (CHOOSE r \in good : r.job = j).lease
                                        ELSE resultOf[j]]
    /\ sync' = [sync EXCEPT ![s] = "jobs"]
    /\ UNCHANGED <<carried, delivered, runtime, approved, ran, lost>>

\* Queued jobs that may be leased once more; the bound is MaxLeases.
Claimable == {j \in Jobs : Swept(j) = "queued" /\ given[j] < MaxLeases}

\* Mutant: the jobs leased already are delivered again.
HandleJobsAgain(s) ==
    /\ sync[s] = "jobs"
    /\ \E C \in SUBSET Claimable :
         /\ Cardinality(C) <= ClaimLimit
         /\ Cardinality(C) < ClaimLimit => C = Claimable
         /\ Commit([j \in Jobs |-> IF j \in C THEN "leased" ELSE Swept(j)], C)
         /\ delivered' = [delivered EXCEPT ![s] =
              {[job |-> j, lease |-> lease'[j]] : j \in {i \in Jobs : status'[i] = "leased"}}]
    /\ sync' = [sync EXCEPT ![s] = "answer"]
    /\ UNCHANGED <<carried, runtime, approved, ran, resultOf, lost>>

\* claim_device_jobs, after the transaction for the events: at most ClaimLimit.
HandleJobs(s) ==
    /\ sync[s] = "jobs"
    /\ \E C \in SUBSET Claimable :
         /\ Cardinality(C) <= ClaimLimit
         /\ Cardinality(C) < ClaimLimit => C = Claimable
         /\ Commit([j \in Jobs |-> IF j \in C THEN "leased" ELSE Swept(j)], C)
         /\ delivered' = [delivered EXCEPT ![s] = {[job |-> j, lease |-> given[j] + 1] : j \in C}]
    /\ sync' = [sync EXCEPT ![s] = "answer"]
    /\ UNCHANGED <<carried, runtime, approved, ran, resultOf, lost>>

-----------------------------------------------------------------------------
(* LocalRuntime.sync_once *)

Free(s) == /\ sync' = [sync EXCEPT ![s] = "free"]
           /\ carried' = [carried EXCEPT ![s] = {}]
           /\ delivered' = [delivered EXCEPT ![s] = {}]

Unacknowledged == {j \in Jobs : outbox[j].lease # 0 /\ outbox[j].acknowledged = "no"}

\* Mutant: what was sent counts as acknowledged.
BeginOnce(s) ==
    /\ mine = NoSync /\ todo = {} /\ sync[s] = "free"
    /\ mine' = s
    /\ sync' = [sync EXCEPT ![s] = "results"]
    /\ carried' = [carried EXCEPT ![s] =
         {[job |-> j, lease |-> outbox[j].lease, size |-> outbox[j].size] : j \in Unacknowledged}]
    /\ outbox' = [j \in Jobs |-> IF j \in Unacknowledged
                    THEN [outbox[j] EXCEPT !.acknowledged = "yes"] ELSE outbox[j]]
    /\ UNCHANGED <<table, delivered, todo, approved, ran, resultOf, lost>>

\* A request carries every result that is not acknowledged.
Begin(s) ==
    /\ mine = NoSync /\ todo = {} /\ sync[s] = "free"
    /\ mine' = s
    /\ sync' = [sync EXCEPT ![s] = "results"]
    /\ carried' = [carried EXCEPT ![s] =
         {[job |-> j, lease |-> outbox[j].lease, size |-> outbox[j].size] :
            j \in Unacknowledged}]
    /\ UNCHANGED <<table, delivered, todo, outbox, approved, ran, resultOf, lost>>

\* The answer acknowledges results, accepted or not, by job id, and brings jobs.
\* The answer to a request that was given up is dropped.
Answer(s) ==
    /\ sync[s] = "answer"
    /\ Free(s)
    /\ \/ /\ mine = s /\ mine' = NoSync
          /\ outbox' = [j \in Jobs |-> IF j \in {r.job : r \in carried[s]}
                          THEN [outbox[j] EXCEPT !.acknowledged = "yes"] ELSE outbox[j]]
          /\ todo' = delivered[s]
       \/ mine # s /\ UNCHANGED runtime
    /\ UNCHANGED <<table, approved, ran, resultOf, lost>>

\* enqueue_job_result: ON CONFLICT(job_id) DO NOTHING, also for a new lease.
Store(d, size) ==
    IF outbox[d.job] = NoRow
    THEN [outbox EXCEPT ![d.job] = [lease |-> d.lease, size |-> size, acknowledged |-> "no"]]
    ELSE outbox

\* A delivered job is executed and its result stored.
Execute(d) ==
    /\ d \in todo
    /\ ran' = [ran EXCEPT ![d.job] = @ \cup {d.lease}]
    /\ \E size \in Sizes : outbox' = Store(d, size)
    /\ todo' = todo \ {d}
    /\ UNCHANGED <<table, request, mine, approved, resultOf, lost>>

-----------------------------------------------------------------------------
(* What gets lost *)

Lose == lost < MaxLost /\ lost' = lost + 1

\* The runtime's request times out or its connection breaks; the server goes on.
GiveUp ==
    /\ Lose /\ mine # NoSync /\ mine' = NoSync
    /\ UNCHANGED <<table, request, todo, outbox, approved, ran, resultOf>>

\* The request never arrives, or its handler is stopped between transactions.
HandlerStops(s) ==
    /\ Lose /\ sync[s] # "free" /\ Free(s)
    /\ mine' = IF mine = s THEN NoSync ELSE mine
    /\ UNCHANGED <<table, todo, outbox, approved, ran, resultOf>>

\* The runtime stops: before it executes a job, or after and before it stores
\* the result.
RuntimeStops ==
    /\ Lose /\ mine' = NoSync /\ todo' = {}
    /\ \/ UNCHANGED ran
       \/ \E d \in todo : ran' = [ran EXCEPT ![d.job] = @ \cup {d.lease}]
    /\ UNCHANGED <<table, request, outbox, approved, resultOf>>

Next ==
    \/ List
    \/ \E j \in Jobs : Create(j) \/ Approve(j) \/ LeaseRunsOut(j) \/ JobExpires(j)
    \/ \E s \in Syncs : HandleResults(s) \/ HandleJobs(s) \/ Begin(s) \/ Answer(s) \/ HandlerStops(s)
    \/ \E d \in todo : Execute(d)
    \/ GiveUp \/ RuntimeStops

Spec == Init /\ [][Next]_vars

\* sync_forever goes on, handlers return, and every expires_at passes.
Fairness ==
    /\ \A j \in Jobs : WF_vars(JobExpires(j))
    /\ \A s \in Syncs : WF_vars(HandleResults(s) \/ HandleJobs(s) \/ Answer(s))
    /\ WF_vars(\E s \in Syncs : Begin(s))
    /\ WF_vars(\E d \in todo : Execute(d))

FairSpec == Spec /\ Fairness

-----------------------------------------------------------------------------
(* Properties *)

\* The device executes only jobs an owner approved, whatever is late or lost.
OnlyApprovedRun == \A j \in Jobs : ran[j] # {} => j \in approved /\ status[j] # "cancelled"

\* A lease is on its way in one answer at most, or with the runtime: no two
\* executions happen under one lease.
LeasesAreDeliveredOnce ==
    \A j \in Jobs : \A n \in Leases :
        LET d == [job |-> j, lease |-> n] IN
        /\ Cardinality({s \in Syncs : d \in delivered[s]}) <= 1
        /\ \A s \in Syncs : d \in delivered[s] => d \notin todo /\ n \notin ran[j]
        /\ d \in todo => n \notin ran[j]

\* The runtime stops sending a result of the right size only when the cloud has
\* taken it or its lease is over for good, however many answers are lost.
AcknowledgedIsSettled ==
    \A j \in Jobs : outbox[j].acknowledged = "yes" /\ outbox[j].size = "fits" =>
        resultOf[j] = outbox[j].lease \/ lease[j] # outbox[j].lease

\* A result is accepted once, under the lease the job has and was executed under,
\* while that lease and the job last.
AcceptedInTime ==
    [][\A j \in Jobs : resultOf'[j] # resultOf[j] =>
         /\ resultOf[j] = 0 /\ resultOf'[j] = lease[j] /\ lease[j] \in ran[j]
         /\ clock[j] = "live" /\ j \notin over]_vars

\* Nothing takes a job out of a terminal status.
TerminalIsFinal ==
    [][\A j \in Jobs : status[j] \in Terminal => status'[j] = status[j] /\ resultOf'[j] = resultOf[j]]_vars

\* A job does not stay open: at the latest a sync after its expiry closes it.
JobsEnd == \A j \in Jobs : status[j] # "none" ~> status[j] \in Terminal

\* ADR 009: the runtime stores a durable result of what it executes and keeps it
\* until a later sync: if nothing was lost, the result of an execution under the
\* lease the job has is in the outbox.
ResultsAreStored ==
    lost = 0 => \A j \in Jobs : lease[j] \in ran[j] => outbox[j].lease = lease[j]
=============================================================================
