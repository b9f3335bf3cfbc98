-------------------------- MODULE DeviceJobsProofs --------------------------
(* Theorems of DeviceJobs, for any jobs and sync requests and any bounds. *)
EXTENDS JobRefinement, FiniteSetTheorems, TLAPS

USE NoSyncIsNone, SizesKnown, LimitsKnown

-----------------------------------------------------------------------------
(* The inductive invariant *)

\* Leases are numbered: the lease a job has is the last one given, and nothing
\* is delivered or executed under a lease that was not given.
LeasesAreGiven ==
    /\ \A j \in Jobs : lease[j] \in {0, given[j]} /\ \A n \in ran[j] : n <= given[j]
    /\ \A s \in Syncs : \A d \in delivered[s] : d.lease <= given[d.job]
    /\ \A d \in todo : d.lease <= given[d.job]

\* A delivery is in one place, and is not executed yet.
DeliveriesAreNew ==
    /\ \A s \in Syncs : \A d \in delivered[s] :
         d \notin todo /\ d.lease \notin ran[d.job] /\ \A t \in Syncs : d \in delivered[t] => s = t
    /\ \A d \in todo : d.lease \notin ran[d.job]

\* A job was approved before it was leased, and is not cancelled after.
ApprovedFirst ==
    \A j \in Jobs : /\ status[j] \in {"queued", "leased"} \cup Finished => j \in approved
                    /\ given[j] # 0 => j \in approved
                    /\ j \in approved => status[j] \notin {"none", "pending_approval", "cancelled"}

\* What is in the outbox was executed.
OutboxIsOfRuns == \A j \in Jobs : outbox[j].lease # 0 => outbox[j].lease \in ran[j]

\* What a request carries is in the outbox: a row keeps its lease and its size.
CarriedIsInOutbox ==
    \A s \in Syncs : \A r \in carried[s] :
        outbox[r.job].lease = r.lease /\ outbox[r.job].size = r.size

\* An accepted result is that of a job that is finished.
ResultsAreFinal == \A j \in Jobs : resultOf[j] # 0 => status[j] \in Finished

\* The cloud has nothing more to do with a result of lease n.
Settled(j, n) == resultOf[j] = n \/ lease[j] # n

\* A handler that is past the results has settled each of them.
HandledAreSettled ==
    \A s \in Syncs : sync[s] \in {"jobs", "answer"} =>
        \A r \in carried[s] : r.size = "fits" => Settled(r.job, r.lease)

-----------------------------------------------------------------------------
(* Type correctness *)

\* The part of TypeOK that is about the table.
TableOK ==
    /\ status \in [Jobs -> {"none"} \cup Open \cup Terminal]
    /\ lease \in [Jobs -> Leases \cup {0}]
    /\ clock \in [Jobs -> {"none", "live", "out"}]
    /\ over \subseteq Jobs
    /\ given \in [Jobs -> 0..MaxLeases]
    /\ \A j \in Jobs : /\ status[j] = "leased" <=> lease[j] # 0
                       /\ status[j] = "leased" <=> clock[j] # "none"

\* The rest of it.
OthersOK ==
    /\ sync \in [Syncs -> {"free", "results", "jobs", "answer"}]
    /\ carried \in [Syncs -> SUBSET [job : Jobs, lease : Leases, size : Sizes]]
    /\ delivered \in [Syncs -> SUBSET Delivery]
    /\ mine \in Syncs \cup {NoSync}
    /\ todo \subseteq Delivery
    /\ outbox \in [Jobs -> Row \cup {NoRow}]
    /\ approved \subseteq Jobs
    /\ ran \in [Jobs -> SUBSET Leases]
    /\ resultOf \in [Jobs -> Leases \cup {0}]
    /\ lost \in 0..MaxLost

\* TypeOK in its two parts.
LEMMA Parts == TypeOK <=> TableOK /\ OthersOK
  BY DEF TypeOK, TableOK, OthersOK

\* The sweep leaves a status, and a lease only where there was one.
LEMMA SweepType ==
  ASSUME TableOK, NEW j \in Jobs
  PROVE  /\ Swept(j) \in {"none"} \cup Open \cup Terminal
         /\ Swept(j) = "leased" => status[j] = "leased" /\ clock[j] = "live" /\ j \notin over
         /\ status[j] \notin Open => Swept(j) = status[j]
  BY DEF TableOK, Swept, Open, Terminal, Finished

\* A transaction leaves the table typed if it leases afresh only jobs that may
\* be, and takes no other job to be leased that was not.
LEMMA CommitType ==
  ASSUME TableOK,
         NEW now \in [Jobs -> {"none"} \cup Open \cup Terminal], NEW fresh \in SUBSET Jobs,
         \A j \in fresh : now[j] = "leased" /\ given[j] < MaxLeases,
         \A j \in Jobs \ fresh : now[j] = "leased" => status[j] = "leased",
         Commit(now, fresh)
  PROVE  TableOK'
<1> USE DEF Commit, TableOK, Leases
<1>1. status' \in [Jobs -> {"none"} \cup Open \cup Terminal] /\ over' \subseteq Jobs
  OBVIOUS
<1>2. given' \in [Jobs -> 0..MaxLeases]
  OBVIOUS
<1>3. lease' \in [Jobs -> Leases \cup {0}]
  OBVIOUS
<1>4. clock' \in [Jobs -> {"none", "live", "out"}]
  OBVIOUS
<1>5. ASSUME NEW j \in Jobs
      PROVE  (status'[j] = "leased" <=> lease'[j] # 0) /\ (status'[j] = "leased" <=> clock'[j] # "none")
  OBVIOUS
<1> QED BY <1>1, <1>2, <1>3, <1>4, <1>5

\* The statuses after a sweep in which one job, or some, are set to a status that is
\* not a lease.
LEMMA SweepCommit ==
  ASSUME TableOK, NEW now \in [Jobs -> {"none"} \cup Open \cup Terminal],
         \A j \in Jobs : now[j] # "leased" \/ now[j] = Swept(j), Commit(now, {})
  PROVE  TableOK'
<1>1. \A j \in Jobs \ {} : now[j] = "leased" => status[j] = "leased"
  BY SweepType
<1> QED BY <1>1, CommitType

\* A sweep alone keeps the types.
LEMMA ListType == TypeOK /\ List => TypeOK'
<1> SUFFICES ASSUME TypeOK, List PROVE TypeOK'
  OBVIOUS
<1>0. TableOK /\ OthersOK
  BY Parts
<1>1. /\ SweptTable \in [Jobs -> {"none"} \cup Open \cup Terminal]
      /\ \A j \in Jobs : SweptTable[j] = Swept(j)
  BY <1>0, SweepType DEF SweptTable
<1>2. TableOK'
  BY <1>0, <1>1, SweepCommit DEF List
<1>3. OthersOK'
  BY <1>0 DEF List, OthersOK, request, runtime
<1> QED BY <1>2, <1>3 DEF TypeOK, TableOK, OthersOK

\* The other requests of the browser and the passing of time keep the types.
LEMMA BrowserType ==
  ASSUME TypeOK, NEW j \in Jobs, Create(j) \/ Approve(j) \/ LeaseRunsOut(j) \/ JobExpires(j)
  PROVE  TypeOK'
<1>0. TableOK /\ OthersOK
  BY Parts
<1>1. SweptTable \in [Jobs -> {"none"} \cup Open \cup Terminal]
  BY <1>0, SweepType DEF SweptTable
<1>2. \A i \in Jobs : SweptTable[i] = Swept(i)
  BY DEF SweptTable
<1>3. ASSUME NEW to \in (Open \cup Terminal) \ {"leased"}, Commit([SweptTable EXCEPT ![j] = to], {})
      PROVE  TableOK'
  <2>1. [SweptTable EXCEPT ![j] = to] \in [Jobs -> {"none"} \cup Open \cup Terminal]
    BY <1>1
  <2>2. \A i \in Jobs : LET n == [SweptTable EXCEPT ![j] = to] IN n[i] # "leased" \/ n[i] = Swept(i)
    BY <1>1, <1>2
  <2> QED BY <1>0, <1>3, <2>1, <2>2, SweepCommit
<1>4. ASSUME Commit(SweptTable, {}) PROVE TableOK'
  BY <1>0, <1>1, <1>2, <1>4, SweepCommit
<1>5. CASE Create(j)
  <2>1. TableOK'
    BY <1>3, <1>5 DEF Create, Open, Terminal
  <2>2. OthersOK'
    BY <1>0, <1>5 DEF Create, OthersOK, request, runtime
  <2> QED BY <2>1, <2>2, Parts DEF TypeOK, TableOK, OthersOK
<1>6. CASE Approve(j)
  <2>1. TableOK'
    BY <1>3, <1>4, <1>6 DEF Approve, Open, Terminal
  <2>2. OthersOK'
    BY <1>0, <1>6 DEF Approve, OthersOK, request, runtime
  <2> QED BY <2>1, <2>2 DEF TypeOK, TableOK, OthersOK
<1>7. CASE LeaseRunsOut(j)
  <2>1. TableOK'
    BY <1>0, <1>7 DEF LeaseRunsOut, TableOK
  <2>2. OthersOK'
    BY <1>0, <1>7 DEF LeaseRunsOut, OthersOK, request, runtime
  <2> QED BY <2>1, <2>2 DEF TypeOK, TableOK, OthersOK
<1>8. CASE JobExpires(j)
  <2>1. TableOK'
    BY <1>0, <1>8 DEF JobExpires, TableOK
  <2>2. OthersOK'
    BY <1>0, <1>8 DEF JobExpires, OthersOK, request, runtime
  <2> QED BY <2>1, <2>2 DEF TypeOK, TableOK, OthersOK
<1> QED BY <1>5, <1>6, <1>7, <1>8

\* The two transactions of a sync request keep the types.
LEMMA HandlerType ==
  ASSUME TypeOK, NEW s \in Syncs, HandleResults(s) \/ HandleJobs(s)
  PROVE  TypeOK'
<1>0. TableOK /\ OthersOK
  BY Parts
<1>1. CASE HandleResults(s)
  <2> DEFINE good == {r \in carried[s] : Acceptable(r)}
             done == {r.job : r \in good}
  <2>1. PICK outcome \in [done -> Finished] :
          /\ Commit([j \in Jobs |-> IF j \in done THEN outcome[j] ELSE Swept(j)], {})
          /\ resultOf' = [j \in Jobs |-> IF j \in done THEN (CHOOSE r \in good : r.job = j).lease
                                         ELSE resultOf[j]]
    BY <1>1 DEF HandleResults
  <2> DEFINE now == [j \in Jobs |-> IF j \in done THEN outcome[j] ELSE Swept(j)]
  <2>2. good \subseteq [job : Jobs, lease : Leases, size : Sizes]
    BY <1>0 DEF OthersOK
  <2>3. now \in [Jobs -> {"none"} \cup Open \cup Terminal]
    BY <1>0, SweepType DEF Terminal
  <2>4. \A j \in Jobs : now[j] # "leased" \/ now[j] = Swept(j)
    BY DEF Finished
  <2>5. TableOK'
    <3> HIDE DEF now
    <3> QED BY <1>0, <2>1, <2>3, <2>4, SweepCommit DEF now
  <2>6. \A j \in done : (CHOOSE r \in good : r.job = j).lease \in Leases
    BY <2>2
  <2>7. resultOf' \in [Jobs -> Leases \cup {0}]
    BY <1>0, <2>1, <2>6 DEF OthersOK
  <2>8. OthersOK'
    BY <1>0, <1>1, <2>7 DEF HandleResults, OthersOK, runtime
  <2> QED BY <2>5, <2>8 DEF TypeOK, TableOK, OthersOK
<1>2. CASE HandleJobs(s)
  <2>1. PICK C \in SUBSET Claimable :
          /\ Commit([j \in Jobs |-> IF j \in C THEN "leased" ELSE Swept(j)], C)
          /\ delivered' = [delivered EXCEPT ![s] = {[job |-> j, lease |-> given[j] + 1] : j \in C}]
    BY <1>2 DEF HandleJobs
  <2> DEFINE now == [j \in Jobs |-> IF j \in C THEN "leased" ELSE Swept(j)]
  <2>2. C \in SUBSET Jobs /\ \A j \in C : given[j] < MaxLeases
    BY DEF Claimable
  <2>3. now \in [Jobs -> {"none"} \cup Open \cup Terminal]
    BY <1>0, SweepType DEF Open
  <2>4. /\ \A j \in C : now[j] = "leased" /\ given[j] < MaxLeases
        /\ \A j \in Jobs \ C : now[j] = "leased" => status[j] = "leased"
    BY <1>0, <2>2, SweepType
  <2>5. TableOK'
    <3> HIDE DEF now
    <3> QED BY <1>0, <2>1, <2>2, <2>3, <2>4, CommitType DEF now
  <2>6. \A j \in C : given[j] + 1 \in Leases
    BY <1>0, <2>2 DEF TableOK, Leases
  <2>7. delivered' \in [Syncs -> SUBSET Delivery]
    BY <1>0, <2>1, <2>2, <2>6 DEF OthersOK, Delivery
  <2>8. OthersOK'
    BY <1>0, <1>2, <2>7 DEF HandleJobs, OthersOK, runtime
  <2> QED BY <2>5, <2>8 DEF TypeOK, TableOK, OthersOK
<1> QED BY <1>1, <1>2

\* The runtime keeps the types.
LEMMA RuntimeType ==
  ASSUME TypeOK, CarriedIsInOutbox,
         (\E s \in Syncs : Begin(s) \/ Answer(s)) \/ \E d \in todo : Execute(d)
  PROVE  TypeOK'
<1>0. TableOK /\ OthersOK
  BY Parts
<1>1. TableOK'
  BY <1>0 DEF TableOK, Begin, Answer, Execute, table
<1>2. ASSUME NEW s \in Syncs, Begin(s) PROVE OthersOK'
  <2>1. \A j \in Unacknowledged : outbox[j] \in Row /\ j \in Jobs
    BY <1>0 DEF OthersOK, Unacknowledged, NoRow
  <2>2. {[job |-> j, lease |-> outbox[j].lease, size |-> outbox[j].size] : j \in Unacknowledged}
          \subseteq [job : Jobs, lease : Leases, size : Sizes]
    BY <2>1 DEF Row
  <2> QED BY <1>0, <1>2, <2>2 DEF Begin, OthersOK
<1>3. ASSUME NEW s \in Syncs, Answer(s) PROVE OthersOK'
  <2>1. CASE mine = s
    <3>1. \A j \in {r.job : r \in carried[s]} : j \in Jobs /\ outbox[j].lease \in Leases
      BY <1>0 DEF OthersOK, CarriedIsInOutbox
    <3>2. \A j \in {r.job : r \in carried[s]} : outbox[j] \in Row
      BY <1>0, <3>1 DEF OthersOK, NoRow, Leases
    <3>3. \A row \in Row : [row EXCEPT !.acknowledged = "yes"] \in Row
      BY DEF Row
    <3>4. outbox' \in [Jobs -> Row \cup {NoRow}]
      BY <1>0, <1>3, <2>1, <3>2, <3>3 DEF Answer, OthersOK
    <3> QED BY <1>0, <1>3, <2>1, <3>4 DEF Answer, Free, OthersOK
  <2>2. CASE mine # s
    BY <1>0, <1>3, <2>2 DEF Answer, Free, OthersOK, runtime
  <2> QED BY <2>1, <2>2
<1>4. ASSUME NEW d \in todo, Execute(d) PROVE OthersOK'
  <2>1. d.job \in Jobs /\ d.lease \in Leases
    BY <1>0 DEF OthersOK, Delivery
  <2>2. \A size \in Sizes : Store(d, size) \in [Jobs -> Row \cup {NoRow}]
    BY <1>0, <2>1 DEF Store, OthersOK, Row
  <2> QED BY <1>0, <1>4, <2>1, <2>2 DEF Execute, OthersOK, request
<1> QED BY <1>1, <1>2, <1>3, <1>4, Parts DEF TypeOK, TableOK, OthersOK

\* What gets lost keeps the types.
LEMMA LossType ==
  ASSUME TypeOK, GiveUp \/ RuntimeStops \/ \E s \in Syncs : HandlerStops(s)
  PROVE  TypeOK'
<1>0. TableOK /\ OthersOK
  BY Parts
<1>1. TableOK'
  BY <1>0 DEF TableOK, GiveUp, RuntimeStops, HandlerStops, table
<1>2. ASSUME GiveUp PROVE OthersOK'
  BY <1>0, <1>2 DEF GiveUp, Lose, OthersOK, request
<1>3. ASSUME RuntimeStops PROVE OthersOK'
  <2>1. \A d \in todo : d.job \in Jobs /\ d.lease \in Leases
    BY <1>0 DEF OthersOK, Delivery
  <2>2. ran' \in [Jobs -> SUBSET Leases]
    BY <1>0, <1>3, <2>1 DEF RuntimeStops, OthersOK
  <2> QED BY <1>0, <1>3, <2>2 DEF RuntimeStops, Lose, OthersOK, request
<1>4. ASSUME NEW s \in Syncs, HandlerStops(s) PROVE OthersOK'
  BY <1>0, <1>4 DEF HandlerStops, Lose, Free, OthersOK
<1> QED BY <1>1, <1>2, <1>3, <1>4 DEF TypeOK, TableOK, OthersOK

\* A stored row keeps its lease and its size, so requests go on carrying what is
\* in the outbox.
LEMMA CarriedStaysInOutbox == TypeOK /\ CarriedIsInOutbox /\ [Next]_vars => CarriedIsInOutbox'
<1> SUFFICES ASSUME TypeOK, CarriedIsInOutbox, [Next]_vars,
                    NEW t \in Syncs, NEW r \in carried'[t]
             PROVE  outbox'[r.job].lease = r.lease /\ outbox'[r.job].size = r.size
  BY DEF CarriedIsInOutbox
<1>0. OthersOK
  BY Parts
<1>1. ASSUME UNCHANGED <<carried, outbox>> PROVE outbox'[r.job].lease = r.lease /\ outbox'[r.job].size = r.size
  BY <1>1 DEF CarriedIsInOutbox
<1>2. ASSUME NEW s \in Syncs, Begin(s)
      PROVE  outbox'[r.job].lease = r.lease /\ outbox'[r.job].size = r.size
  <2>1. CASE t = s
    <3>1. PICK j \in Unacknowledged : r = [job |-> j, lease |-> outbox[j].lease, size |-> outbox[j].size]
      BY <1>0, <1>2, <2>1 DEF Begin, OthersOK
    <3> QED BY <1>2, <3>1 DEF Begin
  <2>2. CASE t # s
    BY <1>0, <1>2, <2>2 DEF Begin, OthersOK, CarriedIsInOutbox
  <2> QED BY <2>1, <2>2
<1>3. ASSUME NEW s \in Syncs, Answer(s)
      PROVE  outbox'[r.job].lease = r.lease /\ outbox'[r.job].size = r.size
  <2>1. r \in carried[t] /\ r.job \in Jobs
    BY <1>0, <1>3 DEF Answer, Free, OthersOK
  <2>2. outbox'[r.job].lease = outbox[r.job].lease /\ outbox'[r.job].size = outbox[r.job].size
    BY <1>0, <1>3, <2>1 DEF Answer, runtime, OthersOK, Row, NoRow
  <2> QED BY <2>1, <2>2 DEF CarriedIsInOutbox
<1>4. ASSUME NEW d \in todo, Execute(d)
      PROVE  outbox'[r.job].lease = r.lease /\ outbox'[r.job].size = r.size
  <2>1. r \in carried[t] /\ r.job \in Jobs /\ r.lease # 0
    BY <1>0, <1>4 DEF Execute, request, OthersOK, Leases
  <2>2. outbox[r.job] # NoRow
    BY <2>1 DEF CarriedIsInOutbox, NoRow
  <2>3. outbox'[r.job] = outbox[r.job]
    BY <1>0, <1>4, <2>1, <2>2 DEF Execute, Store, OthersOK
  <2> QED BY <2>1, <2>3 DEF CarriedIsInOutbox
<1>5. ASSUME NEW s \in Syncs, HandlerStops(s)
      PROVE  outbox'[r.job].lease = r.lease /\ outbox'[r.job].size = r.size
  BY <1>0, <1>5 DEF HandlerStops, Free, OthersOK, CarriedIsInOutbox
<1>6. ASSUME NEW s \in Syncs, HandleResults(s) \/ HandleJobs(s) PROVE UNCHANGED <<carried, outbox>>
  BY <1>6 DEF HandleResults, HandleJobs, runtime
<1>7. ASSUME NEW j \in Jobs, Create(j) \/ Approve(j) \/ LeaseRunsOut(j) \/ JobExpires(j)
      PROVE  UNCHANGED <<carried, outbox>>
  BY <1>7 DEF Create, Approve, LeaseRunsOut, JobExpires, request, runtime
<1>8. ASSUME List \/ GiveUp \/ RuntimeStops \/ UNCHANGED vars PROVE UNCHANGED <<carried, outbox>>
  BY <1>8 DEF List, GiveUp, RuntimeStops, request, runtime, vars
<1> QED BY <1>1, <1>2, <1>3, <1>4, <1>5, <1>6, <1>7, <1>8 DEF Next

\* Every step keeps the types.
LEMMA NextType == TypeOK /\ CarriedIsInOutbox /\ [Next]_vars => TypeOK'
<1> SUFFICES ASSUME TypeOK, CarriedIsInOutbox, [Next]_vars PROVE TypeOK'
  OBVIOUS
<1>1. CASE UNCHANGED vars
  BY <1>1 DEF TypeOK, vars, table, request, runtime
<1>2. CASE Next
  BY <1>2, ListType, BrowserType, HandlerType, RuntimeType, LossType DEF Next
<1> QED BY <1>1, <1>2

\* Every reachable state has its types, and exactly the leased jobs have a lease.
THEOREM TypeCorrect == Spec => []TypeOK
<1>1. Init => TypeOK /\ CarriedIsInOutbox
  BY DEF Init, TypeOK, Open, Terminal, Finished, Leases, NoRow, CarriedIsInOutbox
<1> QED BY <1>1, NextType, CarriedStaysInOutbox, PTL DEF Spec

-----------------------------------------------------------------------------
(* What a step does to a job *)

\* A lease is kept, dropped or given anew under the next number; a job in a
\* terminal status keeps status and result.
Moved(j) ==
    /\ \/ given'[j] = given[j] /\ lease'[j] \in {lease[j], 0}
       \/ given'[j] = given[j] + 1 /\ lease'[j] = given[j] + 1
    /\ status[j] \in Terminal => status'[j] = status[j] /\ resultOf'[j] = resultOf[j]

\* A result is written while the job and its lease last.
Accepted(j) ==
    resultOf'[j] # resultOf[j] =>
        /\ status[j] = "leased" /\ clock[j] = "live" /\ j \notin over
        /\ resultOf'[j] = lease[j] /\ status'[j] \in Finished
        /\ \E s \in Syncs : \E r \in carried[s] : r.job = j /\ r.lease = lease[j]

\* Every step moves a job in one of these ways.
LEMMA JobsMove == TypeOK /\ [Next]_vars => \A j \in Jobs : Moved(j) /\ Accepted(j)
<1> SUFFICES ASSUME TypeOK, [Next]_vars, NEW j \in Jobs PROVE Moved(j) /\ Accepted(j)
  OBVIOUS
<1>0. TableOK /\ OthersOK
  BY Parts
<1>1. ASSUME NEW now, Commit(now, {}), now[j] = Swept(j) \/ (status[j] \notin Terminal /\ now[j] # "leased"),
             resultOf' = resultOf
      PROVE  Moved(j) /\ Accepted(j)
  <2>1. status[j] \in Terminal => now[j] = status[j]
    BY <1>0, <1>1, SweepType DEF Terminal, Open, Finished
  <2>2. /\ status'[j] = now[j] /\ given'[j] = given[j] /\ lease'[j] \in {lease[j], 0}
    BY <1>1 DEF Commit
  <2> QED BY <1>0, <1>1, <2>1, <2>2 DEF Moved, Accepted, TableOK
<1>2. ASSUME UNCHANGED <<status, lease, given, resultOf>> PROVE Moved(j) /\ Accepted(j)
  BY <1>0, <1>2 DEF Moved, Accepted, TableOK
<1>3. SweptTable \in [Jobs -> {"none"} \cup Open \cup Terminal] /\ SweptTable[j] = Swept(j)
  BY <1>0, SweepType DEF SweptTable
<1>4. ASSUME List PROVE Moved(j) /\ Accepted(j)
  BY <1>1, <1>3, <1>4 DEF List
<1>5. ASSUME NEW i \in Jobs, Create(i) PROVE Moved(j) /\ Accepted(j)
  <2> DEFINE now == [SweptTable EXCEPT ![i] = "pending_approval"]
  <2>1. now[j] = Swept(j) \/ (status[j] \notin Terminal /\ now[j] # "leased")
    BY <1>3, <1>5 DEF Create, Terminal, Finished
  <2>2. Commit(now, {}) /\ resultOf' = resultOf
    BY <1>5 DEF Create
  <2> QED BY <1>1, <2>1, <2>2
<1>6. ASSUME NEW i \in Jobs, Approve(i) PROVE Moved(j) /\ Accepted(j)
  <2>1. ASSUME NEW to \in {"queued", "cancelled"}, Commit([SweptTable EXCEPT ![i] = to], {}),
               Swept(i) = "pending_approval"
        PROVE  Moved(j) /\ Accepted(j)
    <3> DEFINE now == [SweptTable EXCEPT ![i] = to]
    <3>1. status[i] \notin Terminal
      BY <1>0, <2>1, SweepType DEF Terminal, Open, Finished
    <3>2. now[j] = Swept(j) \/ (status[j] \notin Terminal /\ now[j] # "leased")
      BY <1>3, <3>1
    <3>3. Commit(now, {}) /\ resultOf' = resultOf
      BY <1>6, <2>1 DEF Approve
    <3> QED BY <1>1, <3>2, <3>3
  <2>2. CASE Commit(SweptTable, {})
    BY <1>1, <1>3, <1>6, <2>2 DEF Approve
  <2> QED BY <1>6, <2>1, <2>2 DEF Approve
<1>7. ASSUME NEW i \in Jobs, LeaseRunsOut(i) \/ JobExpires(i) PROVE Moved(j) /\ Accepted(j)
  BY <1>2, <1>7 DEF LeaseRunsOut, JobExpires
<1>8. ASSUME NEW s \in Syncs, HandleResults(s) PROVE Moved(j) /\ Accepted(j)
  <2> DEFINE good == {r \in carried[s] : Acceptable(r)}
             done == {r.job : r \in good}
  <2>1. PICK outcome \in [done -> Finished] :
          /\ Commit([i \in Jobs |-> IF i \in done THEN outcome[i] ELSE Swept(i)], {})
          /\ resultOf' = [i \in Jobs |-> IF i \in done THEN (CHOOSE r \in good : r.job = i).lease
                                         ELSE resultOf[i]]
    BY <1>8 DEF HandleResults
  <2> DEFINE now == [i \in Jobs |-> IF i \in done THEN outcome[i] ELSE Swept(i)]
  <2>2. CASE j \notin done
    <3>1. now[j] = Swept(j) /\ resultOf'[j] = resultOf[j]
      BY <2>1, <2>2
    <3>2. status'[j] = now[j] /\ given'[j] = given[j] /\ lease'[j] \in {lease[j], 0}
      BY <2>1 DEF Commit
    <3>3. status[j] \in Terminal => Swept(j) = status[j]
      BY <1>0, SweepType DEF Terminal, Open, Finished
    <3> QED BY <3>1, <3>2, <3>3 DEF Moved, Accepted
  <2>3. CASE j \in done
    <3> DEFINE q == CHOOSE r \in good : r.job = j
    <3>1. q \in good /\ q.job = j
      BY <2>3
    <3>2. q \in carried[s] /\ Swept(j) = "leased" /\ lease[j] = q.lease
      BY <3>1 DEF Acceptable
    <3>3. status[j] = "leased" /\ clock[j] = "live" /\ j \notin over
      BY <1>0, <3>2, SweepType
    <3>4. status'[j] \in Finished /\ given'[j] = given[j] /\ lease'[j] \in {lease[j], 0}
      BY <2>1, <2>3 DEF Commit
    <3>5. resultOf'[j] = q.lease
      BY <2>1, <2>3
    <3> HIDE DEF q
    <3> QED BY <3>1, <3>2, <3>3, <3>4, <3>5 DEF Moved, Accepted, Terminal, Finished
  <2> QED BY <2>2, <2>3
<1>9. ASSUME NEW s \in Syncs, HandleJobs(s) PROVE Moved(j) /\ Accepted(j)
  <2>1. PICK C \in SUBSET Claimable :
          Commit([i \in Jobs |-> IF i \in C THEN "leased" ELSE Swept(i)], C)
    BY <1>9 DEF HandleJobs
  <2>2. resultOf' = resultOf
    BY <1>9 DEF HandleJobs
  <2>3. status[j] \in Terminal => j \notin C /\ Swept(j) = status[j]
    BY <1>0, SweepType DEF Claimable, Terminal, Open, Finished
  <2>4. /\ status'[j] = IF j \in C THEN "leased" ELSE Swept(j)
        /\ given'[j] = IF j \in C THEN given[j] + 1 ELSE given[j]
        /\ j \in C => lease'[j] = given[j] + 1
        /\ j \notin C => lease'[j] \in {lease[j], 0}
    BY <2>1 DEF Commit
  <2> QED BY <2>2, <2>3, <2>4 DEF Moved, Accepted
<1>10. ASSUME NEW s \in Syncs, Begin(s) \/ Answer(s) \/ HandlerStops(s) PROVE Moved(j) /\ Accepted(j)
  BY <1>2, <1>10 DEF Begin, Answer, HandlerStops, table
<1>11. ASSUME (\E d \in todo : Execute(d)) \/ GiveUp \/ RuntimeStops \/ UNCHANGED vars
       PROVE  Moved(j) /\ Accepted(j)
  BY <1>2, <1>11 DEF Execute, GiveUp, RuntimeStops, table, vars
<1> QED BY <1>4, <1>5, <1>6, <1>7, <1>8, <1>9, <1>10, <1>11 DEF Next

\* Nothing takes a job out of a terminal status, whatever is late or repeated.
THEOREM TerminalJobsStay == Spec => TerminalIsFinal
<1>1. Init => TypeOK /\ CarriedIsInOutbox
  BY DEF Init, TypeOK, Open, Terminal, Finished, Leases, NoRow, CarriedIsInOutbox
<1>2. TypeOK /\ [Next]_vars =>
        [\A j \in Jobs : status[j] \in Terminal => status'[j] = status[j] /\ resultOf'[j] = resultOf[j]]_vars
  BY JobsMove DEF Moved
<1> QED BY <1>1, <1>2, NextType, CarriedStaysInOutbox, PTL DEF Spec, TerminalIsFinal

-----------------------------------------------------------------------------
(* Leases and deliveries *)

\* What is given, held, delivered and executed is so under leases that were given.
LEMMA LeasesStayGiven == TypeOK /\ LeasesAreGiven /\ [Next]_vars => LeasesAreGiven'
<1> SUFFICES ASSUME TypeOK, LeasesAreGiven, [Next]_vars PROVE LeasesAreGiven'
  OBVIOUS
<1>0. TableOK /\ OthersOK
  BY Parts
<1>1. \A j \in Jobs : given[j] \in Nat /\ given'[j] \in Nat /\ lease[j] \in Nat /\ given[j] <= given'[j]
  BY <1>0, JobsMove DEF Moved, TableOK, Leases
<1>2. \A j \in Jobs : lease'[j] \in {0, given'[j]}
  BY <1>0, <1>1, JobsMove DEF Moved, LeasesAreGiven
<1>3. /\ \A s \in Syncs : \A d \in delivered[s] : d.job \in Jobs /\ d.lease \in Nat
      /\ \A d \in todo : d.job \in Jobs /\ d.lease \in Nat
      /\ \A j \in Jobs : \A n \in ran[j] : n \in Nat
  BY <1>0 DEF OthersOK, Delivery, Leases
<1>4. ASSUME NEW j \in Jobs, NEW n \in ran'[j] PROVE n <= given'[j]
  <2>1. ran' = ran \/ \E d \in todo : ran' = [ran EXCEPT ![d.job] = @ \cup {d.lease}]
    BY DEF Next, List, Create, Approve, LeaseRunsOut, JobExpires, HandleResults, HandleJobs,
       Begin, Answer, HandlerStops, Execute, GiveUp, RuntimeStops, vars
  <2>2. n \in ran[j] \/ \E d \in todo : d.job = j /\ d.lease = n
    BY <1>0, <1>3, <1>4, <2>1 DEF OthersOK
  <2> QED BY <1>1, <1>3, <2>2 DEF LeasesAreGiven
<1>5. ASSUME NEW d \in todo' PROVE d.lease <= given'[d.job]
  <2>1. d \in todo \/ \E s \in Syncs : d \in delivered[s]
    BY <1>5 DEF Next, List, Create, Approve, LeaseRunsOut, JobExpires, HandleResults, HandleJobs,
       Begin, Answer, HandlerStops, Execute, GiveUp, RuntimeStops, vars, runtime
  <2> QED BY <1>1, <1>3, <2>1 DEF LeasesAreGiven
<1>6. ASSUME NEW t \in Syncs, NEW d \in delivered'[t] PROVE d.lease <= given'[d.job]
  <2>1. CASE d \in delivered[t]
    BY <1>1, <1>3, <2>1 DEF LeasesAreGiven
  <2>2. ASSUME NEW s \in Syncs, HandleJobs(s), d \notin delivered[t] PROVE d.lease <= given'[d.job]
    <3>1. PICK C \in SUBSET Claimable :
            /\ Commit([j \in Jobs |-> IF j \in C THEN "leased" ELSE Swept(j)], C)
            /\ delivered' = [delivered EXCEPT ![s] = {[job |-> j, lease |-> given[j] + 1] : j \in C}]
      BY <2>2 DEF HandleJobs
    <3>2. PICK j \in C : d = [job |-> j, lease |-> given[j] + 1]
      BY <1>0, <2>2, <3>1 DEF OthersOK
    <3>3. j \in Jobs /\ given'[j] = given[j] + 1
      BY <3>1, <3>2 DEF Commit, Claimable
    <3> QED BY <1>1, <3>2, <3>3
  <2>3. ASSUME ~ \E s \in Syncs : HandleJobs(s) PROVE d \in delivered[t]
    BY <1>0, <2>3 DEF Next, List, Create, Approve, LeaseRunsOut, JobExpires, HandleResults,
       Begin, Answer, HandlerStops, Execute, GiveUp, RuntimeStops, vars, request, Free, OthersOK
  <2> QED BY <2>1, <2>2, <2>3
<1> QED BY <1>2, <1>4, <1>5, <1>6 DEF LeasesAreGiven

\* A delivery is new when it is made, and moves from the answer to the runtime.
LEMMA DeliveriesStayNew == TypeOK /\ LeasesAreGiven /\ DeliveriesAreNew /\ [Next]_vars => DeliveriesAreNew'
<1> SUFFICES ASSUME TypeOK, LeasesAreGiven, DeliveriesAreNew, [Next]_vars PROVE DeliveriesAreNew'
  OBVIOUS
<1>0. TableOK /\ OthersOK
  BY Parts
<1>1. ASSUME UNCHANGED <<delivered, todo, ran>> PROVE DeliveriesAreNew'
  BY <1>1 DEF DeliveriesAreNew
<1>2. ASSUME NEW s \in Syncs, HandleJobs(s) PROVE DeliveriesAreNew'
  <2>1. PICK C \in SUBSET Claimable :
          delivered' = [delivered EXCEPT ![s] = {[job |-> j, lease |-> given[j] + 1] : j \in C}]
    BY <1>2 DEF HandleJobs
  <2>2. UNCHANGED <<todo, ran>>
    BY <1>2 DEF HandleJobs, runtime
  <2>3. \A j \in C : /\ j \in Jobs /\ given[j] \in Nat
                     /\ \A n \in ran[j] : n # given[j] + 1
                     /\ \A d \in todo : d.job = j => d.lease # given[j] + 1
                     /\ \A t \in Syncs : \A d \in delivered[t] : d.job = j => d.lease # given[j] + 1
    BY <1>0 DEF LeasesAreGiven, Claimable, TableOK, OthersOK, Delivery, Leases
  <2>4. \A t \in Syncs : \A d \in delivered'[t] :
          \/ (t = s /\ \E j \in C : d = [job |-> j, lease |-> given[j] + 1])
          \/ (t # s /\ d \in delivered[t])
    BY <1>0, <2>1 DEF OthersOK
  <2>5. ASSUME NEW t \in Syncs, NEW d \in delivered'[t]
        PROVE  d \notin todo /\ d.lease \notin ran[d.job] /\ \A u \in Syncs : d \in delivered'[u] => t = u
    <3>1. CASE t = s
      <4>1. PICK j \in C : d = [job |-> j, lease |-> given[j] + 1]
        BY <2>4, <3>1
      <4> QED BY <2>3, <2>4, <3>1, <4>1
    <3>2. CASE t # s
      BY <2>3, <2>4, <3>2 DEF DeliveriesAreNew
    <3> QED BY <3>1, <3>2
  <2> QED BY <2>2, <2>5 DEF DeliveriesAreNew
<1>3. ASSUME NEW s \in Syncs, Answer(s) PROVE DeliveriesAreNew'
  <2>1. /\ delivered' = [delivered EXCEPT ![s] = {}] /\ ran' = ran
        /\ todo' = delivered[s] \/ todo' = todo
    BY <1>3 DEF Answer, Free, runtime
  <2>2. \A t \in Syncs : delivered'[t] = IF t = s THEN {} ELSE delivered[t]
    BY <1>0, <2>1 DEF OthersOK
  <2> QED BY <2>1, <2>2 DEF DeliveriesAreNew
<1>4. ASSUME NEW s \in Syncs, HandlerStops(s) PROVE DeliveriesAreNew'
  <2>1. delivered' = [delivered EXCEPT ![s] = {}] /\ ran' = ran /\ todo' = todo
    BY <1>4 DEF HandlerStops, Free
  <2>2. \A t \in Syncs : delivered'[t] = IF t = s THEN {} ELSE delivered[t]
    BY <1>0, <2>1 DEF OthersOK
  <2> QED BY <2>1, <2>2 DEF DeliveriesAreNew
<1>5. ASSUME NEW e \in todo, ran' = [ran EXCEPT ![e.job] = @ \cup {e.lease}],
             todo' = todo \ {e} \/ todo' = {}, delivered' = delivered
      PROVE  DeliveriesAreNew'
  <2>1. \A d \in Delivery : d.lease \in ran'[d.job] => d.lease \in ran[d.job] \/ d = e
    BY <1>0, <1>5 DEF OthersOK, Delivery
  <2>2. todo \subseteq Delivery /\ \A t \in Syncs : delivered[t] \subseteq Delivery
    BY <1>0 DEF OthersOK
  <2> QED BY <1>5, <2>1, <2>2 DEF DeliveriesAreNew
<1>6. ASSUME NEW d \in todo, Execute(d) PROVE DeliveriesAreNew'
  BY <1>5, <1>6 DEF Execute, request
<1>7. ASSUME RuntimeStops PROVE DeliveriesAreNew'
  <2>1. CASE ran' = ran
    BY <1>7, <2>1 DEF RuntimeStops, DeliveriesAreNew, request
  <2> QED BY <1>5, <1>7, <2>1 DEF RuntimeStops, request
<1>8. ASSUME NEW s \in Syncs, HandleResults(s) \/ Begin(s) PROVE UNCHANGED <<delivered, todo, ran>>
  BY <1>8 DEF HandleResults, Begin, runtime
<1>9. ASSUME NEW j \in Jobs, Create(j) \/ Approve(j) \/ LeaseRunsOut(j) \/ JobExpires(j)
      PROVE  UNCHANGED <<delivered, todo, ran>>
  BY <1>9 DEF Create, Approve, LeaseRunsOut, JobExpires, request, runtime
<1>10. ASSUME List \/ GiveUp \/ UNCHANGED vars PROVE UNCHANGED <<delivered, todo, ran>>
  BY <1>10 DEF List, GiveUp, request, runtime, vars
<1> QED BY <1>1, <1>2, <1>3, <1>4, <1>6, <1>7, <1>8, <1>9, <1>10 DEF Next

\* A lease is in one place: no two executions happen under it.
THEOREM DeliveriesHappenOnce == Spec => []LeasesAreDeliveredOnce
<1>1. Init => TypeOK /\ CarriedIsInOutbox /\ LeasesAreGiven /\ DeliveriesAreNew
  BY DEF Init, TypeOK, Open, Terminal, Finished, Leases, NoRow, CarriedIsInOutbox, LeasesAreGiven, DeliveriesAreNew
<1>2. DeliveriesAreNew => LeasesAreDeliveredOnce
  <2> SUFFICES ASSUME DeliveriesAreNew, NEW j \in Jobs, NEW n \in Leases
               PROVE  LET d == [job |-> j, lease |-> n] IN
                      /\ Cardinality({s \in Syncs : d \in delivered[s]}) <= 1
                      /\ \A s \in Syncs : d \in delivered[s] => d \notin todo /\ n \notin ran[j]
                      /\ d \in todo => n \notin ran[j]
    BY DEF LeasesAreDeliveredOnce
  <2> DEFINE d == [job |-> j, lease |-> n]
             at == {s \in Syncs : d \in delivered[s]}
  <2>1. d.job = j /\ d.lease = n
    OBVIOUS
  <2>2. ASSUME at = {} PROVE Cardinality(at) <= 1
    <3> HIDE DEF at
    <3>1. Cardinality(at) = 0
      BY <2>2, FS_EmptySet
    <3> QED BY <3>1
  <2>3. ASSUME NEW s \in at PROVE Cardinality(at) <= 1
    <3>1. at = {s}
      BY DEF DeliveriesAreNew
    <3> HIDE DEF at
    <3>2. Cardinality(at) = 1
      BY <3>1, FS_Singleton
    <3> QED BY <3>2
  <2>4. Cardinality(at) <= 1
    <3> HIDE DEF at
    <3> QED BY <2>2, <2>3
  <2> QED BY <2>1, <2>4 DEF DeliveriesAreNew
<1> QED BY <1>1, <1>2, NextType, CarriedStaysInOutbox, LeasesStayGiven, DeliveriesStayNew, PTL DEF Spec

-----------------------------------------------------------------------------
(* Results *)

\* An execution only adds to what was executed, and the outbox keeps only that.
LEMMA OutboxStaysOfRuns == TypeOK /\ OutboxIsOfRuns /\ [Next]_vars => OutboxIsOfRuns'
<1> SUFFICES ASSUME TypeOK, OutboxIsOfRuns, [Next]_vars, NEW j \in Jobs, outbox'[j].lease # 0
             PROVE  outbox'[j].lease \in ran'[j]
  BY DEF OutboxIsOfRuns
<1>0. OthersOK
  BY Parts
<1>1. ran' = ran \/ \E d \in todo : ran' = [ran EXCEPT ![d.job] = @ \cup {d.lease}]
  BY DEF Next, List, Create, Approve, LeaseRunsOut, JobExpires, HandleResults, HandleJobs,
     Begin, Answer, HandlerStops, Execute, GiveUp, RuntimeStops, vars
<1>2. ran[j] \subseteq ran'[j]
  BY <1>0, <1>1 DEF OthersOK
<1>3. ASSUME NEW d \in todo, Execute(d) PROVE outbox'[j].lease \in ran'[j]
  <2>1. d.job \in Jobs
    BY <1>0 DEF OthersOK, Delivery
  <2>2. outbox'[j] = outbox[j] \/ (j = d.job /\ outbox'[j].lease = d.lease)
    BY <1>0, <1>3, <2>1 DEF Execute, Store, OthersOK
  <2>3. j = d.job => d.lease \in ran'[j]
    BY <1>0, <1>3 DEF Execute, OthersOK
  <2> QED BY <1>2, <2>2, <2>3 DEF OutboxIsOfRuns
<1>4. ASSUME NEW s \in Syncs, Answer(s) PROVE outbox'[j].lease \in ran'[j]
  <2>1. outbox'[j].lease = outbox[j].lease
    BY <1>0, <1>4 DEF Answer, runtime, OthersOK, Row, NoRow
  <2> QED BY <1>2, <2>1 DEF OutboxIsOfRuns
<1>5. ASSUME outbox' = outbox PROVE outbox'[j].lease \in ran'[j]
  BY <1>2, <1>5 DEF OutboxIsOfRuns
<1>6. ASSUME ~(\E d \in todo : Execute(d)), ~(\E s \in Syncs : Answer(s)) PROVE outbox' = outbox
  BY <1>6 DEF Next, List, Create, Approve, LeaseRunsOut, JobExpires, HandleResults, HandleJobs,
     Begin, HandlerStops, GiveUp, RuntimeStops, vars, runtime
<1> QED BY <1>3, <1>4, <1>5, <1>6

\* An accepted result ends its job, for good.
LEMMA ResultsStayFinal == TypeOK /\ ResultsAreFinal /\ [Next]_vars => ResultsAreFinal'
<1> SUFFICES ASSUME TypeOK, ResultsAreFinal, [Next]_vars, NEW j \in Jobs, resultOf'[j] # 0
             PROVE  status'[j] \in Finished
  BY DEF ResultsAreFinal
<1>1. Moved(j) /\ Accepted(j)
  BY JobsMove
<1> QED BY <1>1 DEF Moved, Accepted, ResultsAreFinal, Terminal

\* A result that is settled stays so: its lease does not come back.
LEMMA SettledStays ==
  ASSUME TypeOK, LeasesAreGiven, ResultsAreFinal, [Next]_vars,
         NEW j \in Jobs, NEW n \in Leases, n <= given[j], Settled(j, n)
  PROVE  Settled(j, n)'
<1>1. Moved(j) /\ given[j] \in Nat /\ n \in Nat /\ n # 0
  BY JobsMove DEF TypeOK, Leases
<1>2. CASE resultOf[j] = n
  BY <1>1, <1>2 DEF Moved, Settled, ResultsAreFinal, Terminal
<1>3. CASE lease[j] # n
  BY <1>1, <1>3 DEF Moved, Settled
<1> QED BY <1>2, <1>3 DEF Settled

\* The results a request carries were executed under leases that were given.
LEMMA CarriedAreGiven ==
  ASSUME TypeOK, LeasesAreGiven, OutboxIsOfRuns, CarriedIsInOutbox, NEW s \in Syncs, NEW r \in carried[s]
  PROVE  r.job \in Jobs /\ r.lease \in Leases /\ r.lease \in ran[r.job] /\ r.lease <= given[r.job]
<1>1. r.job \in Jobs /\ r.lease \in Leases
  BY DEF TypeOK
<1> QED BY <1>1 DEF LeasesAreGiven, OutboxIsOfRuns, CarriedIsInOutbox, Leases

\* Handling a request settles its results, accepted or not.
LEMMA HandledStaySettled ==
  ASSUME TypeOK, LeasesAreGiven, OutboxIsOfRuns, CarriedIsInOutbox, ResultsAreFinal, HandledAreSettled, [Next]_vars
  PROVE  HandledAreSettled'
<1> SUFFICES ASSUME NEW t \in Syncs, sync'[t] \in {"jobs", "answer"}, NEW r \in carried'[t], r.size = "fits"
             PROVE  Settled(r.job, r.lease)'
  BY DEF HandledAreSettled
<1>0. TableOK /\ OthersOK
  BY Parts
<1>1. ASSUME sync[t] \in {"jobs", "answer"}, r \in carried[t] PROVE Settled(r.job, r.lease)'
  BY <1>1, CarriedAreGiven, SettledStays DEF HandledAreSettled
<1>2. ASSUME NEW s \in Syncs, HandleResults(s) PROVE Settled(r.job, r.lease)'
  <2>1. CASE t # s
    BY <1>0, <1>1, <1>2, <2>1 DEF HandleResults, OthersOK
  <2>2. CASE t = s
    <3> DEFINE good == {q \in carried[s] : Acceptable(q)}
               done == {q.job : q \in good}
               j == r.job
    <3>1. PICK outcome \in [done -> Finished] :
            /\ Commit([i \in Jobs |-> IF i \in done THEN outcome[i] ELSE Swept(i)], {})
            /\ resultOf' = [i \in Jobs |-> IF i \in done THEN (CHOOSE q \in good : q.job = i).lease
                                           ELSE resultOf[i]]
      BY <1>2 DEF HandleResults
    <3>2. r \in carried[s] /\ j \in Jobs /\ r.lease \in Leases
      BY <1>0, <1>2, <2>2 DEF HandleResults, OthersOK
    <3>3. CASE r \in good
      <4>1. (CHOOSE q \in good : q.job = j) \in good /\ (CHOOSE q \in good : q.job = j).job = j
        BY <3>3
      <4>2. (CHOOSE q \in good : q.job = j).lease = r.lease
        BY <3>3, <4>1 DEF Acceptable
      <4>3. resultOf'[j] = r.lease
        BY <3>1, <3>2, <3>3, <4>2
      <4> QED BY <4>3 DEF Settled
    <3>4. CASE r \notin good
      <4>1. Swept(j) # "leased" \/ lease[j] # r.lease
        BY <3>2, <3>4 DEF Acceptable
      <4>2. lease'[j] = 0 \/ (lease'[j] = lease[j] /\ (j \in done \/ Swept(j) = "leased"))
        BY <3>1, <3>2 DEF Commit
      <4>3. j \in done => lease'[j] = 0
        BY <3>1, <3>2 DEF Commit, Finished
      <4> QED BY <3>2, <4>1, <4>2, <4>3 DEF Settled, Leases
    <3> QED BY <3>3, <3>4
  <2> QED BY <2>1, <2>2
<1>3. ASSUME NEW s \in Syncs, HandleJobs(s) PROVE sync[t] \in {"jobs", "answer"} /\ r \in carried[t]
  BY <1>0, <1>3 DEF HandleJobs, OthersOK
<1>4. ASSUME NEW s \in Syncs, Begin(s) PROVE sync[t] \in {"jobs", "answer"} /\ r \in carried[t]
  BY <1>0, <1>4 DEF Begin, OthersOK
<1>5. ASSUME NEW s \in Syncs, Answer(s) PROVE sync[t] \in {"jobs", "answer"} /\ r \in carried[t]
  BY <1>0, <1>5 DEF Answer, Free, OthersOK
<1>6. ASSUME NEW s \in Syncs, HandlerStops(s) PROVE sync[t] \in {"jobs", "answer"} /\ r \in carried[t]
  BY <1>0, <1>6 DEF HandlerStops, Free, OthersOK
<1>7. ASSUME UNCHANGED <<sync, carried>> PROVE sync[t] \in {"jobs", "answer"} /\ r \in carried[t]
  BY <1>7
<1>8. ASSUME NEW j \in Jobs, Create(j) \/ Approve(j) \/ LeaseRunsOut(j) \/ JobExpires(j)
      PROVE  UNCHANGED <<sync, carried>>
  BY <1>8 DEF Create, Approve, LeaseRunsOut, JobExpires, request
<1>9. ASSUME List \/ (\E d \in todo : Execute(d)) \/ GiveUp \/ RuntimeStops \/ UNCHANGED vars
      PROVE  UNCHANGED <<sync, carried>>
  BY <1>9 DEF List, Execute, GiveUp, RuntimeStops, request, vars
<1> QED BY <1>1, <1>2, <1>3, <1>4, <1>5, <1>6, <1>7, <1>8, <1>9 DEF Next

\* Only an answer acknowledges, and what it answers is settled.
LEMMA AcknowledgedStaySettled ==
  ASSUME TypeOK, LeasesAreGiven, OutboxIsOfRuns, CarriedIsInOutbox, ResultsAreFinal, HandledAreSettled,
         AcknowledgedIsSettled, [Next]_vars
  PROVE  AcknowledgedIsSettled'
<1> SUFFICES ASSUME NEW j \in Jobs, outbox'[j].acknowledged = "yes", outbox'[j].size = "fits"
             PROVE  resultOf'[j] = outbox'[j].lease \/ lease'[j] # outbox'[j].lease
  BY DEF AcknowledgedIsSettled
<1>0. OthersOK
  BY Parts
<1>1. ASSUME outbox'[j] = outbox[j]
      PROVE  resultOf'[j] = outbox'[j].lease \/ lease'[j] # outbox'[j].lease
  <2>1. outbox[j] # NoRow
    BY <1>1 DEF NoRow
  <2>2. outbox[j].lease \in Leases
    BY <1>0, <2>1 DEF OthersOK, Row
  <2>3. outbox[j].lease <= given[j]
    BY <2>2 DEF OutboxIsOfRuns, LeasesAreGiven, Leases
  <2>4. Settled(j, outbox[j].lease)
    BY <1>1 DEF AcknowledgedIsSettled, Settled
  <2>5. \A n \in Leases : n <= given[j] /\ Settled(j, n) => resultOf'[j] = n \/ lease'[j] # n
    BY SettledStays DEF Settled
  <2> QED BY <1>1, <2>2, <2>3, <2>4, <2>5 DEF Settled
<1>2. ASSUME NEW s \in Syncs, Answer(s), outbox'[j] # outbox[j]
      PROVE  resultOf'[j] = outbox'[j].lease \/ lease'[j] # outbox'[j].lease
  <2>1. PICK r \in carried[s] : r.job = j
    BY <1>0, <1>2 DEF Answer, runtime, OthersOK
  <2>2. outbox'[j].lease = r.lease /\ outbox'[j].size = r.size
    BY <1>0, <1>2, <2>1 DEF Answer, runtime, OthersOK, Row, NoRow, CarriedIsInOutbox
  <2>3. Settled(j, r.lease)
    BY <1>2, <2>1, <2>2 DEF Answer, HandledAreSettled
  <2>4. r.lease \in Leases /\ r.lease <= given[j]
    BY <2>1, CarriedAreGiven
  <2>5. \A n \in Leases : n <= given[j] /\ Settled(j, n) => resultOf'[j] = n \/ lease'[j] # n
    BY SettledStays DEF Settled
  <2> QED BY <2>2, <2>3, <2>4, <2>5 DEF Settled
<1>3. ASSUME NEW d \in todo, Execute(d) PROVE outbox'[j] = outbox[j]
  <2>1. d.job \in Jobs
    BY <1>0 DEF OthersOK, Delivery
  <2> QED BY <1>0, <1>3, <2>1 DEF Execute, Store, OthersOK
<1>4. ASSUME ~(\E d \in todo : Execute(d)), ~(\E s \in Syncs : Answer(s)) PROVE outbox' = outbox
  BY <1>4 DEF Next, List, Create, Approve, LeaseRunsOut, JobExpires, HandleResults, HandleJobs,
     Begin, HandlerStops, GiveUp, RuntimeStops, vars, runtime
<1> QED BY <1>1, <1>2, <1>3, <1>4

\* What the theorems about results rest on.
Custody == /\ TypeOK /\ LeasesAreGiven /\ OutboxIsOfRuns /\ CarriedIsInOutbox
           /\ ResultsAreFinal /\ HandledAreSettled /\ AcknowledgedIsSettled

\* It is an invariant.
THEOREM CustodyHolds == Spec => []Custody
<1>1. Init => Custody
  <2> SUFFICES ASSUME Init PROVE Custody
    OBVIOUS
  <2>1. TypeOK
    BY DEF Init, TypeOK, Open, Terminal, Finished, Leases, NoRow
  <2>2. LeasesAreGiven /\ OutboxIsOfRuns /\ CarriedIsInOutbox
    BY DEF Init, LeasesAreGiven, OutboxIsOfRuns, CarriedIsInOutbox, NoRow
  <2>3. ResultsAreFinal /\ HandledAreSettled /\ AcknowledgedIsSettled
    BY DEF Init, ResultsAreFinal, HandledAreSettled, AcknowledgedIsSettled, NoRow
  <2> QED BY <2>1, <2>2, <2>3 DEF Custody
<1>2. Custody /\ [Next]_vars => Custody'
  BY NextType, LeasesStayGiven, OutboxStaysOfRuns, CarriedStaysInOutbox, ResultsStayFinal,
     HandledStaySettled, AcknowledgedStaySettled DEF Custody
<1> QED BY <1>1, <1>2, PTL DEF Spec

\* The runtime stops sending a result of the right size only when the cloud has taken
\* it, or the lease it was executed under is over for good.
THEOREM AcknowledgedResultsAreSettled == Spec => []AcknowledgedIsSettled
<1>1. Custody => AcknowledgedIsSettled
  BY DEF Custody
<1> QED BY <1>1, CustodyHolds, PTL

\* Unless something was lost, the outbox has a row for every job that was executed.
ExecutedIsStored == lost = 0 => \A j \in Jobs : ran[j] # {} => outbox[j].lease # 0

\* An execution that is not lost stores its result, or finds one; no row goes away.
LEMMA ExecutedStaysStored == TypeOK /\ ExecutedIsStored /\ [Next]_vars => ExecutedIsStored'
<1> SUFFICES ASSUME TypeOK, ExecutedIsStored, [Next]_vars, lost' = 0, NEW j \in Jobs, ran'[j] # {}
             PROVE  outbox'[j].lease # 0
  BY DEF ExecutedIsStored
<1>0. OthersOK
  BY Parts
<1>1. lost = 0 /\ ~(\E s \in Syncs : HandlerStops(s)) /\ ~GiveUp /\ ~RuntimeStops
  <2>1. lost \in Nat
    BY <1>0 DEF OthersOK
  <2>2. lost' = lost \/ lost' = lost + 1
    BY DEF Next, List, Create, Approve, LeaseRunsOut, JobExpires, HandleResults, HandleJobs,
       Begin, Answer, HandlerStops, Execute, GiveUp, RuntimeStops, Lose, vars
  <2>3. lost + 1 # 0
    BY <2>1
  <2> QED BY <2>1, <2>2, <2>3 DEF HandlerStops, GiveUp, RuntimeStops, Lose
<1>2. ran[j] # {} => outbox[j].lease # 0
  BY <1>1 DEF ExecutedIsStored
<1>3. ASSUME NEW d \in todo, Execute(d) PROVE outbox'[j].lease # 0
  <2>1. d.job \in Jobs /\ d.lease # 0
    BY <1>0 DEF OthersOK, Delivery, Leases
  <2>2. CASE j = d.job
    <3>1. outbox[j] = NoRow => outbox'[j].lease = d.lease
      BY <1>0, <1>3, <2>1, <2>2 DEF Execute, Store, OthersOK
    <3>2. outbox[j] # NoRow => outbox'[j] = outbox[j] /\ outbox[j].lease # 0
      BY <1>0, <1>3, <2>2 DEF Execute, Store, OthersOK, Row, Leases
    <3> QED BY <2>1, <3>1, <3>2
  <2>3. CASE j # d.job
    BY <1>0, <1>2, <1>3, <2>1, <2>3 DEF Execute, Store, OthersOK
  <2> QED BY <2>2, <2>3
<1>4. ASSUME NEW s \in Syncs, Answer(s) PROVE outbox'[j].lease # 0
  BY <1>0, <1>2, <1>4 DEF Answer, runtime, OthersOK, Row, NoRow
<1>5. ASSUME ~(\E d \in todo : Execute(d)), ~(\E s \in Syncs : Answer(s)) PROVE outbox'[j].lease # 0
  BY <1>1, <1>2, <1>5 DEF Next, List, Create, Approve, LeaseRunsOut, JobExpires, HandleResults,
     HandleJobs, Begin, vars, runtime
<1> QED BY <1>3, <1>4, <1>5

\* ADR 009 holds of the first lease: unless something was lost, an executed job has a
\* result of one of its executions in the outbox, and while its first lease lasts it is
\* the result of that lease.  Of a later lease it is not (ResultsAreStored).
THEOREM FirstResultsAreStored ==
  Spec => [](lost = 0 => \A j \in Jobs :
               /\ ran[j] # {} => outbox[j].lease \in ran[j]
               /\ given[j] = 1 /\ lease[j] \in ran[j] => outbox[j].lease = lease[j])
<1>1. Custody /\ ExecutedIsStored =>
        (lost = 0 => \A j \in Jobs :
           /\ ran[j] # {} => outbox[j].lease \in ran[j]
           /\ given[j] = 1 /\ lease[j] \in ran[j] => outbox[j].lease = lease[j])
  <2> SUFFICES ASSUME Custody, ExecutedIsStored, lost = 0, NEW j \in Jobs, ran[j] # {}
               PROVE  /\ outbox[j].lease \in ran[j]
                      /\ given[j] = 1 /\ lease[j] \in ran[j] => outbox[j].lease = lease[j]
    OBVIOUS
  <2>1. outbox[j].lease \in ran[j]
    BY DEF Custody, ExecutedIsStored, OutboxIsOfRuns
  <2>2. ran[j] \subseteq Leases
    BY DEF Custody, TypeOK
  <2>3. \A n \in ran[j] : n \in Leases /\ n <= given[j]
    BY <2>2 DEF Custody, LeasesAreGiven
  <2>4. ASSUME given[j] = 1, NEW n \in ran[j] PROVE n = 1
    BY <2>3, <2>4, LimitsKnown DEF Leases
  <2> QED BY <2>1, <2>4
<1>2. Init => ExecutedIsStored
  BY DEF Init, ExecutedIsStored
<1>3. Custody /\ ExecutedIsStored /\ [Next]_vars => ExecutedIsStored'
  BY ExecutedStaysStored DEF Custody
<1> QED BY <1>1, <1>2, <1>3, CustodyHolds, PTL DEF Spec

\* A result is accepted once, under the lease the job has and was executed under,
\* while lease and job last.
THEOREM ResultsAreAcceptedInTime == Spec => AcceptedInTime
<1>1. Custody /\ [Next]_vars =>
        [\A j \in Jobs : resultOf'[j] # resultOf[j] =>
           /\ resultOf[j] = 0 /\ resultOf'[j] = lease[j] /\ lease[j] \in ran[j]
           /\ clock[j] = "live" /\ j \notin over]_vars
  <2> SUFFICES ASSUME Custody, [Next]_vars, NEW j \in Jobs, resultOf'[j] # resultOf[j]
               PROVE  /\ resultOf[j] = 0 /\ resultOf'[j] = lease[j] /\ lease[j] \in ran[j]
                      /\ clock[j] = "live" /\ j \notin over
    OBVIOUS
  <2>1. Accepted(j)
    BY JobsMove DEF Custody
  <2>2. PICK s \in Syncs : \E r \in carried[s] : r.job = j /\ r.lease = lease[j]
    BY <2>1 DEF Accepted
  <2>3. lease[j] \in ran[j]
    BY <2>2, CarriedAreGiven DEF Custody
  <2>4. resultOf[j] = 0
    BY <2>1 DEF Accepted, Custody, ResultsAreFinal, Finished
  <2> QED BY <2>1, <2>3, <2>4 DEF Accepted
<1> QED BY <1>1, CustodyHolds, PTL DEF Spec, AcceptedInTime

-----------------------------------------------------------------------------
(* Approvals *)

\* An approval comes before the first lease, and a job is not cancelled after it.
LEMMA ApprovedStaysFirst == TypeOK /\ ApprovedFirst /\ [Next]_vars => ApprovedFirst'
<1> DEFINE Ok(j) == /\ status[j] \in {"queued", "leased"} \cup Finished => j \in approved
                    /\ given[j] # 0 => j \in approved
                    /\ j \in approved => status[j] \notin {"none", "pending_approval", "cancelled"}
<1> SUFFICES ASSUME TypeOK, ApprovedFirst, [Next]_vars, NEW j \in Jobs PROVE Ok(j)'
  BY DEF ApprovedFirst
<1> USE DEF Open, Terminal, Finished
<1>0. TableOK /\ OthersOK /\ Ok(j)
  BY Parts DEF ApprovedFirst
<1>1. /\ Swept(j) \in {"queued", "leased", "completed", "failed"} => j \in approved
      /\ Swept(j) = "queued" => j \in approved
      /\ j \in approved => Swept(j) \notin {"none", "pending_approval", "cancelled"}
  BY <1>0 DEF Swept, TableOK
<1>2. ASSUME UNCHANGED <<status, given, approved>> PROVE Ok(j)'
  BY <1>0, <1>2
<1>3. ASSUME status'[j] = Swept(j), given'[j] = given[j], approved' = approved PROVE Ok(j)'
  BY <1>0, <1>1, <1>3
<1>4. ASSUME List PROVE Ok(j)'
  BY <1>3, <1>4 DEF List, Commit, SweptTable
<1>5. ASSUME NEW i \in Jobs, Create(i) PROVE Ok(j)'
  <2>1. j # i => status'[j] = Swept(j)
    BY <1>5 DEF Create, Commit, SweptTable
  <2>2. j = i => status'[j] = "pending_approval" /\ j \notin approved
    BY <1>0, <1>5 DEF Create, Commit, SweptTable
  <2>3. given'[j] = given[j] /\ approved' = approved
    BY <1>5 DEF Create, Commit
  <2> QED BY <1>0, <1>3, <2>1, <2>2, <2>3
<1>6. ASSUME NEW i \in Jobs, Approve(i) PROVE Ok(j)'
  <2>1. given'[j] = given[j]
    BY <1>6 DEF Approve, Commit
  <2>2. CASE status' = SweptTable /\ approved' = approved
    BY <1>3, <2>1, <2>2 DEF SweptTable
  <2>3. CASE /\ Swept(i) = "pending_approval" /\ status' = [SweptTable EXCEPT ![i] = "queued"]
             /\ approved' = approved \cup {i}
    <3>1. CASE j = i
      BY <2>3, <3>1 DEF SweptTable
    <3>2. CASE j # i
      BY <1>0, <1>1, <2>1, <2>3, <3>2 DEF SweptTable
    <3> QED BY <3>1, <3>2
  <2>4. CASE /\ Swept(i) = "pending_approval" /\ status' = [SweptTable EXCEPT ![i] = "cancelled"]
             /\ approved' = approved
    <3>1. CASE j = i
      BY <1>0, <1>1, <2>1, <2>4, <3>1 DEF SweptTable
    <3>2. CASE j # i
      BY <1>0, <1>1, <2>1, <2>4, <3>2 DEF SweptTable
    <3> QED BY <3>1, <3>2
  <2> QED BY <1>6, <2>2, <2>3, <2>4 DEF Approve, Commit
<1>7. ASSUME NEW i \in Jobs, LeaseRunsOut(i) \/ JobExpires(i) PROVE Ok(j)'
  BY <1>2, <1>7 DEF LeaseRunsOut, JobExpires
<1>8. ASSUME NEW s \in Syncs, HandleResults(s) PROVE Ok(j)'
  <2> DEFINE good == {r \in carried[s] : Acceptable(r)}
             done == {r.job : r \in good}
  <2>1. PICK outcome \in [done -> Finished] :
          Commit([i \in Jobs |-> IF i \in done THEN outcome[i] ELSE Swept(i)], {})
    BY <1>8 DEF HandleResults
  <2>2. given'[j] = given[j] /\ approved' = approved
    BY <1>8, <2>1 DEF HandleResults, Commit
  <2>3. CASE j \notin done
    BY <1>3, <2>1, <2>2, <2>3 DEF Commit
  <2>4. CASE j \in done
    <3>1. Swept(j) = "leased"
      BY <2>4 DEF Acceptable
    <3>2. status'[j] \in Finished
      BY <2>1, <2>4 DEF Commit
    <3> QED BY <1>0, <1>1, <2>2, <3>1, <3>2
  <2> QED BY <2>3, <2>4
<1>9. ASSUME NEW s \in Syncs, HandleJobs(s) PROVE Ok(j)'
  <2>1. PICK C \in SUBSET Claimable :
          Commit([i \in Jobs |-> IF i \in C THEN "leased" ELSE Swept(i)], C)
    BY <1>9 DEF HandleJobs
  <2>2. approved' = approved
    BY <1>9 DEF HandleJobs
  <2>3. j \in C => j \in approved /\ status'[j] = "leased"
    BY <1>1, <2>1 DEF Commit, Claimable
  <2>4. j \notin C => status'[j] = Swept(j) /\ given'[j] = given[j]
    BY <2>1 DEF Commit
  <2> QED BY <1>0, <1>3, <2>2, <2>3, <2>4
<1>10. ASSUME NEW s \in Syncs, Begin(s) \/ Answer(s) \/ HandlerStops(s) PROVE Ok(j)'
  BY <1>2, <1>10 DEF Begin, Answer, HandlerStops, table
<1>11. ASSUME (\E d \in todo : Execute(d)) \/ GiveUp \/ RuntimeStops \/ UNCHANGED vars PROVE Ok(j)'
  BY <1>2, <1>11 DEF Execute, GiveUp, RuntimeStops, table, vars
<1> QED BY <1>4, <1>5, <1>6, <1>7, <1>8, <1>9, <1>10, <1>11 DEF Next

\* The device executes only jobs an owner approved and did not cancel.
THEOREM OnlyApprovedJobsRun == Spec => []OnlyApprovedRun
<1>1. Init => ApprovedFirst
  BY DEF Init, ApprovedFirst, Finished
<1>2. Custody /\ ApprovedFirst => OnlyApprovedRun
  <2> SUFFICES ASSUME Custody, ApprovedFirst, NEW j \in Jobs, NEW n \in ran[j]
               PROVE  j \in approved /\ status[j] # "cancelled"
    BY DEF OnlyApprovedRun
  <2>1. n \in Leases /\ n <= given[j] /\ given[j] \in Nat
    BY DEF Custody, TypeOK, LeasesAreGiven
  <2>2. given[j] # 0
    BY <2>1 DEF Leases
  <2> QED BY <2>2 DEF ApprovedFirst
<1>3. Custody => TypeOK
  BY DEF Custody
<1> QED BY <1>1, <1>2, <1>3, CustodyHolds, ApprovedStaysFirst, PTL DEF Spec

-----------------------------------------------------------------------------
(* Refinement of JobContract *)

\* The initial states map to initial states of the contract.
LEMMA InitContract == Init => Contract!Init
  BY DEF Init, Contract!Init, stateOf

\* The sweep takes back, closes or leaves each job, and so does a transaction
\* that writes nothing else to it.
LEMMA SweepContract ==
  ASSUME TypeOK, NEW j \in Jobs, status' \in [Jobs -> {"none"} \cup Open \cup Terminal],
         status'[j] = Swept(j), given'[j] = given[j], ran'[j] = ran[j], resultOf'[j] = resultOf[j]
  PROVE  Contract!TakeBack(j) \/ Contract!Expire(j) \/ Contract!Keep(j)
<1> USE DEF Contract!Becomes, stateOf
<1>1. status[j] \in {"none"} \cup Open \cup Terminal
  BY DEF TypeOK
<1>2. CASE status'[j] = status[j]
  BY <1>2 DEF Contract!Keep
<1>3. CASE status[j] \in Open /\ status'[j] = "expired"
  BY <1>3 DEF Contract!Expire, Open
<1>4. CASE status[j] = "leased" /\ status'[j] = "queued"
  BY <1>4 DEF Contract!TakeBack
<1> QED BY <1>1, <1>2, <1>3, <1>4 DEF Swept, Open

\* A transaction that sets one job to the status to, and sweeps the others.
LEMMA OneContract ==
  ASSUME TypeOK, TypeOK', NEW i \in Jobs, NEW j \in Jobs, NEW to,
         status' = [SweptTable EXCEPT ![i] = to], UNCHANGED <<given, ran, resultOf>>
  PROVE  \/ j = i /\ status'[j] = to
         \/ Contract!TakeBack(j) \/ Contract!Expire(j) \/ Contract!Keep(j)
<1>1. CASE j = i
  BY <1>1 DEF SweptTable
<1>2. CASE j # i
  <2>1. status'[j] = Swept(j)
    BY <1>2 DEF SweptTable
  <2>2. status' \in [Jobs -> {"none"} \cup Open \cup Terminal]
    BY DEF TypeOK
  <2> QED BY <2>1, <2>2, SweepContract
<1> QED BY <1>1, <1>2

\* Every step of the relay and the runtime maps to a step of the contract or to
\* a stutter.
LEMMA NextContract ==
  ASSUME Custody, TypeOK', DeliveriesAreNew, [Next]_vars, NEW j \in Jobs
  PROVE  \/ Contract!Ask(j) \/ Contract!Grant(j) \/ Contract!Refuse(j) \/ Contract!Lend(j)
         \/ Contract!TakeBack(j) \/ Contract!Execute(j) \/ Contract!Settle(j)
         \/ Contract!Expire(j) \/ Contract!Keep(j)
<1> USE DEF Contract!Becomes, stateOf
<1>0. TypeOK /\ TableOK /\ OthersOK /\ LeasesAreGiven
  BY Parts DEF Custody
<1>1. status' \in [Jobs -> {"none"} \cup Open \cup Terminal]
  BY DEF TypeOK
<1>2. ASSUME UNCHANGED <<status, given, ran, resultOf>> PROVE Contract!Keep(j)
  BY <1>2 DEF Contract!Keep
<1>3. ASSUME List PROVE Contract!TakeBack(j) \/ Contract!Expire(j) \/ Contract!Keep(j)
  <2>1. status'[j] = Swept(j) /\ given'[j] = given[j] /\ ran'[j] = ran[j] /\ resultOf'[j] = resultOf[j]
    BY <1>3 DEF List, Commit, SweptTable
  <2> QED BY <1>0, <1>1, <2>1, SweepContract
<1>4. ASSUME NEW i \in Jobs, Create(i)
      PROVE  Contract!Ask(j) \/ Contract!TakeBack(j) \/ Contract!Expire(j) \/ Contract!Keep(j)
  <2>1. /\ status' = [SweptTable EXCEPT ![i] = "pending_approval"] /\ status[i] = "none"
        /\ given' = [k \in Jobs |-> given[k]] /\ UNCHANGED <<ran, resultOf>>
    BY <1>4 DEF Create, Commit
  <2>2. given' = given
    BY <1>0, <2>1 DEF TableOK
  <2>3. CASE j = i /\ status'[j] = "pending_approval"
    BY <2>1, <2>2, <2>3 DEF Contract!Ask
  <2> QED BY <1>0, <2>1, <2>2, <2>3, OneContract
<1>5. ASSUME NEW i \in Jobs, Approve(i)
      PROVE  \/ Contract!Grant(j) \/ Contract!Refuse(j)
             \/ Contract!TakeBack(j) \/ Contract!Expire(j) \/ Contract!Keep(j)
  <2>1. given' = given /\ UNCHANGED <<ran, resultOf>>
    BY <1>0, <1>5 DEF Approve, Commit, TableOK
  <2>2. CASE status' = SweptTable
    <3>1. status'[j] = Swept(j)
      BY <2>2 DEF SweptTable
    <3> QED BY <1>0, <1>1, <2>1, <3>1, SweepContract
  <2>3. ASSUME NEW to \in {"queued", "cancelled"}, Swept(i) = "pending_approval",
               status' = [SweptTable EXCEPT ![i] = to]
        PROVE  \/ Contract!Grant(j) \/ Contract!Refuse(j)
               \/ Contract!TakeBack(j) \/ Contract!Expire(j) \/ Contract!Keep(j)
    <3>1. status[i] = "pending_approval"
      BY <2>3 DEF Swept
    <3>2. CASE j = i /\ status'[j] = to
      BY <2>1, <2>3, <3>1, <3>2 DEF Contract!Grant, Contract!Refuse
    <3> QED BY <1>0, <2>1, <2>3, <3>2, OneContract
  <2> QED BY <1>5, <2>2, <2>3 DEF Approve, Commit
<1>6. ASSUME NEW i \in Jobs, LeaseRunsOut(i) \/ JobExpires(i) PROVE Contract!Keep(j)
  BY <1>2, <1>6 DEF LeaseRunsOut, JobExpires
<1>7. ASSUME NEW s \in Syncs, HandleResults(s)
      PROVE  Contract!Settle(j) \/ Contract!TakeBack(j) \/ Contract!Expire(j) \/ Contract!Keep(j)
  <2> DEFINE good == {r \in carried[s] : Acceptable(r)}
             done == {r.job : r \in good}
  <2>1. PICK outcome \in [done -> Finished] :
          /\ Commit([i \in Jobs |-> IF i \in done THEN outcome[i] ELSE Swept(i)], {})
          /\ resultOf' = [i \in Jobs |-> IF i \in done THEN (CHOOSE r \in good : r.job = i).lease
                                         ELSE resultOf[i]]
    BY <1>7 DEF HandleResults
  <2>2. given'[j] = given[j] /\ ran'[j] = ran[j]
    BY <1>7, <2>1 DEF HandleResults, Commit
  <2>3. CASE j \notin done
    <3>1. status'[j] = Swept(j) /\ resultOf'[j] = resultOf[j]
      BY <2>1, <2>3 DEF Commit
    <3> QED BY <1>0, <1>1, <2>2, <3>1, SweepContract
  <2>4. CASE j \in done
    <3> DEFINE q == CHOOSE r \in good : r.job = j
    <3>1. q \in good /\ q.job = j
      BY <2>4
    <3>2. resultOf'[j] = q.lease
      BY <2>1, <2>4
    <3>3. status'[j] \in Finished
      BY <2>1, <2>4 DEF Commit
    <3> HIDE DEF q
    <3>4. status[j] = "leased" /\ lease[j] = q.lease /\ q \in carried[s]
      BY <1>0, <3>1, SweepType DEF Acceptable
    <3>5. q.lease = given[j] /\ q.lease \in ran[j]
      BY <1>0, <3>1, <3>4, CarriedAreGiven DEF Custody, LeasesAreGiven, TableOK
    <3> QED BY <2>2, <3>2, <3>3, <3>4, <3>5 DEF Contract!Settle, Finished
  <2> QED BY <2>3, <2>4
<1>8. ASSUME NEW s \in Syncs, HandleJobs(s)
      PROVE  Contract!Lend(j) \/ Contract!TakeBack(j) \/ Contract!Expire(j) \/ Contract!Keep(j)
  <2>1. PICK C \in SUBSET Claimable :
          Commit([i \in Jobs |-> IF i \in C THEN "leased" ELSE Swept(i)], C)
    BY <1>8 DEF HandleJobs
  <2>2. ran' = ran /\ resultOf' = resultOf
    BY <1>8 DEF HandleJobs, runtime
  <2>3. CASE j \in C
    <3>1. status'[j] = "leased" /\ given'[j] = given[j] + 1
      BY <2>1, <2>3 DEF Commit
    <3>2. status[j] \in {"queued", "leased"}
      BY <2>1, <2>3 DEF Claimable, Swept
    <3> QED BY <2>2, <3>1, <3>2 DEF Contract!Lend
  <2>4. CASE j \notin C
    <3>1. status'[j] = Swept(j) /\ given'[j] = given[j]
      BY <2>1, <2>4 DEF Commit
    <3> QED BY <1>0, <1>1, <2>2, <3>1, SweepContract
  <2> QED BY <2>3, <2>4
<1>9. ASSUME NEW d \in todo, ran' = [ran EXCEPT ![d.job] = @ \cup {d.lease}],
             UNCHANGED <<status, given, resultOf>>
      PROVE  Contract!Execute(j) \/ Contract!Keep(j)
  <2>1. /\ d.job \in Jobs /\ d.lease \in Leases /\ d.lease <= given[d.job]
        /\ d.lease \notin ran[d.job]
    BY <1>0 DEF OthersOK, Delivery, LeasesAreGiven, DeliveriesAreNew
  <2>2. CASE j = d.job
    <3>1. d.lease \in 1..given[j] /\ ran'[j] = ran[j] \cup {d.lease}
      BY <1>0, <1>9, <2>1, <2>2 DEF TableOK, OthersOK, Leases
    <3> QED BY <1>9, <2>1, <2>2, <3>1 DEF Contract!Execute
  <2>3. CASE j # d.job
    BY <1>0, <1>9, <2>3 DEF Contract!Keep, OthersOK
  <2> QED BY <2>2, <2>3
<1>10. ASSUME NEW d \in todo, Execute(d) PROVE Contract!Execute(j) \/ Contract!Keep(j)
  BY <1>9, <1>10 DEF Execute, table
<1>11. ASSUME RuntimeStops PROVE Contract!Execute(j) \/ Contract!Keep(j)
  <2>1. UNCHANGED <<status, given, resultOf>>
    BY <1>11 DEF RuntimeStops, table
  <2> QED BY <1>2, <1>9, <1>11, <2>1 DEF RuntimeStops
<1>12. ASSUME NEW s \in Syncs, Begin(s) \/ Answer(s) \/ HandlerStops(s) PROVE Contract!Keep(j)
  BY <1>2, <1>12 DEF Begin, Answer, HandlerStops, table
<1>13. ASSUME GiveUp \/ UNCHANGED vars PROVE Contract!Keep(j)
  BY <1>2, <1>13 DEF GiveUp, table, vars
<1> QED BY <1>3, <1>4, <1>5, <1>6, <1>7, <1>8, <1>10, <1>11, <1>12, <1>13 DEF Next

\* The relay implements the contract of a job: it is lent only after it was
\* granted, executed under numbers it was lent under, settled only while it is
\* lent and by an execution under its last number, and over for good once it is
\* over, whatever requests, handlers and runtimes are given up or stopped.
THEOREM RelayKeepsContract == Spec => KeepsJobContract
<1>1. Init => DeliveriesAreNew
  BY DEF Init, DeliveriesAreNew
<1>2. Custody => TypeOK /\ LeasesAreGiven
  BY DEF Custody
<1>3. Custody /\ TypeOK' /\ DeliveriesAreNew /\ [Next]_vars => Contract!Next
  BY NextContract DEF Contract!Next
<1> QED BY <1>1, <1>2, <1>3, InitContract, CustodyHolds, DeliveriesStayNew, PTL
        DEF Spec, KeepsJobContract, Contract!Spec
=============================================================================
