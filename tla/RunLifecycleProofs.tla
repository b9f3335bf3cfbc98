------------------------- MODULE RunLifecycleProofs -------------------------
(***************************************************************************)
(* What TLAPS proves of RunLifecycle, for any runs and any bounds.         *)
(***************************************************************************)
EXTENDS RunRefinement, FiniteSetTheorems, TLAPS

-----------------------------------------------------------------------------
(* Moving a worker, writing a row *)

\* A worker moved to another await keeps its type, if it has a job where it needs one.
LEMMA GotoKeepsType ==
    ASSUME WorkersOK, NEW p \in Procs, NEW c \in WorkerPc, Goto(p, c),
           c \in Executing \cup {"claim"} => job[p] \in Runs
    PROVE  WorkersOK'
  BY DEF WorkersOK, Goto

\* A worker that lets go of its job keeps its type.
LEMMA DropKeepsType ==
    ASSUME WorkersOK, NEW p \in Procs, NEW c \in {"off", "dead", "idle"}, Drop(p, c)
    PROVE  WorkersOK'
<1>1. c \in WorkerPc /\ c \notin Executing \cup {"claim"}
  BY DEF WorkerPc, Executing
<1>2. {} \in SUBSET Snapshot
  OBVIOUS
<1> QED
  BY <1>1, <1>2 DEF WorkersOK, Drop

\* An UPDATE of one row's status keeps the type of the table.
LEMMA WriteKeepsType ==
    ASSUME TableOK, NEW r \in Runs, NEW s \in Status, Write(r, s)
    PROVE  TableOK'
  BY DEF TableOK, Write, Leases

\* A call that raises stays within its bound.
LEMMA FaultKeepsType ==
    ASSUME BoundsOK, Fault \/ NoFault, UNCHANGED <<crashes, stalls>>
    PROVE  BoundsOK'
  BY LimitsKnown DEF BoundsOK, Fault, NoFault

\* The actions that change nothing but the program counter of one worker.
LEMMA WorkerStepKeepsType ==
    ASSUME TypeOK, NEW p \in Procs, WorkersOK', Fault \/ NoFault,
           UNCHANGED <<table, queue, handlers, crashes, stalls>>
    PROVE  TypeOK'
  BY FaultKeepsType DEF TypeOK, TableOK, HandlersOK, table, handlers

-----------------------------------------------------------------------------
(* Type correctness *)

\* Every variable has its type before the first process starts.
LEMMA InitType == Init => TypeOK
  BY ProcsExist, LimitsKnown
     DEF Init, TypeOK, TableOK, WorkersOK, HandlersOK, BoundsOK, Status, Leases, WorkerPc,
         Executing, HandlerPc, Ending, Endpoints, Runs

\* The three steps of a recovery keep the types.
LEMMA RecoverType ==
    ASSUME TypeOK, NEW p \in Procs, Recover(p)
    PROVE  TypeOK'
<1> USE DEF ToLoop, Die
<1>1. CASE RecoverSelect(p)
  <2>1. ASSUME NEW S \in SUBSET Recoverable(p),
               pc' = [pc EXCEPT ![p] = "apply"],
               rows' = [rows EXCEPT ![p] =
                   {[run |-> r, status |-> status[r], attempt |-> attempt[r]] : r \in S}],
               UNCHANGED job
        PROVE  WorkersOK'
    <3>1. \A r \in S : [run |-> r, status |-> status[r], attempt |-> attempt[r]] \in Snapshot
      BY <2>1 DEF Recoverable, Stale, Snapshot, TypeOK, TableOK
    <3>2. "apply" \in WorkerPc /\ "apply" \notin Executing \cup {"claim"}
      BY DEF WorkerPc, Executing
    <3> QED
      BY <2>1, <3>1, <3>2 DEF TypeOK, WorkersOK
  <2>2. WorkersOK'
    BY <1>1, <2>1, DropKeepsType DEF RecoverSelect, TypeOK
  <2> QED
    BY <1>1, <2>2, WorkerStepKeepsType DEF RecoverSelect
<1>2. CASE RecoverApply(p)
  <2>1. WorkersOK'
    <3>1. "notify" \in WorkerPc /\ "notify" \notin Executing \cup {"claim"}
      BY DEF WorkerPc, Executing
    <3> QED
      BY <1>2, <3>1, GotoKeepsType, DropKeepsType DEF RecoverApply, TypeOK
  <2>2. TableOK'
    BY <1>2 DEF RecoverApply, TypeOK, TableOK, table, Status, Terminal, Leases
  <2> QED
    BY <1>2, <2>1, <2>2, FaultKeepsType DEF RecoverApply, TypeOK, HandlersOK, handlers
<1>3. CASE RecoverNotify(p)
  <2>1. PICK row \in rows[p] :
           /\ \/ NoFault /\ RowDone(p, row)
                 /\ queue' = IF Exhausted(row) THEN queue ELSE Append(queue, row.run)
              \/ Fault /\ RowDone(p, row) /\ UNCHANGED queue
              \/ Fault /\ Die(p) /\ UNCHANGED queue
    BY <1>3 DEF RecoverNotify
  <2>2. row.run \in Runs
    BY DEF TypeOK, WorkersOK, Snapshot
  <2>3. queue' \in Seq(Runs)
    BY <2>1, <2>2 DEF TypeOK
  <2>4. ASSUME RowDone(p, row) PROVE WorkersOK'
    BY <2>4, DropKeepsType DEF RowDone, TypeOK, WorkersOK
  <2>5. WorkersOK'
    BY <2>1, <2>4, DropKeepsType DEF TypeOK
  <2> QED
    BY <1>3, <2>1, <2>3, <2>5, FaultKeepsType
       DEF RecoverNotify, TypeOK, TableOK, HandlersOK, table, handlers
<1> QED
  BY <1>1, <1>2, <1>3 DEF Recover

\* The steps of serve() and execute() on one job keep the types.
LEMMA ExecuteType ==
    ASSUME TypeOK, NEW p \in Procs, Execute(p)
    PROVE  TypeOK'
<1> USE DEF ToLoop, Die
<1>1. \A c : c \in Executing => c \in WorkerPc
  BY DEF WorkerPc
<1>2. /\ {"started", "agent", "complete", "announce"} \subseteq Executing
      /\ {"release", "requeue", "bury", "retry", "giveup"} \subseteq Executing
  BY DEF Executing
<1>3. pc[p] \in Executing \cup {"claim"} => job[p] \in Runs
  BY DEF TypeOK, WorkersOK
<1>4. ASSUME NEW c \in Executing, Goto(p, c), pc[p] \in Executing \cup {"claim"}
      PROVE  WorkersOK'
  BY <1>1, <1>3, <1>4, GotoKeepsType DEF TypeOK
<1>5. CASE Claim(p)
  <2>1. WorkersOK'
    BY <1>5, <1>2, <1>4, DropKeepsType DEF Claim, TypeOK
  <2>2. TableOK'
    <3>1. job[p] \in Runs
      BY <1>5, <1>3 DEF Claim
    <3>2. UNCHANGED table => TableOK'
      BY DEF TypeOK, TableOK, table
    <3>3. CASE /\ status' = [status EXCEPT ![job[p]] = "running"]
               /\ attempt' = [attempt EXCEPT ![job[p]] = @ + 1]
               /\ lease' = [lease EXCEPT ![job[p]] = "live"]
      BY <3>1, <3>3 DEF TypeOK, TableOK, Status, Leases
    <3> QED
      BY <1>5, <3>2, <3>3 DEF Claim
  <2> QED
    BY <1>5, <2>1, <2>2, FaultKeepsType DEF Claim, TypeOK, HandlersOK, handlers
<1>6. CASE EmitStarted(p)
  <2>1. WorkersOK'
    BY <1>6, <1>2, <1>4, DropKeepsType DEF EmitStarted, TypeOK
  <2> QED
    BY <1>6, <2>1, WorkerStepKeepsType DEF EmitStarted
<1>7. CASE RunAgent(p)
  <2>1. WorkersOK'
    BY <1>7, <1>2, <1>4 DEF RunAgent
  <2> QED
    BY <1>7, <2>1, WorkerStepKeepsType DEF RunAgent, NoFault
<1>8. CASE Complete(p)
  <2>1. WorkersOK'
    BY <1>8, <1>2, <1>4 DEF Complete
  <2>2. TableOK'
    BY <1>8, <1>2, <1>3, WriteKeepsType DEF Complete, TypeOK, TableOK, table, Status, Terminal
  <2> QED
    BY <1>8, <2>1, <2>2, FaultKeepsType DEF Complete, TypeOK, HandlersOK, handlers
<1>9. CASE EmitCompleted(p)
  <2>1. WorkersOK'
    BY <1>9, <1>2, <1>4, DropKeepsType DEF EmitCompleted, TypeOK
  <2> QED
    BY <1>9, <2>1, WorkerStepKeepsType DEF EmitCompleted
<1>10. CASE Release(p)
  <2>1. WorkersOK'
    BY <1>10, <1>2, <1>4, DropKeepsType DEF Release, TypeOK
  <2> QED
    BY <1>10, <2>1, WorkerStepKeepsType DEF Release
<1>11. CASE ReleaseWrite(p)
  <2>1. WorkersOK'
    BY <1>11, <1>2, <1>4, DropKeepsType DEF ReleaseWrite, TypeOK
  <2>2. TableOK'
    BY <1>11, <1>2, <1>3, WriteKeepsType DEF ReleaseWrite, TypeOK, TableOK, table, Status, Terminal
  <2> QED
    BY <1>11, <2>1, <2>2, FaultKeepsType DEF ReleaseWrite, TypeOK, HandlersOK, handlers
<1>12. CASE Retry(p)
  <2>1. WorkersOK'
    BY <1>12, DropKeepsType DEF Retry, TypeOK
  <2>2. queue' \in Seq(Runs)
    BY <1>12, <1>2, <1>3 DEF Retry, TypeOK
  <2> QED
    BY <1>12, <2>1, <2>2, FaultKeepsType DEF Retry, TypeOK, TableOK, HandlersOK, table, handlers
<1>13. CASE GiveUp(p)
  <2>1. WorkersOK'
    BY <1>13, DropKeepsType DEF GiveUp, TypeOK
  <2> QED
    BY <1>13, <2>1, WorkerStepKeepsType DEF GiveUp
<1> QED
  BY <1>5, <1>6, <1>7, <1>8, <1>9, <1>10, <1>11, <1>12, <1>13 DEF Execute

\* The steps of the request handlers keep the types.
LEMMA HandlerType ==
    ASSUME TypeOK, NEW r \in Runs, Handle(r) \/ Disconnect(r)
    PROVE  TypeOK'
<1>1. ASSUME NEW c \in HandlerPc, ToHandler(r, c), Inline(r)
      PROVE  HandlersOK'
  BY <1>1 DEF TypeOK, HandlersOK, ToHandler, Inline
<1>2. /\ HandlersOK'
      /\ Inline(r) /\ (Fault \/ NoFault)
  BY <1>1 DEF Handle, HandlerBegin, HandlerWork, HandlerEnd, After, Ending, Disconnect, HandlerPc
<1>3. Verdicts(r) \subseteq Status
  BY DEF Verdicts, Status, Terminal, Outcomes
<1>4. TableOK'
  BY <1>3, WriteKeepsType
     DEF Handle, HandlerBegin, HandlerWork, HandlerEnd, Disconnect, TypeOK, TableOK, table
<1> QED
  BY <1>2, <1>4, FaultKeepsType DEF TypeOK, WorkersOK, Inline, workers

\* Every step of the system keeps the types.
LEMMA NextType == ASSUME TypeOK, [Next]_vars PROVE TypeOK'
<1>1. ASSUME NEW p \in Procs, Start(p) PROVE TypeOK'
  <2>1. "startup" \in WorkerPc /\ "startup" \notin Executing \cup {"claim"}
    BY DEF WorkerPc, Executing
  <2>2. WorkersOK'
    BY <1>1, <2>1, GotoKeepsType DEF Start, TypeOK
  <2> QED
    BY <1>1, <2>2, WorkerStepKeepsType DEF Start, NoFault
<1>2. ASSUME NEW p \in Procs, Stop(p) PROVE TypeOK'
  <2>1. WorkersOK'
    BY <1>2, DropKeepsType DEF Stop, TypeOK
  <2>2. HandlersOK'
    BY <1>2 DEF Stop, TypeOK, HandlersOK, HandlerPc
  <2> QED
    BY <1>2, <2>1, <2>2, LimitsKnown DEF Stop, TypeOK, TableOK, BoundsOK, table
<1>3. ASSUME NEW p \in Procs, PeriodicRecover(p) PROVE TypeOK'
  <2>1. "select" \in WorkerPc /\ "select" \notin Executing \cup {"claim"}
    BY DEF WorkerPc, Executing
  <2>2. WorkersOK'
    BY <1>3, <2>1, GotoKeepsType DEF PeriodicRecover, TypeOK
  <2> QED
    BY <1>3, <2>2, WorkerStepKeepsType DEF PeriodicRecover, NoFault
<1>4. ASSUME NEW p \in Procs, Dequeue(p) PROVE TypeOK'
  <2>1. queue' \in Seq(Runs)
    BY <1>4 DEF Dequeue, TypeOK
  <2>2. queue # <<>> => Head(queue) \in Runs
    BY DEF TypeOK
  <2>3. "claim" \in WorkerPc
    BY DEF WorkerPc
  <2>4. WorkersOK'
    BY <1>4, <2>2, <2>3, DropKeepsType DEF Dequeue, Die, TypeOK, WorkersOK
  <2> QED
    BY <1>4, <2>1, <2>4, FaultKeepsType DEF Dequeue, TypeOK, TableOK, HandlersOK, table, handlers
<1>5. ASSUME NEW r \in Runs, LeaseExpires(r) \/ Heartbeat(r) PROVE TypeOK'
  <2>1. TableOK'
    BY <1>5 DEF LeaseExpires, Heartbeat, TypeOK, TableOK, Leases
  <2>2. BoundsOK'
    BY <1>5, LimitsKnown DEF LeaseExpires, Heartbeat, TypeOK, BoundsOK
  <2> QED
    BY <1>5, <2>1, <2>2 DEF LeaseExpires, Heartbeat, TypeOK, WorkersOK, HandlersOK, workers, handlers
<1>6. ASSUME NEW r \in Requests, NEW p \in Procs, NEW d \in Doors, Submit(r, p, d) PROVE TypeOK'
  <2>1. TableOK'
    BY <1>6 DEF Submit, TypeOK, TableOK, Status
  <2>2. HandlersOK'
    BY <1>6, DoorsKnown DEF Submit, TypeOK, HandlersOK, ToHandler, HandlerPc
  <2> QED
    BY <1>6, <2>1, <2>2 DEF Submit, TypeOK, WorkersOK, BoundsOK, workers
<1>7. CASE UNCHANGED vars
  BY <1>7 DEF vars, table, workers, handlers, TypeOK, TableOK, WorkersOK, HandlersOK, BoundsOK
<1> QED
  BY <1>1, <1>2, <1>3, <1>4, <1>5, <1>6, <1>7, RecoverType, ExecuteType, HandlerType DEF Next

\* Every variable keeps its type: whatever a recovery, a retry, a restart or a
\* request handler does, no worker is past the dequeue without a job and no
\* row of a recovery names anything but a run that was queued or running.
THEOREM TypeCorrect == Spec => []TypeOK
  BY InitType, NextType, PTL DEF Spec

-----------------------------------------------------------------------------
(* Leases *)

\* The steps that write the runs table.
LEMMA TableWriters ==
    ASSUME [Next]_vars
    PROVE  \/ UNCHANGED table
           \/ \E p \in Procs : \/ RecoverApply(p) \/ Claim(p)
                               \/ Complete(p) \/ ReleaseWrite(p)
           \/ \E r \in Runs : LeaseExpires(r) \/ Heartbeat(r) \/ HandlerEnd(r)
           \/ \E r \in Requests, p \in Procs, d \in Doors : Submit(r, p, d)
<1>1. ASSUME NEW p \in Procs,
             Start(p) \/ Stop(p) \/ Recover(p) \/ PeriodicRecover(p) \/ Dequeue(p) \/ Execute(p)
      PROVE  UNCHANGED table \/ RecoverApply(p) \/ Claim(p) \/ Complete(p) \/ ReleaseWrite(p)
  BY <1>1 DEF Start, Stop, Recover, RecoverSelect, RecoverNotify, PeriodicRecover, Dequeue,
              Execute, EmitStarted, RunAgent, EmitCompleted, Release, Retry, GiveUp
<1>2. ASSUME NEW r \in Runs, Handle(r) \/ Disconnect(r)
      PROVE  UNCHANGED table \/ HandlerEnd(r)
  BY <1>2 DEF Handle, HandlerBegin, HandlerWork, Disconnect
<1>3. CASE UNCHANGED vars
  BY <1>3 DEF vars
<1> QED
  BY <1>1, <1>2, <1>3 DEF Next

\* An UPDATE that clears the lease unless it writes "running" leaves no other row leased.
LEMMA WriteKeepsLeases ==
    ASSUME TypeOK, LeaseOnlyWhenRunning, NEW r \in Runs, NEW s, Write(r, s)
    PROVE  LeaseOnlyWhenRunning'
  BY DEF LeaseOnlyWhenRunning, Write, TypeOK, TableOK

\* No step, of any number of processes, leaves a queued or finished row leased.
LEMMA NextKeepsLeases ==
    ASSUME TypeOK, LeaseOnlyWhenRunning, [Next]_vars
    PROVE  LeaseOnlyWhenRunning'
<1>1. CASE UNCHANGED table
  BY <1>1 DEF table, LeaseOnlyWhenRunning
<1>2. ASSUME NEW p \in Procs, RecoverApply(p) PROVE LeaseOnlyWhenRunning'
  BY <1>2, <1>1 DEF RecoverApply, LeaseOnlyWhenRunning, TypeOK, TableOK
<1>3. ASSUME NEW p \in Procs, Claim(p) PROVE LeaseOnlyWhenRunning'
  BY <1>3, <1>1 DEF Claim, LeaseOnlyWhenRunning, TypeOK, TableOK
<1>4. ASSUME NEW p \in Procs, Complete(p) \/ ReleaseWrite(p) PROVE LeaseOnlyWhenRunning'
  <2>1. job[p] \in Runs
    BY <1>4 DEF Complete, ReleaseWrite, TypeOK, WorkersOK, Executing
  <2> QED
    BY <1>1, <1>4, <2>1, WriteKeepsLeases DEF Complete, ReleaseWrite
<1>5. ASSUME NEW r \in Runs, LeaseExpires(r) \/ Heartbeat(r) PROVE LeaseOnlyWhenRunning'
  BY <1>5 DEF LeaseExpires, Heartbeat, LeaseOnlyWhenRunning, TypeOK, TableOK
<1>6. ASSUME NEW r \in Runs, HandlerEnd(r) PROVE LeaseOnlyWhenRunning'
  BY <1>1, <1>6, WriteKeepsLeases DEF HandlerEnd
<1>7. ASSUME NEW r \in Requests, NEW p \in Procs, NEW d \in Doors, Submit(r, p, d)
      PROVE  LeaseOnlyWhenRunning'
  BY <1>7 DEF Submit, LeaseOnlyWhenRunning, TypeOK, TableOK
<1> QED
  BY <1>1, <1>2, <1>3, <1>4, <1>5, <1>6, <1>7, TableWriters

\* Only a running row holds a lease, with any number of processes that claim,
\* renew, recover, release and complete runs at once: none of the UPDATEs by id
\* in worker.py and run_store.py can leave a queued or finished run leased.
THEOREM LeasesAreHeldByRunningRuns == Spec => []LeaseOnlyWhenRunning
<1>1. Init => LeaseOnlyWhenRunning
  BY DEF Init, LeaseOnlyWhenRunning
<1> QED
  BY <1>1, NextKeepsLeases, TypeCorrect, PTL DEF Spec

-----------------------------------------------------------------------------
(* A failed run has used its attempts                                      *)
(*                                                                         *)
(* "failed" is written from what a worker read before: the snapshot of     *)
(* recover_runs, or the attempt_count of release_for_retry.  attempt only  *)
(* grows, so a decision taken on an older value stays right.               *)

OrphansUnhandled == \A r \in Orphans : handler[r] = "none"

BuriedIsExhausted == \A p \in Procs : pc[p] = "bury" => attempt[job[p]] >= MaxAttempts

SnapshotIsPast == \A p \in Procs : \A row \in rows[p] : row.attempt <= attempt[row.run]

ExhaustionInv == OrphansUnhandled /\ BuriedIsExhausted /\ SnapshotIsPast /\ FailedMeansExhausted

\* A run that was in the table before the start never gets an inline handler.
LEMMA OrphansStayUnhandled ==
    ASSUME TypeOK, OrphansUnhandled, [Next]_vars
    PROVE  OrphansUnhandled'
<1>1. CASE UNCHANGED handlers
  BY <1>1 DEF handlers, OrphansUnhandled
<1>2. ASSUME NEW p \in Procs, Stop(p) PROVE OrphansUnhandled'
  BY <1>2 DEF Stop, OrphansUnhandled, Runs
<1>3. ASSUME NEW p \in Procs,
             Start(p) \/ Recover(p) \/ PeriodicRecover(p) \/ Dequeue(p) \/ Execute(p)
      PROVE  UNCHANGED handlers
  BY <1>3 DEF Start, Recover, RecoverSelect, RecoverApply, RecoverNotify, PeriodicRecover, Dequeue,
              Execute, Claim, EmitStarted, RunAgent, Complete, EmitCompleted, Release,
              ReleaseWrite, Retry, GiveUp
<1>4. ASSUME NEW r \in Runs, Handle(r) \/ Disconnect(r) PROVE OrphansUnhandled'
  <2>1. handler[r] # "none" /\ \E c : ToHandler(r, c)
    BY <1>4 DEF Handle, HandlerBegin, HandlerWork, HandlerEnd, Disconnect, Ending
  <2> QED
    BY <2>1 DEF ToHandler, OrphansUnhandled, TypeOK, HandlersOK
<1>5. ASSUME NEW r \in Requests, NEW p \in Procs, NEW d \in Doors, Submit(r, p, d)
      PROVE  OrphansUnhandled'
  BY <1>5, RunsDisjoint DEF Submit, ToHandler, OrphansUnhandled, TypeOK, HandlersOK
<1>6. CASE UNCHANGED vars \/ \E r \in Runs : LeaseExpires(r) \/ Heartbeat(r)
  BY <1>1, <1>6 DEF vars, LeaseExpires, Heartbeat
<1> QED
  BY <1>1, <1>2, <1>3, <1>4, <1>5, <1>6 DEF Next

\* claim_run starts an attempt and nothing else counts one.
LEMMA OnlyClaimsCount ==
    ASSUME [Next]_vars
    PROVE  \/ UNCHANGED attempt
           \/ \E p \in Procs : /\ pc[p] = "claim" /\ status[job[p]] = "queued"
                               /\ status' = [status EXCEPT ![job[p]] = "running"]
                               /\ attempt' = [attempt EXCEPT ![job[p]] = @ + 1]
                               /\ Goto(p, "started")
<1>1. ASSUME NEW p \in Procs, Claim(p), ~UNCHANGED attempt
      PROVE  /\ pc[p] = "claim" /\ status[job[p]] = "queued"
             /\ status' = [status EXCEPT ![job[p]] = "running"]
             /\ attempt' = [attempt EXCEPT ![job[p]] = @ + 1]
             /\ Goto(p, "started")
  BY <1>1 DEF Claim, table
<1>2. ASSUME ~ \E p \in Procs : Claim(p) PROVE UNCHANGED attempt
  BY <1>2, TableWriters
     DEF table, RecoverApply, Complete, ReleaseWrite, LeaseExpires, Heartbeat, HandlerEnd, Submit, Write
<1> QED
  BY <1>1, <1>2

\* attempt_count never goes down.
LEMMA AttemptsGrow ==
    ASSUME TypeOK, [Next]_vars, NEW r \in Runs
    PROVE  attempt[r] <= attempt'[r]
<1>1. attempt'[r] = attempt[r] \/ attempt'[r] = attempt[r] + 1
  BY OnlyClaimsCount DEF TypeOK, TableOK
<1> QED
  BY <1>1 DEF TypeOK, TableOK

\* A worker comes to "bury" from release_for_retry alone, and its job stays.
LEMMA WorkerHistory ==
    ASSUME TypeOK, [Next]_vars, NEW p \in Procs
    PROVE  /\ pc'[p] = "bury" => /\ job'[p] = job[p]
                                 /\ \/ pc[p] = "bury"
                                    \/ pc[p] = "release" /\ attempt[job[p]] >= MaxAttempts
           /\ \A row \in rows'[p] :
                 \/ row \in rows[p]
                 \/ \E r \in Runs : row = [run |-> r, status |-> status[r], attempt |-> attempt[r]]
<1> DEFINE G(q) == /\ pc'[q] = "bury" => /\ job'[q] = job[q]
                                         /\ \/ pc[q] = "bury"
                                            \/ pc[q] = "release" /\ attempt[job[q]] >= MaxAttempts
                   /\ \A row \in rows'[q] :
                        \/ row \in rows[q]
                        \/ \E r \in Runs : row = [run |-> r, status |-> status[r], attempt |-> attempt[r]]
<1>1. ASSUME NEW q \in Procs, UNCHANGED workers PROVE G(q)
  BY <1>1 DEF workers
<1>2. ASSUME NEW q \in Procs, NEW c, Goto(q, c), c # "bury" PROVE G(p)
  BY <1>2 DEF Goto, TypeOK, WorkersOK
<1>3. ASSUME NEW q \in Procs, NEW c, Drop(q, c), c # "bury" PROVE G(p)
  BY <1>3 DEF Drop, TypeOK, WorkersOK
<1>4. ASSUME NEW q \in Procs, Start(q) \/ Stop(q) \/ PeriodicRecover(q) PROVE G(p)
  BY <1>2, <1>3, <1>4 DEF Start, Stop, PeriodicRecover
<1>5. ASSUME NEW q \in Procs, RecoverSelect(q) PROVE G(p)
  <2>1. ASSUME NEW S \in SUBSET Recoverable(q),
               pc' = [pc EXCEPT ![q] = "apply"],
               rows' = [rows EXCEPT ![q] =
                   {[run |-> r, status |-> status[r], attempt |-> attempt[r]] : r \in S}],
               UNCHANGED job
        PROVE  G(p)
    BY <2>1 DEF Recoverable, TypeOK, WorkersOK
  <2> QED
    BY <1>3, <1>5, <2>1 DEF RecoverSelect, ToLoop, Die
<1>6. ASSUME NEW q \in Procs, RecoverApply(q) PROVE G(p)
  BY <1>2, <1>3, <1>6 DEF RecoverApply, Die
<1>7. ASSUME NEW q \in Procs, RecoverNotify(q) PROVE G(p)
  <2>1. PICK row \in rows[q] : RowDone(q, row) \/ Die(q)
    BY <1>7 DEF RecoverNotify
  <2> QED
    BY <1>3, <2>1 DEF RowDone, ToLoop, Die, TypeOK, WorkersOK
<1>8. ASSUME NEW q \in Procs, Dequeue(q) PROVE G(p)
  BY <1>3, <1>8 DEF Dequeue, Die, TypeOK, WorkersOK
<1>9. ASSUME NEW q \in Procs, Execute(q), ~Release(q) PROVE G(p)
  BY <1>2, <1>3, <1>9 DEF Execute, Claim, EmitStarted, RunAgent, Complete, EmitCompleted,
                          ReleaseWrite, Retry, GiveUp, ToLoop, Die
<1>10. ASSUME NEW q \in Procs, Release(q) PROVE G(p)
  BY <1>2, <1>3, <1>10 DEF Release, Goto, Die, TypeOK, WorkersOK
<1>11. ASSUME NEW r \in Runs, Handle(r) \/ Disconnect(r) \/ LeaseExpires(r) \/ Heartbeat(r)
       PROVE  UNCHANGED workers
  BY <1>11 DEF Handle, HandlerBegin, HandlerWork, HandlerEnd, Disconnect, Inline, LeaseExpires, Heartbeat
<1>12. ASSUME NEW r \in Requests, NEW q \in Procs, NEW d \in Doors, Submit(r, q, d)
       PROVE  UNCHANGED workers
  BY <1>12 DEF Submit
<1>13. CASE UNCHANGED vars
  BY <1>1, <1>13 DEF vars
<1> QED
  BY <1>1, <1>4, <1>5, <1>6, <1>7, <1>8, <1>9, <1>10, <1>11, <1>12, <1>13 DEF Next, Recover

\* Before the start no run has failed and no worker is about to bury one.
LEMMA InitExhaustion == Init => ExhaustionInv
  BY LimitsKnown DEF Init, ExhaustionInv, OrphansUnhandled, BuriedIsExhausted, SnapshotIsPast,
                     FailedMeansExhausted, Runs

\* Every step keeps the invariant: what a worker or a recovery read of attempt_count is at most what the row holds now.
LEMMA NextExhaustion ==
    ASSUME TypeOK, ExhaustionInv, [Next]_vars
    PROVE  ExhaustionInv'
<1>1. TypeOK'
  BY NextType
<1>2. \A r \in Runs : attempt[r] \in Nat /\ attempt'[r] \in Nat /\ attempt[r] <= attempt'[r]
  BY <1>1, AttemptsGrow DEF TypeOK, TableOK
<1>3. OrphansUnhandled'
  BY OrphansStayUnhandled DEF ExhaustionInv
<1>4. BuriedIsExhausted'
  <2> SUFFICES ASSUME NEW p \in Procs, pc'[p] = "bury"
               PROVE  attempt'[job'[p]] >= MaxAttempts
    BY DEF BuriedIsExhausted
  <2>1. job'[p] = job[p] /\ attempt[job[p]] >= MaxAttempts
    BY WorkerHistory DEF ExhaustionInv, BuriedIsExhausted
  <2>2. job'[p] \in Runs
    BY <1>1 DEF TypeOK, WorkersOK, Executing
  <2> QED
    BY <1>2, <2>1, <2>2, LimitsKnown
<1>5. SnapshotIsPast'
  <2> SUFFICES ASSUME NEW p \in Procs, NEW row \in rows'[p]
               PROVE  row.attempt <= attempt'[row.run]
    BY DEF SnapshotIsPast
  <2>1. row.run \in Runs /\ row.attempt \in Nat
    BY <1>1 DEF TypeOK, WorkersOK, Snapshot
  <2>2. row.attempt <= attempt[row.run]
    BY <1>2, <2>1, WorkerHistory DEF ExhaustionInv, SnapshotIsPast
  <2> QED
    BY <1>2, <2>1, <2>2
<1>6. FailedMeansExhausted'
  <2> SUFFICES ASSUME NEW r \in Orphans, status'[r] = "failed"
               PROVE  attempt[r] >= MaxAttempts
    BY <1>2, LimitsKnown DEF FailedMeansExhausted, Runs
  <2>1. CASE status[r] = "failed"
    BY <2>1 DEF ExhaustionInv, FailedMeansExhausted
  <2>2. ASSUME NEW p \in Procs, RecoverApply(p), status[r] # "failed"
        PROVE  attempt[r] >= MaxAttempts
    <3>1. r \in GaveUp(p)
      BY <2>2 DEF RecoverApply, table, TypeOK, TableOK, Runs
    <3>2. PICK row \in rows[p] : row.run = r /\ row.attempt >= MaxAttempts
      BY <3>1 DEF GaveUp, Exhausted
    <3>3. row.attempt \in Nat /\ row.attempt <= attempt[r]
      BY <3>2 DEF ExhaustionInv, SnapshotIsPast, TypeOK, WorkersOK, Snapshot
    <3> QED
      BY <1>2, <3>2, <3>3, LimitsKnown DEF Runs
  <2>3. ASSUME NEW p \in Procs, Claim(p) \/ Complete(p) \/ ReleaseWrite(p), status[r] # "failed"
        PROVE  attempt[r] >= MaxAttempts
    <3>1. pc[p] = "bury" /\ job[p] = r
      BY <2>3 DEF Claim, Complete, ReleaseWrite, Write, table, TypeOK, TableOK, Outcomes, Runs
    <3> QED
      BY <3>1 DEF ExhaustionInv, BuriedIsExhausted
  <2>4. ASSUME NEW q \in Runs, LeaseExpires(q) \/ Heartbeat(q) \/ HandlerEnd(q)
        PROVE  status'[r] = status[r]
    <3>1. CASE HandlerEnd(q)
      <4>1. q # r
        BY <3>1 DEF HandlerEnd, Ending, ExhaustionInv, OrphansUnhandled
      <4> QED
        <5>1. UNCHANGED status \/ \E s : status' = [status EXCEPT ![q] = s]
          BY <3>1 DEF HandlerEnd, Write, table
        <5> QED
          BY <4>1, <5>1 DEF TypeOK, TableOK, Runs
    <3> QED
      BY <2>4, <3>1 DEF LeaseExpires, Heartbeat
  <2>5. ASSUME NEW q \in Requests, NEW p \in Procs, NEW d \in Doors, Submit(q, p, d)
        PROVE  status'[r] = status[r]
    BY <2>5, RunsDisjoint DEF Submit, TypeOK, TableOK, Runs
  <2>6. CASE UNCHANGED table
    BY <2>1, <2>6 DEF table
  <2> QED
    BY <2>1, <2>2, <2>3, <2>4, <2>5, <2>6, TableWriters
<1> QED
  BY <1>3, <1>4, <1>5, <1>6 DEF ExhaustionInv

\* A run delivered through the queue is failed only once its attempts are used
\* up, whatever number of processes recover and release runs concurrently on
\* values they read earlier, and wherever calls raise and processes stop.
THEOREM FailedRunsAreExhausted == Spec => []FailedMeansExhausted
<1>1. TypeOK /\ ExhaustionInv /\ [Next]_vars => ExhaustionInv'
  BY NextExhaustion
<1>2. ExhaustionInv => FailedMeansExhausted
  BY DEF ExhaustionInv
<1> QED
  BY <1>1, <1>2, InitExhaustion, TypeCorrect, PTL DEF Spec

-----------------------------------------------------------------------------
(* One process                                                             *)
(*                                                                         *)
(* With one worker nobody claims a run between the SELECT of recover_runs  *)
(* and its UPDATEs, or between the two halves of release_for_retry.  With  *)
(* two the properties below fail.                                          *)

OneProcess == \A p, q \in Procs : p = q

\* The steps of the only worker by what they do to pc, job and rows.
LEMMA WorkerMoves ==
    ASSUME TypeOK, OneProcess, [Next]_vars, NEW p \in Procs
    PROVE  \/ UNCHANGED workers
           \/ pc'[p] \in {"off", "dead", "idle", "startup", "select", "notify"}
           \/ RecoverSelect(p) /\ pc'[p] = "apply"
           \/ pc'[p] = "claim" /\ pc[p] = "idle"
           \/ Execute(p) /\ job'[p] = job[p] /\ pc'[p] \in Executing
<1> USE DEF OneProcess
<1>1. ASSUME Start(p) \/ Stop(p) \/ PeriodicRecover(p)
      PROVE  pc'[p] \in {"off", "startup", "select"}
  BY <1>1 DEF Start, Stop, PeriodicRecover, Goto, Drop, TypeOK, WorkersOK
<1>2. CASE RecoverSelect(p)
  BY <1>2 DEF RecoverSelect, ToLoop, Die, Drop, TypeOK, WorkersOK
<1>3. CASE RecoverApply(p)
  BY <1>3 DEF RecoverApply, Goto, Die, Drop, TypeOK, WorkersOK
<1>4. CASE RecoverNotify(p)
  BY <1>4 DEF RecoverNotify, RowDone, ToLoop, Die, Drop, TypeOK, WorkersOK
<1>5. CASE Dequeue(p)
  BY <1>5 DEF Dequeue, Die, Drop, TypeOK, WorkersOK
<1>6. CASE Execute(p)
  BY <1>6 DEF Execute, Claim, EmitStarted, RunAgent, Complete, EmitCompleted, Release, ReleaseWrite,
              Retry, GiveUp, Goto, ToLoop, Die, Drop, TypeOK, WorkersOK, Executing
<1>7. ASSUME NEW r \in Runs, Handle(r) \/ Disconnect(r) \/ LeaseExpires(r) \/ Heartbeat(r)
      PROVE  UNCHANGED workers
  BY <1>7 DEF Handle, HandlerBegin, HandlerWork, HandlerEnd, Disconnect, Inline, LeaseExpires, Heartbeat
<1>8. ASSUME NEW r \in Requests, NEW q \in Procs, NEW d \in Doors, Submit(r, q, d)
      PROVE  UNCHANGED workers
  BY <1>8 DEF Submit
<1>9. CASE UNCHANGED vars
  BY <1>9 DEF vars
<1> QED
  BY <1>1, <1>2, <1>3, <1>4, <1>5, <1>6, <1>7, <1>8, <1>9 DEF Next, Recover

\* What the only worker read is still what the table says when it writes.
WaitingHasAttempts ==
    \A r \in Runs : status[r] \in {"absent", "queued"} => attempt[r] < MaxAttempts

SnapshotIsFresh ==
    \A p \in Procs : pc[p] = "apply" => \A row \in rows[p] : row.attempt = attempt[row.run]

RequeuedHasAttempts == \A p \in Procs : pc[p] = "requeue" => attempt[job[p]] < MaxAttempts

AttemptsInv == AttemptsBounded /\ WaitingHasAttempts /\ SnapshotIsFresh /\ RequeuedHasAttempts

\* Before the start every orphan has room for an attempt.
LEMMA InitAttempts == Init => AttemptsInv
  BY LimitsKnown DEF Init, AttemptsInv, AttemptsBounded, WaitingHasAttempts, SnapshotIsFresh,
                     RequeuedHasAttempts

\* Every step of the only worker keeps the invariant: a queued run has room for an attempt, and a requeue is decided on a count that is still current.
LEMMA NextAttempts ==
    ASSUME TypeOK, OneProcess, AttemptsInv, [Next]_vars
    PROVE  AttemptsInv'
<1>1. TypeOK'
  BY NextType
<1>2. \A r \in Runs : attempt[r] \in Nat /\ attempt'[r] \in Nat
  BY <1>1 DEF TypeOK, TableOK
<1>3. MaxAttempts \in Nat
  BY LimitsKnown
<1>4. ASSUME NEW p \in Procs, pc[p] # "claim" PROVE UNCHANGED attempt
  BY <1>4, OnlyClaimsCount DEF OneProcess
<1>5. AttemptsBounded'
  <2> SUFFICES ASSUME NEW r \in Runs PROVE attempt'[r] <= MaxAttempts
    BY DEF AttemptsBounded
  <2>1. CASE attempt'[r] = attempt[r]
    BY <2>1 DEF AttemptsInv, AttemptsBounded
  <2>2. CASE attempt'[r] # attempt[r]
    <3>1. status[r] = "queued" /\ attempt'[r] = attempt[r] + 1
      BY <2>2, OnlyClaimsCount DEF TypeOK, TableOK
    <3>2. attempt[r] < MaxAttempts
      BY <3>1 DEF AttemptsInv, WaitingHasAttempts
    <3> QED
      BY <1>2, <1>3, <3>1, <3>2
  <2> QED
    BY <2>1, <2>2
<1>6. WaitingHasAttempts'
  <2> SUFFICES ASSUME NEW r \in Runs, status'[r] \in {"absent", "queued"}
               PROVE  attempt'[r] < MaxAttempts
    BY DEF WaitingHasAttempts
  <2>1. attempt'[r] = attempt[r]
    BY OnlyClaimsCount DEF TypeOK, TableOK
  <2> SUFFICES attempt[r] < MaxAttempts
    BY <2>1
  <2>2. CASE status[r] \in {"absent", "queued"}
    BY <2>2 DEF AttemptsInv, WaitingHasAttempts
  <2> SUFFICES ASSUME status[r] \notin {"absent", "queued"}
               PROVE  attempt[r] < MaxAttempts
    BY <2>2
  <2>3. ASSUME NEW p \in Procs, RecoverApply(p) PROVE attempt[r] < MaxAttempts
    <3>1. r \in Again(p) /\ pc[p] = "apply"
      BY <2>3 DEF RecoverApply, table, TypeOK, TableOK
    <3>2. PICK row \in rows[p] : row.run = r /\ row.status = "running" /\ ~Exhausted(row)
      BY <3>1 DEF Again
    <3>3. row.attempt = attempt[r] /\ ~(row.attempt >= MaxAttempts)
      BY <3>1, <3>2 DEF Exhausted, AttemptsInv, SnapshotIsFresh
    <3> QED
      BY <1>2, <1>3, <3>3
  <2>4. ASSUME NEW p \in Procs, ReleaseWrite(p) PROVE attempt[r] < MaxAttempts
    <3>1. pc[p] = "requeue" /\ job[p] = r
      BY <2>4 DEF ReleaseWrite, Write, table, TypeOK, TableOK
    <3> QED
      BY <3>1 DEF AttemptsInv, RequeuedHasAttempts
  <2>5. ASSUME NEW p \in Procs, Claim(p) \/ Complete(p) PROVE FALSE
    BY <2>5 DEF Claim, Complete, Write, table, TypeOK, TableOK, Outcomes
  <2>6. ASSUME NEW q \in Runs, HandlerEnd(q) PROVE FALSE
    <3>1. UNCHANGED status \/ \E s \in Verdicts(q) : status' = [status EXCEPT ![q] = s]
      BY <2>6 DEF HandlerEnd, Write, table
    <3>2. "absent" \notin Verdicts(q) /\ "queued" \notin Verdicts(q)
      BY DEF Verdicts, Outcomes
    <3> QED
      BY <3>1, <3>2 DEF TypeOK, TableOK
  <2>7. ASSUME NEW q \in Runs, LeaseExpires(q) \/ Heartbeat(q) PROVE FALSE
    BY <2>7 DEF LeaseExpires, Heartbeat
  <2>8. ASSUME NEW q \in Requests, NEW p \in Procs, NEW d \in Doors, Submit(q, p, d) PROVE FALSE
    BY <2>8 DEF Submit, TypeOK, TableOK
  <2>9. ~UNCHANGED table
    BY DEF table
  <2> QED
    BY <2>3, <2>4, <2>5, <2>6, <2>7, <2>8, <2>9, TableWriters
<1>7. SnapshotIsFresh'
  <2> SUFFICES ASSUME NEW p \in Procs, pc'[p] = "apply", NEW row \in rows'[p]
               PROVE  row.attempt = attempt'[row.run]
    BY DEF SnapshotIsFresh
  <2>1. CASE UNCHANGED workers
    BY <1>4, <2>1 DEF workers, AttemptsInv, SnapshotIsFresh
  <2>2. CASE RecoverSelect(p)
    <3>1. \E r \in Recoverable(p) : row = [run |-> r, status |-> status[r], attempt |-> attempt[r]]
      BY <2>2 DEF RecoverSelect, ToLoop, Die, Drop, TypeOK, WorkersOK
    <3> QED
      BY <2>2, <3>1 DEF RecoverSelect, table
  <2> QED
    BY <2>1, <2>2, WorkerMoves DEF Executing
<1>8. RequeuedHasAttempts'
  <2> SUFFICES ASSUME NEW p \in Procs, pc'[p] = "requeue"
               PROVE  attempt'[job'[p]] < MaxAttempts
    BY DEF RequeuedHasAttempts
  <2>1. CASE UNCHANGED workers
    BY <1>4, <2>1 DEF workers, AttemptsInv, RequeuedHasAttempts
  <2>2. CASE Execute(p) /\ job'[p] = job[p]
    <3>1. Release(p) /\ attempt[job[p]] < MaxAttempts
      BY <2>2 DEF Execute, Claim, EmitStarted, RunAgent, Complete, EmitCompleted, Release,
                  ReleaseWrite, Retry, GiveUp, Goto, ToLoop, Die, Drop, TypeOK, WorkersOK
    <3> QED
      BY <2>2, <3>1 DEF Release, table
  <2> QED
    BY <2>1, <2>2, WorkerMoves
<1> QED
  BY <1>5, <1>6, <1>7, <1>8 DEF AttemptsInv

\* One worker starts no run more than worker_max_attempts times, through any
\* number of restarts, retries, expired leases, redeliveries and failing calls.
THEOREM AttemptsAreBounded == ASSUME OneProcess PROVE Spec => []AttemptsBounded
<1>1. TypeOK /\ AttemptsInv /\ [Next]_vars => AttemptsInv'
  BY NextAttempts
<1>2. AttemptsInv => AttemptsBounded
  BY DEF AttemptsInv
<1> QED
  BY <1>1, <1>2, InitAttempts, TypeCorrect, PTL DEF Spec

-----------------------------------------------------------------------------
(* What the only worker holds is still its own                             *)

Holding == {"started", "agent", "complete"}
GivingBack == {"release", "requeue", "bury"}

\* A run in the worker's hands is running ...
HeldIsRunning ==
    \A p \in Procs : pc[p] \in Holding /\ job[p] \in Orphans => status[job[p]] = "running"

\* ... so is one it gives back, unless a call has failed: an announcement that
\* raises sends a completed run there ...
GivenBackIsRunning ==
    faults = 0 => \A p \in Procs :
        pc[p] \in GivingBack /\ job[p] \in Orphans => status[job[p]] = "running"

\* ... and between its SELECT and its UPDATEs a recovery is alone with the rows.
SnapshotIsCurrent ==
    \A p \in Procs : pc[p] = "apply" =>
        \A row \in rows[p] : row.run \in Orphans => row.status = status[row.run]

HeldIsLeased ==
    stalls = 0 => \A p \in Procs :
        pc[p] \in Holding /\ job[p] \in Orphans => lease[job[p]] = "live"

CustodyInv == /\ OrphansUnhandled /\ HeldIsRunning /\ GivenBackIsRunning
              /\ SnapshotIsCurrent /\ HeldIsLeased

\* Nothing but its worker changes the row of an orphan, the lease aside.
LEMMA OnlyTheWorkerWrites ==
    ASSUME TypeOK, OneProcess, OrphansUnhandled, [Next]_vars, NEW p \in Procs, NEW r \in Orphans,
           status'[r] # status[r]
    PROVE  RecoverApply(p) \/ Claim(p) \/ Complete(p) \/ ReleaseWrite(p)
<1>1. ASSUME NEW q \in Runs, HandlerEnd(q) PROVE FALSE
  <2>1. q # r
    BY <1>1 DEF HandlerEnd, Ending, OrphansUnhandled
  <2>2. UNCHANGED status \/ \E s : status' = [status EXCEPT ![q] = s]
    BY <1>1 DEF HandlerEnd, Write, table
  <2> QED
    BY <2>1, <2>2 DEF TypeOK, TableOK, Runs
<1>2. ASSUME NEW q \in Runs, LeaseExpires(q) \/ Heartbeat(q) PROVE FALSE
  BY <1>2 DEF LeaseExpires, Heartbeat
<1>3. ASSUME NEW q \in Requests, NEW s \in Procs, NEW d \in Doors, Submit(q, s, d) PROVE FALSE
  BY <1>3, RunsDisjoint DEF Submit, TypeOK, TableOK, Runs
<1>4. ~UNCHANGED table
  BY DEF table
<1> QED
  BY <1>1, <1>2, <1>3, <1>4, TableWriters DEF OneProcess

\* Before the start the worker holds nothing.
LEMMA InitCustody == Init => CustodyInv
  BY DEF Init, CustodyInv, OrphansUnhandled, HeldIsRunning, GivenBackIsRunning, SnapshotIsCurrent,
         HeldIsLeased, Holding, GivingBack, Runs

\* The run in the worker's hands keeps status running: with one process nobody else writes an orphan's row while it is held.
LEMMA NextHeldIsRunning ==
    ASSUME TypeOK, OneProcess, CustodyInv, [Next]_vars
    PROVE  HeldIsRunning'
<1> SUFFICES ASSUME NEW p \in Procs, pc'[p] \in Holding, job'[p] \in Orphans
             PROVE  status'[job'[p]] = "running"
  BY DEF HeldIsRunning
<1>1. CASE UNCHANGED workers
  <2>1. pc[p] \in Holding /\ job'[p] = job[p] /\ status[job[p]] = "running"
    BY <1>1 DEF workers, CustodyInv, HeldIsRunning
  <2>2. ~(RecoverApply(p) \/ Claim(p) \/ Complete(p) \/ ReleaseWrite(p))
    BY <1>1, <2>1 DEF workers, RecoverApply, Claim, Complete, ReleaseWrite, Holding, Goto, ToLoop, Die,
                      Drop, TypeOK, WorkersOK
  <2> QED
    BY <2>1, <2>2, OnlyTheWorkerWrites DEF CustodyInv
<1>2. CASE Execute(p) /\ job'[p] = job[p]
  <2>1. CASE Claim(p)
    BY <1>2, <2>1 DEF Claim, ToLoop, Die, Drop, Holding, TypeOK, TableOK, WorkersOK, Runs
  <2>2. CASE ~Claim(p)
    <3>1. pc[p] \in Holding /\ UNCHANGED table
      BY <1>2, <2>2 DEF Execute, EmitStarted, RunAgent, Complete, EmitCompleted, Release,
                        ReleaseWrite, Retry, GiveUp, Goto, ToLoop, Die, Drop, TypeOK, WorkersOK, Holding
    <3> QED
      BY <1>2, <3>1 DEF table, CustodyInv, HeldIsRunning
  <2> QED
    BY <2>1, <2>2
<1> QED
  BY <1>1, <1>2, WorkerMoves DEF Holding

\* A run the worker is about to release or fail is still running when it does.
LEMMA NextGivenBackIsRunning ==
    ASSUME TypeOK, OneProcess, CustodyInv, [Next]_vars
    PROVE  GivenBackIsRunning'
<1> SUFFICES ASSUME faults' = 0, NEW p \in Procs, pc'[p] \in GivingBack, job'[p] \in Orphans
             PROVE  status'[job'[p]] = "running"
  BY DEF GivenBackIsRunning
<1>1. NoFault \/ Fault \/ UNCHANGED faults => faults = 0 /\ ~Fault
  BY DEF TypeOK, BoundsOK, NoFault, Fault
<1>2. CASE UNCHANGED workers
  <2>1. faults = 0
    BY <1>1 DEF Next, Start, Stop, Recover, RecoverSelect, RecoverApply, RecoverNotify,
                PeriodicRecover, Dequeue, Execute, Claim, EmitStarted, RunAgent, Complete,
                EmitCompleted, Release, ReleaseWrite, Retry, GiveUp, Handle, HandlerBegin,
                HandlerWork, HandlerEnd, Disconnect, LeaseExpires, Heartbeat, Submit, vars
  <2>2. pc[p] \in GivingBack /\ job'[p] = job[p] /\ status[job[p]] = "running"
    BY <1>2, <2>1 DEF workers, CustodyInv, GivenBackIsRunning
  <2>3. ~(RecoverApply(p) \/ Claim(p) \/ Complete(p) \/ ReleaseWrite(p))
    BY <1>2, <2>2 DEF workers, RecoverApply, Claim, Complete, ReleaseWrite, GivingBack, Goto, ToLoop,
                      Die, Drop, TypeOK, WorkersOK
  <2> QED
    BY <2>2, <2>3, OnlyTheWorkerWrites DEF CustodyInv
<1>3. CASE Execute(p) /\ job'[p] = job[p]
  <2>1. NoFault \/ Fault \/ UNCHANGED faults
    BY <1>3 DEF Execute, Claim, EmitStarted, RunAgent, Complete, EmitCompleted, Release,
                ReleaseWrite, Retry, GiveUp
  <2>2. faults = 0 /\ ~Fault
    BY <1>1, <2>1
  <2>3. pc[p] \in {"agent", "release"} /\ UNCHANGED table
    BY <1>3, <2>2 DEF Execute, Claim, EmitStarted, RunAgent, Complete, EmitCompleted, Release,
                      ReleaseWrite, Retry, GiveUp, Goto, ToLoop, Die, Drop, TypeOK, WorkersOK, GivingBack
  <2> QED
    BY <1>3, <2>2, <2>3 DEF table, CustodyInv, HeldIsRunning, GivenBackIsRunning, Holding, GivingBack
<1> QED
  BY <1>2, <1>3, WorkerMoves DEF GivingBack

\* What a recovery selected is still so when it writes: with one process its three steps are not interrupted by a claim.
LEMMA NextSnapshotIsCurrent ==
    ASSUME TypeOK, OneProcess, CustodyInv, [Next]_vars
    PROVE  SnapshotIsCurrent'
<1> SUFFICES ASSUME NEW p \in Procs, pc'[p] = "apply", NEW row \in rows'[p], row.run \in Orphans
             PROVE  row.status = status'[row.run]
  BY DEF SnapshotIsCurrent
<1>1. CASE UNCHANGED workers
  <2>1. pc[p] = "apply" /\ row \in rows[p]
    BY <1>1 DEF workers
  <2>2. ~(RecoverApply(p) \/ Claim(p) \/ Complete(p) \/ ReleaseWrite(p))
    BY <1>1, <2>1 DEF workers, RecoverApply, Claim, Complete, ReleaseWrite, Goto, Die, Drop,
                      TypeOK, WorkersOK
  <2> QED
    BY <2>1, <2>2, OnlyTheWorkerWrites DEF CustodyInv, SnapshotIsCurrent
<1>2. CASE RecoverSelect(p)
  <2>1. \E r \in Recoverable(p) : row = [run |-> r, status |-> status[r], attempt |-> attempt[r]]
    BY <1>2 DEF RecoverSelect, ToLoop, Die, Drop, TypeOK, WorkersOK
  <2> QED
    BY <1>2, <2>1 DEF RecoverSelect, table
<1> QED
  BY <1>1, <1>2, WorkerMoves DEF Executing

\* The held run keeps its lease unless a lease stalled, or the clock ran past it.
LEMMA NextHeldIsLeased ==
    ASSUME TypeOK, OneProcess, CustodyInv, [Next]_vars
    PROVE  HeldIsLeased'
<1> SUFFICES ASSUME stalls' = 0, NEW p \in Procs, pc'[p] \in Holding, job'[p] \in Orphans
             PROVE  lease'[job'[p]] = "live"
  BY DEF HeldIsLeased
<1>1. ASSUME NEW r \in Runs, LeaseExpires(r), pc[p] \in Holding, job[p] = r PROVE FALSE
  <2>1. p \in Holders(r)
    BY <1>1 DEF Holders, Holding, Executing
  <2>2. stalls \in Nat /\ stalls' = stalls + 1
    BY <1>1, <2>1, LimitsKnown DEF LeaseExpires, TypeOK, BoundsOK
  <2> QED
    BY <2>2
<1>2. stalls = 0
  <2>1. UNCHANGED stalls \/ stalls' = stalls + 1
    BY DEF Next, Start, Stop, Recover, RecoverSelect, RecoverApply, RecoverNotify,
           PeriodicRecover, Dequeue, Execute, Claim, EmitStarted, RunAgent, Complete,
           EmitCompleted, Release, ReleaseWrite, Retry, GiveUp, Handle, HandlerBegin, HandlerWork,
           HandlerEnd, Inline, Disconnect, LeaseExpires, Heartbeat, Submit, vars
  <2> QED
    BY <2>1, LimitsKnown DEF TypeOK, BoundsOK
<1>3. CASE UNCHANGED workers
  <2>1. pc[p] \in Holding /\ job'[p] = job[p] /\ job[p] \in Orphans /\ lease[job[p]] = "live"
    BY <1>2, <1>3 DEF workers, CustodyInv, HeldIsLeased
  <2>2. \A q \in Procs : ~(RecoverApply(q) \/ Claim(q) \/ Complete(q) \/ ReleaseWrite(q))
    BY <1>3, <2>1 DEF OneProcess, workers, RecoverApply, Claim, Complete, ReleaseWrite, Holding, Goto,
                      ToLoop, Die, Drop, TypeOK, WorkersOK
  <2>3. ASSUME NEW q \in Runs, HandlerEnd(q) PROVE lease'[job[p]] = "live"
    <3>1. q # job[p]
      BY <2>1, <2>3 DEF HandlerEnd, Ending, CustodyInv, OrphansUnhandled
    <3>2. UNCHANGED lease \/ lease' = [lease EXCEPT ![q] = "null"]
      BY <2>3 DEF HandlerEnd, Write, table
    <3> QED
      BY <2>1, <3>1, <3>2 DEF TypeOK, TableOK, Runs
  <2>4. ASSUME NEW q \in Runs, LeaseExpires(q) \/ Heartbeat(q) PROVE lease'[job[p]] = "live"
    BY <1>1, <2>1, <2>4 DEF LeaseExpires, Heartbeat, TypeOK, TableOK, Runs
  <2>5. ASSUME NEW q \in Requests, NEW s \in Procs, NEW d \in Doors, Submit(q, s, d)
        PROVE  lease'[job[p]] = "live"
    BY <2>1, <2>5 DEF Submit
  <2> QED
    BY <2>1, <2>2, <2>3, <2>4, <2>5, TableWriters DEF table
<1>4. CASE Execute(p) /\ job'[p] = job[p]
  <2>1. CASE Claim(p)
    BY <1>4, <2>1 DEF Claim, ToLoop, Die, Drop, Holding, TypeOK, TableOK, WorkersOK, Runs
  <2>2. CASE ~Claim(p)
    <3>1. pc[p] \in Holding /\ UNCHANGED table
      BY <1>4, <2>2 DEF Execute, EmitStarted, RunAgent, Complete, EmitCompleted, Release,
                        ReleaseWrite, Retry, GiveUp, Goto, ToLoop, Die, Drop, TypeOK, WorkersOK, Holding
    <3> QED
      BY <1>2, <1>4, <3>1 DEF table, CustodyInv, HeldIsLeased
  <2> QED
    BY <2>1, <2>2
<1> QED
  BY <1>3, <1>4, WorkerMoves DEF Holding

\* The four parts together.
LEMMA NextCustody ==
    ASSUME TypeOK, OneProcess, CustodyInv, [Next]_vars
    PROVE  CustodyInv'
  BY OrphansStayUnhandled, NextHeldIsRunning, NextGivenBackIsRunning, NextSnapshotIsCurrent,
     NextHeldIsLeased DEF CustodyInv

\* As long as its lease is renewed in time, nothing requeues, fails or finishes
\* a run under the only worker that executes it, whatever calls raise and
\* however often the process restarts, and no heartbeat leases a run that is over.
THEOREM ExecutedRunsAreLeased == ASSUME OneProcess PROVE Spec => []ExecutedRunIsLeased
<1>1. TypeOK /\ CustodyInv /\ [Next]_vars => CustodyInv'
  BY NextCustody
<1>2. CustodyInv /\ LeaseOnlyWhenRunning => ExecutedRunIsLeased
  BY DEF CustodyInv, HeldIsRunning, HeldIsLeased, Holding, ExecutedRunIsLeased
<1> QED
  BY <1>1, <1>2, InitCustody, TypeCorrect, LeasesAreHeldByRunningRuns, PTL DEF Spec

\* Given custody, no step takes a completed or failed orphan out of its status before a call has raised.
LEMMA NextFinished ==
    ASSUME TypeOK, OneProcess, CustodyInv, [Next]_vars, NEW r \in Orphans,
           status[r] \in Terminal, faults' = 0
    PROVE  status'[r] = status[r]
<1> SUFFICES ASSUME status'[r] # status[r] PROVE FALSE
  OBVIOUS
<1>1. PICK p \in Procs : RecoverApply(p) \/ Claim(p) \/ Complete(p) \/ ReleaseWrite(p)
  BY ProcsExist, OnlyTheWorkerWrites DEF CustodyInv
<1>2. status[r] # "running" /\ status[r] # "queued"
  BY DEF Terminal, Outcomes
<1>3. CASE RecoverApply(p)
  <2>1. r \in GaveUp(p) \cup Again(p) /\ pc[p] = "apply"
    BY <1>3 DEF RecoverApply, table, TypeOK, TableOK, Runs
  <2>2. PICK row \in rows[p] : row.run = r /\ row.status = "running"
    BY <2>1 DEF GaveUp, Again, Exhausted
  <2> QED
    BY <1>2, <2>1, <2>2 DEF CustodyInv, SnapshotIsCurrent
<1>4. CASE Claim(p)
  BY <1>2, <1>4 DEF Claim, table, TypeOK, TableOK, Runs
<1>5. CASE Complete(p)
  <2>1. pc[p] \in Holding /\ job[p] = r
    BY <1>5 DEF Complete, Write, table, Holding, TypeOK, TableOK, Runs
  <2> QED
    BY <1>2, <2>1 DEF CustodyInv, HeldIsRunning
<1>6. CASE ReleaseWrite(p)
  <2>1. pc[p] \in GivingBack /\ job[p] = r /\ NoFault
    BY <1>6 DEF ReleaseWrite, Write, table, GivingBack, TypeOK, TableOK, Runs
  <2> QED
    BY <1>2, <2>1 DEF NoFault, CustodyInv, GivenBackIsRunning
<1> QED
  BY <1>1, <1>3, <1>4, <1>5, <1>6

\* A run the worker has finished is never executed, requeued or failed again,
\* whatever the queue still delivers; once a call has failed this is lost.
THEOREM FinishedRunsStayFinished == ASSUME OneProcess PROVE Spec => FinishedStaysFinished
<1>1. TypeOK /\ CustodyInv /\ [Next]_vars => CustodyInv'
  BY NextCustody
<1>2. TypeOK /\ CustodyInv /\ [Next]_vars
        => [\A r \in Orphans : status[r] \in Terminal /\ faults' = 0
              => status'[r] = status[r]]_vars
  BY NextFinished
<1> QED
  BY <1>1, <1>2, InitCustody, TypeCorrect, PTL DEF Spec, FinishedStaysFinished

-----------------------------------------------------------------------------
(* Every queued run has a delivery under way                               *)

\* One recovery lists all the runs there are.
BatchSuffices == IsFiniteSet(Runs) /\ Cardinality(Runs) <= Batch

InQueue(r) == \E i \in DOMAIN queue : queue[i] = r

\* A run that is queued again by the worker is with the worker from then on ...
WorkerHas(p, r) == InQueue(r) \/ Delivering(p, r)

\* ... and one that a request queued is with the request's handler until it writes.
HandlerWrites(r) ==
    \/ door[r] = "runs" /\ handler[r] \in {"begin", "work", "first", "failFirst"}
    \/ door[r] = "chat" /\ handler[r] # "none"

QueuedIsDelivered == \A r \in Runs : status[r] = "queued" =>
    HandlerWrites(r) \/ \E p \in Procs : WorkerHas(p, r)

\* What a recovery gave up does not wait, so that it need not be enqueued.
GivenUpIsOver == \A p \in Procs : pc[p] = "notify" =>
    \A row \in rows[p] : Exhausted(row) => status[row.run] \notin {"absent", "queued"}

DeliveryInv == faults = 0 => QueuedIsDelivered /\ GivenUpIsOver

\* Before the start every queued run is an orphan that the recovery will list.
LEMMA InitDelivery == Init => DeliveryInv
  BY ProcsExist DEF Init, DeliveryInv, QueuedIsDelivered, GivenUpIsOver, WorkerHas, Delivering

\* What is enqueued, and what was in the queue, is in it.
LEMMA Enqueued ==
    ASSUME queue \in Seq(Runs), NEW q \in Runs, queue' = Append(queue, q)
    PROVE  InQueue(q)' /\ \A r \in Runs : InQueue(r) => InQueue(r)'
<1>1. Len(queue) + 1 \in DOMAIN queue' /\ queue'[Len(queue) + 1] = q
  OBVIOUS
<1>2. \A i \in DOMAIN queue : i \in DOMAIN queue' /\ queue'[i] = queue[i]
  OBVIOUS
<1> QED
  BY <1>1, <1>2 DEF InQueue

\* What was in the queue is in it or at its head.
LEMMA Dequeued ==
    ASSUME queue \in Seq(Runs), queue # <<>>, queue' = Tail(queue), NEW r \in Runs, InQueue(r)
    PROVE  r = Head(queue) \/ InQueue(r)'
<1>1. PICK i \in 1..Len(queue) : queue[i] = r
  BY DEF InQueue
<1>2. CASE i = 1
  BY <1>1, <1>2
<1>3. CASE i # 1
  <2>1. i - 1 \in DOMAIN queue' /\ queue'[i - 1] = queue[i]
    BY <1>3
  <2> QED
    BY <1>1, <2>1 DEF InQueue
<1> QED
  BY <1>2, <1>3

\* The recovery at the start lists every queued run.
LEMMA StartupSeesAll ==
    ASSUME TypeOK, BatchSuffices, NEW p \in Procs, pc[p] = "startup", RecoverSelect(p), NoFault,
           NEW r \in Runs, status[r] = "queued"
    PROVE  pc'[p] = "apply" /\ \E row \in rows'[p] : row.run = r
<1>1. PICK S \in SUBSET Recoverable(p) :
        /\ Cardinality(S) <= Batch /\ (Cardinality(S) < Batch => S = Recoverable(p))
        /\ \/ S = {}
           \/ /\ pc' = [pc EXCEPT ![p] = "apply"]
              /\ rows' = [rows EXCEPT ![p] =
                   {[run |-> x, status |-> status[x], attempt |-> attempt[x]] : x \in S}]
  BY DEF RecoverSelect, Fault, NoFault, TypeOK, BoundsOK
<1>2. Recoverable(p) \subseteq Runs /\ r \in Recoverable(p)
  BY DEF Recoverable
<1>3. IsFiniteSet(Recoverable(p)) /\ Cardinality(Recoverable(p)) <= Cardinality(Runs)
  BY <1>2, FS_Subset DEF BatchSuffices
<1>4. Cardinality(S) <= Cardinality(Recoverable(p)) /\ (Cardinality(S) = Cardinality(Recoverable(p)) => S = Recoverable(p))
      /\ IsFiniteSet(S)
  BY <1>1, <1>3, FS_Subset
<1>5. {Cardinality(S), Cardinality(Recoverable(p)), Cardinality(Runs), Batch} \subseteq Nat
  BY <1>3, <1>4, FS_CardinalityType, LimitsKnown DEF BatchSuffices
<1>6. S = Recoverable(p)
  BY <1>1, <1>3, <1>4, <1>5 DEF BatchSuffices
<1>7. r \in S
  BY <1>2, <1>6
<1>8. /\ pc'[p] = "apply"
      /\ rows'[p] = {[run |-> x, status |-> status[x], attempt |-> attempt[x]] : x \in S}
  BY <1>1, <1>7 DEF TypeOK, WorkersOK
<1>9. [run |-> r, status |-> status[r], attempt |-> attempt[r]] \in rows'[p]
  BY <1>7, <1>8
<1> QED
  BY <1>8, <1>9

\* A step of the worker that loses no run.
Keeps(p) == \A r \in Runs :
    status'[r] = "queued" /\ (status[r] = "queued" => WorkerHas(p, r)) => WorkerHas(p, r)'

\* The recovery keeps what is queued with the worker.
LEMMA RecoverKeeps ==
    ASSUME TypeOK, BatchSuffices, GivenUpIsOver, NEW p \in Procs, Recover(p), NoFault
    PROVE  Keeps(p)
<1> SUFFICES ASSUME NEW r \in Runs, status'[r] = "queued", status[r] = "queued" => WorkerHas(p, r)
             PROVE  WorkerHas(p, r)'
  BY DEF Keeps
<1>0. ~Fault
  BY DEF Fault, NoFault, TypeOK, BoundsOK
<1>1. CASE RecoverSelect(p)
  <2>1. status[r] = "queued" /\ UNCHANGED queue
    BY <1>1 DEF RecoverSelect, table
  <2>2. CASE pc[p] = "startup"
    BY <1>1, <2>1, <2>2, StartupSeesAll DEF WorkerHas, Delivering
  <2>3. CASE pc[p] # "startup"
    <3>1. InQueue(r)
      BY <1>1, <2>1, <2>3 DEF RecoverSelect, WorkerHas, Delivering
    <3> QED
      BY <2>1, <3>1 DEF WorkerHas, InQueue
  <2> QED
    BY <2>2, <2>3
<1>2. CASE RecoverApply(p)
  <2>1. pc[p] = "apply" /\ pc'[p] = "notify" /\ rows' = rows /\ UNCHANGED queue
    BY <1>0, <1>2 DEF RecoverApply, Goto, TypeOK, WorkersOK
  <2>2. CASE status[r] = "queued"
    BY <2>1, <2>2 DEF WorkerHas, Delivering, InQueue
  <2>3. CASE status[r] # "queued"
    <3>1. r \in Again(p)
      BY <1>0, <1>2, <2>3 DEF RecoverApply
    <3> QED
      BY <2>1, <3>1 DEF Again, WorkerHas, Delivering
  <2> QED
    BY <2>2, <2>3
<1>3. CASE RecoverNotify(p)
  <2>1. pc[p] = "notify" /\ status[r] = "queued"
    BY <1>3 DEF RecoverNotify, table
  <2>2. PICK row \in rows[p] : RowDone(p, row) /\ queue' = IF Exhausted(row) THEN queue ELSE Append(queue, row.run)
    BY <1>0, <1>3 DEF RecoverNotify
  <2>3. row.run \in Runs /\ queue \in Seq(Runs)
    BY <2>2 DEF TypeOK, WorkersOK, Snapshot
  <2>4. CASE InQueue(r)
    BY <2>2, <2>3, <2>4, Enqueued DEF WorkerHas, InQueue
  <2>5. CASE ~InQueue(r)
    <3>1. PICK x \in rows[p] : x.run = r
      BY <2>1, <2>5 DEF WorkerHas, Delivering
    <3>2. ~Exhausted(x)
      BY <2>1, <3>1 DEF GivenUpIsOver
    <3>3. CASE x = row
      BY <2>2, <2>3, <3>1, <3>2, <3>3, Enqueued DEF WorkerHas
    <3>4. CASE x # row
      <4>1. x \in rows'[p] /\ pc' = pc
        BY <2>2, <3>1, <3>4 DEF RowDone, TypeOK, WorkersOK
      <4> QED
        BY <2>1, <3>1, <4>1 DEF WorkerHas, Delivering
    <3> QED
      BY <3>3, <3>4
  <2> QED
    BY <2>4, <2>5
<1> QED
  BY <1>1, <1>2, <1>3 DEF Recover

\* So does the execution of a run.
LEMMA ExecuteKeeps ==
    ASSUME TypeOK, NEW p \in Procs, Execute(p), NoFault
    PROVE  Keeps(p)
<1> SUFFICES ASSUME NEW r \in Runs, status'[r] = "queued", status[r] = "queued" => WorkerHas(p, r)
             PROVE  WorkerHas(p, r)'
  BY DEF Keeps
<1>0. ~Fault
  BY DEF Fault, NoFault, TypeOK, BoundsOK
<1>1. ASSUME UNCHANGED <<status, queue>>, ~Delivering(p, r) PROVE WorkerHas(p, r)'
  BY <1>1 DEF WorkerHas, InQueue
<1>2. CASE Claim(p)
  <2>1. job[p] # r /\ UNCHANGED queue /\ status[r] = "queued"
    BY <1>0, <1>2 DEF Claim, table, TypeOK, TableOK
  <2> QED
    BY <1>2, <2>1 DEF Claim, WorkerHas, Delivering, InQueue
<1>3. CASE Retry(p)
  <2>1. pc[p] = "retry" /\ queue' = Append(queue, job[p]) /\ status[r] = "queued" /\ job[p] \in Runs /\ queue \in Seq(Runs)
    BY <1>0, <1>3 DEF Retry, table, TypeOK, WorkersOK, Executing
  <2>2. InQueue(r) \/ r = job[p]
    BY <2>1 DEF WorkerHas, Delivering
  <2> QED
    BY <2>1, <2>2, Enqueued DEF WorkerHas
<1>4. CASE ReleaseWrite(p)
  <2>1. UNCHANGED queue /\ pc[p] \in {"requeue", "bury"}
    BY <1>4 DEF ReleaseWrite
  <2>2. CASE pc[p] = "requeue" /\ r = job[p]
    BY <1>0, <1>4, <2>2 DEF ReleaseWrite, Goto, WorkerHas, Delivering, TypeOK, WorkersOK
  <2>3. CASE ~(pc[p] = "requeue" /\ r = job[p])
    <3>1. status[r] = "queued" /\ ~Delivering(p, r)
      BY <1>0, <1>4, <2>1, <2>3 DEF ReleaseWrite, Write, Delivering, TypeOK, TableOK
    <3> QED
      BY <2>1, <3>1 DEF WorkerHas, InQueue
  <2> QED
    BY <2>2, <2>3
<1>5. CASE Complete(p)
  <2>1. status[r] = "queued" /\ ~Delivering(p, r) /\ UNCHANGED queue
    BY <1>0, <1>5 DEF Complete, Write, Delivering, Outcomes, table, TypeOK, TableOK
  <2> QED
    BY <2>1 DEF WorkerHas, InQueue
<1>6. CASE EmitStarted(p) \/ RunAgent(p) \/ EmitCompleted(p) \/ Release(p) \/ GiveUp(p)
  <2>1. UNCHANGED <<status, queue>> /\ pc[p] \in {"started", "agent", "announce", "release", "giveup"}
    BY <1>6 DEF EmitStarted, RunAgent, EmitCompleted, Release, GiveUp, table
  <2>2. ~Delivering(p, r)
    BY <2>1 DEF Delivering
  <2> QED
    BY <1>1, <2>1, <2>2
<1> QED
  BY <1>2, <1>3, <1>4, <1>5, <1>6 DEF Execute

\* And every other step of a process.
LEMMA WorkerKeeps ==
    ASSUME TypeOK, BatchSuffices, GivenUpIsOver, NEW p \in Procs, NoFault,
           Start(p) \/ Stop(p) \/ Recover(p) \/ PeriodicRecover(p) \/ Dequeue(p) \/ Execute(p)
    PROVE  Keeps(p)
<1>1. CASE Start(p) \/ Stop(p)
  <2>1. pc'[p] \in {"startup", "off"}
    BY <1>1 DEF Start, Stop, Goto, Drop, TypeOK, WorkersOK
  <2> QED
    BY <2>1 DEF Keeps, WorkerHas, Delivering
<1>2. CASE PeriodicRecover(p)
  BY <1>2 DEF PeriodicRecover, Keeps, WorkerHas, Delivering, InQueue, table
<1>3. CASE Dequeue(p)
  <2>1. /\ pc[p] = "idle" /\ queue # <<>> /\ queue' = Tail(queue) /\ UNCHANGED status
        /\ pc'[p] = "claim" /\ job'[p] = Head(queue)
    BY <1>3 DEF Dequeue, Fault, NoFault, table, TypeOK, WorkersOK, BoundsOK
  <2>2. ASSUME NEW r \in Runs, WorkerHas(p, r) PROVE WorkerHas(p, r)'
    <3>1. InQueue(r)
      BY <2>1, <2>2 DEF WorkerHas, Delivering
    <3>2. r = Head(queue) \/ InQueue(r)'
      BY <2>1, <3>1, Dequeued DEF TypeOK
    <3> QED
      BY <2>1, <3>2 DEF WorkerHas, Delivering
  <2> QED
    BY <2>1, <2>2 DEF Keeps
<1> QED
  BY <1>1, <1>2, <1>3, RecoverKeeps, ExecuteKeeps

\* What a step of a process does to the handlers: nothing, or it stops.
LEMMA HandlersKept ==
    ASSUME TypeOK, OneProcess, NEW p \in Procs, NEW r \in Runs,
           Start(p) \/ Stop(p) \/ Recover(p) \/ PeriodicRecover(p) \/ Dequeue(p) \/ Execute(p)
    PROVE  (HandlerWrites(r) => HandlerWrites(r)') \/ WorkerHas(p, r)'
<1>1. CASE Stop(p)
  BY <1>1 DEF Stop, Drop, WorkerHas, Delivering, TypeOK, WorkersOK
<1>2. CASE ~Stop(p)
  <2>1. UNCHANGED handlers
    BY <1>2 DEF Start, Recover, RecoverSelect, RecoverApply, RecoverNotify, PeriodicRecover, Dequeue, Execute,
                Claim, EmitStarted, RunAgent, Complete, EmitCompleted, Release, ReleaseWrite, Retry, GiveUp
  <2> QED
    BY <2>1 DEF handlers, HandlerWrites
<1> QED
  BY <1>1, <1>2

\* A request that is queued is with its handler until the handler has written.
LEMMA HandlerDelivers ==
    ASSUME TypeOK, NEW q \in Runs, NEW r \in Runs, Handle(q) \/ Disconnect(q), NoFault, status'[r] = "queued"
    PROVE  status[r] = "queued" /\ (HandlerWrites(r) => HandlerWrites(r)')
<1>0. ~Fault
  BY DEF Fault, NoFault, TypeOK, BoundsOK
<1>1. CASE r # q
  BY <1>1 DEF Handle, HandlerBegin, HandlerWork, HandlerEnd, Disconnect, Inline, ToHandler, Write, HandlerWrites,
              table, TypeOK, TableOK, HandlersOK
<1>2. CASE r = q /\ (HandlerBegin(q) \/ HandlerWork(q) \/ Disconnect(q))
  BY <1>0, <1>2 DEF HandlerBegin, HandlerWork, Disconnect, Inline, ToHandler, HandlerWrites, table, TypeOK, HandlersOK
<1>3. CASE r = q /\ HandlerEnd(q)
  <2>1. handler[q] \in Ending /\ handler' = [handler EXCEPT ![q] = After[handler[q]]] /\ UNCHANGED door
    BY <1>0, <1>3 DEF HandlerEnd, ToHandler, Inline
  <2>2. ~Writes(q) /\ UNCHANGED status
    <3>1. \A s \in Verdicts(q) : s # "queued"
      BY DEF Verdicts, Outcomes
    <3> QED
      BY <1>0, <1>3, <3>1 DEF HandlerEnd, Write, table, TypeOK, TableOK
  <2>3. HandlerWrites(r) => HandlerWrites(r)'
    BY <1>3, <2>1, <2>2 DEF HandlerWrites, Writes, After, Ending, TypeOK, HandlersOK
  <2> QED
    BY <1>3, <2>2, <2>3
<1> QED
  BY <1>1, <1>2, <1>3 DEF Handle

\* What was given up stays over while the recovery tells it.
LEMMA NextGivenUp ==
    ASSUME TypeOK, OneProcess, GivenUpIsOver, [Next]_vars, faults' = 0
    PROVE  GivenUpIsOver'
<1> SUFFICES ASSUME NEW p \in Procs, pc'[p] = "notify", NEW row \in rows'[p], Exhausted(row)
             PROVE  status'[row.run] \notin {"absent", "queued"}
  BY DEF GivenUpIsOver, Exhausted
<1>0. ~Fault
  BY DEF Fault, TypeOK, BoundsOK
<1>1. CASE RecoverApply(p)
  <2>1. rows' = rows /\ pc[p] = "apply"
    BY <1>0, <1>1 DEF RecoverApply, Goto
  <2>2. row.run \in GaveUp(p) /\ row.run \in Runs
    BY <2>1 DEF GaveUp, TypeOK, WorkersOK, Snapshot
  <2> QED
    BY <1>0, <1>1, <2>2 DEF RecoverApply
<1>2. CASE RecoverNotify(p)
  <2>1. pc[p] = "notify" /\ row \in rows[p] /\ UNCHANGED status
    BY <1>2 DEF RecoverNotify, RowDone, ToLoop, Die, Drop, table, TypeOK, WorkersOK
  <2> QED
    BY <2>1 DEF GivenUpIsOver
<1>3. ASSUME UNCHANGED workers, UNCHANGED status PROVE status'[row.run] \notin {"absent", "queued"}
  BY <1>3 DEF workers, GivenUpIsOver
<1>4. ASSUME NEW q \in Runs, Handle(q) \/ Disconnect(q) PROVE status'[row.run] \notin {"absent", "queued"}
  <2>1. pc[p] = "notify" /\ row \in rows[p] /\ row.run \in Runs
    BY <1>4 DEF Handle, HandlerBegin, HandlerWork, HandlerEnd, Disconnect, Inline, workers, TypeOK, WorkersOK, Snapshot
  <2>2. UNCHANGED status \/ \E s \in Verdicts(q) : status' = [status EXCEPT ![q] = s]
    BY <1>4 DEF Handle, HandlerBegin, HandlerWork, HandlerEnd, Disconnect, Write, table
  <2>3. \A s \in Verdicts(q) : s \notin {"absent", "queued"}
    BY DEF Verdicts, Outcomes
  <2> QED
    BY <2>1, <2>2, <2>3 DEF GivenUpIsOver, TypeOK, TableOK
<1>5. ASSUME NEW q \in Requests, NEW o \in Procs, NEW d \in Doors, Submit(q, o, d)
      PROVE  status'[row.run] \notin {"absent", "queued"}
  <2>1. pc[p] = "notify" /\ row \in rows[p]
    BY <1>5 DEF Submit, workers
  <2>2. row.run # q
    BY <1>5, <2>1 DEF Submit, GivenUpIsOver
  <2> QED
    BY <1>5, <2>1, <2>2 DEF Submit, GivenUpIsOver, TypeOK, TableOK, WorkersOK, Snapshot, Runs
<1>6. ASSUME Start(p) \/ Stop(p) \/ RecoverSelect(p) \/ PeriodicRecover(p) \/ Dequeue(p) \/ Execute(p) PROVE FALSE
  BY <1>6 DEF Start, Stop, RecoverSelect, PeriodicRecover, Dequeue, Execute, Claim, EmitStarted, RunAgent, Complete,
              EmitCompleted, Release, ReleaseWrite, Retry, GiveUp, Goto, ToLoop, Die, Drop, TypeOK, WorkersOK
<1>7. ASSUME UNCHANGED vars PROVE UNCHANGED workers /\ UNCHANGED status
  BY <1>7 DEF vars, table
<1>8. ASSUME NEW q \in Runs, LeaseExpires(q) \/ Heartbeat(q) PROVE UNCHANGED workers /\ UNCHANGED status
  BY <1>8 DEF LeaseExpires, Heartbeat
<1> QED
  BY <1>1, <1>2, <1>3, <1>4, <1>5, <1>6, <1>7, <1>8 DEF Next, Recover, OneProcess

\* Every step keeps a delivery under way.
LEMMA NextDelivered ==
    ASSUME TypeOK, OneProcess, BatchSuffices, QueuedIsDelivered, GivenUpIsOver, [Next]_vars, NoFault
    PROVE  QueuedIsDelivered'
<1> SUFFICES ASSUME NEW r \in Runs, status'[r] = "queued"
             PROVE  HandlerWrites(r)' \/ \E p \in Procs : WorkerHas(p, r)'
  BY DEF QueuedIsDelivered
<1>1. ASSUME NEW p \in Procs, Start(p) \/ Stop(p) \/ Recover(p) \/ PeriodicRecover(p) \/ Dequeue(p) \/ Execute(p)
      PROVE  HandlerWrites(r)' \/ WorkerHas(p, r)'
  <2>1. CASE status[r] = "queued" /\ HandlerWrites(r)
    BY <1>1, <2>1, HandlersKept
  <2>2. CASE ~(status[r] = "queued" /\ HandlerWrites(r))
    <3>1. status[r] = "queued" => WorkerHas(p, r)
      BY <2>2 DEF QueuedIsDelivered, OneProcess
    <3> QED
      BY <1>1, <3>1, WorkerKeeps DEF Keeps
  <2> QED
    BY <2>1, <2>2
<1>2. ASSUME UNCHANGED <<workers, queue>>, status[r] = "queued", HandlerWrites(r) => HandlerWrites(r)'
      PROVE  HandlerWrites(r)' \/ \E p \in Procs : WorkerHas(p, r)'
  <2>1. ASSUME NEW p \in Procs, WorkerHas(p, r) PROVE WorkerHas(p, r)'
    BY <1>2, <2>1 DEF WorkerHas, Delivering, InQueue, workers
  <2> QED
    BY <1>2, <2>1 DEF QueuedIsDelivered
<1>3. ASSUME NEW q \in Runs, Handle(q) \/ Disconnect(q) PROVE HandlerWrites(r)' \/ \E p \in Procs : WorkerHas(p, r)'
  <2>1. UNCHANGED <<workers, queue>>
    BY <1>3 DEF Handle, HandlerBegin, HandlerWork, HandlerEnd, Disconnect, Inline
  <2> QED
    BY <1>2, <1>3, <2>1, HandlerDelivers
<1>4. ASSUME NEW q \in Requests, NEW o \in Procs, NEW d \in Doors, Submit(q, o, d)
      PROVE  HandlerWrites(r)' \/ \E p \in Procs : WorkerHas(p, r)'
  <2>1. CASE r = q
    BY <1>4, <2>1, DoorsKnown DEF Submit, ToHandler, HandlerWrites, Endpoints, TypeOK, TableOK, HandlersOK, Runs
  <2>2. CASE r # q
    BY <1>2, <1>4, <2>2 DEF Submit, ToHandler, HandlerWrites, TypeOK, TableOK, HandlersOK, Runs
  <2> QED
    BY <2>1, <2>2
<1>5. ASSUME (\E q \in Runs : LeaseExpires(q) \/ Heartbeat(q)) \/ UNCHANGED vars
      PROVE  UNCHANGED <<workers, queue, status, handlers>>
  BY <1>5 DEF LeaseExpires, Heartbeat, table, vars
<1>6. ASSUME UNCHANGED <<workers, queue, status, handlers>>
      PROVE  HandlerWrites(r)' \/ \E p \in Procs : WorkerHas(p, r)'
  BY <1>2, <1>6 DEF HandlerWrites, handlers
<1> QED
  BY <1>1, <1>3, <1>4, <1>5, <1>6 DEF Next

\* As long as no call has raised, every queued run is in the queue, in the worker's
\* hands, with its handler, or still to be listed by the recovery at the start: no
\* order of restarts, recoveries, deliveries and requests leaves one behind.
THEOREM QueuedRunsAreDelivered ==
    ASSUME OneProcess, BatchSuffices PROVE Spec => []QueuedHasDelivery
<1>1. TypeOK /\ DeliveryInv /\ [Next]_vars => DeliveryInv'
  <2> SUFFICES ASSUME TypeOK, DeliveryInv, [Next]_vars, faults' = 0 PROVE QueuedIsDelivered' /\ GivenUpIsOver'
    BY DEF DeliveryInv
  <2>1. faults = 0
    <3>1. UNCHANGED faults \/ faults' = faults + 1
      BY DEF Next, Start, Stop, Recover, RecoverSelect, RecoverApply, RecoverNotify, PeriodicRecover, Dequeue, Execute,
             Claim, EmitStarted, RunAgent, Complete, EmitCompleted, Release, ReleaseWrite, Retry, GiveUp,
             LeaseExpires, Heartbeat, Handle, HandlerBegin, HandlerWork, HandlerEnd, Disconnect, Submit, Fault, NoFault, vars
    <3> QED
      BY <3>1 DEF TypeOK, BoundsOK
  <2>2. NoFault
    BY <2>1 DEF NoFault
  <2> QED
    BY <2>1, <2>2, NextDelivered, NextGivenUp DEF DeliveryInv
<1>2. TypeOK /\ DeliveryInv => QueuedHasDelivery
  <2> SUFFICES ASSUME DeliveryInv, faults = 0, NEW r \in Runs, status[r] = "queued"
               PROVE  InQueue(r) \/ (\E p \in Procs : Delivering(p, r)) \/ handler[r] # "none"
    BY DEF QueuedHasDelivery, InQueue
  <2> QED
    BY DEF DeliveryInv, QueuedIsDelivered, HandlerWrites, WorkerHas
<1> QED
  BY <1>1, <1>2, InitDelivery, TypeCorrect, PTL DEF Spec

-----------------------------------------------------------------------------
(* Refinement of RunContract                                               *)

\* The initial states map to initial states of the contract.
LEMMA InitContract == Init => Contract!Init
  BY DEF Init, Contract!Init, phaseOf, Runs

\* Every step of the worker, the queue and the recovery maps to a step of the contract or to a stutter.
LEMMA NextContract ==
    ASSUME MaxFaults = 0, TypeOK, TypeOK', OneProcess, CustodyInv, AttemptsInv, ExhaustionInv,
           [Next]_vars, NEW r \in Orphans
    PROVE  \/ Contract!Begin(r) \/ Contract!GiveBack(r) \/ Contract!Succeed(r)
           \/ Contract!Fail(r) \/ Contract!Keep(r)
<1> USE DEF Runs
<1>1. /\ faults = 0 /\ faults' = 0
      /\ status[r] \in Status /\ attempt[r] \in Nat /\ MaxAttempts \in Nat
  BY LimitsKnown DEF TypeOK, BoundsOK, TableOK
<1>2. CASE status'[r] = status[r]
  <2>1. attempt'[r] = attempt[r]
    BY <1>2, OnlyClaimsCount DEF TypeOK, TableOK
  <2> QED
    BY <1>2, <2>1 DEF Contract!Keep
<1>3. CASE status'[r] # status[r]
  <2>1. PICK p \in Procs : RecoverApply(p) \/ Claim(p) \/ Complete(p) \/ ReleaseWrite(p)
    BY <1>3, ProcsExist, OnlyTheWorkerWrites DEF CustodyInv
  <2>2. CASE Claim(p)
    <3>1. /\ status[r] = "queued" /\ status'[r] = "running"
          /\ attempt'[r] = attempt[r] + 1
      BY <1>3, <2>2 DEF Claim, table, TypeOK, TableOK
    <3>2. attempt[r] < MaxAttempts
      BY <3>1 DEF AttemptsInv, WaitingHasAttempts
    <3> QED
      BY <3>1, <3>2 DEF Contract!Begin, phaseOf
  <2>3. CASE RecoverApply(p)
    <3>1. pc[p] = "apply" /\ UNCHANGED attempt
      BY <1>3, <2>3 DEF RecoverApply, table
    <3>2. \/ r \in GaveUp(p) /\ status'[r] = "failed"
          \/ r \in Again(p) /\ status'[r] = "queued"
      BY <1>3, <2>3 DEF RecoverApply, table, TypeOK, TableOK
    <3>3. ASSUME NEW row \in rows[p], row.run = r, row.status = "running"
          PROVE  status[r] = "running" /\ row.attempt = attempt[r]
      BY <3>1, <3>3 DEF CustodyInv, SnapshotIsCurrent, AttemptsInv, SnapshotIsFresh
    <3>4. CASE r \in GaveUp(p) /\ status'[r] = "failed"
      <4>1. status[r] = "running" /\ attempt[r] >= MaxAttempts
        BY <3>3, <3>4 DEF GaveUp, Exhausted
      <4>2. attempt[r] = MaxAttempts
        BY <1>1, <4>1 DEF AttemptsInv, AttemptsBounded
      <4> QED
        BY <3>1, <3>4, <4>1, <4>2 DEF Contract!Fail, phaseOf
    <3>5. CASE r \in Again(p) /\ status'[r] = "queued"
      <4>1. status[r] = "running" /\ ~(attempt[r] >= MaxAttempts)
        BY <3>3, <3>5 DEF Again, Exhausted
      <4> QED
        BY <1>1, <3>1, <3>5, <4>1 DEF Contract!GiveBack, phaseOf
    <3> QED
      BY <3>2, <3>4, <3>5
  <2>4. CASE Complete(p)
    <3>1. PICK s \in Outcomes : Write(job[p], s) /\ pc[p] = "complete" /\ job[p] = r
      BY <1>3, <2>4 DEF Complete, Write, table, TypeOK, TableOK
    <3>2. status[r] = "running"
      BY <3>1 DEF CustodyInv, HeldIsRunning, Holding
    <3>3. status'[r] = s /\ attempt'[r] = attempt[r]
      BY <3>1 DEF Write, TypeOK, TableOK
    <3> QED
      BY <3>2, <3>3 DEF Contract!Succeed, phaseOf, Outcomes
  <2>5. CASE ReleaseWrite(p)
    <3>1. /\ job[p] = r /\ attempt'[r] = attempt[r]
          /\ \/ pc[p] = "requeue" /\ status'[r] = "queued"
             \/ pc[p] = "bury" /\ status'[r] = "failed"
      BY <1>3, <2>5 DEF ReleaseWrite, Write, table, TypeOK, TableOK
    <3>2. status[r] = "running"
      BY <1>1, <3>1 DEF CustodyInv, GivenBackIsRunning, GivingBack
    <3>3. CASE pc[p] = "requeue" /\ status'[r] = "queued"
      <4>1. attempt[r] < MaxAttempts
        BY <3>1, <3>3 DEF AttemptsInv, RequeuedHasAttempts
      <4> QED
        BY <3>1, <3>2, <3>3, <4>1 DEF Contract!GiveBack, phaseOf
    <3>4. CASE pc[p] = "bury" /\ status'[r] = "failed"
      <4>1. attempt[r] = MaxAttempts
        BY <1>1, <3>1, <3>4 DEF ExhaustionInv, BuriedIsExhausted, AttemptsInv, AttemptsBounded
      <4> QED
        BY <3>1, <3>2, <3>4, <4>1 DEF Contract!Fail, phaseOf
    <3> QED
      BY <3>1, <3>3, <3>4
  <2> QED
    BY <2>1, <2>2, <2>3, <2>4, <2>5
<1> QED
  BY <1>2, <1>3

\* One worker and its table implement the contract of a run: it waits, is
\* executed at most worker_max_attempts times, is given back only before the
\* last of them, failed only after it, and never leaves the state it ended in;
\* this holds as long as no call raises (MaxFaults = 0).
THEOREM WorkerKeepsContract == ASSUME OneProcess, MaxFaults = 0 PROVE Spec => KeepsContract
<1>1. TypeOK /\ CustodyInv /\ [Next]_vars => CustodyInv'
  BY NextCustody
<1>2. TypeOK /\ AttemptsInv /\ [Next]_vars => AttemptsInv'
  BY NextAttempts
<1>3. TypeOK /\ ExhaustionInv /\ [Next]_vars => ExhaustionInv'
  BY NextExhaustion
<1>4. TypeOK /\ TypeOK' /\ CustodyInv /\ AttemptsInv /\ ExhaustionInv /\ [Next]_vars => Contract!Next
  BY NextContract DEF Contract!Next
<1> QED
  BY <1>1, <1>2, <1>3, <1>4, InitContract, InitCustody, InitAttempts, InitExhaustion, TypeCorrect, PTL
     DEF Spec, KeepsContract, Contract!Spec
=============================================================================
