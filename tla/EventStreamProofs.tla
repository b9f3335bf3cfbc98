-------------------------- MODULE EventStreamProofs --------------------------
(* Theorems of EventStream, for any writers, clients and number of drops. *)
EXTENDS EventStream, FiniteSetTheorems, SequenceTheorems, TLAPS

USE NamesDiffer, RemoteKnown, DropsBounded

-----------------------------------------------------------------------------
(* The log *)

\* A writer whose append is under way stands at an event.
AppendsAreOfEvents == \A w \in Writers : append[w] # "ready" => stage[w] \in TaskEvents \cup {"tool"}

\* The rows have the numbers from one on, and what a writer read is one of them.
Log == /\ IsFiniteSet(log) /\ log \subseteq Row
       /\ LogIsNumbered
       /\ append \in [Writers -> {"ready", "insert", "publish"}] /\ base \in [Writers -> Nat]
       /\ stage \in [Writers -> Stages] /\ AppendsAreOfEvents

\* The number a writer reads is the number of rows.
LEMMA MaxIsCount == Log => MaxSequence = Cardinality(log) /\ Cardinality(log) \in Nat
<1> SUFFICES ASSUME Log PROVE MaxSequence = Cardinality(log) /\ Cardinality(log) \in Nat
  OBVIOUS
<1> DEFINE n == Cardinality(log)
           S == Sequences \cup {0}
<1>1. n \in Nat /\ Sequences = 1..n
  BY FS_CardinalityType DEF Log, LogIsNumbered
<1> HIDE DEF n
<1>2. n \in S /\ \A m \in S : m \in Nat /\ n >= m
  BY <1>1
<1>3. \A x \in S : (\A y \in S : x >= y) => x = n
  BY <1>1, <1>2
<1>4. Max(S) = n
  BY <1>2, <1>3 DEF Max
<1>5. MaxSequence = Max(S)
  BY DEF MaxSequence, Sequences
<1> QED BY <1>1, <1>4, <1>5 DEF n

\* A row that is added has the next number.
LEMMA AddedRow ==
  ASSUME Log, NEW w \in Writers, append[w] = "insert", base[w] + 1 \notin Sequences,
         log' = log \cup {[sequence |-> base[w] + 1, event |-> stage[w], by |-> w]}
  PROVE  /\ IsFiniteSet(log') /\ log' \subseteq Row
         /\ base[w] = Cardinality(log)
         /\ Cardinality(log') = Cardinality(log) + 1
         /\ Sequences' = 1..Cardinality(log')
<1> DEFINE n == Cardinality(log)
           row == [sequence |-> base[w] + 1, event |-> stage[w], by |-> w]
<1>1. n \in Nat /\ Sequences = 1..n /\ base[w] <= n /\ base[w] \in Nat
  BY FS_CardinalityType DEF Log, LogIsNumbered
<1>2. base[w] = n
  BY <1>1
<1>3. row \notin log
  BY DEF Sequences
<1>4. IsFiniteSet(log') /\ Cardinality(log') = n + 1
  BY <1>3, FS_AddElement DEF Log
<1>5. row \in Row
  BY <1>1 DEF Log, AppendsAreOfEvents, Row
<1>6. row.sequence = n + 1 /\ log' = log \cup {row}
  BY <1>2
<1>7. log' \subseteq Row
  BY <1>5, <1>6 DEF Log
<1> HIDE DEF row
<1>8. Sequences' = Sequences \cup {n + 1}
  <2>1. \A x : x \in Sequences' <=> \E q \in log' : x = q.sequence
    BY DEF Sequences
  <2>2. \A x : x \in Sequences <=> \E q \in log : x = q.sequence
    BY DEF Sequences
  <2> HIDE DEF n
  <2> QED BY <1>6, <2>1, <2>2
<1>9. Sequences' = 1..(n + 1)
  <2> HIDE DEF n
  <2> QED BY <1>1, <1>8
<1> QED BY <1>2, <1>4, <1>7, <1>9

\* What a writer's program goes to after an event.
LEMMA AfterType ==
  \A s \in TaskEvents \cup {"tool"} : AfterEvent[s] \in Stages /\ AfterError[s] \in Stages
  BY DEF AfterEvent, AfterError, Stages, TaskEvents

\* Every step keeps the log numbered.
LEMMA LogStays == Log /\ [Next]_vars => Log'
<1> SUFFICES ASSUME Log, [Next]_vars PROVE Log'
  OBVIOUS
<1>1. ASSUME NEW w \in Writers, ReadMax(w) PROVE Log'
  <2>1. base' = [base EXCEPT ![w] = Cardinality(log)] /\ Cardinality(log) \in Nat
    BY <1>1, MaxIsCount DEF ReadMax
  <2> QED BY <1>1, <2>1 DEF ReadMax, Log, LogIsNumbered, Sequences, AppendsAreOfEvents, run
<1>2. ASSUME NEW w \in Writers, Insert(w) PROVE Log'
  <2>1. CASE base[w] + 1 \in Sequences
    <3>1. stage[w] \in TaskEvents \cup {"tool"}
      BY <1>2 DEF Insert, Log, AppendsAreOfEvents
    <3>2. /\ log' = log /\ append' = [append EXCEPT ![w] = "ready"]
          /\ stage' = [stage EXCEPT ![w] = AfterError[stage[w]]] /\ base' = [base EXCEPT ![w] = 0]
      BY <1>2, <2>1 DEF Insert, Goto
    <3>3. LogIsNumbered'
      BY <3>2 DEF Log, LogIsNumbered, Sequences
    <3>4. AppendsAreOfEvents'
      BY <3>2 DEF Log, AppendsAreOfEvents
    <3> QED BY <3>1, <3>2, <3>3, <3>4, AfterType DEF Log
  <2>2. CASE base[w] + 1 \notin Sequences
    <3>1. /\ log' = log \cup {[sequence |-> base[w] + 1, event |-> stage[w], by |-> w]}
          /\ append' = [append EXCEPT ![w] = "publish"] /\ base' = [base EXCEPT ![w] = 0] /\ stage' = stage
          /\ append[w] = "insert"
      BY <1>2, <2>2 DEF Insert
    <3>2. /\ IsFiniteSet(log') /\ log' \subseteq Row
          /\ Cardinality(log') = Cardinality(log) + 1 /\ Sequences' = 1..Cardinality(log')
      BY <2>2, <3>1, AddedRow
    <3>3. LogIsNumbered'
      <4>1. ASSUME NEW v \in Writers, append'[v] = "insert" PROVE base'[v] <= Cardinality(log')
        <5>1. v # w /\ append[v] = "insert" /\ base'[v] = base[v]
          BY <3>1, <4>1 DEF Log
        <5>2. base[v] <= Cardinality(log) /\ base[v] \in Nat /\ Cardinality(log) \in Nat
          BY <5>1, MaxIsCount DEF Log, LogIsNumbered
        <5> QED BY <3>2, <5>1, <5>2
      <4> QED BY <3>2, <4>1 DEF LogIsNumbered
    <3>4. AppendsAreOfEvents'
      BY <3>1 DEF Log, AppendsAreOfEvents
    <3> QED BY <3>1, <3>2, <3>3, <3>4 DEF Log
  <2> QED BY <2>1, <2>2
<1>3. ASSUME NEW w \in Writers, Publish(w) PROVE Log'
  <2>1. stage[w] \in TaskEvents \cup {"tool"}
    BY <1>3 DEF Publish, Log, AppendsAreOfEvents
  <2>2. /\ log' = log /\ base' = base /\ append' = [append EXCEPT ![w] = "ready"]
        /\ stage' = [stage EXCEPT ![w] = AfterEvent[stage[w]]]
    BY <1>3 DEF Publish, Goto
  <2>3. LogIsNumbered' /\ AppendsAreOfEvents'
    BY <2>2 DEF Log, LogIsNumbered, Sequences, AppendsAreOfEvents
  <2> QED BY <2>1, <2>2, <2>3, AfterType DEF Log
<1>4. ASSUME Ask \/ Finish PROVE Log'
  <2>1. append[Task] = "ready" /\ Task \in Writers
    BY <1>4 DEF Ask, Finish, Log, AppendsAreOfEvents, TaskEvents, Writers
  <2>2. UNCHANGED <<log, append, base>> /\ \E s \in Stages : stage' = [stage EXCEPT ![Task] = s]
    BY <1>4 DEF Ask, Finish, Goto, writing, Stages, TaskEvents
  <2> QED BY <2>1, <2>2 DEF Log, LogIsNumbered, Sequences, AppendsAreOfEvents
<1>5. ASSUME UNCHANGED <<log, stage, append, base>> PROVE Log'
  BY <1>5 DEF Log, LogIsNumbered, Sequences, AppendsAreOfEvents
<1>6. ASSUME NEW c \in Clients, Stream(c) \/ Receive(c) \/ Drop(c) PROVE UNCHANGED <<log, stage, append, base>>
  BY <1>6 DEF Stream, Connect, Fetch, Send, Check, Wake, Close, Receive, Drop, run, writing
<1>7. ASSUME UNCHANGED vars PROVE UNCHANGED <<log, stage, append, base>>
  BY <1>7 DEF vars, run, writing
<1> QED BY <1>1, <1>2, <1>3, <1>4, <1>5, <1>6, <1>7 DEF Next, Write

\* It holds at the start.
LEMMA LogStarts == Init => Log
<1> SUFFICES ASSUME Init PROVE Log
  OBVIOUS
<1> DEFINE row == [sequence |-> 1, event |-> "run.created", by |-> Task]
<1>1. log = {row} /\ row \in Row
  BY DEF Init, Row, Writers
<1>2. IsFiniteSet(log) /\ Cardinality(log) = 1
  <2> HIDE DEF row
  <2> QED BY <1>1, FS_Singleton
<1>3. Sequences = {1}
  BY <1>1 DEF Sequences
<1>4. LogIsNumbered
  BY <1>2, <1>3 DEF LogIsNumbered, Init
<1> QED BY <1>1, <1>2, <1>4 DEF Init, Log, AppendsAreOfEvents, Stages, TaskEvents

\* Writers that overlap never leave two events one number, nor a hole.
THEOREM LogStaysNumbered == Spec => []LogIsNumbered
<1>1. Log => LogIsNumbered
  BY DEF Log
<1> QED BY <1>1, LogStarts, LogStays, PTL DEF Spec

\* How a step changes the log: a writer's row, with the next number.
LEMMA LogChanges ==
  ASSUME [Next]_vars, log' # log
  PROVE  \E w \in Writers :
           /\ append[w] = "insert" /\ base[w] + 1 \notin Sequences
           /\ log' = log \cup {[sequence |-> base[w] + 1, event |-> stage[w], by |-> w]}
           /\ append' = [append EXCEPT ![w] = "publish"] /\ stage' = stage /\ status' = status
<1>1. ASSUME NEW c \in Clients, Stream(c) \/ Receive(c) \/ Drop(c) PROVE log' = log
  BY <1>1 DEF Stream, Connect, Fetch, Send, Check, Wake, Close, Receive, Drop
<1>2. ASSUME Ask \/ Finish \/ UNCHANGED vars PROVE log' = log
  BY <1>2 DEF Ask, Finish, vars
<1>3. ASSUME NEW w \in Writers, ReadMax(w) \/ Publish(w) PROVE log' = log
  BY <1>3 DEF ReadMax, Publish
<1>4. \E w \in Writers : Insert(w)
  BY <1>1, <1>2, <1>3 DEF Next, Write
<1> QED BY <1>4 DEF Insert

\* No event is changed, removed or put between others: the log grows by one event
\* at a time, after all the events it has, which is what a cursor stands for.
THEOREM LogGrowsAtItsEnd ==
  Spec => [][/\ log \subseteq log'
             /\ \A row \in log' \ log : row.sequence = Cardinality(log) + 1
                                        /\ \A old \in log : old.sequence < row.sequence]_log
<1>1. Log /\ [Next]_vars =>
        [/\ log \subseteq log'
         /\ \A row \in log' \ log : row.sequence = Cardinality(log) + 1
                                    /\ \A old \in log : old.sequence < row.sequence]_log
  <2> SUFFICES ASSUME Log, [Next]_vars, log' # log
               PROVE  /\ log \subseteq log'
                      /\ \A row \in log' \ log : row.sequence = Cardinality(log) + 1
                                                 /\ \A old \in log : old.sequence < row.sequence
    OBVIOUS
  <2>1. PICK w \in Writers :
          /\ append[w] = "insert" /\ base[w] + 1 \notin Sequences
          /\ log' = log \cup {[sequence |-> base[w] + 1, event |-> stage[w], by |-> w]}
    BY LogChanges
  <2>2. base[w] = Cardinality(log)
    BY <2>1, AddedRow
  <2>3. Sequences = 1..Cardinality(log) /\ Cardinality(log) \in Nat
    BY MaxIsCount DEF Log, LogIsNumbered
  <2>4. \A old \in log : old.sequence \in 1..Cardinality(log)
    BY <2>3 DEF Sequences
  <2> QED BY <2>1, <2>2, <2>3, <2>4
<1> QED BY <1>1, LogStarts, LogStays, PTL DEF Spec

-----------------------------------------------------------------------------
(* The outcome of the run *)

Outcomes == {"run.completed", "run.failed"}

\* What the timeline tells of the outcome is what the runs table has, and it is the
\* last the task tells: a run is never announced as completed and as failed.
TimelineIsTrue ==
    /\ \A row \in log : /\ row.event = "run.completed" => status = "completed"
                        /\ row.event = "run.failed" => status = "failed"
    /\ \A row, other \in log :
         row.event \in Outcomes /\ other.by = Task => other.sequence <= row.sequence

\* Only the task tells the outcome: after it wrote the status, and it tells nothing after.
OutcomeOK ==
    /\ \A c \in Calls : stage[c] \in {"tool", "over"}
    /\ stage[Task] = "run.completed" => status = "completed"
    /\ stage[Task] = "run.failed" => status = "failed"
    /\ \A row \in log : row.event \in Outcomes =>
         stage[Task] = "over" \/ (stage[Task] = row.event /\ append[Task] = "publish")

\* A step that leaves the log alone keeps both.
LEMMA OutcomeStays ==
  ASSUME Log, TimelineIsTrue, OutcomeOK, [Next]_vars, log' = log
  PROVE  TimelineIsTrue' /\ OutcomeOK'
<1>0. Task \in Writers /\ Calls \subseteq Writers /\ Task \notin Calls
  BY DEF Writers
<1>1. CASE UNCHANGED <<status, stage, append>>
  BY <1>1 DEF TimelineIsTrue, OutcomeOK
<1>2. ASSUME NEW c \in Clients, Stream(c) \/ Receive(c) \/ Drop(c) PROVE UNCHANGED <<status, stage, append>>
  BY <1>2 DEF Stream, Connect, Fetch, Send, Check, Wake, Close, Receive, Drop, run, writing
<1>3. ASSUME UNCHANGED vars PROVE UNCHANGED <<status, stage, append>>
  BY <1>3 DEF vars, run, writing
<1>4. ASSUME NEW w \in Writers, Write(w) PROVE TimelineIsTrue' /\ OutcomeOK'
  <2>0. Insert(w) => base[w] + 1 \in Sequences
    <3> SUFFICES ASSUME Insert(w), base[w] + 1 \notin Sequences PROVE FALSE
      OBVIOUS
    <3> DEFINE row == [sequence |-> base[w] + 1, event |-> stage[w], by |-> w]
    <3>1. log' = log \cup {row} /\ row.sequence = base[w] + 1
      BY DEF Insert
    <3> HIDE DEF row
    <3>2. row \in log
      BY <3>1
    <3> QED BY <3>1, <3>2 DEF Sequences
  <2>1. /\ status' = status
        /\ append[w] = "ready" => append'[w] = "insert" /\ stage'[w] = stage[w] /\ stage[w] # "over"
        /\ append[w] = "insert" => stage'[w] = AfterError[stage[w]]
        /\ append[w] = "publish" => stage'[w] = AfterEvent[stage[w]]
        /\ \A v \in Writers : v # w => stage'[v] = stage[v] /\ append'[v] = append[v]
    <3>1. CASE ReadMax(w)
      BY <3>1 DEF ReadMax, Log, run, TaskEvents
    <3>2. CASE Insert(w)
      BY <2>0, <3>2 DEF Insert, Goto, Log
    <3>3. CASE Publish(w)
      BY <3>3 DEF Publish, Goto, Log
    <3> QED BY <1>4, <3>1, <3>2, <3>3 DEF Write
  <2>2. append[w] \in {"ready", "insert", "publish"}
    BY DEF Log
  <2>3. TimelineIsTrue'
    BY <2>1 DEF TimelineIsTrue
  <2>4. append[w] # "ready" => stage[w] \in TaskEvents \cup {"tool"}
    BY DEF Log, AppendsAreOfEvents
  <2>5. CASE w \in Calls
    <3>1. stage[w] = "tool" \/ (stage[w] = "over" /\ append[w] = "ready")
      BY <2>2, <2>4, <2>5 DEF OutcomeOK, TaskEvents
    <3>2. AfterEvent["tool"] = "over" /\ AfterError["tool"] = "over"
      BY DEF AfterEvent, AfterError, TaskEvents
    <3>3. stage'[w] \in {"tool", "over"}
      BY <2>1, <2>2, <3>1, <3>2
    <3> QED BY <1>0, <2>1, <2>3, <2>5, <3>3 DEF OutcomeOK
  <2>6. CASE w = Task
    <3>0. \A e \in TaskEvents \cup {"tool"} : /\ AfterError[e] \in {"fail", "over"}
                                              /\ AfterEvent[e] \in Stages \ Outcomes
      BY DEF AfterEvent, AfterError, TaskEvents, Stages, Outcomes
    <3>1. stage'[Task] \in Outcomes => stage'[Task] = stage[Task]
      BY <2>1, <2>2, <2>4, <2>6, <3>0 DEF Outcomes
    <3>2. ASSUME NEW row \in log, row.event \in Outcomes PROVE stage'[Task] = "over"
      <4>1. stage[Task] = "over" \/ (stage[Task] \in Outcomes /\ append[Task] = "publish")
        BY <3>2 DEF OutcomeOK
      <4> QED BY <2>1, <2>2, <2>4, <2>6, <4>1 DEF AfterEvent, TaskEvents, Outcomes
    <3> QED BY <1>0, <2>1, <2>3, <2>6, <3>1, <3>2 DEF OutcomeOK, Outcomes
  <2> QED BY <2>5, <2>6 DEF Writers
<1>5. ASSUME Ask \/ Finish PROVE TimelineIsTrue' /\ OutcomeOK'
  <2>1. /\ stage[Task] \in {"ask", "complete", "fail"}
        /\ \A v \in Writers : v # Task => stage'[v] = stage[v]
        /\ \/ stage'[Task] = "run.completed" /\ status' = "completed"
           \/ stage'[Task] = "run.failed" /\ status' = "failed"
           \/ stage'[Task] \in {"task.clarified", "fail"}
    BY <1>0, <1>5 DEF Ask, Finish, Goto, Log
  <2>2. \A row \in log : row.event \notin Outcomes
    BY <2>1 DEF OutcomeOK, Outcomes
  <2> QED BY <1>0, <2>1, <2>2 DEF TimelineIsTrue, OutcomeOK, Outcomes
<1> QED BY <1>1, <1>2, <1>3, <1>4, <1>5 DEF Next

\* A new row comes last; if it tells the outcome, the status says so already.
LEMMA OutcomeIsTold ==
  ASSUME Log, TimelineIsTrue, OutcomeOK, [Next]_vars, log' # log
  PROVE  TimelineIsTrue' /\ OutcomeOK'
<1>1. PICK w \in Writers :
        /\ append[w] = "insert" /\ base[w] + 1 \notin Sequences
        /\ log' = log \cup {[sequence |-> base[w] + 1, event |-> stage[w], by |-> w]}
        /\ append' = [append EXCEPT ![w] = "publish"] /\ stage' = stage /\ status' = status
  BY LogChanges
<1> DEFINE new == [sequence |-> base[w] + 1, event |-> stage[w], by |-> w]
<1>2. \A old \in log : old.sequence < new.sequence /\ old.sequence \in Nat
  <2>1. base[w] = Cardinality(log) /\ Cardinality(log) \in Nat /\ Sequences = 1..Cardinality(log)
    BY <1>1, AddedRow, MaxIsCount DEF Log, LogIsNumbered
  <2>2. \A old \in log : old.sequence \in 1..Cardinality(log)
    BY <2>1 DEF Sequences
  <2> QED BY <2>1, <2>2
<1>3. log' = log \cup {new} /\ new.event = stage[w] /\ new.by = w /\ new.sequence \in Nat
  BY <1>1 DEF Log
<1> HIDE DEF new
<1>4. stage[w] \in Outcomes => w = Task
  BY DEF OutcomeOK, Outcomes, Writers
<1>5. w = Task => \A old \in log : old.event \notin Outcomes
  <2> SUFFICES ASSUME w = Task, NEW old \in log, old.event \in Outcomes PROVE FALSE
    OBVIOUS
  <2>1. stage[Task] = "over"
    BY <1>1 DEF OutcomeOK
  <2> QED BY <1>1, <2>1 DEF Log, AppendsAreOfEvents, TaskEvents
<1>6. append'[Task] = "publish" \/ w # Task
  BY <1>1 DEF Log
<1>7. TimelineIsTrue'
  <2>1. \A row \in log' : /\ row.event = "run.completed" => status' = "completed"
                          /\ row.event = "run.failed" => status' = "failed"
    BY <1>1, <1>3, <1>4 DEF TimelineIsTrue, OutcomeOK, Outcomes
  <2>2. ASSUME NEW row \in log', NEW other \in log', row.event \in Outcomes, other.by = Task
        PROVE  other.sequence <= row.sequence
    <3>1. CASE row = new
      BY <1>2, <1>3, <3>1
    <3>2. CASE row # new
      <4>1. other \in log
        BY <1>3, <1>5, <2>2, <3>2
      <4> QED BY <1>3, <2>2, <3>2, <4>1 DEF TimelineIsTrue
    <3> QED BY <3>1, <3>2
  <2> QED BY <2>1, <2>2 DEF TimelineIsTrue
<1>8. OutcomeOK'
  <2>1. ASSUME NEW row \in log', row.event \in Outcomes
        PROVE  stage'[Task] = "over" \/ (stage'[Task] = row.event /\ append'[Task] = "publish")
    BY <1>1, <1>3, <1>4, <1>6, <2>1 DEF OutcomeOK, Log
  <2> QED BY <1>1, <2>1 DEF OutcomeOK
<1> QED BY <1>7, <1>8

\* The outcome a user reads in the timeline is the one of the run, whatever other
\* writers append meanwhile and whichever append raises.
THEOREM OutcomesAreToldTruly == Spec => []TimelineIsTrue
<1>1. Init => TimelineIsTrue /\ OutcomeOK
  BY DEF Init, TimelineIsTrue, OutcomeOK, Outcomes, Writers
<1>2. Log /\ TimelineIsTrue /\ OutcomeOK /\ [Next]_vars => TimelineIsTrue' /\ OutcomeOK'
  BY OutcomeStays, OutcomeIsTold
<1> QED BY <1>1, <1>2, LogStarts, LogStays, PTL DEF Spec

-----------------------------------------------------------------------------
(* Type correctness *)

\* The types of the clients, and of the generators that serve them.
ClientsOK ==
    /\ conn \in [Clients -> {"off", "fetch", "send", "check", "wait", "ended"}]
    /\ cursor \in [Clients -> Nat]
    /\ batch \in [Clients -> SUBSET Nat]
    /\ woken \in [Clients -> BOOLEAN]
    /\ wire \in [Clients -> Seq(Nat)]
    /\ seen \in [Clients -> Seq(Nat)]
    /\ drops \in [Clients -> 0..MaxDrops]

\* What a generator has fetched is the log after its cursor, up to some number.
Fetched(c) ==
    /\ conn[c] = "send" => \E m \in Nat : m <= Cardinality(log) /\ batch[c] = (cursor[c] + 1)..m
    /\ conn[c] # "send" => batch[c] = {}

BatchesAreOfLog == \A c \in Clients : Fetched(c)

\* The first frame of a batch has the number after the cursor.
LEMMA NextFrame ==
  ASSUME ClientsOK, BatchesAreOfLog, Log, NEW c \in Clients, conn[c] = "send", batch[c] # {}
  PROVE  /\ Min(batch[c]) = cursor[c] + 1
         /\ cursor[c] + 1 <= Cardinality(log)
         /\ \E m \in Nat : m <= Cardinality(log) /\ batch[c] \ {cursor[c] + 1} = (cursor[c] + 2)..m
<1>1. PICK m \in Nat : m <= Cardinality(log) /\ batch[c] = (cursor[c] + 1)..m
  BY DEF BatchesAreOfLog, Fetched
<1>2. cursor[c] \in Nat /\ Cardinality(log) \in Nat
  BY MaxIsCount DEF ClientsOK
<1>3. cursor[c] + 1 <= m
  BY <1>1, <1>2
<1> DEFINE S == batch[c]
           n == cursor[c] + 1
<1>4. n \in S /\ \A y \in S : n =< y /\ y \in Nat
  BY <1>1, <1>2, <1>3
<1>5. \A x \in S : (\A y \in S : x =< y) => x = n
  BY <1>2, <1>4
<1>6. Min(S) = n
  <2> HIDE DEF S, n
  <2> QED BY <1>4, <1>5 DEF Min
<1>7. S \ {n} = (cursor[c] + 2)..m
  BY <1>1, <1>2
<1> QED BY <1>1, <1>2, <1>3, <1>6, <1>7

\* The log only grows.
LEMMA LogGrows == Log /\ [Next]_vars => log \subseteq log' /\ Cardinality(log) <= Cardinality(log')
<1> SUFFICES ASSUME Log, [Next]_vars PROVE log \subseteq log' /\ Cardinality(log) <= Cardinality(log')
  OBVIOUS
<1>1. log \subseteq log'
  BY DEF Next, Write, ReadMax, Insert, Publish, Ask, Finish, Stream, Connect, Fetch, Send, Check, Wake, Close,
     Receive, Drop, vars
<1>2. IsFiniteSet(log')
  BY LogStays DEF Log
<1> QED BY <1>1, <1>2, FS_Subset

\* Writers leave the clients alone, but for waking them.
LEMMA WritersLeaveClients ==
  ASSUME ClientsOK, (\E w \in Writers : Write(w)) \/ Ask \/ Finish \/ UNCHANGED vars
  PROVE  ClientsOK' /\ UNCHANGED <<serving, client>>
<1>1. UNCHANGED <<serving, client>> /\ woken' \in [Clients -> BOOLEAN]
  BY DEF Write, ReadMax, Insert, Publish, Ask, Finish, ClientsOK, vars
<1> QED BY <1>1 DEF ClientsOK, serving, client

\* A step for one client keeps the types.
LEMMA ClientType ==
  ASSUME ClientsOK, BatchesAreOfLog, Log, NEW c \in Clients, Stream(c) \/ Receive(c) \/ Drop(c)
  PROVE  ClientsOK'
<1>1. CASE Connect(c)
  <2>1. LastSeen(c) \in Nat
    <3>1. seen[c] \in Seq(Nat)
      BY DEF ClientsOK
    <3> QED BY <3>1 DEF LastSeen
  <2> QED BY <1>1, <2>1 DEF Connect, Serve, ResumeFrom, ClientsOK, client
<1>2. CASE Fetch(c)
  <2>1. {n \in Sequences : n > cursor[c]} \in SUBSET Nat
    BY MaxIsCount DEF Log, LogIsNumbered
  <2> QED BY <1>2, <2>1 DEF Fetch, Serve, ClientsOK, client
<1>3. CASE Send(c)
  <2>1. CASE batch[c] = {}
    BY <1>3, <2>1 DEF Send, Serve, ClientsOK
  <2>2. CASE batch[c] # {}
    <3>1. Min(batch[c]) = cursor[c] + 1 /\ cursor[c] \in Nat
      BY <1>3, <2>2, NextFrame DEF Send, ClientsOK
    <3>2. /\ cursor' = [cursor EXCEPT ![c] = cursor[c] + 1]
          /\ batch' = [batch EXCEPT ![c] = @ \ {cursor[c] + 1}]
          /\ wire' = [wire EXCEPT ![c] = Append(@, cursor[c] + 1)]
      BY <1>3, <2>2, <3>1 DEF Send
    <3>3. Append(wire[c], cursor[c] + 1) \in Seq(Nat)
      BY <3>1 DEF ClientsOK
    <3> QED BY <1>3, <2>2, <3>1, <3>2, <3>3 DEF Send, ClientsOK
  <2> QED BY <2>1, <2>2
<1>4. CASE Check(c) \/ Wake(c)
  BY <1>4 DEF Check, Wake, Serve, ClientsOK, client
<1>5. CASE Close(c)
  BY <1>5 DEF Close, Unserve, Serve, ClientsOK, client
<1>6. CASE Drop(c)
  BY <1>6 DEF Drop, Unserve, Serve, ClientsOK
<1>7. CASE Receive(c)
  <2>1. wire[c] \in Seq(Nat) /\ seen[c] \in Seq(Nat) /\ wire[c] # <<>>
    BY <1>7 DEF Receive, ClientsOK
  <2>2. Tail(wire[c]) \in Seq(Nat) /\ Append(seen[c], Head(wire[c])) \in Seq(Nat)
    BY <2>1
  <2> QED BY <1>7, <2>2 DEF Receive, ClientsOK, serving
<1> QED BY <1>1, <1>2, <1>3, <1>4, <1>5, <1>6, <1>7 DEF Stream

\* What was fetched stays a part of the log.
LEMMA BatchesStayOfLog == ClientsOK /\ BatchesAreOfLog /\ Log /\ [Next]_vars => BatchesAreOfLog'
<1> SUFFICES ASSUME ClientsOK, BatchesAreOfLog, Log, [Next]_vars, NEW d \in Clients PROVE Fetched(d)'
  BY DEF BatchesAreOfLog
<1>0. Cardinality(log) \in Nat /\ Cardinality(log') \in Nat /\ Cardinality(log) <= Cardinality(log')
      /\ \A c \in Clients : cursor[c] \in Nat
  BY LogGrows, LogStays, MaxIsCount, FS_CardinalityType DEF Log, ClientsOK
<1>1. ASSUME conn'[d] = conn[d], cursor'[d] = cursor[d], batch'[d] = batch[d] PROVE Fetched(d)'
  <2>1. \A m \in Nat : m <= Cardinality(log) => m <= Cardinality(log')
    BY <1>0
  <2> QED BY <1>1, <2>1 DEF BatchesAreOfLog, Fetched
<1>2. ASSUME (\E w \in Writers : Write(w)) \/ Ask \/ Finish \/ UNCHANGED vars PROVE Fetched(d)'
  BY <1>1, <1>2, WritersLeaveClients DEF serving
<1>3. ASSUME NEW c \in Clients, Stream(c) \/ Receive(c) \/ Drop(c), c # d PROVE Fetched(d)'
  BY <1>1, <1>3 DEF Stream, Connect, Fetch, Send, Check, Wake, Close, Receive, Drop, Unserve, Serve, serving, ClientsOK
<1>4. CASE Connect(d) \/ Check(d) \/ Wake(d)
  BY <1>4 DEF Connect, Check, Wake, Serve, ClientsOK, BatchesAreOfLog, Fetched
<1>5. CASE Fetch(d)
  <2>1. log' = log /\ batch'[d] = {n \in Sequences : n > cursor[d]} /\ cursor'[d] = cursor[d] /\ conn'[d] = "send"
    BY <1>5 DEF Fetch, Serve, ClientsOK
  <2>2. {n \in Sequences : n > cursor[d]} = (cursor[d] + 1)..Cardinality(log)
    BY <1>0 DEF Log, LogIsNumbered
  <2> QED BY <1>0, <2>1, <2>2 DEF Fetched
<1>6. CASE Send(d)
  <2>1. CASE batch[d] = {}
    BY <1>6, <2>1 DEF Send, Serve, ClientsOK, Fetched
  <2>2. CASE batch[d] # {}
    <3>1. /\ Min(batch[d]) = cursor[d] + 1 /\ conn[d] = "send"
          /\ \E m \in Nat : m <= Cardinality(log) /\ batch[d] \ {cursor[d] + 1} = (cursor[d] + 2)..m
      BY <1>6, <2>2, NextFrame DEF Send
    <3>2. /\ cursor'[d] = cursor[d] + 1 /\ conn' = conn /\ log' = log
          /\ batch'[d] = batch[d] \ {cursor[d] + 1}
      BY <1>6, <2>2, <3>1 DEF Send, ClientsOK
    <3>3. cursor'[d] + 1 = cursor[d] + 2
      BY <1>0, <3>2
    <3> QED BY <3>1, <3>2, <3>3 DEF Fetched
  <2> QED BY <2>1, <2>2
<1>7. CASE Close(d) \/ Drop(d)
  BY <1>7 DEF Close, Drop, Unserve, Serve, ClientsOK, Fetched
<1>8. CASE Receive(d)
  BY <1>1, <1>8 DEF Receive, serving
<1> QED BY <1>2, <1>3, <1>4, <1>5, <1>6, <1>7, <1>8 DEF Next, Stream

\* The types and what they rest on.
Typed == Log /\ ClientsOK /\ BatchesAreOfLog /\ status \in {"queued"} \cup Terminal

\* They hold at the start, and every step keeps them.
LEMMA TypedHolds == Spec => []Typed
<1>1. Init => Typed
  BY LogStarts DEF Init, Typed, ClientsOK, BatchesAreOfLog, Fetched
<1>2. Typed /\ [Next]_vars => Typed'
  <2> SUFFICES ASSUME Typed, [Next]_vars PROVE Typed'
    OBVIOUS
  <2>1. Log' /\ BatchesAreOfLog'
    BY LogStays, BatchesStayOfLog DEF Typed
  <2>2. ClientsOK'
    BY WritersLeaveClients, ClientType DEF Typed, Next
  <2>3. status' \in {"queued"} \cup Terminal
    BY DEF Typed, Terminal, Next, Write, ReadMax, Insert, Publish, Ask, Finish, Stream, Connect, Fetch, Send, Check,
       Wake, Close, Receive, Drop, vars, run
  <2> QED BY <2>1, <2>2, <2>3 DEF Typed
<1> QED BY <1>1, <1>2, PTL DEF Spec

\* Every reachable state has its types.
THEOREM TypeCorrect == Spec => []TypeOK
<1>1. Typed => TypeOK
  BY DEF Typed, Log, ClientsOK, TypeOK
<1> QED BY <1>1, TypedHolds, PTL

-----------------------------------------------------------------------------
(* What a client has received *)

\* What was received and what is on the wire are one beginning of n events.
InOrder(S, W, n) ==
    /\ \A i \in 1..Len(S) : S[i] = i
    /\ \A i \in 1..Len(W) : W[i] = Len(S) + i
    /\ Len(S) + Len(W) <= n

\* A place in a sequence that is one longer.
LEMMA LastOrBefore == \A k \in Nat : \A i \in 1..(k + 1) : i # k + 1 => i \in 1..k
  OBVIOUS

\* A frame that is sent.
LEMMA OrderSends ==
  ASSUME NEW S \in Seq(Nat), NEW W \in Seq(Nat), NEW n \in Nat, InOrder(S, W, n), Len(S) + Len(W) + 1 <= n
  PROVE  LET V == Append(W, Len(S) + Len(W) + 1) IN
         InOrder(S, V, n) /\ Len(V) = Len(W) + 1
<1> DEFINE V == Append(W, Len(S) + Len(W) + 1)
<1>0. Len(W) \in Nat /\ Len(S) \in Nat
  OBVIOUS
<1>1. /\ Len(V) = Len(W) + 1 /\ V[Len(W) + 1] = Len(S) + Len(W) + 1
      /\ \A i \in 1..Len(W) : V[i] = W[i]
  BY <1>0, AppendProperties
<1> HIDE DEF V
<1>2. ASSUME NEW i \in 1..(Len(W) + 1) PROVE V[i] = Len(S) + i
  <2>1. CASE i = Len(W) + 1
    BY <1>0, <1>1, <2>1
  <2>2. CASE i # Len(W) + 1
    <3>1. i \in 1..Len(W)
      BY <1>0, <2>2, LastOrBefore
    <3> QED BY <1>1, <3>1 DEF InOrder
  <2> QED BY <2>1, <2>2
<1>3. \A i \in 1..Len(V) : V[i] = Len(S) + i
  BY <1>1, <1>2
<1>4. \A i \in 1..Len(S) : S[i] = i
  BY DEF InOrder
<1>5. Len(S) + Len(V) <= n
  BY <1>0, <1>1
<1>6. InOrder(S, V, n)
  BY <1>3, <1>4, <1>5 DEF InOrder
<1> QED BY <1>1, <1>6 DEF V

\* A frame that is received.
LEMMA OrderReceives ==
  ASSUME NEW S \in Seq(Nat), NEW W \in Seq(Nat), NEW n \in Nat, InOrder(S, W, n), W # <<>>
  PROVE  LET R == Append(S, Head(W)) IN
         InOrder(R, Tail(W), n) /\ Len(R) + Len(Tail(W)) = Len(S) + Len(W)
<1> DEFINE R == Append(S, Head(W))
           V == Tail(W)
<1>0. Len(W) \in Nat \ {0} /\ Len(S) \in Nat /\ Head(W) = W[1] /\ Head(W) \in Nat
  BY HeadTailProperties
<1>1. /\ Len(R) = Len(S) + 1 /\ R[Len(S) + 1] = Head(W)
      /\ \A i \in 1..Len(S) : R[i] = S[i]
  BY <1>0, AppendProperties
<1>2. Len(V) = Len(W) - 1 /\ \A i \in 1..(Len(W) - 1) : V[i] = W[i + 1]
  BY HeadTailProperties
<1> HIDE DEF R, V
<1>3. ASSUME NEW i \in 1..(Len(S) + 1) PROVE R[i] = i
  <2>1. CASE i = Len(S) + 1
    <3>1. 1 \in 1..Len(W)
      BY <1>0
    <3> QED BY <1>0, <1>1, <2>1, <3>1 DEF InOrder
  <2>2. CASE i # Len(S) + 1
    <3>1. i \in 1..Len(S)
      BY <1>0, <2>2, LastOrBefore
    <3> QED BY <1>1, <3>1 DEF InOrder
  <2> QED BY <2>1, <2>2
<1>4. ASSUME NEW i \in 1..(Len(W) - 1) PROVE V[i] = Len(S) + 1 + i
  <2>1. V[i] = W[i + 1] /\ i + 1 \in 1..Len(W)
    BY <1>0, <1>2
  <2> QED BY <1>0, <2>1 DEF InOrder
<1>5. Len(S) + Len(W) <= n
  BY DEF InOrder
<1>6. InOrder(R, V, n)
  BY <1>0, <1>1, <1>2, <1>3, <1>4, <1>5 DEF InOrder
<1>7. Len(R) + Len(V) = Len(S) + Len(W)
  BY <1>0, <1>1, <1>2
<1> QED BY <1>6, <1>7 DEF R, V

\* Frames that are lost, and a log that grows.
LEMMA OrderLoses ==
  ASSUME NEW S \in Seq(Nat), NEW W \in Seq(Nat), NEW n \in Nat, NEW m \in Nat, InOrder(S, W, n), n <= m
  PROVE  InOrder(S, <<>>, m) /\ InOrder(S, W, m)
<1>1. Len(S) \in Nat /\ Len(W) \in Nat /\ Len(<<>>) = 0
  OBVIOUS
<1>2. Len(S) + Len(W) <= m
  BY <1>1 DEF InOrder
<1>3. InOrder(S, W, m)
  BY <1>2 DEF InOrder
<1>4. InOrder(S, <<>>, m)
  BY <1>1, <1>2 DEF InOrder
<1> QED BY <1>3, <1>4

\* Of a reader, with the cursor of the generator that serves it.
ReaderInOrder(c) ==
    /\ InOrder(seen[c], wire[c], Cardinality(log))
    /\ conn[c] = "off" => wire[c] = <<>>
    /\ conn[c] # "off" => cursor[c] = Len(seen[c]) + Len(wire[c])

ReadersAreInOrder == /\ \A c \in Readers : ReaderInOrder(c)
                     /\ \A c \in Browsers : seen[c] = <<>>

\* What was received last is how much was received.
LEMMA LastIsLength ==
  ASSUME ClientsOK, NEW c \in Readers, ReaderInOrder(c)
  PROVE  LastSeen(c) = Len(seen[c])
<1>1. seen[c] \in Seq(Nat)
  BY DEF ClientsOK, Clients
<1>2. seen[c] # <<>> => Len(seen[c]) \in 1..Len(seen[c])
  BY <1>1
<1>3. seen[c] = <<>> => Len(seen[c]) = 0
  OBVIOUS
<1> QED BY <1>2, <1>3 DEF LastSeen, ReaderInOrder, InOrder

\* A step of the client's own stream keeps its order.
LEMMA ReaderStaysInOrder ==
  ASSUME ClientsOK, BatchesAreOfLog, Log, NEW c \in Readers, ReaderInOrder(c),
         Stream(c) \/ Receive(c) \/ Drop(c)
  PROVE  ReaderInOrder(c)'
<1> DEFINE W == wire[c]
           S == seen[c]
           n == Cardinality(log)
<1>0. /\ c \in Clients /\ log' = log /\ n \in Nat
      /\ W \in Seq(Nat) /\ S \in Seq(Nat) /\ cursor[c] \in Nat
  BY MaxIsCount DEF Stream, Connect, Fetch, Send, Check, Wake, Close, Receive, Drop, ClientsOK, Clients
<1>1. CASE Connect(c)
  <2>1. /\ conn'[c] = "fetch" /\ conn[c] = "off" /\ cursor'[c] = Len(S) /\ wire' = wire /\ seen' = seen
    BY <1>0, <1>1, LastIsLength DEF Connect, Serve, ResumeFrom, client, ClientsOK
  <2>2. Len(W) = 0 /\ Len(S) \in Nat
    BY <1>0, <2>1 DEF ReaderInOrder
  <2> QED BY <1>0, <2>1, <2>2 DEF ReaderInOrder
<1>2. CASE Fetch(c) \/ Check(c) \/ Wake(c)
  <2>1. conn'[c] # "off" /\ conn[c] # "off" /\ cursor' = cursor /\ wire' = wire /\ seen' = seen
    BY <1>0, <1>2 DEF Fetch, Check, Wake, Serve, client, ClientsOK
  <2> QED BY <1>0, <2>1 DEF ReaderInOrder
<1>3. CASE Send(c)
  <2>1. CASE batch[c] = {}
    <3>1. conn'[c] # "off" /\ conn[c] # "off" /\ cursor' = cursor /\ wire' = wire /\ seen' = seen
      BY <1>0, <1>3, <2>1 DEF Send, Serve, ClientsOK
    <3> QED BY <1>0, <3>1 DEF ReaderInOrder
  <2>2. CASE batch[c] # {}
    <3>1. Min(batch[c]) = cursor[c] + 1 /\ cursor[c] + 1 <= n /\ conn[c] = "send"
      BY <1>0, <1>3, <2>2, NextFrame DEF Send
    <3>2. /\ cursor'[c] = cursor[c] + 1 /\ conn' = conn /\ seen' = seen
          /\ wire'[c] = Append(W, cursor[c] + 1)
      BY <1>0, <1>3, <2>2, <3>1 DEF Send, ClientsOK
    <3>3. cursor[c] = Len(S) + Len(W) /\ InOrder(S, W, n)
      BY <3>1 DEF ReaderInOrder
    <3>4. Len(S) \in Nat /\ Len(W) \in Nat
      BY <1>0
    <3>5. Len(S) + Len(W) + 1 <= n /\ wire'[c] = Append(W, Len(S) + Len(W) + 1)
      BY <3>1, <3>2, <3>3
    <3>6. InOrder(S, wire'[c], n) /\ Len(wire'[c]) = Len(W) + 1
      BY <1>0, <3>3, <3>5, OrderSends
    <3> HIDE DEF S, W
    <3>7. cursor'[c] = Len(S) + Len(wire'[c])
      BY <3>2, <3>3, <3>4, <3>6
    <3> QED BY <1>0, <3>1, <3>2, <3>6, <3>7 DEF ReaderInOrder, S
  <2> QED BY <2>1, <2>2
<1>4. CASE Close(c)
  <2>1. conn'[c] = "off" /\ W = <<>> /\ wire' = wire /\ seen' = seen
    BY <1>0, <1>4 DEF Close, Unserve, Serve, client, ClientsOK
  <2> QED BY <1>0, <2>1 DEF ReaderInOrder
<1>5. CASE Drop(c)
  <2>1. conn'[c] = "off" /\ wire'[c] = <<>> /\ seen' = seen
    BY <1>0, <1>5 DEF Drop, Unserve, Serve, ClientsOK
  <2>2. InOrder(S, <<>>, n)
    BY <1>0, OrderLoses DEF ReaderInOrder
  <2> QED BY <1>0, <2>1, <2>2 DEF ReaderInOrder
<1>6. CASE Receive(c)
  <2>1. /\ W # <<>> /\ wire'[c] = Tail(W) /\ seen'[c] = Append(S, Head(W)) /\ conn' = conn /\ cursor' = cursor
    BY <1>0, <1>6 DEF Receive, Dispatches, serving, ClientsOK
  <2>2. InOrder(seen'[c], wire'[c], n) /\ Len(seen'[c]) + Len(wire'[c]) = Len(S) + Len(W)
    BY <1>0, <2>1, OrderReceives DEF ReaderInOrder
  <2>3. conn[c] # "off"
    BY <2>1 DEF ReaderInOrder
  <2> QED BY <1>0, <2>1, <2>2, <2>3 DEF ReaderInOrder
<1> QED BY <1>1, <1>2, <1>3, <1>4, <1>5, <1>6 DEF Stream

\* The steps of anything else leave a client's order as it is.
LEMMA OrderStays == Typed /\ ReadersAreInOrder /\ [Next]_vars => ReadersAreInOrder'
<1> SUFFICES ASSUME Typed, ReadersAreInOrder, [Next]_vars PROVE ReadersAreInOrder'
  OBVIOUS
<1>0. Cardinality(log) \in Nat /\ Cardinality(log') \in Nat /\ Cardinality(log) <= Cardinality(log')
  BY LogGrows, LogStays, MaxIsCount, FS_CardinalityType DEF Log, Typed
<1>1. ASSUME NEW d \in Readers, conn'[d] = conn[d], cursor'[d] = cursor[d], wire'[d] = wire[d], seen'[d] = seen[d]
      PROVE  ReaderInOrder(d)'
  <2>1. seen[d] \in Seq(Nat) /\ wire[d] \in Seq(Nat)
    BY DEF Typed, ClientsOK, Clients
  <2>2. InOrder(seen[d], wire[d], Cardinality(log'))
    BY <1>0, <2>1, OrderLoses DEF ReadersAreInOrder, ReaderInOrder
  <2> QED BY <1>1, <2>2 DEF ReaderInOrder, ReadersAreInOrder
<1>2. ASSUME (\E w \in Writers : Write(w)) \/ Ask \/ Finish \/ UNCHANGED vars PROVE ReadersAreInOrder'
  <2>1. UNCHANGED <<serving, client>>
    BY <1>2, WritersLeaveClients DEF Typed
  <2>2. UNCHANGED <<conn, cursor, wire, seen>>
    BY <2>1 DEF serving, client
  <2>3. \A d \in Readers : ReaderInOrder(d)'
    BY <1>1, <2>2
  <2> QED BY <2>2, <2>3 DEF ReadersAreInOrder
<1>3. ASSUME NEW c \in Clients, Stream(c) \/ Receive(c) \/ Drop(c) PROVE ReadersAreInOrder'
  <2>1. ASSUME NEW d \in Readers PROVE ReaderInOrder(d)'
    <3>1. CASE d = c
      BY <1>3, <3>1, ReaderStaysInOrder DEF Typed, ReadersAreInOrder
    <3>2. CASE d # c
      BY <1>1, <1>3, <3>2 DEF Stream, Connect, Fetch, Send, Check, Wake, Close, Receive, Drop, Unserve, Serve,
         serving, client, ClientsOK, Typed, Clients
    <3> QED BY <3>1, <3>2
  <2>2. ASSUME NEW d \in Browsers PROVE seen'[d] = <<>>
    BY <1>3 DEF ReadersAreInOrder, Stream, Connect, Fetch, Send, Check, Wake, Close, Receive, Drop, client,
       Dispatches, Typed, ClientsOK, Clients
  <2> QED BY <2>1, <2>2 DEF ReadersAreInOrder
<1> QED BY <1>2, <1>3 DEF Next

\* A client has an unbroken beginning of the log, each event once and in order, over
\* any number of lost connections, ended streams and concurrent writers.
THEOREM ClientsReceiveInOrder == Spec => []ReceivedInOrder
<1>1. Init => ReadersAreInOrder
  <2> SUFFICES ASSUME Init, NEW c \in Clients PROVE ReaderInOrder(c) /\ seen[c] = <<>>
    BY DEF ReadersAreInOrder, Clients
  <2>1. Cardinality(log) \in Nat
    BY LogStarts, MaxIsCount
  <2>2. seen[c] = <<>> /\ wire[c] = <<>> /\ conn[c] = "off"
    BY DEF Init
  <2>3. InOrder(<<>>, <<>>, Cardinality(log))
    BY <2>1 DEF InOrder
  <2> QED BY <2>2, <2>3 DEF ReaderInOrder
<1>2. Typed /\ ReadersAreInOrder => ReceivedInOrder
  <2> SUFFICES ASSUME Typed, ReadersAreInOrder, NEW c \in Clients
               PROVE  (\A i \in DOMAIN seen[c] : seen[c][i] = i) /\ Len(seen[c]) <= Cardinality(log)
    BY DEF ReceivedInOrder
  <2>1. seen[c] \in Seq(Nat) /\ wire[c] \in Seq(Nat) /\ Cardinality(log) \in Nat
    BY MaxIsCount DEF Typed, ClientsOK
  <2>2. DOMAIN seen[c] = 1..Len(seen[c]) /\ Len(seen[c]) \in Nat
    BY <2>1
  <2>3. Len(wire[c]) \in Nat
    BY <2>1
  <2>4. CASE c \in Readers
    <3>1. InOrder(seen[c], wire[c], Cardinality(log))
      BY <2>4 DEF ReadersAreInOrder, ReaderInOrder
    <3>2. Len(seen[c]) + Len(wire[c]) <= Cardinality(log)
      BY <3>1 DEF InOrder
    <3>3. \A i \in 1..Len(seen[c]) : seen[c][i] = i
      BY <3>1 DEF InOrder
    <3>4. Len(seen[c]) <= Cardinality(log)
      <4> DEFINE a == Len(seen[c])
                 b == Len(wire[c])
                 m == Cardinality(log)
      <4>1. a \in Nat /\ b \in Nat /\ m \in Nat /\ a + b <= m
        BY <2>1, <2>2, <2>3, <3>2
      <4> HIDE DEF a, b, m
      <4>2. a <= m
        BY <4>1
      <4> QED BY <4>2 DEF a, m
    <3> QED BY <2>2, <3>3, <3>4
  <2>5. CASE c \in Browsers
    <3>1. seen[c] = <<>>
      BY <2>5 DEF ReadersAreInOrder
    <3>2. Len(seen[c]) = 0
      BY <3>1
    <3> QED BY <2>1, <2>2, <3>2
  <2> QED BY <2>4, <2>5 DEF Clients
<1> QED BY <1>1, <1>2, OrderStays, TypedHolds, PTL DEF Spec

-----------------------------------------------------------------------------
(* No lost wakeup *)

\* The row is still to be published, or its broker is not heard here.
Unannounced(row) == row.by \in Remote \/ append[row.by] = "publish"

\* A generator past its fetch that nothing has woken knows of every announced row.
KnowsTheLog(c) ==
    conn[c] \in {"send", "check", "wait"} /\ ~woken[c] =>
        \A row \in log : row.sequence > cursor[c] /\ row.sequence \notin batch[c] => Unannounced(row)

GeneratorsKnowTheLog == \A c \in Clients : KnowsTheLog(c)

\* A writer's step leaves unannounced what was, unless it announces it to every
\* subscriber.
LEMMA WriterTells ==
  ASSUME Typed, NEW c \in Clients, KnowsTheLog(c), (\E w \in Writers : Write(w)) \/ Ask \/ Finish
  PROVE  KnowsTheLog(c)'
<1> SUFFICES ASSUME conn'[c] \in {"send", "check", "wait"}, ~woken'[c],
                    NEW row \in log', row.sequence > cursor'[c], row.sequence \notin batch'[c]
             PROVE  row.by \in Remote \/ append'[row.by] = "publish"
  BY DEF KnowsTheLog, Unannounced
<1>1. UNCHANGED <<conn, cursor, batch>>
  BY WritersLeaveClients DEF Typed, serving
<1>2. append \in [Writers -> {"ready", "insert", "publish"}] /\ log \subseteq Row
  BY DEF Typed, Log
<1>3. ASSUME NEW w \in Writers, ReadMax(w) PROVE row.by \in Remote \/ append'[row.by] = "publish"
  <2>1. row \in log /\ woken' = woken /\ append[w] = "ready" /\ append' = [append EXCEPT ![w] = "insert"]
    BY <1>3 DEF ReadMax
  <2> QED BY <1>1, <1>2, <2>1 DEF KnowsTheLog, Unannounced, Row
<1>4. ASSUME NEW w \in Writers, Insert(w) PROVE row.by \in Remote \/ append'[row.by] = "publish"
  <2>1. woken' = woken /\ append[w] = "insert"
    BY <1>4 DEF Insert
  <2>2. CASE row \in log
    <3>1. row.by \in Remote \/ append[row.by] = "publish"
      BY <1>1, <2>1, <2>2 DEF KnowsTheLog, Unannounced
    <3>2. row.by # w => append'[row.by] = append[row.by]
      BY <1>2, <1>4, <2>2 DEF Insert, Row
    <3> QED BY <2>1, <3>1, <3>2
  <2>3. CASE row \notin log
    <3>1. row.by = w /\ append' = [append EXCEPT ![w] = "publish"]
      BY <1>4, <2>3 DEF Insert
    <3> QED BY <1>2, <3>1
  <2> QED BY <2>2, <2>3
<1>5. ASSUME NEW w \in Writers, Publish(w) PROVE row.by \in Remote \/ append'[row.by] = "publish"
  <2>1. /\ row \in log /\ append' = [append EXCEPT ![w] = "ready"]
        /\ woken' = [d \in Clients |-> woken[d] \/ (Subscribed(d) /\ w \notin Remote)]
    BY <1>5 DEF Publish
  <2>2. Subscribed(c)
    BY <1>1 DEF Subscribed
  <2>3. ~woken[c] /\ w \in Remote
    BY <2>1, <2>2
  <2>4. row.by \in Remote \/ append[row.by] = "publish"
    BY <1>1, <2>1, <2>3 DEF KnowsTheLog, Unannounced
  <2> QED BY <1>2, <2>1, <2>3, <2>4 DEF Row
<1>6. ASSUME Ask \/ Finish PROVE row.by \in Remote \/ append'[row.by] = "publish"
  <2>1. row \in log /\ woken' = woken /\ append' = append
    BY <1>6 DEF Ask, Finish, writing
  <2> QED BY <1>1, <2>1 DEF KnowsTheLog, Unannounced
<1> QED BY <1>3, <1>4, <1>5, <1>6 DEF Write

\* A generator fetches everything after its cursor, and sends what it fetched.
LEMMA GeneratorKnows ==
  ASSUME Typed, NEW c \in Clients, KnowsTheLog(c), Stream(c) \/ Receive(c) \/ Drop(c)
  PROVE  KnowsTheLog(c)'
<1>0. /\ ClientsOK /\ UNCHANGED <<append, log>> /\ log \subseteq Row
      /\ \A row \in log : row.sequence \in Nat /\ row.sequence \in Sequences
  BY DEF Typed, Stream, Connect, Fetch, Send, Check, Wake, Close, Receive, Drop, writing, Log, Row, Sequences
<1>1. CASE Connect(c) \/ Wake(c) \/ Close(c) \/ Drop(c)
  <2>1. conn'[c] \in {"fetch", "off"}
    BY <1>0, <1>1 DEF Connect, Wake, Close, Drop, Unserve, Serve, ClientsOK
  <2> QED BY <2>1 DEF KnowsTheLog
<1>2. CASE Fetch(c)
  <2>1. batch'[c] = {n \in Sequences : n > cursor[c]} /\ cursor' = cursor
    BY <1>0, <1>2 DEF Fetch, ClientsOK
  <2> QED BY <1>0, <2>1 DEF KnowsTheLog
<1>3. CASE Send(c)
  <2>1. CASE batch[c] = {}
    <3>1. conn[c] = "send" /\ UNCHANGED <<cursor, batch, woken>>
      BY <1>3, <2>1 DEF Send
    <3> QED BY <1>0, <3>1 DEF KnowsTheLog, Unannounced
  <2>2. CASE batch[c] # {}
    <3>1. Min(batch[c]) = cursor[c] + 1 /\ conn[c] = "send" /\ cursor[c] \in Nat
      BY <1>0, <1>3, <2>2, NextFrame DEF Send, Typed, ClientsOK
    <3>2. /\ cursor'[c] = cursor[c] + 1 /\ batch'[c] = batch[c] \ {cursor[c] + 1} /\ woken' = woken
      BY <1>0, <1>3, <2>2, <3>1 DEF Send, ClientsOK
    <3>3. ASSUME NEW row \in log, row.sequence > cursor'[c], row.sequence \notin batch'[c]
          PROVE  row.sequence > cursor[c] /\ row.sequence \notin batch[c]
      BY <1>0, <3>1, <3>2, <3>3
    <3> QED BY <1>0, <3>1, <3>2, <3>3 DEF KnowsTheLog, Unannounced
  <2> QED BY <2>1, <2>2
<1>4. CASE Check(c)
  <2>1. conn[c] = "check" /\ UNCHANGED <<cursor, batch, woken>>
    BY <1>4 DEF Check
  <2> QED BY <1>0, <2>1 DEF KnowsTheLog, Unannounced
<1>5. CASE Receive(c)
  <2>1. UNCHANGED <<conn, cursor, batch, woken>>
    BY <1>5 DEF Receive, serving
  <2> QED BY <1>0, <2>1 DEF KnowsTheLog, Unannounced
<1> QED BY <1>1, <1>2, <1>3, <1>4, <1>5 DEF Stream

\* Every step keeps it.
LEMMA KnowledgeStays == Typed /\ GeneratorsKnowTheLog /\ [Next]_vars => GeneratorsKnowTheLog'
<1> SUFFICES ASSUME Typed, GeneratorsKnowTheLog, [Next]_vars, NEW d \in Clients PROVE KnowsTheLog(d)'
  BY DEF GeneratorsKnowTheLog
<1>0. KnowsTheLog(d)
  BY DEF GeneratorsKnowTheLog
<1>1. ASSUME UNCHANGED <<log, append>>, conn'[d] = conn[d], cursor'[d] = cursor[d], batch'[d] = batch[d], woken'[d] = woken[d]
      PROVE  KnowsTheLog(d)'
  BY <1>0, <1>1 DEF KnowsTheLog, Unannounced
<1>2. CASE UNCHANGED vars
  BY <1>1, <1>2 DEF vars, serving, writing
<1>3. ASSUME NEW c \in Clients, Stream(c) \/ Receive(c) \/ Drop(c), c # d PROVE KnowsTheLog(d)'
  <2>1. UNCHANGED <<log, append>>
    BY <1>3 DEF Stream, Connect, Fetch, Send, Check, Wake, Close, Receive, Drop, writing
  <2> QED BY <1>1, <1>3, <2>1 DEF Stream, Connect, Fetch, Send, Check, Wake, Close, Receive, Drop, Unserve, Serve,
         serving, ClientsOK, Typed
<1> QED BY <1>0, <1>2, <1>3, WriterTells, GeneratorKnows DEF Next

\* A generator goes to sleep only if everything after its cursor is still to be
\* published, or was appended where its broker does not hear of it.
THEOREM NoWakeupIsLost == Spec => []NoLostWakeup
<1>1. Init => GeneratorsKnowTheLog
  BY DEF Init, GeneratorsKnowTheLog, KnowsTheLog
<1>2. Typed /\ GeneratorsKnowTheLog => NoLostWakeup
  BY DEF Typed, BatchesAreOfLog, Fetched, GeneratorsKnowTheLog, KnowsTheLog, NoLostWakeup, Unannounced
<1> QED BY <1>1, <1>2, KnowledgeStays, TypedHolds, PTL DEF Spec
=============================================================================
