-------------------------- MODULE EventSyncProofs --------------------------
(* Theorems of EventSync, for any entities, events, requests and limits. *)
EXTENDS LogRefinement, TLAPS

USE EventKindsDiffer, NoSyncIsNone, BoundsKnown

-----------------------------------------------------------------------------
(* Invariants *)

\* The second log begins with the first one.
Extends(l, m) == Len(l) <= Len(m) /\ \A i \in DOMAIN l : m[i] = l[i]

\* A log has an event of a device once.
OnceIn(l) == \A i, j \in DOMAIN l : l[i].id \in DeviceEvents /\ l[j].id = l[i].id => i = j

\* ConflictsAreExplicit of any log.
OverwrittenBefore(l, i) == \E k \in Of(l, l[i].entity) : k < i /\ Overwrote(l, k)
Honest(l) == \A i \in DOMAIN l : l[i].id \in DeviceEvents => Explicit(l, i) \/ OverwrittenBefore(l, i)

\* The revision of an entity is the greatest in the log, unless it was set back.
Current(l, r) ==
    \A x \in Entities : \/ \E k \in Of(l, x) : Overwrote(l, k)
                        \/ \A k \in Of(l, x) : l[k].revision <= r[x]

DbOK(l, r) == OnceIn(l) /\ Honest(l) /\ Current(l, r)

LogOK == DbOK(log, revision)

\* The open transaction has the log and writes behind it.
DraftBegins == writer # NoSync => Extends(log, draft.log)

\* What the open transaction sees is such a log too.
DraftOK ==
    writer # NoSync => /\ DbOK(draft.log, draft.revision)
                       /\ draft.accepted \subseteq Ids(draft.log)

\* What was accepted is in the log, wherever the answer is by now.
KnownOK == acknowledged \subseteq Ids(log) /\ \A s \in Syncs : answer[s].accepted \subseteq Ids(log)

\* The request that is waited for has the device's cursor, and its answer the page after it.
CursorOK ==
    mine # NoSync =>
        /\ request[mine].cursor = cursor
        /\ sync[mine] \in {"answered", "acknowledged"} =>
             /\ cursor <= answer[mine].cursor
             /\ answer[mine].events = Page(cursor, answer[mine].cursor)

SyncInv == LogOK /\ DraftOK /\ KnownOK /\ CursorOK /\ ReceivedUpToCursor

-----------------------------------------------------------------------------
(* Data *)

\* The log, or the outbox, after one more.
LEMMA Appended ==
  ASSUME NEW S, NEW l \in Seq(S), NEW e \in S
  PROVE  /\ Append(l, e) \in Seq(S) /\ Len(Append(l, e)) = Len(l) + 1
         /\ Len(l) \in Nat /\ DOMAIN l = 1..Len(l) /\ DOMAIN Append(l, e) = 1..(Len(l) + 1)
         /\ \A i \in DOMAIN l : Append(l, e)[i] = l[i]
         /\ Append(l, e)[Len(l) + 1] = e
  OBVIOUS

LEMMA Places ==
  ASSUME NEW S, NEW l \in Seq(S)
  PROVE  Len(l) \in Nat /\ DOMAIN l = 1..Len(l) /\ \A i \in DOMAIN l : l[i] \in S
  OBVIOUS

LEMMA IdsAppended ==
  ASSUME NEW S, NEW l \in Seq(S), NEW e \in S
  PROVE  Ids(Append(l, e)) = Ids(l) \cup {e.id}
<1> DEFINE m == Append(l, e)
<1>1. /\ DOMAIN l = 1..Len(l) /\ DOMAIN m = 1..(Len(l) + 1) /\ Len(l) \in Nat
      /\ \A i \in DOMAIN l : m[i] = l[i]
      /\ m[Len(l) + 1] = e
  BY Appended
<1> HIDE DEF m
<1>2. DOMAIN m = DOMAIN l \cup {Len(l) + 1}
  BY <1>1
<1>3. Ids(m) = Ids(l) \cup {e.id}
  BY <1>1, <1>2 DEF Ids
<1> QED BY <1>3 DEF m

LEMMA ExtendsIds == \A l, m : Extends(l, m) /\ l \in Seq(Entry) /\ m \in Seq(Entry) => Ids(l) \subseteq Ids(m) /\ DOMAIN l \subseteq DOMAIN m
<1> SUFFICES ASSUME NEW l \in Seq(Entry), NEW m \in Seq(Entry), Extends(l, m)
             PROVE  Ids(l) \subseteq Ids(m) /\ DOMAIN l \subseteq DOMAIN m
  OBVIOUS
<1>1. DOMAIN l \subseteq DOMAIN m
  BY Places DEF Extends
<1> QED BY <1>1 DEF Extends, Ids

\* The ranges of a message grow with the log and the outbox.
LEMMA WiderRequests ==
  ASSUME NEW D, NEW E, NEW m \in Nat, NEW n \in Nat, D \subseteq E, m <= n,
         NEW r \in [Syncs -> [events : SUBSET D, cursor : 0..m]]
  PROVE  r \in [Syncs -> [events : SUBSET E, cursor : 0..n]]
<1>1. \A q \in [events : SUBSET D, cursor : 0..m] : q \in [events : SUBSET E, cursor : 0..n]
  OBVIOUS
<1> QED BY <1>1

LEMMA WiderAnswers ==
  ASSUME NEW A, NEW B, NEW m \in Nat, NEW n \in Nat, A \subseteq B, m <= n,
         NEW r \in [Syncs -> [accepted : SUBSET A, events : SUBSET (1..m), cursor : 0..m]]
  PROVE  r \in [Syncs -> [accepted : SUBSET B, events : SUBSET (1..n), cursor : 0..n]]
<1>1. 1..m \subseteq 1..n
  OBVIOUS
<1>2. \A q \in [accepted : SUBSET A, events : SUBSET (1..m), cursor : 0..m] :
        q \in [accepted : SUBSET B, events : SUBSET (1..n), cursor : 0..n]
  BY <1>1
<1> QED BY <1>2

LEMMA WiderCalls ==
  ASSUME NEW m \in Nat, NEW n \in Nat, m <= n,
         NEW c \in [CloudEvents -> [at : {"none", "made", "read", "done"}, entity : Entities, base : 0..m]]
  PROVE  c \in [CloudEvents -> [at : {"none", "made", "read", "done"}, entity : Entities, base : 0..n]]
<1>1. \A q \in [at : {"none", "made", "read", "done"}, entity : Entities, base : 0..m] :
        q \in [at : {"none", "made", "read", "done"}, entity : Entities, base : 0..n]
  OBVIOUS
<1> QED BY <1>1

-----------------------------------------------------------------------------
(* Types *)

\* The parts of TypeOK, by the variables they are about.
LogTypes  == /\ log \in Seq(Entry) /\ revision \in [Entities -> 0..Len(log)] /\ rows \subseteq Entities
             /\ call \in [CloudEvents -> [at : {"none", "made", "read", "done"}, entity : Entities, base : 0..Len(log)]]
DraftTypes == /\ draft.log \in Seq(Entry) /\ draft.revision \in [Entities -> 0..Len(draft.log)]
              /\ draft = [log |-> draft.log, revision |-> draft.revision, rows |-> draft.rows, accepted |-> draft.accepted]
              /\ draft.rows \subseteq Entities /\ draft.accepted \subseteq InOutbox
WriterTypes == /\ writer \in Syncs \cup {NoSync}
               /\ IF writer = NoSync THEN draft = NoDraft /\ left = {}
                  ELSE sync[writer] = "sent" /\ left \subseteq request[writer].events
DeviceTypes == /\ outbox \in Seq(Mutation) /\ acknowledged \subseteq InOutbox
               /\ received \subseteq DOMAIN log /\ cursor \in 0..Len(log) /\ cut \subseteq DOMAIN log
WireTypes == /\ sync \in [Syncs -> {"free", "sent", "answered", "acknowledged"}]
             /\ request \in [Syncs -> [events : SUBSET DOMAIN outbox, cursor : 0..Len(log)]]
             /\ answer \in [Syncs -> [accepted : SUBSET InOutbox, events : SUBSET DOMAIN log, cursor : 0..Len(log)]]
             /\ \A s \in Syncs : /\ sync[s] = "free" => request[s] = NoRequest
                                 /\ sync[s] \in {"free", "sent"} => answer[s] = NoAnswer
             /\ mine \in Syncs \cup {NoSync}
             /\ mine # NoSync => sync[mine] # "free"
             /\ lost \in 0..MaxLost

LEMMA TypeParts == TypeOK <=> LogTypes /\ DraftTypes /\ WriterTypes /\ DeviceTypes /\ WireTypes
  BY DEF TypeOK, LogTypes, DraftTypes, WriterTypes, DeviceTypes, WireTypes

LEMMA TypePartsNext == TypeOK' <=> LogTypes' /\ DraftTypes' /\ WriterTypes' /\ DeviceTypes' /\ WireTypes'
  BY DEF TypeOK, LogTypes, DraftTypes, WriterTypes, DeviceTypes, WireTypes

LEMMA TypeStarts == Init => TypeOK
<1> SUFFICES ASSUME Init PROVE TypeOK
  OBVIOUS
<1>1. LogTypes /\ DraftTypes /\ DeviceTypes
  <2>1. <<>> \in Seq(Entry) /\ Len(<<>>) = 0 /\ <<>> \in Seq(Mutation)
    OBVIOUS
  <2>2. call \in [CloudEvents -> [at : {"none", "made", "read", "done"}, entity : Entities, base : 0..0]]
    BY DEF Init
  <2> QED BY <2>1, <2>2 DEF Init, LogTypes, DraftTypes, DeviceTypes, NoDraft, InOutbox, Ids
<1>2. WriterTypes /\ WireTypes
  BY DEF Init, WriterTypes, WireTypes, NoRequest, NoAnswer
<1> QED BY <1>1, <1>2, TypeParts

LEMMA DraftStarts == Init => DraftBegins
  BY DEF Init, DraftBegins

\* What has its type still has it when the log and the outbox have grown.
LEMMA GrowthKeepsTypes ==
  ASSUME TypeOK, Len(log') \in Nat, Len(log) <= Len(log'), DOMAIN log' = 1..Len(log'),
         DOMAIN outbox \subseteq DOMAIN outbox', InOutbox \subseteq InOutbox'
  PROVE  /\ call \in [CloudEvents -> [at : {"none", "made", "read", "done"}, entity : Entities, base : 0..Len(log')]]
         /\ request \in [Syncs -> [events : SUBSET DOMAIN outbox', cursor : 0..Len(log')]]
         /\ answer \in [Syncs -> [accepted : SUBSET InOutbox', events : SUBSET DOMAIN log', cursor : 0..Len(log')]]
         /\ received \subseteq DOMAIN log' /\ cursor \in 0..Len(log') /\ cut \subseteq DOMAIN log'
         /\ acknowledged \subseteq InOutbox' /\ draft.accepted \subseteq InOutbox'
<1>1. Len(log) \in Nat /\ DOMAIN log = 1..Len(log)
  BY Places DEF TypeOK
<1>2. call \in [CloudEvents -> [at : {"none", "made", "read", "done"}, entity : Entities, base : 0..Len(log')]]
  BY <1>1, WiderCalls DEF TypeOK
<1>3. request \in [Syncs -> [events : SUBSET DOMAIN outbox', cursor : 0..Len(log')]]
  BY <1>1, WiderRequests DEF TypeOK
<1>4. answer \in [Syncs -> [accepted : SUBSET InOutbox', events : SUBSET DOMAIN log', cursor : 0..Len(log')]]
  BY <1>1, WiderAnswers DEF TypeOK
<1>5. 1..Len(log) \subseteq 1..Len(log') /\ 0..Len(log) \subseteq 0..Len(log')
  BY <1>1
<1> QED BY <1>1, <1>2, <1>3, <1>4, <1>5 DEF TypeOK

LEMMA ReadTypes == ASSUME TypeOK, NEW w \in CloudEvents, ReadRevision(w) PROVE TypeOK'
<1>1. LogTypes'
  <2>1. revision[call[w].entity] \in 0..Len(log)
    BY DEF TypeOK
  <2> QED BY <2>1 DEF TypeOK, LogTypes, ReadRevision
<1>2. DraftTypes' /\ WriterTypes' /\ DeviceTypes' /\ WireTypes'
  BY TypeParts DEF ReadRevision, tx, device, wire, DraftTypes, WriterTypes, DeviceTypes, WireTypes,
        InOutbox, Ids, NoDraft
<1> QED BY <1>1, <1>2, TypePartsNext

LEMMA RowTypes == ASSUME TypeOK, NEW w \in CloudEvents, MakeRow(w) PROVE TypeOK'
<1>1. LogTypes'
  <2>1. call[w] \in [at : {"none", "made", "read", "done"}, entity : Entities, base : 0..Len(log)]
    BY DEF TypeOK
  <2> QED BY <2>1 DEF TypeOK, LogTypes, MakeRow
<1>2. DraftTypes' /\ WriterTypes' /\ DeviceTypes' /\ WireTypes'
  BY TypeParts DEF MakeRow, tx, device, wire, DraftTypes, WriterTypes, DeviceTypes, WireTypes,
        InOutbox, Ids, NoDraft
<1> QED BY <1>1, <1>2, TypePartsNext

LEMMA WriteTypes == ASSUME TypeOK, NEW w \in CloudEvents, WriteEvent(w) PROVE TypeOK'
<1> DEFINE x == call[w].entity
           n == call[w].base + 1
           e == [id |-> w, entity |-> x, revision |-> n]
<1>1. x \in Entities /\ n \in 1..(Len(log) + 1) /\ e \in Entry /\ Len(log) \in Nat /\ log \in Seq(Entry)
  BY Places DEF TypeOK, Entry, Events
<1>2. log' = Append(log, e) /\ revision' = [revision EXCEPT ![x] = n]
  BY DEF WriteEvent
<1> HIDE DEF x, n, e
<1>3. log' \in Seq(Entry) /\ Len(log') = Len(log) + 1 /\ DOMAIN log' = 1..Len(log')
  BY <1>1, <1>2, Appended
<1>4. outbox' = outbox /\ InOutbox' = InOutbox
  BY DEF WriteEvent, device, InOutbox, Ids
<1>5. revision' \in [Entities -> 0..Len(log')]
  <2>1. revision \in [Entities -> 0..Len(log)]
    BY DEF TypeOK
  <2> QED BY <1>1, <1>2, <1>3, <2>1
<1>6. /\ call \in [CloudEvents -> [at : {"none", "made", "read", "done"}, entity : Entities, base : 0..Len(log')]]
      /\ request \in [Syncs -> [events : SUBSET DOMAIN outbox', cursor : 0..Len(log')]]
      /\ answer \in [Syncs -> [accepted : SUBSET InOutbox', events : SUBSET DOMAIN log', cursor : 0..Len(log')]]
      /\ received \subseteq DOMAIN log' /\ cursor \in 0..Len(log') /\ cut \subseteq DOMAIN log'
      /\ acknowledged \subseteq InOutbox' /\ draft.accepted \subseteq InOutbox'
  BY <1>1, <1>3, <1>4, GrowthKeepsTypes
<1>7. LogTypes'
  BY <1>3, <1>5, <1>6, TypeParts DEF LogTypes, WriteEvent
<1>8. DraftTypes' /\ WriterTypes'
  BY <1>4, TypeParts DEF WriteEvent, tx, wire, DraftTypes, WriterTypes, NoDraft
<1>9. DeviceTypes' /\ WireTypes'
  BY <1>4, <1>6, TypeParts DEF WriteEvent, device, wire, DeviceTypes, WireTypes
<1> QED BY <1>7, <1>8, <1>9, TypePartsNext

LEMMA OpenTypes == ASSUME TypeOK, NEW s \in Syncs, Open(s) PROVE TypeOK'
<1>1. LogTypes' /\ DeviceTypes' /\ WireTypes' /\ InOutbox' = InOutbox
  BY TypeParts DEF Open, cloud, device, wire, LogTypes, DeviceTypes, WireTypes, InOutbox, Ids
<1>2. DraftTypes' /\ WriterTypes'
  BY <1>1, TypeParts DEF Open, cloud, wire, DraftTypes, WriterTypes, LogTypes
<1> QED BY <1>1, <1>2, TypePartsNext

\* What one mutation makes of what the transaction has written.
LEMMA JudgeTypes ==
  ASSUME TypeOK, NEW e \in Mutation, e.id \in InOutbox
  PROVE  LET db == Judge(draft, e) IN
         /\ db.log \in Seq(Entry) /\ db.revision \in [Entities -> 0..Len(db.log)]
         /\ db = [log |-> db.log, revision |-> db.revision, rows |-> db.rows, accepted |-> db.accepted]
         /\ db.rows \subseteq Entities /\ db.accepted \subseteq InOutbox
<1> DEFINE l == draft.log
           r == draft.revision
           new == [id |-> e.id, entity |-> e.entity, revision |-> e.base + 1]
           known == [log |-> l, revision |-> r, rows |-> draft.rows, accepted |-> draft.accepted \cup {e.id}]
           grown == IF e.projection = "creates" THEN draft.rows \cup {e.entity} ELSE draft.rows
<1>1. l \in Seq(Entry) /\ r \in [Entities -> 0..Len(l)] /\ draft.rows \subseteq Entities /\ draft.accepted \subseteq InOutbox
      /\ draft = [log |-> l, revision |-> r, rows |-> draft.rows, accepted |-> draft.accepted] /\ Len(l) \in Nat
  BY Places DEF TypeOK
<1>2. new \in Entry /\ e.entity \in Entities /\ e.base \in Nat
  BY DEF Mutation, Entry, Events
<1>4. Judge(draft, e) \in {known, draft} \/ (Judge(draft, e) = Accept(draft, e) /\ e.base = r[e.entity])
  BY DEF Judge, Repeat
<1> HIDE DEF l, r, new
<1>5. CASE Judge(draft, e) = known
  BY <1>1, <1>5
<1>6. CASE Judge(draft, e) = draft
  BY <1>1, <1>6
<1>7. CASE Judge(draft, e) = Accept(draft, e) /\ e.base = r[e.entity]
  <2>1. Accept(draft, e) = [log |-> Append(l, new), revision |-> [r EXCEPT ![e.entity] = e.base + 1],
                            rows |-> grown, accepted |-> draft.accepted \cup {e.id}]
    BY DEF Accept, new, l, r
  <2>2. Append(l, new) \in Seq(Entry) /\ Len(Append(l, new)) = Len(l) + 1
    BY <1>1, <1>2, Appended
  <2>3. [r EXCEPT ![e.entity] = e.base + 1] \in [Entities -> 0..(Len(l) + 1)]
    BY <1>1, <1>2, <1>7
  <2>4. grown \subseteq Entities
    BY <1>1, <1>2
  <2> QED BY <1>1, <1>7, <2>1, <2>2, <2>3, <2>4
<1> QED BY <1>4, <1>5, <1>6, <1>7

\* An event of a request is one of the outbox.
LEMMA LeftIsOutbox ==
  ASSUME TypeOK, NEW k \in left
  PROVE  /\ writer \in Syncs /\ k \in DOMAIN outbox
         /\ outbox[k] \in Mutation /\ outbox[k].id \in InOutbox
<1>1. writer \in Syncs /\ left \subseteq request[writer].events
  BY DEF TypeOK
<1>2. request[writer].events \subseteq DOMAIN outbox
  BY <1>1 DEF TypeOK
<1>3. k \in DOMAIN outbox /\ outbox[k] \in Mutation
  BY <1>1, <1>2, Places DEF TypeOK
<1> QED BY <1>1, <1>3 DEF InOutbox, Ids

LEMMA JudgeNextTypes == ASSUME TypeOK, NEW s \in Syncs, JudgeNext(s) PROVE TypeOK'
<1>1. PICK k \in left : draft' = Judge(draft, outbox[k]) /\ left' = left \ {k}
  BY DEF JudgeNext
<1>2. outbox[k] \in Mutation /\ outbox[k].id \in InOutbox
  BY LeftIsOutbox
<1>3. LogTypes' /\ DeviceTypes' /\ WireTypes' /\ InOutbox' = InOutbox
  BY TypeParts DEF JudgeNext, cloud, device, wire, LogTypes, DeviceTypes, WireTypes, InOutbox, Ids
<1>4. DraftTypes'
  BY <1>1, <1>2, <1>3, JudgeTypes DEF DraftTypes
<1>5. WriterTypes'
  BY <1>1, TypeParts DEF JudgeNext, wire, WriterTypes
<1> QED BY <1>3, <1>4, <1>5, TypePartsNext

LEMMA CommitTypes == ASSUME TypeOK, DraftBegins, NEW s \in Syncs, Commit(s) PROVE TypeOK'
<1> DEFINE l == draft.log
           n == Len(l)
           page == Page(request[s].cursor, n)
           reply == [accepted |-> draft.accepted, events |-> page, cursor |-> n]
<1>1. /\ log' = l /\ revision' = draft.revision /\ rows' = draft.rows /\ outbox' = outbox /\ InOutbox' = InOutbox
      /\ answer' = [answer EXCEPT ![s] = reply] /\ sync' = [sync EXCEPT ![s] = "answered"]
      /\ UNCHANGED <<call, device, request, mine, cut, lost>>
      /\ writer' = NoSync /\ draft' = NoDraft /\ left' = {}
      /\ writer = s /\ Len(log) <= n
  BY DEF Commit, Close, device, InOutbox, Ids, DraftBegins, Extends
<1>2. l \in Seq(Entry) /\ n \in Nat /\ DOMAIN l = 1..n /\ draft.revision \in [Entities -> 0..n]
      /\ draft.rows \subseteq Entities /\ draft.accepted \subseteq InOutbox
  BY Places DEF TypeOK
<1>3. page \subseteq DOMAIN l
  <2>1. request[s].cursor \in Nat
    BY Places DEF TypeOK
  <2> QED BY <1>2, <2>1 DEF Page, After
<1> HIDE DEF l, n, page
<1>4. /\ call \in [CloudEvents -> [at : {"none", "made", "read", "done"}, entity : Entities, base : 0..Len(log')]]
      /\ request \in [Syncs -> [events : SUBSET DOMAIN outbox', cursor : 0..Len(log')]]
      /\ answer \in [Syncs -> [accepted : SUBSET InOutbox', events : SUBSET DOMAIN log', cursor : 0..Len(log')]]
      /\ received \subseteq DOMAIN log' /\ cursor \in 0..Len(log') /\ cut \subseteq DOMAIN log'
      /\ acknowledged \subseteq InOutbox' /\ draft.accepted \subseteq InOutbox'
  BY <1>1, <1>2, GrowthKeepsTypes DEF n
<1>5. n = Len(log') /\ l = log'
  BY <1>1 DEF n
<1>6. LogTypes'
  BY <1>1, <1>2, <1>4, <1>5 DEF LogTypes
<1>7. DraftTypes' /\ WriterTypes'
  <2>1. <<>> \in Seq(Entry) /\ Len(<<>>) = 0
    OBVIOUS
  <2> QED BY <1>1, <2>1 DEF DraftTypes, WriterTypes, NoDraft
<1>8. DeviceTypes'
  BY <1>1, <1>4, TypeParts DEF device, DeviceTypes
<1>9. WireTypes'
  <2>1. reply \in [accepted : SUBSET InOutbox', events : SUBSET DOMAIN log', cursor : 0..Len(log')]
    BY <1>1, <1>2, <1>3, <1>5
  <2>2. answer' \in [Syncs -> [accepted : SUBSET InOutbox', events : SUBSET DOMAIN log', cursor : 0..Len(log')]]
    BY <1>1, <1>4, <2>1
  <2>3. sync[s] = "sent"
    BY <1>1, TypeParts DEF WriterTypes
  <2> QED BY <1>1, <1>4, <2>2, <2>3, TypeParts DEF WireTypes
<1> QED BY <1>6, <1>7, <1>8, <1>9, TypePartsNext

LEMMA EnqueueTypes == ASSUME TypeOK, NEW e \in DeviceEvents, Enqueue(e) PROVE TypeOK'
<1>a. PICK x \in Entities : \E b \in {0} \cup {log[i].revision : i \in received \cap Of(log, x)} :
           \E p \in Projections :
        outbox' = Append(outbox, [id |-> e, entity |-> x, base |-> b, projection |-> p])
  BY DEF Enqueue
<1>1. PICK b \in {0} \cup {log[i].revision : i \in received \cap Of(log, x)}, p \in Projections :
        outbox' = Append(outbox, [id |-> e, entity |-> x, base |-> b, projection |-> p])
  BY <1>a
<1> DEFINE m == [id |-> e, entity |-> x, base |-> b, projection |-> p]
<1>2. b \in Nat
  <2>1. \A i \in DOMAIN log : log[i] \in Entry
    BY Places DEF TypeOK
  <2> QED BY <2>1 DEF Of, Entry
<1>3. m \in Mutation /\ outbox' = Append(outbox, m) /\ outbox \in Seq(Mutation)
  BY <1>1, <1>2 DEF Mutation, TypeOK
<1> HIDE DEF m
<1>4. outbox' \in Seq(Mutation) /\ DOMAIN outbox \subseteq DOMAIN outbox' /\ InOutbox \subseteq InOutbox'
  <2>1. InOutbox' = Ids(outbox') /\ InOutbox = Ids(outbox)
    BY DEF InOutbox, Ids
  <2> QED BY <1>3, <2>1, Appended, IdsAppended
<1>5. log' = log /\ Len(log') \in Nat /\ Len(log) <= Len(log') /\ DOMAIN log' = 1..Len(log')
  BY Places DEF Enqueue, cloud, TypeOK
<1>6. /\ request \in [Syncs -> [events : SUBSET DOMAIN outbox', cursor : 0..Len(log')]]
      /\ answer \in [Syncs -> [accepted : SUBSET InOutbox', events : SUBSET DOMAIN log', cursor : 0..Len(log')]]
      /\ acknowledged \subseteq InOutbox' /\ draft.accepted \subseteq InOutbox'
  BY <1>4, <1>5, GrowthKeepsTypes
<1>7. LogTypes' /\ DraftTypes' /\ WriterTypes'
  BY <1>6, TypeParts DEF Enqueue, cloud, tx, wire, LogTypes, DraftTypes, WriterTypes, NoDraft
<1>8. DeviceTypes' /\ WireTypes'
  BY <1>4, <1>6, TypeParts DEF Enqueue, cloud, wire, DeviceTypes, WireTypes
<1> QED BY <1>7, <1>8, TypePartsNext

LEMMA BeginTypes == ASSUME TypeOK, NEW s \in Syncs, Begin(s) PROVE TypeOK'
<1>1. LogTypes' /\ DraftTypes' /\ DeviceTypes' /\ InOutbox' = InOutbox
  BY TypeParts DEF Begin, cloud, tx, device, LogTypes, DraftTypes, DeviceTypes, InOutbox, Ids
<1>2. WriterTypes'
  BY TypeParts DEF Begin, tx, WriterTypes, NoDraft, WireTypes
<1>3. WireTypes'
  <2>1. Pending \subseteq DOMAIN outbox
    BY DEF Pending
  <2>2. [events |-> Pending, cursor |-> cursor] \in [events : SUBSET DOMAIN outbox, cursor : 0..Len(log)]
    BY <2>1 DEF TypeOK
  <2> QED BY <1>1, <2>2, TypeParts DEF Begin, cloud, device, WireTypes
<1> QED BY <1>1, <1>2, <1>3, TypePartsNext

LEMMA AcknowledgeTypes == ASSUME TypeOK, NEW s \in Syncs, Acknowledge(s) PROVE TypeOK'
<1>1. LogTypes' /\ DraftTypes' /\ InOutbox' = InOutbox
  BY TypeParts DEF Acknowledge, cloud, tx, LogTypes, DraftTypes, InOutbox, Ids
<1>2. WriterTypes' /\ WireTypes'
  BY <1>1, TypeParts DEF Acknowledge, cloud, tx, WriterTypes, WireTypes, NoDraft
<1>3. DeviceTypes'
  BY <1>1, TypeParts DEF Acknowledge, cloud, DeviceTypes, WireTypes, Settled
<1> QED BY <1>1, <1>2, <1>3, TypePartsNext

\* A request that is freed, unless its transaction stays open.
LEMMA FreeTypes ==
  ASSUME TypeOK, NEW s \in Syncs, Free(s), writer = s => writer' = NoSync,
         log' = log, outbox' = outbox, lost' \in 0..MaxLost,
         tx' = tx \/ (writer' = NoSync /\ draft' = NoDraft /\ left' = {})
  PROVE  DraftTypes' /\ WriterTypes' /\ WireTypes' /\ InOutbox' = InOutbox
<1>1. InOutbox' = InOutbox
  BY DEF InOutbox, Ids
<1>2. WireTypes'
  <2>1. NoRequest \in [events : SUBSET DOMAIN outbox, cursor : 0..Len(log)]
        /\ NoAnswer \in [accepted : SUBSET InOutbox, events : SUBSET DOMAIN log, cursor : 0..Len(log)]
    BY Places DEF TypeOK, NoRequest, NoAnswer
  <2> QED BY <1>1, <2>1, TypeParts DEF Free, WireTypes
<1>3. CASE tx' = tx
  <2>1. DraftTypes'
    BY <1>1, <1>3, TypeParts DEF tx, DraftTypes
  <2>2. WriterTypes'
    BY <1>3, TypeParts DEF tx, WriterTypes, NoDraft, Free, WireTypes
  <2> QED BY <1>1, <1>2, <2>1, <2>2
<1>4. CASE writer' = NoSync /\ draft' = NoDraft /\ left' = {}
  <2>1. <<>> \in Seq(Entry) /\ Len(<<>>) = 0
    OBVIOUS
  <2>2. DraftTypes' /\ WriterTypes'
    BY <1>1, <1>4, <2>1 DEF DraftTypes, WriterTypes, NoDraft
  <2> QED BY <1>1, <1>2, <2>2
<1> QED BY <1>3, <1>4

LEMMA ApplyTypes == ASSUME TypeOK, NEW s \in Syncs, Apply(s) PROVE TypeOK'
<1>1. writer # s /\ log' = log /\ outbox' = outbox /\ tx' = tx /\ lost' \in 0..MaxLost
  BY TypeParts DEF Apply, cloud, WriterTypes, WireTypes
<1>2. DraftTypes' /\ WriterTypes' /\ WireTypes' /\ InOutbox' = InOutbox
  BY <1>1, FreeTypes DEF Apply
<1>3. LogTypes'
  BY TypeParts DEF Apply, cloud, LogTypes
<1>4. DeviceTypes'
  <2>1. /\ answer[s].events \subseteq DOMAIN log /\ answer[s].cursor \in 0..Len(log)
        /\ request[s].cursor \in Nat /\ Len(log) \in Nat /\ DOMAIN log = 1..Len(log)
    BY Places DEF TypeOK
  <2>2. After(request[s].cursor, answer[s].cursor) \subseteq DOMAIN log
    BY <2>1 DEF After
  <2>3. cut' \subseteq DOMAIN log
    BY <2>2 DEF Apply, TypeOK
  <2> QED BY <1>1, <1>2, <2>1, <2>3, TypeParts DEF Apply, DeviceTypes
<1> QED BY <1>2, <1>3, <1>4, TypePartsNext

LEMMA DropTypes == ASSUME TypeOK, NEW s \in Syncs, Drop(s) PROVE TypeOK'
<1>1. writer # s /\ log' = log /\ outbox' = outbox /\ tx' = tx /\ lost' \in 0..MaxLost
  BY TypeParts DEF Drop, cloud, device, WriterTypes, WireTypes
<1>2. DraftTypes' /\ WriterTypes' /\ WireTypes' /\ InOutbox' = InOutbox
  BY <1>1, FreeTypes DEF Drop
<1>3. LogTypes' /\ DeviceTypes'
  BY <1>2, TypeParts DEF Drop, cloud, device, LogTypes, DeviceTypes
<1> QED BY <1>2, <1>3, TypePartsNext

LEMMA StopTypes == ASSUME TypeOK, NEW s \in Syncs, HandlerStops(s) \/ Fail(s) PROVE TypeOK'
<1>1. log' = log /\ outbox' = outbox /\ lost' \in 0..MaxLost /\ (writer = s => writer' = NoSync)
  BY DEF HandlerStops, Fail, Lose, Close, cloud, device, TypeOK
<1>2. tx' = tx \/ (writer' = NoSync /\ draft' = NoDraft /\ left' = {})
  BY DEF HandlerStops, Fail, Close
<1>3. DraftTypes' /\ WriterTypes' /\ WireTypes' /\ InOutbox' = InOutbox
  BY <1>1, <1>2, FreeTypes DEF HandlerStops, Fail
<1>4. LogTypes' /\ DeviceTypes'
  BY <1>3, TypeParts DEF HandlerStops, Fail, cloud, device, LogTypes, DeviceTypes
<1> QED BY <1>3, <1>4, TypePartsNext

LEMMA GiveUpTypes == ASSUME TypeOK, GiveUp PROVE TypeOK'
<1>1. LogTypes' /\ DraftTypes' /\ DeviceTypes' /\ InOutbox' = InOutbox
  BY TypeParts DEF GiveUp, cloud, tx, device, LogTypes, DraftTypes, DeviceTypes, InOutbox, Ids
<1>2. WriterTypes' /\ WireTypes'
  BY <1>1, TypeParts DEF GiveUp, Lose, cloud, tx, device, WriterTypes, WireTypes, NoDraft
<1> QED BY <1>1, <1>2, TypePartsNext

LEMMA StutterTypes == ASSUME TypeOK, UNCHANGED vars PROVE TypeOK'
<1>1. LogTypes' /\ DraftTypes' /\ DeviceTypes' /\ InOutbox' = InOutbox
  BY TypeParts DEF vars, cloud, tx, device, LogTypes, DraftTypes, DeviceTypes, InOutbox, Ids
<1>2. WriterTypes' /\ WireTypes'
  BY <1>1, TypeParts DEF vars, cloud, tx, device, wire, WriterTypes, WireTypes, NoDraft
<1> QED BY <1>1, <1>2, TypePartsNext

LEMMA TypeStep == TypeOK /\ DraftBegins /\ [Next]_vars => TypeOK'
  BY RowTypes, ReadTypes, WriteTypes, OpenTypes, JudgeNextTypes, CommitTypes, EnqueueTypes, BeginTypes,
     AcknowledgeTypes, ApplyTypes, DropTypes, StopTypes, GiveUpTypes, StutterTypes DEF Next

\* Nobody else writes while a transaction is open, and it only adds to the log.
LEMMA DraftStep == TypeOK /\ DraftBegins /\ [Next]_vars => DraftBegins'
<1> SUFFICES ASSUME TypeOK, DraftBegins, [Next]_vars, writer' # NoSync PROVE Extends(log', draft'.log)
  BY DEF DraftBegins
<1>1. ASSUME log' = log, draft' = draft, writer' = writer PROVE Extends(log', draft'.log)
  BY <1>1 DEF DraftBegins, Extends
<1>2. ASSUME NEW w \in CloudEvents, MakeRow(w) \/ ReadRevision(w) \/ WriteEvent(w) PROVE Extends(log', draft'.log)
  BY <1>1, <1>2 DEF MakeRow, ReadRevision, WriteEvent, tx
<1>3. ASSUME NEW e \in DeviceEvents, Enqueue(e) PROVE Extends(log', draft'.log)
  BY <1>1, <1>3 DEF Enqueue, tx, cloud
<1>4. ASSUME NEW s \in Syncs, Begin(s) \/ Acknowledge(s) \/ Apply(s) \/ Drop(s) PROVE Extends(log', draft'.log)
  BY <1>1, <1>4 DEF Begin, Acknowledge, Apply, Drop, tx, cloud
<1>5. ASSUME NEW s \in Syncs, HandlerStops(s) \/ Fail(s) PROVE Extends(log', draft'.log)
  BY <1>1, <1>5 DEF HandlerStops, Fail, Close, tx, cloud
<1>6. ASSUME GiveUp PROVE Extends(log', draft'.log)
  BY <1>1, <1>6 DEF GiveUp, tx, cloud
<1>7. ASSUME NEW s \in Syncs, Open(s) PROVE Extends(log', draft'.log)
  <2>1. Len(log) \in Nat
    BY Places DEF TypeOK
  <2>2. log' = log /\ draft'.log = log
    BY <1>7 DEF Open, cloud
  <2> QED BY <2>1, <2>2 DEF Extends
<1>8. ASSUME NEW s \in Syncs, JudgeNext(s) PROVE Extends(log', draft'.log)
  <2>1. PICK k \in left : draft' = Judge(draft, outbox[k])
    BY <1>8 DEF JudgeNext
  <2>2. writer \in Syncs /\ outbox[k] \in Mutation /\ log' = log
    BY <1>8, LeftIsOutbox DEF JudgeNext, cloud
  <2> DEFINE new == [id |-> outbox[k].id, entity |-> outbox[k].entity, revision |-> outbox[k].base + 1]
  <2>3. new \in Entry /\ draft.log \in Seq(Entry) /\ log \in Seq(Entry) /\ Extends(log, draft.log)
    <3>1. new \in Entry
      BY <2>2 DEF Mutation, Entry, Events
    <3>2. draft.log \in Seq(Entry) /\ log \in Seq(Entry)
      BY DEF TypeOK
    <3> QED BY <2>2, <3>1, <3>2 DEF DraftBegins
  <2>4. draft'.log \in {draft.log, Append(draft.log, new)}
    BY <2>1 DEF Judge, Repeat, Accept
  <2> HIDE DEF new
  <2>5. Extends(log, Append(draft.log, new))
    <3>1. /\ DOMAIN log = 1..Len(log) /\ DOMAIN draft.log = 1..Len(draft.log)
          /\ Len(log) \in Nat /\ Len(draft.log) \in Nat
      BY <2>3, Places
    <3>2. /\ Len(Append(draft.log, new)) = Len(draft.log) + 1
          /\ \A i \in DOMAIN draft.log : Append(draft.log, new)[i] = draft.log[i]
      BY <2>3, Appended
    <3> QED BY <2>3, <3>1, <3>2 DEF Extends
  <2> QED BY <2>2, <2>3, <2>4, <2>5
<1>9. ASSUME NEW s \in Syncs, Commit(s) PROVE Extends(log', draft'.log)
  BY <1>9 DEF Commit, Close
<1>10. ASSUME UNCHANGED vars PROVE Extends(log', draft'.log)
  BY <1>1, <1>10 DEF vars, tx, cloud
<1> QED BY <1>2, <1>3, <1>4, <1>5, <1>6, <1>7, <1>8, <1>9, <1>10 DEF Next

LEMMA TypedHolds == Spec => [](TypeOK /\ DraftBegins)
  BY TypeStarts, DraftStarts, TypeStep, DraftStep, PTL DEF Spec

\* Every variable has its type, in particular what messages name exists, although logs and
\* outbox grow while they are under way.
THEOREM TypeCorrect == Spec => []TypeOK
  BY TypedHolds, PTL

-----------------------------------------------------------------------------
(* What one more event makes of a log *)

\* What is said of a place of the log is about the places before it.
LEMMA OldPlaces ==
  ASSUME NEW l \in Seq(Entry), NEW e \in Entry, NEW i \in DOMAIN l
  PROVE  LET m == Append(l, e) IN
         /\ Overwrote(m, i) <=> Overwrote(l, i)
         /\ Explicit(m, i) <=> Explicit(l, i)
         /\ OverwrittenBefore(m, i) <=> OverwrittenBefore(l, i)
<1> DEFINE m == Append(l, e)
<1>1. /\ Len(l) \in Nat /\ DOMAIN l = 1..Len(l) /\ DOMAIN m = 1..(Len(l) + 1)
      /\ \A j \in DOMAIN l : m[j] = l[j]
  BY Appended
<1> HIDE DEF m
<1>2. ASSUME NEW j \in DOMAIN l, NEW k
      PROVE  k \in Of(m, m[j].entity) /\ k < j <=> k \in Of(l, l[j].entity) /\ k < j
  BY <1>1 DEF Of
<1>3. \A j \in DOMAIN l : Overwrote(m, j) <=> Overwrote(l, j)
  <2> TAKE j \in DOMAIN l
  <2>1. \A k \in DOMAIN l : m[k] = l[k]
    BY <1>1
  <2>2. \A k \in Of(l, l[j].entity) : k \in DOMAIN l
    BY DEF Of
  <2> QED BY <1>2, <2>1, <2>2 DEF Overwrote
<1>4. \A k \in Of(l, l[i].entity) : k \in DOMAIN l
  BY DEF Of
<1>5. Explicit(m, i) <=> Explicit(l, i)
  BY <1>1, <1>2, <1>4 DEF Explicit
<1>6. OverwrittenBefore(m, i) <=> OverwrittenBefore(l, i)
  BY <1>2, <1>3, <1>4 DEF OverwrittenBefore
<1> QED BY <1>3, <1>5, <1>6 DEF m

\* The places of an entity are those it had, and the new one if the event is about it.
LEMMA NewPlaces ==
  ASSUME NEW l \in Seq(Entry), NEW e \in Entry, NEW x
  PROVE  /\ Of(l, x) \subseteq Of(Append(l, e), x) /\ Of(l, x) \subseteq DOMAIN l
         /\ Of(Append(l, e), x) = IF x = e.entity THEN Of(l, x) \cup {Len(l) + 1} ELSE Of(l, x)
<1> DEFINE m == Append(l, e)
<1>1. /\ Len(l) \in Nat /\ DOMAIN l = 1..Len(l) /\ DOMAIN m = 1..(Len(l) + 1)
      /\ (\A j \in DOMAIN l : m[j] = l[j]) /\ m[Len(l) + 1] = e
  BY Appended
<1> HIDE DEF m
<1>2. DOMAIN m = DOMAIN l \cup {Len(l) + 1}
  BY <1>1
<1>3. \A k \in DOMAIN l : k \in Of(m, x) <=> k \in Of(l, x)
  BY <1>1, <1>2 DEF Of
<1>4. Len(l) + 1 \in Of(m, x) <=> x = e.entity
  BY <1>1, <1>2 DEF Of
<1>5. Of(m, x) \subseteq DOMAIN l \cup {Len(l) + 1} /\ Of(l, x) \subseteq DOMAIN l
  BY <1>2 DEF Of
<1>6. Of(m, x) = IF x = e.entity THEN Of(l, x) \cup {Len(l) + 1} ELSE Of(l, x)
  <2>1. CASE x = e.entity
    BY <1>3, <1>4, <1>5, <2>1
  <2>2. CASE x # e.entity
    <3>1. \A k \in Of(m, x) : k \in Of(l, x)
      BY <1>3, <1>4, <1>5, <2>2
    <3>2. \A k \in Of(l, x) : k \in Of(m, x)
      BY <1>3, <1>5
    <3>3. Of(m, x) = Of(l, x)
      BY <3>1, <3>2
    <3> QED BY <2>2, <3>3
  <2> QED BY <2>1, <2>2
<1>7. Of(l, x) \subseteq Of(m, x)
  BY <1>3, <1>5
<1> QED BY <1>5, <1>6, <1>7 DEF m

\* An event of the device on the revision its entity has.
LEMMA DeviceAppend ==
  ASSUME NEW l \in Seq(Entry), NEW r \in [Entities -> Nat], DbOK(l, r), NEW e \in Entry,
         e.id \in DeviceEvents, e.id \notin Ids(l), e.revision = r[e.entity] + 1
  PROVE  DbOK(Append(l, e), [r EXCEPT ![e.entity] = e.revision])
<1> DEFINE m == Append(l, e)
           n == Len(l) + 1
           q == [r EXCEPT ![e.entity] = e.revision]
<1>1. /\ Len(l) \in Nat /\ DOMAIN l = 1..Len(l) /\ DOMAIN m = DOMAIN l \cup {n} /\ n \notin DOMAIN l
      /\ (\A j \in DOMAIN l : m[j] = l[j]) /\ m[n] = e /\ n \in Nat /\ \A j \in DOMAIN l : j < n /\ j \in Nat
  <2>1. /\ Len(l) \in Nat /\ DOMAIN l = 1..Len(l) /\ DOMAIN m = 1..(Len(l) + 1)
        /\ (\A j \in DOMAIN l : m[j] = l[j]) /\ m[Len(l) + 1] = e
    BY Appended
  <2> HIDE DEF m
  <2> QED BY <2>1
<1>2. \A j \in DOMAIN l : l[j] \in Entry
  BY Places
<1>3. \A j \in DOMAIN l : /\ Overwrote(m, j) <=> Overwrote(l, j)
                          /\ Explicit(m, j) <=> Explicit(l, j)
                          /\ OverwrittenBefore(m, j) <=> OverwrittenBefore(l, j)
  BY OldPlaces
<1>4. \A x : /\ Of(l, x) \subseteq Of(m, x) /\ Of(l, x) \subseteq DOMAIN l
             /\ Of(m, x) = IF x = e.entity THEN Of(l, x) \cup {n} ELSE Of(l, x)
  BY NewPlaces
<1>5. \A j \in DOMAIN l : l[j].id # e.id
  BY DEF Ids
<1>6. e.entity \in Entities /\ r[e.entity] \in Nat /\ q \in [Entities -> Nat] /\ q[e.entity] = r[e.entity] + 1
      /\ \A x \in Entities : x # e.entity => q[x] = r[x]
  BY DEF Entry
<1> HIDE DEF m, n, q
<1>7. OnceIn(m)
  BY <1>1, <1>5 DEF OnceIn, DbOK
<1>8. \/ \E k \in Of(l, e.entity) : Overwrote(l, k)
      \/ \A k \in Of(l, e.entity) : l[k].revision <= r[e.entity]
  BY <1>6 DEF DbOK, Current
<1>9. Honest(m)
  <2>1. ASSUME NEW i \in DOMAIN l, m[i].id \in DeviceEvents PROVE Explicit(m, i) \/ OverwrittenBefore(m, i)
    BY <1>1, <1>3, <2>1 DEF DbOK, Honest
  <2>2. CASE \E k \in Of(l, e.entity) : Overwrote(l, k)
    <3>1. PICK k \in Of(l, e.entity) : Overwrote(l, k)
      BY <2>2
    <3>2. k \in Of(m, m[n].entity) /\ k < n /\ Overwrote(m, k)
      BY <1>1, <1>3, <1>4, <3>1
    <3>3. OverwrittenBefore(m, n)
      BY <3>2 DEF OverwrittenBefore
    <3> QED BY <1>1, <2>1, <3>3 DEF Honest
  <2>3. CASE \A k \in Of(l, e.entity) : l[k].revision <= r[e.entity]
    <3>1. \A k \in Of(m, e.entity) : k < n => k \in Of(l, e.entity)
      BY <1>1, <1>4
    <3>2. \A k \in Of(l, e.entity) : k \in DOMAIN l /\ m[k] = l[k] /\ l[k].revision \in Nat
      BY <1>1, <1>2, <1>4 DEF Entry
    <3>3. Explicit(m, n)
      BY <1>1, <1>6, <2>3, <3>1, <3>2 DEF Explicit
    <3> QED BY <1>1, <2>1, <3>3 DEF Honest
  <2> QED BY <1>8, <2>2, <2>3
<1>10. ASSUME NEW x \in Entities
       PROVE  (\E k \in Of(m, x) : Overwrote(m, k)) \/ \A k \in Of(m, x) : m[k].revision <= q[x]
  <2>1. CASE \E k \in Of(l, x) : Overwrote(l, k)
    BY <1>3, <1>4, <2>1
  <2>2. CASE \A k \in Of(l, x) : l[k].revision <= r[x]
    <3>1. ASSUME NEW k \in Of(l, x) PROVE m[k].revision <= q[x]
      <4>1. k \in DOMAIN l /\ m[k] = l[k] /\ l[k].revision \in Nat /\ r[x] \in Nat
        BY <1>1, <1>2, <1>4 DEF Entry
      <4>2. r[x] <= q[x] /\ q[x] \in Nat
        BY <1>6, <4>1
      <4> QED BY <2>2, <4>1, <4>2
    <3> QED BY <1>1, <1>4, <1>6, <3>1
  <2> QED BY <2>1, <2>2 DEF DbOK, Current
<1> QED BY <1>7, <1>9, <1>10 DEF DbOK, Current, m, q

\* A cloud event on whatever revision was read.
LEMMA CloudAppend ==
  ASSUME NEW l \in Seq(Entry), NEW r \in [Entities -> Nat], DbOK(l, r), NEW e \in Entry,
         e.id \in CloudEvents
  PROVE  DbOK(Append(l, e), [r EXCEPT ![e.entity] = e.revision])
<1> DEFINE m == Append(l, e)
           n == Len(l) + 1
           q == [r EXCEPT ![e.entity] = e.revision]
<1>1. /\ Len(l) \in Nat /\ DOMAIN l = 1..Len(l) /\ DOMAIN m = DOMAIN l \cup {n} /\ n \notin DOMAIN l
      /\ (\A j \in DOMAIN l : m[j] = l[j]) /\ m[n] = e /\ n \in Nat /\ \A j \in DOMAIN l : j < n /\ j \in Nat
  <2>1. /\ Len(l) \in Nat /\ DOMAIN l = 1..Len(l) /\ DOMAIN m = 1..(Len(l) + 1)
        /\ (\A j \in DOMAIN l : m[j] = l[j]) /\ m[Len(l) + 1] = e
    BY Appended
  <2> HIDE DEF m
  <2> QED BY <2>1
<1>2. \A j \in DOMAIN l : l[j] \in Entry
  BY Places
<1>3. \A j \in DOMAIN l : /\ Overwrote(m, j) <=> Overwrote(l, j)
                          /\ Explicit(m, j) <=> Explicit(l, j)
                          /\ OverwrittenBefore(m, j) <=> OverwrittenBefore(l, j)
  BY OldPlaces
<1>4. \A x : /\ Of(l, x) \subseteq Of(m, x) /\ Of(l, x) \subseteq DOMAIN l
             /\ Of(m, x) = IF x = e.entity THEN Of(l, x) \cup {n} ELSE Of(l, x)
  BY NewPlaces
<1>5. e.entity \in Entities /\ e.revision \in Nat /\ q[e.entity] = e.revision /\ e.id \notin DeviceEvents
      /\ \A x \in Entities : x # e.entity => q[x] = r[x]
  BY DEF Entry
<1> HIDE DEF m, n, q
<1>6. OnceIn(m)
  BY <1>1, <1>5 DEF OnceIn, DbOK
<1>7. Honest(m)
  BY <1>1, <1>3, <1>5 DEF DbOK, Honest
<1>8. ASSUME NEW x \in Entities
      PROVE  (\E k \in Of(m, x) : Overwrote(m, k)) \/ \A k \in Of(m, x) : m[k].revision <= q[x]
  <2>1. CASE x # e.entity
    <3>1. \A k \in Of(l, x) : m[k] = l[k]
      BY <1>1, <1>4
    <3> QED BY <1>3, <1>4, <1>5, <2>1, <3>1 DEF DbOK, Current
  <2>2. CASE x = e.entity /\ \E k \in Of(l, x) : l[k].revision >= e.revision
    <3>1. PICK k \in Of(l, x) : l[k].revision >= e.revision
      BY <2>2
    <3>2. k \in Of(m, m[n].entity) /\ k < n /\ m[k].revision >= m[n].revision
      BY <1>1, <1>4, <2>2, <3>1
    <3>3. Overwrote(m, n) /\ n \in Of(m, x)
      BY <1>1, <1>4, <2>2, <3>2 DEF Overwrote
    <3> QED BY <3>3
  <2>3. CASE x = e.entity /\ \A k \in Of(l, x) : ~(l[k].revision >= e.revision)
    <3>1. \A k \in Of(l, x) : m[k] = l[k] /\ l[k].revision \in Nat
      BY <1>1, <1>2, <1>4 DEF Entry
    <3> QED BY <1>1, <1>4, <1>5, <2>3, <3>1
  <2> QED BY <2>1, <2>2, <2>3
<1> QED BY <1>6, <1>7, <1>8 DEF DbOK, Current, m, q

\* One judged mutation keeps what the transaction has written such a log; what it accepts is in it.
LEMMA JudgeKeepsDb ==
  ASSUME TypeOK, DbOK(draft.log, draft.revision), draft.accepted \subseteq Ids(draft.log), NEW e \in Mutation
  PROVE  LET db == Judge(draft, e) IN
         DbOK(db.log, db.revision) /\ db.accepted \subseteq Ids(db.log)
<1> DEFINE l == draft.log
           r == draft.revision
           new == [id |-> e.id, entity |-> e.entity, revision |-> e.base + 1]
           known == [log |-> l, revision |-> r, rows |-> draft.rows, accepted |-> draft.accepted \cup {e.id}]
           grown == IF e.projection = "creates" THEN draft.rows \cup {e.entity} ELSE draft.rows
<1>1. l \in Seq(Entry) /\ r \in [Entities -> Nat] /\ Len(l) \in Nat
  <2>1. draft.revision \in [Entities -> 0..Len(draft.log)] /\ draft.log \in Seq(Entry)
    BY DEF TypeOK
  <2>2. Len(l) \in Nat
    BY <2>1, Places
  <2> QED BY <2>1, <2>2
<1>2. new \in Entry /\ e.id \in DeviceEvents
  BY DEF Mutation, Entry, Events
<1>3. \/ Judge(draft, e) = known /\ e.id \in Ids(l)
      \/ Judge(draft, e) = draft
      \/ Judge(draft, e) = Accept(draft, e) /\ e.id \notin Ids(l) /\ e.base = r[e.entity]
  BY DEF Judge, Repeat
<1>4. Accept(draft, e) = [log |-> Append(l, new), revision |-> [r EXCEPT ![e.entity] = e.base + 1],
                          rows |-> grown, accepted |-> draft.accepted \cup {e.id}]
  BY DEF Accept
<1>5. new.id = e.id /\ new.entity = e.entity /\ new.revision = e.base + 1
  OBVIOUS
<1>6. DbOK(l, r) /\ draft.accepted \subseteq Ids(l)
  OBVIOUS
<1> HIDE DEF l, r, new
<1>7. CASE Judge(draft, e) = known /\ e.id \in Ids(l)
  BY <1>6, <1>7
<1>8. CASE Judge(draft, e) = draft
  BY <1>8
<1>9. CASE Judge(draft, e) = Accept(draft, e) /\ e.id \notin Ids(l) /\ e.base = r[e.entity]
  <2>1. DbOK(Append(l, new), [r EXCEPT ![new.entity] = new.revision])
    BY <1>1, <1>2, <1>5, <1>6, <1>9, DeviceAppend
  <2>2. Ids(Append(l, new)) = Ids(l) \cup {e.id}
    BY <1>1, <1>2, <1>5, IdsAppended
  <2> QED BY <1>4, <1>5, <1>6, <1>9, <2>1, <2>2
<1> QED BY <1>3, <1>7, <1>8, <1>9

-----------------------------------------------------------------------------
(* The log and the open transaction *)

LEMMA LogStarts == Init => LogOK /\ DraftOK
  BY DEF Init, LogOK, DraftOK, DbOK, OnceIn, Honest, Current, Of

LEMMA LogStep == TypeOK /\ LogOK /\ DraftOK /\ [Next]_vars => LogOK' /\ DraftOK'
<1> SUFFICES ASSUME TypeOK, LogOK, DraftOK, [Next]_vars PROVE LogOK' /\ DraftOK'
  OBVIOUS
<1> USE DEF LogOK, DraftOK
<1>1. ASSUME log' = log, revision' = revision, draft' = draft, writer' = writer PROVE LogOK' /\ DraftOK'
  BY <1>1
<1>2. ASSUME NEW w \in CloudEvents, MakeRow(w) \/ ReadRevision(w) PROVE LogOK' /\ DraftOK'
  BY <1>1, <1>2 DEF MakeRow, ReadRevision, tx
<1>3. ASSUME NEW w \in CloudEvents, WriteEvent(w) PROVE LogOK' /\ DraftOK'
  <2> DEFINE e == [id |-> w, entity |-> call[w].entity, revision |-> call[w].base + 1]
  <2>1. log' = Append(log, e) /\ revision' = [revision EXCEPT ![e.entity] = e.revision] /\ writer' = NoSync
    BY <1>3 DEF WriteEvent, tx
  <2>2. /\ e \in Entry /\ e.id = w /\ log \in Seq(Entry) /\ revision \in [Entities -> Nat]
    <3>1. call[w].entity \in Entities /\ call[w].base \in 0..Len(log) /\ Len(log) \in Nat
          /\ log \in Seq(Entry) /\ revision \in [Entities -> 0..Len(log)]
      BY Places DEF TypeOK
    <3> QED BY <3>1 DEF Entry, Events
  <2> HIDE DEF e
  <2>3. DbOK(log', revision')
    BY <2>1, <2>2, CloudAppend
  <2> QED BY <2>1, <2>3
<1>4. ASSUME NEW e \in DeviceEvents, Enqueue(e) PROVE LogOK' /\ DraftOK'
  BY <1>1, <1>4 DEF Enqueue, cloud, tx
<1>5. ASSUME NEW s \in Syncs, Begin(s) \/ Acknowledge(s) \/ Apply(s) \/ Drop(s) PROVE LogOK' /\ DraftOK'
  BY <1>1, <1>5 DEF Begin, Acknowledge, Apply, Drop, cloud, tx
<1>6. ASSUME NEW s \in Syncs, Open(s) PROVE LogOK' /\ DraftOK'
  BY <1>6 DEF Open, cloud
<1>7. ASSUME NEW s \in Syncs, JudgeNext(s) PROVE LogOK' /\ DraftOK'
  <2>1. PICK k \in left : draft' = Judge(draft, outbox[k])
    BY <1>7 DEF JudgeNext
  <2>2. outbox[k] \in Mutation /\ writer # NoSync
    BY LeftIsOutbox
  <2>3. DbOK(draft'.log, draft'.revision) /\ draft'.accepted \subseteq Ids(draft'.log)
    BY <2>1, <2>2, JudgeKeepsDb
  <2> QED BY <1>7, <2>3 DEF JudgeNext, cloud
<1>8. ASSUME NEW s \in Syncs, Commit(s) PROVE LogOK' /\ DraftOK'
  BY <1>8 DEF Commit, Close
<1>9. ASSUME NEW s \in Syncs, HandlerStops(s) \/ Fail(s) PROVE LogOK' /\ DraftOK'
  BY <1>1, <1>9 DEF HandlerStops, Fail, Close, cloud, tx
<1>10. ASSUME GiveUp PROVE LogOK' /\ DraftOK'
  BY <1>1, <1>10 DEF GiveUp, cloud, tx
<1>11. ASSUME UNCHANGED vars PROVE LogOK' /\ DraftOK'
  BY <1>1, <1>11 DEF vars, cloud, tx
<1> QED BY <1>2, <1>3, <1>4, <1>5, <1>6, <1>7, <1>8, <1>9, <1>10, <1>11 DEF Next

-----------------------------------------------------------------------------
(* What was accepted *)

LEMMA KnownStarts == Init => KnownOK
  BY DEF Init, KnownOK, NoAnswer

\* The log only grows.
LEMMA LogGrows == TypeOK /\ DraftBegins /\ [Next]_vars => Extends(log, log')
<1> SUFFICES ASSUME TypeOK, DraftBegins, [Next]_vars PROVE Extends(log, log')
  OBVIOUS
<1>1. Len(log) \in Nat /\ log \in Seq(Entry)
  BY Places DEF TypeOK
<1>2. ASSUME log' = log PROVE Extends(log, log')
  BY <1>1, <1>2 DEF Extends
<1>3. ASSUME NEW w \in CloudEvents, WriteEvent(w) PROVE Extends(log, log')
  <2> DEFINE e == [id |-> w, entity |-> call[w].entity, revision |-> call[w].base + 1]
  <2>1. log' = Append(log, e)
    BY <1>3 DEF WriteEvent
  <2>2. call[w].entity \in Entities /\ call[w].base \in Nat
    BY <1>1 DEF TypeOK
  <2>3. e \in Entry
    BY <2>2 DEF Entry, Events
  <2> HIDE DEF e
  <2>4. Len(log') = Len(log) + 1 /\ \A i \in DOMAIN log : log'[i] = log[i]
    BY <1>1, <2>1, <2>3, Appended
  <2> QED BY <1>1, <2>4 DEF Extends
<1>4. ASSUME NEW s \in Syncs, Commit(s) PROVE Extends(log, log')
  BY <1>4 DEF Commit, DraftBegins
<1>5. ASSUME NEW w \in CloudEvents, MakeRow(w) \/ ReadRevision(w) PROVE Extends(log, log')
  BY <1>2, <1>5 DEF MakeRow, ReadRevision
<1>6. ASSUME NEW e \in DeviceEvents, Enqueue(e) PROVE Extends(log, log')
  BY <1>2, <1>6 DEF Enqueue, cloud
<1>7. ASSUME NEW s \in Syncs, \/ Begin(s) \/ Open(s) \/ JudgeNext(s)
                             \/ Acknowledge(s) \/ Apply(s) \/ Drop(s) \/ HandlerStops(s) \/ Fail(s)
      PROVE  Extends(log, log')
  BY <1>2, <1>7 DEF Begin, Open, JudgeNext, Acknowledge, Apply, Drop, HandlerStops, Fail, cloud
<1>8. ASSUME GiveUp \/ UNCHANGED vars PROVE Extends(log, log')
  BY <1>2, <1>8 DEF GiveUp, vars, cloud
<1> QED BY <1>3, <1>4, <1>5, <1>6, <1>7, <1>8 DEF Next

LEMMA KnownStep == TypeOK /\ TypeOK' /\ DraftBegins /\ DraftOK /\ KnownOK /\ [Next]_vars => KnownOK'
<1> SUFFICES ASSUME TypeOK, TypeOK', DraftBegins, DraftOK, KnownOK, [Next]_vars PROVE KnownOK'
  OBVIOUS
<1>1. Ids(log) \subseteq Ids(log')
  BY LogGrows, ExtendsIds DEF TypeOK
<1>2. ASSUME acknowledged' = acknowledged, \A s \in Syncs : answer'[s].accepted \in {{}, answer[s].accepted}
      PROVE  KnownOK'
  BY <1>1, <1>2 DEF KnownOK
<1>3. ASSUME NEW w \in CloudEvents, MakeRow(w) \/ ReadRevision(w) \/ WriteEvent(w) PROVE KnownOK'
  BY <1>2, <1>3 DEF MakeRow, ReadRevision, WriteEvent, device, wire
<1>4. ASSUME NEW e \in DeviceEvents, Enqueue(e) PROVE KnownOK'
  BY <1>2, <1>4 DEF Enqueue, wire
<1>5. ASSUME NEW s \in Syncs, Begin(s) \/ Open(s) \/ JudgeNext(s) PROVE KnownOK'
  BY <1>2, <1>5 DEF Begin, Open, JudgeNext, device, wire
<1>6. ASSUME NEW s \in Syncs, Free(s), acknowledged' = acknowledged PROVE KnownOK'
  <2>1. \A t \in Syncs : answer'[t].accepted \in {{}, answer[t].accepted}
    BY <1>6 DEF Free, NoAnswer, TypeOK
  <2> QED BY <1>2, <1>6, <2>1
<1>7. ASSUME NEW s \in Syncs, Apply(s) \/ Drop(s) \/ HandlerStops(s) \/ Fail(s) PROVE KnownOK'
  BY <1>6, <1>7 DEF Apply, Drop, HandlerStops, Fail, device
<1>8. ASSUME NEW s \in Syncs, Commit(s) PROVE KnownOK'
  <2>1. \A t \in Syncs : answer'[t].accepted = IF t = s THEN draft.accepted ELSE answer[t].accepted
    BY <1>8 DEF Commit, TypeOK
  <2>2. draft.accepted \subseteq Ids(log')
    BY <1>8 DEF Commit, DraftOK
  <2> QED BY <1>1, <1>8, <2>1, <2>2 DEF Commit, device, KnownOK
<1>9. ASSUME NEW s \in Syncs, Acknowledge(s) PROVE KnownOK'
  BY <1>9 DEF Acknowledge, Settled, cloud, KnownOK
<1>10. ASSUME GiveUp \/ UNCHANGED vars PROVE KnownOK'
  BY <1>2, <1>10 DEF GiveUp, vars, device, wire
<1> QED BY <1>3, <1>4, <1>5, <1>7, <1>8, <1>9, <1>10 DEF Next

-----------------------------------------------------------------------------
(* The cursor *)

LEMMA CursorStarts == Init => CursorOK /\ ReceivedUpToCursor
  BY DEF Init, CursorOK, ReceivedUpToCursor

\* A page and what is cut from it are all from one cursor to the other.
LEMMA PageAndCut ==
  ASSUME NEW c \in Nat, NEW n \in Nat
  PROVE  c+1..n \subseteq Page(c, n) \cup {i \in After(c, n) : i > c + PageLimit}
  BY DEF Page, After

LEMMA CursorStep == TypeOK /\ DraftBegins /\ CursorOK /\ ReceivedUpToCursor /\ [Next]_vars
                      => CursorOK' /\ ReceivedUpToCursor'
<1> SUFFICES ASSUME TypeOK, DraftBegins, CursorOK, ReceivedUpToCursor, [Next]_vars
             PROVE  CursorOK' /\ ReceivedUpToCursor'
  OBVIOUS
<1>1. cursor \in Nat /\ Len(log) \in Nat /\ cursor <= Len(log)
  BY Places DEF TypeOK
<1> DEFINE SameWire == sync' = sync /\ request' = request /\ answer' = answer /\ mine' \in {mine, NoSync}
           SameDevice == cursor' = cursor /\ received' = received /\ cut' = cut
<1>2. ASSUME SameDevice PROVE ReceivedUpToCursor'
  BY <1>2 DEF ReceivedUpToCursor
<1>3. ASSUME SameWire, SameDevice PROVE CursorOK' /\ ReceivedUpToCursor'
  BY <1>2, <1>3 DEF CursorOK, Page, After
<1>4. ASSUME NEW w \in CloudEvents, MakeRow(w) \/ ReadRevision(w) \/ WriteEvent(w) PROVE CursorOK' /\ ReceivedUpToCursor'
  BY <1>3, <1>4 DEF MakeRow, ReadRevision, WriteEvent, device, wire
<1>5. ASSUME NEW e \in DeviceEvents, Enqueue(e) PROVE CursorOK' /\ ReceivedUpToCursor'
  BY <1>3, <1>5 DEF Enqueue, wire
<1>6. ASSUME NEW s \in Syncs, Open(s) \/ JudgeNext(s) PROVE CursorOK' /\ ReceivedUpToCursor'
  BY <1>3, <1>6 DEF Open, JudgeNext, device, wire
<1>7. ASSUME NEW s \in Syncs, Begin(s) PROVE CursorOK' /\ ReceivedUpToCursor'
  <2>1. mine' = s /\ sync'[s] = "sent" /\ request'[s].cursor = cursor /\ cursor' = cursor
    BY <1>7 DEF Begin, device, TypeOK
  <2> QED BY <1>2, <1>7, <2>1 DEF Begin, device, CursorOK
<1>8. ASSUME NEW s \in Syncs, Commit(s) PROVE CursorOK' /\ ReceivedUpToCursor'
  <2>1. SameDevice /\ mine' = mine /\ request' = request
    BY <1>8 DEF Commit, device
  <2>2. CASE mine = s
    <3>1. /\ answer'[s].cursor = Len(draft.log)
          /\ answer'[s].events = Page(request[s].cursor, Len(draft.log))
      BY <1>8 DEF Commit, TypeOK
    <3>2. Len(log) <= Len(draft.log) /\ Len(draft.log) \in Nat
      BY <1>8, Places DEF Commit, DraftBegins, Extends, TypeOK
    <3>3. request[s].cursor = cursor
      BY <1>8, <2>2 DEF CursorOK
    <3> QED BY <1>1, <1>2, <2>1, <2>2, <3>1, <3>2, <3>3 DEF CursorOK, Page, After
  <2>3. CASE mine # s
    <3>1. mine # NoSync => sync'[mine] = sync[mine] /\ answer'[mine] = answer[mine]
      BY <1>8, <2>3 DEF Commit, TypeOK
    <3> QED BY <1>2, <2>1, <2>3, <3>1 DEF CursorOK, Page, After
  <2> QED BY <2>2, <2>3
<1>9. ASSUME NEW s \in Syncs, Acknowledge(s) PROVE CursorOK' /\ ReceivedUpToCursor'
  <2>1. SameDevice /\ mine' = mine /\ request' = request /\ answer' = answer /\ sync[mine] = "answered"
    BY <1>9 DEF Acknowledge
  <2> QED BY <1>2, <2>1 DEF CursorOK, Page, After
<1>10. ASSUME NEW s \in Syncs, Apply(s) PROVE CursorOK' /\ ReceivedUpToCursor'
  <2> DEFINE n == answer[s].cursor
  <2>1. mine' = NoSync
    BY <1>10 DEF Apply, Free
  <2>2. /\ request[s].cursor = cursor /\ cursor <= n
        /\ answer[s].events = Page(cursor, n)
    BY <1>10 DEF Apply, CursorOK
  <2>3. n \in Nat
    BY <1>1 DEF TypeOK
  <2>4. /\ received' = received \cup Page(cursor, n) /\ cursor' = n
        /\ cut' = cut \cup {i \in After(cursor, n) : i > cursor + PageLimit}
    BY <1>10, <2>2 DEF Apply
  <2> HIDE DEF n
  <2>5. 1..n = 1..cursor \cup (cursor+1)..n
    BY <1>1, <2>2, <2>3
  <2>6. (cursor+1)..n \subseteq Page(cursor, n) \cup {i \in After(cursor, n) : i > cursor + PageLimit}
    BY <1>1, <2>3, PageAndCut
  <2>7. 1..n \subseteq received' \cup cut'
    BY <2>4, <2>5, <2>6 DEF ReceivedUpToCursor
  <2> QED BY <2>1, <2>4, <2>7 DEF CursorOK, ReceivedUpToCursor
<1>11. ASSUME NEW s \in Syncs, Drop(s) \/ HandlerStops(s) \/ Fail(s) PROVE CursorOK' /\ ReceivedUpToCursor'
  <2>1. SameDevice /\ Free(s)
    BY <1>11 DEF Drop, HandlerStops, Fail, device
  <2>2. mine' # NoSync => mine' = mine /\ mine # s
    BY <2>1 DEF Free
  <2>3. mine' # NoSync => /\ sync'[mine] = sync[mine] /\ request'[mine] = request[mine]
                          /\ answer'[mine] = answer[mine]
    BY <2>1, <2>2 DEF Free, TypeOK
  <2> QED BY <1>2, <2>1, <2>2, <2>3 DEF CursorOK, Page, After
<1>12. ASSUME GiveUp \/ UNCHANGED vars PROVE CursorOK' /\ ReceivedUpToCursor'
  BY <1>3, <1>12 DEF GiveUp, vars, device, wire
<1> QED BY <1>4, <1>5, <1>6, <1>7, <1>8, <1>9, <1>10, <1>11, <1>12 DEF Next

-----------------------------------------------------------------------------
(* Theorems *)

LEMMA SyncInvHolds == Spec => []SyncInv
<1>1. Init => SyncInv
  BY LogStarts, KnownStarts, CursorStarts DEF SyncInv
<1>2. TypeOK /\ TypeOK' /\ DraftBegins /\ SyncInv /\ [Next]_vars => SyncInv'
  BY LogStep, KnownStep, CursorStep DEF SyncInv
<1> QED BY <1>1, <1>2, TypedHolds, PTL DEF Spec

\* However often an event of the device is sent, whichever answers are lost, the log has it once,
\* and the device stops sending it only when the log has it.
THEOREM AcknowledgedEventsAreInTheLog == Spec => []AcknowledgedIsInLog
<1>1. LogOK /\ KnownOK => AcknowledgedIsInLog
  BY DEF LogOK, DbOK, OnceIn, KnownOK, AcknowledgedIsInLog
<1> QED BY <1>1, SyncInvHolds, PTL DEF SyncInv

\* The device skips no event but those a full page leaves out.
THEOREM NothingIsSkipped == Spec => []ReceivedUpToCursor
  BY SyncInvHolds, PTL DEF SyncInv

\* An event of the device goes on top of what its base includes, unless a cloud event, written on a
\* revision read earlier, had set the revision back.
THEOREM DeviceConflictsAreExplicit == Spec => []ConflictsAreExplicit
<1>1. LogOK => ConflictsAreExplicit
  BY DEF LogOK, DbOK, Honest, OverwrittenBefore, ConflictsAreExplicit
<1> QED BY <1>1, SyncInvHolds, PTL DEF SyncInv

\* Nothing is taken out of the log or changed in it: what a device was told of it stays true.
THEOREM LogIsAppendOnly == Spec => [][Extends(log, log')]_log
<1>1. TypeOK /\ DraftBegins /\ [Next]_vars => [Extends(log, log')]_log
  BY LogGrows
<1> QED BY <1>1, TypedHolds, PTL DEF Spec

-----------------------------------------------------------------------------
(* Refinement of LogContract *)

\* The revision table has, of each entity, the revision of its last event.
Latest(l, r) ==
    \A x \in Entities :
        \/ Of(l, x) = {} /\ r[x] = 0
        \/ \E k \in Of(l, x) : (\A j \in Of(l, x) : j <= k) /\ r[x] = l[k].revision

TablesAgree == Latest(log, revision)

DraftAgrees == writer # NoSync => Latest(draft.log, draft.revision)

\* What the open transaction adds are events of the device as LogContract has them.
DraftIsNew ==
    writer # NoSync => \A i \in DOMAIN draft.log \ DOMAIN log : Contract!FromDevice(draft.log, i)

\* An event of the cloud is in the log only once its call is done.
CloudOnce == \A w \in CloudEvents : w \in Ids(log) => call[w].at = "done"

TakenOK == TablesAgree /\ DraftAgrees /\ DraftIsNew /\ CloudOnce

\* The places of a log after one more event, as numbers.
LEMMA PlacesAfter ==
  ASSUME NEW l \in Seq(Entry), NEW e \in Entry
  PROVE  LET m == Append(l, e)
             n == Len(l) + 1 IN
         /\ n \in Nat /\ n \notin DOMAIN l /\ DOMAIN m = DOMAIN l \cup {n}
         /\ \A j \in DOMAIN l : j \in Nat /\ j < n /\ m[j] = l[j]
         /\ m[n] = e
<1> DEFINE m == Append(l, e)
<1>1. /\ Len(l) \in Nat /\ DOMAIN l = 1..Len(l) /\ DOMAIN m = 1..(Len(l) + 1)
      /\ (\A j \in DOMAIN l : m[j] = l[j]) /\ m[Len(l) + 1] = e
  BY Appended
<1> HIDE DEF m
<1> QED BY <1>1 DEF m

\* What LogContract says of a place is about the places before it.
LEMMA FromDeviceStays ==
  ASSUME NEW l \in Seq(Entry), NEW e \in Entry, NEW i \in DOMAIN l, Contract!FromDevice(l, i)
  PROVE  Contract!FromDevice(Append(l, e), i)
<1> DEFINE m == Append(l, e)
           n == Len(l) + 1
<1>1. /\ n \in Nat /\ n \notin DOMAIN l /\ DOMAIN m = DOMAIN l \cup {n}
      /\ \A j \in DOMAIN l : j \in Nat /\ j < n /\ m[j] = l[j]
  BY PlacesAfter
<1> HIDE DEF m, n
<1>2. \A k \in DOMAIN m : k < i => k \in DOMAIN l
  BY <1>1
<1>3. Contract!Before(m, i) = Contract!Before(l, i)
  BY <1>1, <1>2 DEF Contract!Before
<1>4. \A k \in Contract!Before(l, i) : m[k] = l[k]
  BY <1>1 DEF Contract!Before
<1>5. Contract!Follows(m, i)
  BY <1>1, <1>3, <1>4 DEF Contract!FromDevice, Contract!Follows
<1>6. Contract!New(m, i)
  BY <1>1, <1>2 DEF Contract!FromDevice, Contract!New
<1> QED BY <1>1, <1>5, <1>6 DEF Contract!FromDevice, m

\* A new event on the revision the table has follows the last one of its entity.
LEMMA FromDeviceAppended ==
  ASSUME NEW l \in Seq(Entry), NEW r, Latest(l, r), NEW e \in Entry,
         e.id \in DeviceEvents, e.id \notin Ids(l), e.revision = r[e.entity] + 1
  PROVE  Contract!FromDevice(Append(l, e), Len(l) + 1)
<1> DEFINE m == Append(l, e)
           n == Len(l) + 1
<1>1. /\ n \in Nat /\ n \notin DOMAIN l /\ DOMAIN m = DOMAIN l \cup {n}
      /\ \A j \in DOMAIN l : j \in Nat /\ j < n /\ m[j] = l[j]
      /\ m[n] = e
  BY PlacesAfter
<1> HIDE DEF m, n
<1>2. e.entity \in Entities
  BY DEF Entry
<1>3. Contract!Before(m, n) = Of(l, e.entity)
  BY <1>1 DEF Contract!Before, Of
<1>4. \A k \in Of(l, e.entity) : m[k] = l[k]
  BY <1>1 DEF Of
<1>5. Contract!Follows(m, n)
  <2>1. CASE Of(l, e.entity) = {} /\ r[e.entity] = 0
    BY <1>1, <1>3, <2>1 DEF Contract!Follows
  <2>2. CASE \E k \in Of(l, e.entity) : (\A j \in Of(l, e.entity) : j <= k) /\ r[e.entity] = l[k].revision
    BY <1>1, <1>3, <1>4, <2>2 DEF Contract!Follows
  <2> QED BY <1>2, <2>1, <2>2 DEF Latest
<1>6. Contract!New(m, n)
  BY <1>1 DEF Contract!New, Ids
<1> QED BY <1>1, <1>5, <1>6 DEF Contract!FromDevice, m, n

\* The tables go on agreeing when an event is added with its revision, whatever it is.
LEMMA LatestAppended ==
  ASSUME NEW l \in Seq(Entry), NEW r \in [Entities -> Nat], Latest(l, r), NEW e \in Entry
  PROVE  Latest(Append(l, e), [r EXCEPT ![e.entity] = e.revision])
<1> DEFINE m == Append(l, e)
           n == Len(l) + 1
           q == [r EXCEPT ![e.entity] = e.revision]
<1>1. /\ n \in Nat /\ n \notin DOMAIN l /\ DOMAIN m = DOMAIN l \cup {n}
      /\ \A j \in DOMAIN l : j \in Nat /\ j < n /\ m[j] = l[j]
      /\ m[n] = e
  BY PlacesAfter
<1>2. \A x : /\ Of(l, x) \subseteq DOMAIN l
             /\ Of(m, x) = IF x = e.entity THEN Of(l, x) \cup {n} ELSE Of(l, x)
  BY NewPlaces
<1>3. q[e.entity] = e.revision /\ \A x \in Entities : x # e.entity => q[x] = r[x]
  BY DEF Entry
<1> HIDE DEF m, n, q
<1>4. ASSUME NEW x \in Entities
      PROVE  \/ Of(m, x) = {} /\ q[x] = 0
             \/ \E k \in Of(m, x) : (\A j \in Of(m, x) : j <= k) /\ q[x] = m[k].revision
  <2>1. CASE x = e.entity
    <3>1. n \in Of(m, x) /\ \A j \in Of(m, x) : j <= n
      BY <1>1, <1>2, <2>1
    <3> QED BY <1>1, <1>3, <2>1, <3>1
  <2>2. CASE x # e.entity
    <3>1. Of(m, x) = Of(l, x) /\ q[x] = r[x] /\ \A k \in Of(l, x) : m[k] = l[k]
      BY <1>1, <1>2, <1>3, <2>2
    <3> QED BY <3>1 DEF Latest
  <2> QED BY <2>1, <2>2
<1> QED BY <1>4 DEF Latest, m, q

\* One judged event keeps the transaction's tables in step, and adds an event as
\* LogContract has it or none.
LEMMA JudgeKeepsTaken ==
  ASSUME TypeOK, DraftBegins, DraftAgrees, DraftIsNew, writer # NoSync, NEW e \in Mutation
  PROVE  LET db == Judge(draft, e) IN
         /\ Latest(db.log, db.revision)
         /\ \A i \in DOMAIN db.log \ DOMAIN log : Contract!FromDevice(db.log, i)
<1> DEFINE l == draft.log
           r == draft.revision
           new == [id |-> e.id, entity |-> e.entity, revision |-> e.base + 1]
<1>1. l \in Seq(Entry) /\ r \in [Entities -> Nat]
  <2>1. draft.revision \in [Entities -> 0..Len(draft.log)] /\ draft.log \in Seq(Entry)
    BY DEF TypeOK
  <2>2. Len(l) \in Nat
    BY <2>1, Places
  <2> QED BY <2>1, <2>2
<1>2. new \in Entry /\ new.id \in DeviceEvents /\ new.id = e.id /\ new.entity = e.entity /\ new.revision = e.base + 1
  BY DEF Mutation, Entry, Events
<1>3. \/ Judge(draft, e).log = l /\ Judge(draft, e).revision = r
      \/ /\ Judge(draft, e).log = Append(l, new) /\ e.id \notin Ids(l) /\ e.base = r[e.entity]
         /\ Judge(draft, e).revision = [r EXCEPT ![e.entity] = e.base + 1]
  BY DEF Judge, Repeat, Accept
<1>4. Latest(l, r) /\ \A i \in DOMAIN l \ DOMAIN log : Contract!FromDevice(l, i)
  BY DEF DraftAgrees, DraftIsNew
<1>5. DOMAIN log \subseteq DOMAIN l
  BY ExtendsIds DEF DraftBegins, TypeOK
<1> HIDE DEF l, r, new
<1>6. CASE Judge(draft, e).log = l /\ Judge(draft, e).revision = r
  BY <1>4, <1>6
<1>7. CASE /\ Judge(draft, e).log = Append(l, new) /\ e.id \notin Ids(l) /\ e.base = r[e.entity]
           /\ Judge(draft, e).revision = [r EXCEPT ![e.entity] = e.base + 1]
  <2>1. Latest(Append(l, new), [r EXCEPT ![new.entity] = new.revision])
    BY <1>1, <1>2, <1>4, LatestAppended
  <2>2. Contract!FromDevice(Append(l, new), Len(l) + 1)
    BY <1>1, <1>2, <1>4, <1>7, FromDeviceAppended
  <2>3. \A i \in DOMAIN l \ DOMAIN log : Contract!FromDevice(Append(l, new), i)
    BY <1>1, <1>2, <1>4, FromDeviceStays
  <2>4. DOMAIN Append(l, new) = DOMAIN l \cup {Len(l) + 1}
    BY <1>1, <1>2, PlacesAfter
  <2> QED BY <1>2, <1>7, <2>1, <2>2, <2>3, <2>4
<1> QED BY <1>3, <1>6, <1>7

LEMMA TakenStarts == Init => TakenOK
  BY DEF Init, TakenOK, TablesAgree, DraftAgrees, DraftIsNew, CloudOnce, Latest, Of, Ids

LEMMA TakenStep == TypeOK /\ DraftBegins /\ TakenOK /\ [Next]_vars => TakenOK'
<1> SUFFICES ASSUME TypeOK, DraftBegins, TakenOK, [Next]_vars PROVE TakenOK'
  OBVIOUS
<1> USE DEF TakenOK
<1>0. /\ log \in Seq(Entry) /\ Len(log) \in Nat /\ revision \in [Entities -> Nat]
      /\ call \in [CloudEvents -> [at : {"none", "made", "read", "done"}, entity : Entities, base : 0..Len(log)]]
  <2>1. log \in Seq(Entry) /\ revision \in [Entities -> 0..Len(log)]
    BY DEF TypeOK
  <2>2. Len(log) \in Nat
    BY <2>1, Places
  <2> QED BY <2>1, <2>2 DEF TypeOK
<1>1. ASSUME UNCHANGED <<log, revision, call>> PROVE TablesAgree' /\ CloudOnce'
  BY <1>1 DEF TablesAgree, CloudOnce
<1>2. ASSUME UNCHANGED <<log, tx>> PROVE DraftAgrees' /\ DraftIsNew'
  BY <1>2 DEF DraftAgrees, DraftIsNew, tx
<1>3. ASSUME writer' = NoSync PROVE DraftAgrees' /\ DraftIsNew'
  BY <1>3 DEF DraftAgrees, DraftIsNew
<1>4. ASSUME NEW w \in CloudEvents, MakeRow(w) \/ ReadRevision(w) PROVE TakenOK'
  <2>1. TablesAgree'
    BY <1>4 DEF MakeRow, ReadRevision, TablesAgree
  <2>2. CloudOnce'
    BY <1>0, <1>4 DEF MakeRow, ReadRevision, CloudOnce
  <2> QED BY <1>2, <1>4, <2>1, <2>2 DEF MakeRow, ReadRevision
<1>5. ASSUME NEW w \in CloudEvents, WriteEvent(w) PROVE TakenOK'
  <2> DEFINE e == [id |-> w, entity |-> call[w].entity, revision |-> call[w].base + 1]
  <2>1. log' = Append(log, e) /\ revision' = [revision EXCEPT ![e.entity] = e.revision] /\ writer' = NoSync
    BY <1>5 DEF WriteEvent, tx
  <2>2. e \in Entry /\ e.id = w
    BY <1>0 DEF Entry, Events
  <2>3. call'[w].at = "done" /\ \A v \in CloudEvents : v # w => call'[v] = call[v]
    BY <1>0, <1>5 DEF WriteEvent
  <2> HIDE DEF e
  <2>4. TablesAgree'
    BY <1>0, <2>1, <2>2, LatestAppended DEF TablesAgree
  <2>5. Ids(log') = Ids(log) \cup {w}
    BY <1>0, <2>1, <2>2, IdsAppended
  <2>6. CloudOnce'
    BY <2>3, <2>5 DEF CloudOnce
  <2> QED BY <1>3, <2>1, <2>4, <2>6
<1>6. ASSUME NEW e \in DeviceEvents, Enqueue(e) PROVE TakenOK'
  BY <1>1, <1>2, <1>6 DEF Enqueue, cloud
<1>7. ASSUME NEW s \in Syncs, Begin(s) \/ Acknowledge(s) \/ Apply(s) \/ Drop(s) PROVE TakenOK'
  BY <1>1, <1>2, <1>7 DEF Begin, Acknowledge, Apply, Drop, cloud
<1>8. ASSUME NEW s \in Syncs, Open(s) PROVE TakenOK'
  <2>1. draft'.log = log /\ draft'.revision = revision /\ log' = log
    BY <1>8 DEF Open, cloud
  <2>2. DraftAgrees' /\ DraftIsNew'
    BY <2>1 DEF DraftAgrees, DraftIsNew, TablesAgree
  <2> QED BY <1>1, <1>8, <2>2 DEF Open, cloud
<1>9. ASSUME NEW s \in Syncs, JudgeNext(s) PROVE TakenOK'
  <2>1. PICK k \in left : draft' = Judge(draft, outbox[k])
    BY <1>9 DEF JudgeNext
  <2>2. outbox[k] \in Mutation /\ writer # NoSync
    BY LeftIsOutbox
  <2>3. /\ Latest(draft'.log, draft'.revision)
        /\ \A i \in DOMAIN draft'.log \ DOMAIN log : Contract!FromDevice(draft'.log, i)
    BY <2>1, <2>2, JudgeKeepsTaken
  <2>4. log' = log /\ DraftAgrees' /\ DraftIsNew'
    BY <1>9, <2>3 DEF JudgeNext, cloud, DraftAgrees, DraftIsNew
  <2> QED BY <1>1, <1>9, <2>4 DEF JudgeNext, cloud
<1>10. ASSUME NEW s \in Syncs, Commit(s) PROVE TakenOK'
  <2>1. log' = draft.log /\ revision' = draft.revision /\ writer' = NoSync /\ call' = call /\ writer # NoSync
    BY <1>10 DEF Commit, Close
  <2>2. TablesAgree'
    BY <2>1 DEF TablesAgree, DraftAgrees
  <2>3. \A i \in DOMAIN log' : (i \in DOMAIN log /\ log'[i] = log[i]) \/ log'[i].id \in DeviceEvents
    BY <2>1 DEF DraftBegins, Extends, DraftIsNew, Contract!FromDevice
  <2>4. \A w \in CloudEvents : w \in Ids(log') => w \in Ids(log)
    BY <2>3 DEF Ids
  <2>5. CloudOnce'
    BY <2>1, <2>4 DEF CloudOnce
  <2> QED BY <1>3, <2>1, <2>2, <2>5
<1>11. ASSUME NEW s \in Syncs, HandlerStops(s) \/ Fail(s) PROVE TakenOK'
  <2>1. writer' = NoSync \/ UNCHANGED tx
    BY <1>11 DEF HandlerStops, Fail, Close
  <2> QED BY <1>1, <1>2, <1>3, <1>11, <2>1 DEF HandlerStops, Fail, cloud
<1>12. ASSUME GiveUp \/ UNCHANGED vars PROVE TakenOK'
  BY <1>1, <1>2, <1>12 DEF GiveUp, vars, cloud
<1> QED BY <1>4, <1>5, <1>6, <1>7, <1>8, <1>9, <1>10, <1>11, <1>12 DEF Next

\* The initial states map to initial states of the contract.
LEMMA InitContract == Init => Contract!Init
  BY DEF Init, Contract!Init

\* An event of the cloud is new, and the only one its step adds.
LEMMA WriteContract ==
  ASSUME TypeOK, CloudOnce, NEW w \in CloudEvents, WriteEvent(w)
  PROVE  Contract!Write
<1> DEFINE e == [id |-> w, entity |-> call[w].entity, revision |-> call[w].base + 1]
<1>1. log' = Append(log, e) /\ UNCHANGED <<acknowledged, received, cursor>>
  BY DEF WriteEvent, device
<1>2. log \in Seq(Entry) /\ Entry = Contract!Entry
  BY DEF TypeOK, Entry, Contract!Entry, Events
<1>3. e \in Entry /\ e.id = w
  <2>1. call[w].entity \in Entities /\ call[w].base \in 0..Len(log) /\ Len(log) \in Nat
    BY <1>2, Places DEF TypeOK
  <2> QED BY <2>1 DEF Entry, Events
<1>4. w \notin Ids(log)
  BY DEF WriteEvent, CloudOnce
<1> HIDE DEF e
<1>5. /\ Len(log) \in Nat /\ DOMAIN log = 1..Len(log) /\ Len(log') = Len(log) + 1
      /\ (\A j \in DOMAIN log : log'[j] = log[j]) /\ log'[Len(log')] = e
      /\ log' \in Seq(Entry) /\ DOMAIN log' = 1..Len(log')
  BY <1>1, <1>2, <1>3, Appended
<1>6. Contract!Grown
  BY <1>2, <1>5 DEF Contract!Grown
<1>7. Contract!New(log', Len(log'))
  <2>1. \A k \in DOMAIN log' : k < Len(log') => k \in DOMAIN log
    BY <1>5
  <2> QED BY <1>3, <1>4, <1>5, <2>1 DEF Contract!New, Ids
<1> QED BY <1>1, <1>3, <1>5, <1>6, <1>7 DEF Contract!Write

\* A commit adds what the transaction took, or nothing.
LEMMA CommitContract ==
  ASSUME TypeOK, DraftBegins, DraftIsNew, NEW s \in Syncs, Commit(s)
  PROVE  Contract!Take
<1>1. log' = draft.log /\ writer # NoSync /\ UNCHANGED <<acknowledged, received, cursor>>
  BY DEF Commit, device
<1>2. draft.log \in Seq(Entry) /\ Entry = Contract!Entry
  BY DEF TypeOK, Entry, Contract!Entry, Events
<1>3. Contract!Grown
  BY <1>1, <1>2 DEF Contract!Grown, DraftBegins, Extends
<1> QED BY <1>1, <1>3 DEF Contract!Take, DraftIsNew

\* An answer is read only by the runtime that waits for it, so its page begins at the
\* cursor the device has, and no answer sets the cursor back.
LEMMA ApplyContract ==
  ASSUME TypeOK, CursorOK, NEW s \in Syncs, Apply(s)
  PROVE  Contract!Read
<1>1. /\ mine = s /\ sync[s] = "acknowledged" /\ mine # NoSync
      /\ received' = received \cup answer[s].events /\ cursor' = answer[s].cursor
      /\ UNCHANGED <<log, acknowledged>>
  BY DEF Apply, cloud
<1>2. cursor <= answer[s].cursor /\ answer[s].events = Page(cursor, answer[s].cursor)
  BY <1>1 DEF CursorOK
<1>3. Len(log) \in Nat /\ answer[s].cursor \in 0..Len(log) /\ cursor \in 0..Len(log)
  BY Places DEF TypeOK
<1>4. answer[s].events = {i \in cursor+1..cursor' : i <= cursor + PageLimit}
  BY <1>1, <1>2 DEF Page, After
<1>5. cursor' \in cursor..Len(log)
  BY <1>1, <1>2, <1>3
<1> QED BY <1>1, <1>4, <1>5 DEF Contract!Read

\* Every step maps to a step of the contract or to a stutter.
LEMMA NextContract ==
  ASSUME TypeOK, DraftBegins, SyncInv, TakenOK, [Next]_vars
  PROVE  Contract!Next \/ UNCHANGED <<log, acknowledged, received, cursor>>
<1> USE DEF SyncInv, TakenOK
<1>1. ASSUME NEW w \in CloudEvents, WriteEvent(w) PROVE Contract!Next
  BY <1>1, WriteContract DEF Contract!Next
<1>2. ASSUME NEW s \in Syncs, Commit(s) PROVE Contract!Next
  BY <1>2, CommitContract DEF Contract!Next
<1>3. ASSUME NEW s \in Syncs, Apply(s) PROVE Contract!Next
  BY <1>3, ApplyContract DEF Contract!Next
<1>4. ASSUME NEW s \in Syncs, Acknowledge(s) PROVE Contract!Next
  <2>1. acknowledged' = acknowledged \cup answer[s].accepted /\ UNCHANGED <<log, received, cursor>>
    BY <1>4 DEF Acknowledge, Settled, cloud
  <2>2. acknowledged' \subseteq Ids(log)
    BY <2>1 DEF KnownOK
  <2>3. InOutbox \subseteq DeviceEvents
    <3>1. outbox \in Seq(Mutation)
      BY DEF TypeOK
    <3>2. \A k \in DOMAIN outbox : outbox[k] \in Mutation
      BY <3>1, Places
    <3> QED BY <3>2 DEF InOutbox, Ids, Mutation
  <2>4. acknowledged' \subseteq DeviceEvents
    BY <2>1, <2>3 DEF TypeOK
  <2>5. Contract!Learn
    BY <2>1, <2>2, <2>4 DEF Contract!Learn, Ids
  <2> QED BY <2>5 DEF Contract!Next
<1>5. ASSUME NEW w \in CloudEvents, MakeRow(w) \/ ReadRevision(w) PROVE UNCHANGED <<log, acknowledged, received, cursor>>
  BY <1>5 DEF MakeRow, ReadRevision, device
<1>6. ASSUME NEW e \in DeviceEvents, Enqueue(e) PROVE UNCHANGED <<log, acknowledged, received, cursor>>
  BY <1>6 DEF Enqueue, cloud
<1>7. ASSUME NEW s \in Syncs, Begin(s) \/ Open(s) \/ JudgeNext(s) \/ Drop(s) \/ HandlerStops(s) \/ Fail(s)
      PROVE  UNCHANGED <<log, acknowledged, received, cursor>>
  BY <1>7 DEF Begin, Open, JudgeNext, Drop, HandlerStops, Fail, cloud, device
<1>8. ASSUME GiveUp \/ UNCHANGED vars PROVE UNCHANGED <<log, acknowledged, received, cursor>>
  BY <1>8 DEF GiveUp, cloud, device, vars
<1> QED BY <1>1, <1>2, <1>3, <1>4, <1>5, <1>6, <1>7, <1>8 DEF Next

LEMMA TakenHolds == Spec => []TakenOK
  BY TypedHolds, TakenStarts, TakenStep, PTL DEF Spec

\* The revision the cloud keeps of an entity is the one of its last event in the log,
\* although it is read and written by transactions of two kinds.
THEOREM RevisionsAreOfTheLastEvents == Spec => []TablesAgree
  BY TakenHolds, PTL DEF TakenOK

\* The cloud, its sync requests and the device implement LogContract: what is taken from
\* the device is taken once and follows the last event of its entity, a request is taken
\* as a whole or not at all, and the device knows only what is in the log and reads on
\* from its cursor, whatever is lost, repeated or late.
THEOREM CloudKeepsLogContract == Spec => KeepsLogContract
<1>1. TypeOK /\ DraftBegins /\ SyncInv /\ TakenOK /\ [Next]_vars
        => [Contract!Next]_<<log, acknowledged, received, cursor>>
  BY NextContract
<1> QED BY <1>1, InitContract, TypedHolds, SyncInvHolds, TakenHolds, PTL
        DEF Spec, KeepsLogContract, Contract!Spec
=============================================================================
