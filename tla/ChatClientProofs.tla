-------------------------- MODULE ChatClientProofs --------------------------
(* Theorems of ChatClient, for any bounds, approvals and requests. *)
EXTENDS ChatClient, WellFoundedInduction, TLAPS

USE BoundsAreNat

\* A sequence with an event at its end.
LEMMA Appended ==
  ASSUME NEW S, NEW s \in Seq(S), NEW e \in S
  PROVE  /\ Append(s, e) \in Seq(S) /\ Append(s, e) # <<>> /\ Len(Append(s, e)) = Len(s) + 1
         /\ Append(s, e)[Len(s) + 1] = e
         /\ \A i \in 1..Len(s) : Append(s, e)[i] = s[i]
  OBVIOUS

\* The last place of a sequence that a test selects is one that it selects.
LEMMA LastPlace ==
  ASSUME NEW n \in Nat, NEW I \in SUBSET (1..n), I # {}
  PROVE  Max(I) \in I /\ \A i \in I : i <= Max(I)
<1> DEFINE R == OpToRel(<, Nat)
           T == {n - i : i \in I}
<1>1. IsWellFoundedOn(R, Nat)
  BY NatLessThanWellFounded
<1>0. \A i \in I : i \in Nat /\ n - i \in Nat
  OBVIOUS
<1>2. T \subseteq Nat /\ T # {}
  BY <1>0
<1>3. PICK x \in T : \A y \in T : ~(<<y, x>> \in R)
  BY <1>1, <1>2, WFMin
<1>4. \A y \in T : ~(y < x)
  BY <1>2, <1>3 DEF OpToRel
<1>5. PICK k \in I : x = n - k
  OBVIOUS
<1>6. \A i \in I : i <= k
  <2> SUFFICES ASSUME NEW i \in I PROVE i <= k
    OBVIOUS
  <2>1. n - i \in T
    OBVIOUS
  <2>2. ~(n - i < n - k)
    BY <1>4, <1>5, <2>1
  <2> HIDE DEF T
  <2> QED BY <1>0, <2>2
<1>7. \A m \in I : (\A i \in I : m >= i) => m = k
  BY <1>0, <1>6
<1>8. \A i \in I : k >= i
  BY <1>0, <1>6
<1>9. Max(I) = k
  BY <1>7, <1>8 DEF Max
<1> QED BY <1>6, <1>9

-----------------------------------------------------------------------------
(* The inductive invariant *)

\* The server: a log is no longer than it may be, and as long only when it is over.
ServerOK ==
    /\ log \in [Runs -> Seq(Events)]
    /\ \A r \in Runs : Len(log[r]) <= MaxSteps \/ (Len(log[r]) = MaxSteps + 1 /\ Over(r))
    /\ approval \in [Cards -> {"none", "pending", "decided"}]

ChatOK ==
    /\ sent \in 0..MaxSends /\ posting \in BOOLEAN /\ (posting => loading /\ sent # 0)
    /\ loading \in BOOLEAN /\ error \in BOOLEAN /\ terminal \in BOOLEAN
    /\ runId \in 0..sent
    /\ messages \in Seq(Message)

ViewOK == /\ timeline \in Seq(Runs \X (1..(MaxSteps + 1))) /\ Len(timeline) <= Window
          /\ cards \subseteq Cards

StreamOK == /\ source \in [Runs -> Source] /\ ref \in 0..MaxSends
            /\ \A r \in Runs : source[r].label <= r

FetchOK == fetch \in [Fetches -> Request] /\ faults \in 0..MaxFaults

Typed == ServerOK /\ ChatOK /\ ViewOK /\ StreamOK /\ FetchOK

\* What the assistant said is labelled with its run or one before it.
SaidInOrder == \A i \in 1..Len(messages) :
    messages[i].kind \in Assistant => messages[i].label <= messages[i].of /\ messages[i].of <= runId

\* An open stream has dispatched what is shown, or more than fits.
ShownIsDispatched == \A r \in Runs :
    Open(r) => Len(timeline) = Window \/ Len(timeline) = source[r].cursor

\* All together they are inductive.
IInv == Typed /\ OneStream /\ TimelineIsOfRun /\ ShownIsDispatched /\ SaidInOrder

-----------------------------------------------------------------------------
(* Type correctness *)

\* A log that gets an event.
LEMMA LogAppended ==
  ASSUME ServerOK, NEW r \in Runs, ~Over(r), log[r] # <<>>, NEW e \in Events,
         e # "step" \/ Len(log[r]) < MaxSteps, log' = [log EXCEPT ![r] = Append(@, e)], approval' = approval
  PROVE  ServerOK'
<1> DEFINE L == Append(log[r], e)
<1>1. /\ log[r] \in Seq(Events) /\ Len(log[r]) \in Nat /\ Len(log[r]) <= MaxSteps
  BY DEF ServerOK
<1>2. L \in Seq(Events) /\ L # <<>> /\ Len(L) = Len(log[r]) + 1 /\ L[Len(log[r]) + 1] = e
  BY <1>1, Appended
<1> HIDE DEF L
<1>3. log' \in [Runs -> Seq(Events)] /\ log'[r] = L
  BY <1>2 DEF ServerOK, L
<1>4. Len(log'[r]) <= MaxSteps \/ (Len(log'[r]) = MaxSteps + 1 /\ Over(r)')
  BY <1>1, <1>2, <1>3 DEF Over, Last
<1>5. \A s \in Runs \ {r} : log'[s] = log[s]
  BY DEF ServerOK
<1>6. ASSUME NEW s \in Runs PROVE Len(log'[s]) <= MaxSteps \/ (Len(log'[s]) = MaxSteps + 1 /\ Over(s)')
  BY <1>4, <1>5 DEF ServerOK, Over
<1> QED BY <1>3, <1>6 DEF ServerOK

\* A log that is begun, or not.
LEMMA LogBegun ==
  ASSUME ServerOK, NEW r \in Runs, NEW L \in {<<>>, <<"step">>}, log' = [log EXCEPT ![r] = L], approval' = approval
  PROVE  ServerOK'
<1>1. L \in Seq(Events) /\ Len(L) \in {0, 1}
  <2>1. <<>> \in Seq(Events) /\ Len(<<>>) = 0
    OBVIOUS
  <2>2. <<"step">> \in Seq(Events) /\ Len(<<"step">>) = 1
    BY DEF Events
  <2> QED BY <2>1, <2>2
<1>2. log' \in [Runs -> Seq(Events)] /\ log'[r] = L /\ \A s \in Runs \ {r} : log'[s] = log[s]
  BY <1>1 DEF ServerOK
<1>3. Len(log'[r]) <= MaxSteps
  <2>1. MaxSteps \in Nat /\ MaxSteps >= 1
    OBVIOUS
  <2>2. \A l \in {0, 1} : l <= MaxSteps
    BY <2>1
  <2>3. Len(L) <= MaxSteps
    BY <1>1, <2>2
  <2> QED BY <1>2, <2>3
<1>4. ASSUME NEW s \in Runs PROVE Len(log'[s]) <= MaxSteps \/ (Len(log'[s]) = MaxSteps + 1 /\ Over(s)')
  BY <1>2, <1>3 DEF ServerOK, Over
<1> QED BY <1>2, <1>4 DEF ServerOK

\* Every step keeps the server's types.
LEMMA ServerType == Typed /\ [Next]_vars => ServerOK'
<1> SUFFICES ASSUME Typed, [Next]_vars PROVE ServerOK'
  OBVIOUS
<1>0. ServerOK /\ ChatOK /\ FetchOK
  BY DEF Typed
<1>1. ASSUME UNCHANGED server PROVE ServerOK'
  BY <1>0, <1>1 DEF ServerOK, server, Over
<1>2. ASSUME UNCHANGED log, approval' \in [Cards -> {"none", "pending", "decided"}] PROVE ServerOK'
  BY <1>0, <1>2 DEF ServerOK, Over
<1>3. ASSUME NEW r \in Runs, RunAppends(r) PROVE ServerOK'
  <2>1. \E e \in Events : /\ e # "step" \/ Len(log[r]) < MaxSteps
                          /\ log' = [log EXCEPT ![r] = Append(@, e)] /\ approval' = approval
    BY <1>3 DEF RunAppends, Events
  <2>2. ~Over(r) /\ log[r] # <<>>
    BY <1>3 DEF RunAppends
  <2> QED BY <1>0, <2>1, <2>2, LogAppended
<1>4. ASSUME PostProject \/ PostFails PROVE ServerOK'
  <2>1. sent \in Runs
    BY <1>0, <1>4 DEF PostProject, PostFails, ChatOK, Runs
  <2>2. \E L \in {<<>>, <<"step">>} : log' = [log EXCEPT ![sent] = L] /\ approval' = approval
    BY <1>4 DEF PostProject, PostFails
  <2> QED BY <1>0, <2>1, <2>2, LogBegun
<1>5. ASSUME Send \/ PostChat PROVE UNCHANGED server
  BY <1>5 DEF Send, PostChat
<1>6. ASSUME NEW r \in Runs, Listen(r) \/ Refuse(r) \/ Disconnect(r) PROVE UNCHANGED server
  BY <1>6 DEF Listen, Connect, AppendEvent, Refuse, Disconnect
<1>7. ASSUME NEW f \in Fetches, Poll(f) \/ ListPending(f) \/ RefreshApprovals(f) \/ \E c \in Cards : Decide(f, c)
      PROVE  UNCHANGED server
  BY <1>7 DEF Poll, ListPending, RefreshApprovals, Decide
<1>8. ASSUME NEW c \in Cards, Ask(c) PROVE ServerOK'
  BY <1>0, <1>2, <1>8 DEF Ask, ServerOK
<1>9. ASSUME NEW f \in Fetches, Decided(f) PROVE ServerOK'
  BY <1>0, <1>2, <1>9 DEF Decided, ServerOK
<1>10. ASSUME NEW f \in Fetches, FetchFails(f) PROVE ServerOK'
  BY <1>0, <1>2, <1>10 DEF FetchFails, ServerOK
<1>11. ASSUME UNCHANGED vars PROVE UNCHANGED server
  BY <1>11 DEF vars
<1> QED BY <1>1, <1>3, <1>4, <1>5, <1>6, <1>7, <1>8, <1>9, <1>10, <1>11 DEF Next, Post, Answer

\* Every step keeps the hook's types.
LEMMA ChatType == Typed /\ OneStream /\ [Next]_vars => ChatOK'
<1> SUFFICES ASSUME Typed, OneStream, [Next]_vars PROVE ChatOK'
  OBVIOUS
<1>0. ServerOK /\ ChatOK /\ StreamOK
  BY DEF Typed
<1>1. ASSUME UNCHANGED chat PROVE ChatOK'
  BY <1>0, <1>1 DEF ChatOK, chat
<1>2. ASSUME NEW m \in Message PROVE Append(messages, m) \in Seq(Message)
  BY <1>0 DEF ChatOK
<1>3. CASE Send
  <2>1. [of |-> sent + 1, label |-> 0, kind |-> "user"] \in Message
    BY <1>0, <1>3 DEF Send, ChatOK, Message, Runs
  <2>2. messages' \in Seq(Message)
    BY <1>2, <1>3, <2>1 DEF Send, Say
  <2>3. sent' \in 0..MaxSends /\ sent' # 0 /\ runId' \in 0..sent'
    BY <1>0, <1>3 DEF Send, ChatOK
  <2>4. posting' = TRUE /\ loading' = TRUE /\ terminal' = FALSE /\ error' = FALSE
    BY <1>3 DEF Send
  <2> QED BY <2>2, <2>3, <2>4 DEF ChatOK
<1>4. CASE Post
  <2>1. sent \in Runs /\ sent \in 0..sent /\ sent \in 0..MaxSends
    BY <1>0, <1>4 DEF Post, PostChat, PostProject, PostFails, ChatOK, Runs
  <2>2. \A k \in {"answer", "placeholder"} : [of |-> sent, label |-> sent, kind |-> k] \in Message
    BY <2>1 DEF Message
  <2>3. [of |-> sent, label |-> 0, kind |-> "error"] \in Message
    BY <2>1 DEF Message
  <2>4. messages' \in Seq(Message)
    <3>1. CASE PostChat
      BY <1>0, <1>2, <2>2, <3>1 DEF PostChat, Say, ChatOK
    <3>2. CASE PostProject
      BY <1>2, <2>2, <3>2 DEF PostProject, Say
    <3>3. CASE PostFails
      BY <1>2, <2>3, <3>3 DEF PostFails, Say
    <3> QED BY <1>4, <3>1, <3>2, <3>3 DEF Post
  <2>5. loading' \in BOOLEAN /\ error' \in BOOLEAN /\ terminal' \in BOOLEAN /\ posting' = FALSE
    BY <1>0, <1>4 DEF Post, PostChat, PostProject, PostFails, ChatOK
  <2>6. sent' = sent /\ runId' \in 0..sent'
    BY <1>0, <1>4, <2>1 DEF Post, PostChat, PostProject, PostFails, ChatOK
  <2> QED BY <1>0, <2>4, <2>5, <2>6 DEF ChatOK
<1>5. ASSUME NEW r \in Runs, Refuse(r) PROVE ChatOK'
  <2>1. ~posting
    BY <1>5 DEF Refuse, OneStream, Open
  <2> QED BY <1>0, <1>5, <2>1 DEF Refuse, ChatOK
<1>6. ASSUME NEW r \in Runs, AppendEvent(r) PROVE ChatOK'
  <2> DEFINE m == [of |-> r, label |-> source[r].label, kind |-> "answer"]
  <2>1. source[r] \in Source
    BY <1>0 DEF StreamOK
  <2>2. m \in Message
    BY <2>1 DEF Message, Source
  <2> HIDE DEF m
  <2>3. messages' = messages \/ messages' = Append(messages, m)
    BY <1>6 DEF AppendEvent, m
  <2>4. messages' \in Seq(Message)
    BY <1>0, <1>2, <2>2, <2>3 DEF ChatOK
  <2>5. ~posting
    BY <1>6 DEF AppendEvent, OneStream, Open
  <2>6. UNCHANGED <<sent, posting, runId>> /\ {loading', error', terminal'} \subseteq BOOLEAN
    BY <1>0, <1>6 DEF AppendEvent, ChatOK
  <2> QED BY <1>0, <2>4, <2>5, <2>6 DEF ChatOK
<1>7. ASSUME NEW f \in Fetches, Decided(f) \/ FetchFails(f) \/ \E c \in Cards : Decide(f, c) PROVE ChatOK'
  <2>1. UNCHANGED <<sent, posting, loading, runId, terminal, messages>> /\ error' \in BOOLEAN
    BY <1>0, <1>7 DEF Decided, FetchFails, Decide, ChatOK
  <2> QED BY <1>0, <2>1 DEF ChatOK
<1>8. ASSUME NEW r \in Runs, RunAppends(r) \/ Connect(r) \/ Disconnect(r) PROVE UNCHANGED chat
  BY <1>8 DEF RunAppends, Connect, Disconnect
<1>9. ASSUME NEW f \in Fetches, Poll(f) \/ ListPending(f) \/ RefreshApprovals(f) PROVE UNCHANGED chat
  BY <1>9 DEF Poll, ListPending, RefreshApprovals
<1>10. ASSUME (\E c \in Cards : Ask(c)) \/ UNCHANGED vars PROVE UNCHANGED chat
  BY <1>10 DEF Ask, vars
<1> QED BY <1>1, <1>3, <1>4, <1>5, <1>6, <1>7, <1>8, <1>9, <1>10 DEF Next, Listen, Answer

\* Every step keeps the streams' types.
LEMMA StreamType == Typed /\ [Next]_vars => StreamOK'
<1> SUFFICES ASSUME Typed, [Next]_vars PROVE StreamOK'
  OBVIOUS
<1>0. ServerOK /\ ChatOK /\ StreamOK
  BY DEF Typed
<1>1. ASSUME UNCHANGED stream PROVE StreamOK'
  BY <1>0, <1>1 DEF StreamOK, stream
<1>2. CASE Send
  <2>1. 0 \in 0..MaxSends
    OBVIOUS
  <2>2. \A r \in Runs : source'[r] = source[r] \/ source'[r] = [source[r] EXCEPT !.at = "closed"]
    BY <1>2 DEF Send, CloseStream
  <2>3. ASSUME NEW r \in Runs PROVE source'[r] \in Source /\ source'[r].label = source[r].label
    <3>1. source[r] \in Source
      BY <1>0 DEF StreamOK
    <3>2. [source[r] EXCEPT !.at = "closed"] \in Source /\ [source[r] EXCEPT !.at = "closed"].label = source[r].label
      BY <3>1 DEF Source
    <3> QED BY <2>2, <3>1, <3>2
  <2>4. source' \in [Runs -> Source]
    BY <1>2, <2>3 DEF Send, CloseStream
  <2>5. ref' \in 0..MaxSends
    BY <1>2, <2>1 DEF Send, CloseStream
  <2> QED BY <1>0, <2>3, <2>4, <2>5 DEF StreamOK
<1>3. CASE PostProject
  <2> DEFINE s == [at |-> "connecting", cursor |-> 0, label |-> runId]
  <2>1. sent \in Runs /\ sent \in 0..MaxSends /\ runId \in 0..MaxSends /\ runId <= sent
    BY <1>0, <1>3 DEF PostProject, ChatOK, Runs
  <2>2. s \in Source /\ s.label = runId
    BY <2>1 DEF Source
  <2> HIDE DEF s
  <2>3. source' = [source EXCEPT ![sent] = s] /\ ref' = sent
    BY <1>3 DEF PostProject, s
  <2> QED BY <1>0, <2>1, <2>2, <2>3 DEF StreamOK
<1>4. ASSUME NEW r \in Runs, Connect(r) \/ Refuse(r) \/ Disconnect(r) PROVE StreamOK'
  <2>1. PICK a \in {"open", "closed", "connecting"} : source' = [source EXCEPT ![r].at = a] /\ ref' = ref
    BY <1>4 DEF Connect, Refuse, Disconnect
  <2>2. source'[r] \in Source /\ source'[r].label = source[r].label
    BY <1>0, <2>1 DEF StreamOK, Source
  <2> QED BY <1>0, <2>1, <2>2 DEF StreamOK
<1>5. ASSUME NEW r \in Runs, AppendEvent(r) PROVE StreamOK'
  <2>1. PICK ends \in BOOLEAN : Advance(r, source[r].cursor + 1, ends)
    BY <1>5 DEF AppendEvent
  <2>2. source[r].cursor \in 0..(MaxSteps + 1) /\ source[r].cursor + 1 <= Len(log[r]) /\ Len(log[r]) \in Nat
    BY <1>0, <1>5 DEF AppendEvent, ServerOK, StreamOK, Source
  <2>3. source[r].cursor + 1 \in 0..(MaxSteps + 1)
    BY <1>0, <2>2 DEF ServerOK
  <2>4. ASSUME NEW s \in Runs PROVE source'[s] \in Source /\ source'[s].label = source[s].label
    <3> DEFINE n == IF s = r THEN source[r].cursor + 1 ELSE source[s].cursor
               a == IF ends /\ s = ref THEN "closed" ELSE source[s].at
    <3>1. source'[s] = [source[s] EXCEPT !.cursor = n, !.at = a]
      BY <2>1 DEF Advance
    <3>2. source[s] \in Source
      BY <1>0 DEF StreamOK
    <3>3. n \in 0..(MaxSteps + 1) /\ a \in {"none", "connecting", "open", "closed"}
      BY <2>3, <3>2 DEF Source
    <3> HIDE DEF n, a
    <3> QED BY <3>1, <3>2, <3>3 DEF Source
  <2>5. ref' \in 0..MaxSends
    <3>1. ref' = 0 \/ ref' = ref
      BY <2>1 DEF Advance
    <3> QED BY <1>0, <3>1 DEF StreamOK
  <2>6. source' \in [Runs -> Source]
    BY <2>1, <2>4 DEF Advance
  <2> QED BY <1>0, <2>4, <2>5, <2>6 DEF StreamOK
<1>6. ASSUME PostChat \/ PostFails \/ (\E c \in Cards : Ask(c)) \/ UNCHANGED vars PROVE UNCHANGED stream
  BY <1>6 DEF PostChat, PostFails, Ask, vars
<1>7. ASSUME NEW r \in Runs, RunAppends(r) PROVE UNCHANGED stream
  BY <1>7 DEF RunAppends
<1>8. ASSUME NEW f \in Fetches, Poll(f) \/ Answer(f) \/ FetchFails(f) \/ \E c \in Cards : Decide(f, c)
      PROVE  UNCHANGED stream
  BY <1>8 DEF Poll, Answer, ListPending, RefreshApprovals, Decided, FetchFails, Decide, stream
<1> QED BY <1>1, <1>2, <1>3, <1>4, <1>5, <1>6, <1>7, <1>8 DEF Next, Post, Listen

\* Every step keeps the requests' types.
LEMMA FetchType == Typed /\ [Next]_vars => FetchOK'
<1> SUFFICES ASSUME Typed, [Next]_vars PROVE FetchOK'
  OBVIOUS
<1>0. ChatOK /\ ViewOK /\ FetchOK
  BY DEF Typed
<1>1. ASSUME UNCHANGED <<fetch, faults>> PROVE FetchOK'
  BY <1>0, <1>1 DEF FetchOK
<1>2. ASSUME UNCHANGED fetch, faults' = faults \/ (faults < MaxFaults /\ faults' = faults + 1) PROVE FetchOK'
  BY <1>0, <1>2 DEF FetchOK
<1>3. ASSUME NEW f \in Fetches, NEW q \in Request, fetch' = [fetch EXCEPT ![f] = q],
             faults' = faults \/ (faults < MaxFaults /\ faults' = faults + 1)
      PROVE  FetchOK'
  BY <1>0, <1>3 DEF FetchOK
<1>4. NoFetch \in Request /\ runId \in 0..MaxSends
  BY <1>0 DEF NoFetch, Request, ChatOK
<1>5. ASSUME NEW f \in Fetches PROVE fetch[f] \in Request
  BY <1>0 DEF FetchOK
<1>6. ASSUME NEW f \in Fetches, Poll(f) PROVE FetchOK'
  <2>1. [NoFetch EXCEPT !.op = "poll", !.at = "sent", !.run = runId] \in Request
    BY <1>4 DEF NoFetch, Request
  <2> QED BY <1>3, <1>6, <2>1 DEF Poll
<1>7. ASSUME NEW f \in Fetches, NEW c \in Cards, Decide(f, c) PROVE FetchOK'
  <2>1. [NoFetch EXCEPT !.op = "decide", !.at = "sent", !.run = runId, !.card = c] \in Request
    BY <1>4 DEF NoFetch, Request
  <2> QED BY <1>3, <1>7, <2>1 DEF Decide
<1>8. ASSUME NEW f \in Fetches, ListPending(f) PROVE FetchOK'
  <2> DEFINE l == {c \in Cards : c[1] = fetch[f].run /\ approval[c] = "pending"}
             q == [fetch[f] EXCEPT !.at = "answered", !.list = l]
  <2>1. l \in SUBSET Cards
    OBVIOUS
  <2>2. fetch' = [fetch EXCEPT ![f] = q] /\ faults' = faults
    BY <1>8 DEF ListPending
  <2> HIDE DEF l
  <2>3. q \in Request
    BY <1>5, <2>1 DEF Request
  <2> HIDE DEF q
  <2> QED BY <1>3, <2>2, <2>3
<1>9. ASSUME NEW f \in Fetches, RefreshApprovals(f) PROVE FetchOK'
  BY <1>3, <1>4, <1>9 DEF RefreshApprovals
<1>10. ASSUME NEW f \in Fetches, Decided(f) PROVE FetchOK'
  <2>1. [fetch[f] EXCEPT !.op = "poll", !.card = <<>>] \in Request
    BY <1>5 DEF Request
  <2>2. \E q \in Request : fetch' = [fetch EXCEPT ![f] = q] /\ faults' = faults
    BY <1>4, <1>10, <2>1 DEF Decided
  <2> QED BY <1>3, <2>2
<1>11. ASSUME NEW f \in Fetches, FetchFails(f) PROVE FetchOK'
  BY <1>3, <1>4, <1>11 DEF FetchFails
<1>12. ASSUME Send \/ PostChat \/ PostProject \/ (\E c \in Cards : Ask(c)) \/ UNCHANGED vars PROVE UNCHANGED <<fetch, faults>>
  BY <1>12 DEF Send, PostChat, PostProject, Ask, vars
<1>13. ASSUME NEW r \in Runs, RunAppends(r) \/ Listen(r) PROVE UNCHANGED <<fetch, faults>>
  BY <1>13 DEF RunAppends, Listen, Connect, AppendEvent
<1>14. ASSUME PostFails \/ \E r \in Runs : Refuse(r) \/ Disconnect(r) PROVE FetchOK'
  BY <1>2, <1>14 DEF PostFails, Refuse, Disconnect
<1> QED BY <1>1, <1>6, <1>7, <1>8, <1>9, <1>10, <1>11, <1>12, <1>13, <1>14 DEF Next, Post, Answer

-----------------------------------------------------------------------------
(* One stream *)

\* A step that opens no stream and ends none of the waiting keeps the one there is.
LEMMA StreamKept ==
  ASSUME OneStream, UNCHANGED <<posting, runId, ref>>, loading => loading', \A r \in Runs : Open(r)' => Open(r)
  PROVE  OneStream'
  BY DEF OneStream

\* The event that ends a run closes its stream.
LEMMA Dispatched ==
  ASSUME Typed, OneStream, NEW r \in Runs, AppendEvent(r), NEW s \in Runs, Open(s)'
  PROVE  Open(s) /\ s = r /\ UNCHANGED <<loading, ref>> /\ r = runId /\ r = ref /\ ~posting
<1> DEFINE ends == log[r][source[r].cursor + 1] # "step"
<1>0. source \in [Runs -> Source] /\ loading \in BOOLEAN
  BY DEF Typed, StreamOK, ChatOK
<1>1. Open(r) /\ r = runId /\ r = ref /\ ~posting
  BY DEF AppendEvent, OneStream, Open
<1>2. Advance(r, source[r].cursor + 1, ends) /\ loading' = (loading /\ ~ends)
  BY DEF AppendEvent
<1> HIDE DEF ends
<1>3. source'[s].at = IF ends /\ s = ref THEN "closed" ELSE source[s].at
  BY <1>0, <1>2 DEF Advance, Source
<1>4. Open(s)
  BY <1>3 DEF Open
<1>5. s = r
  BY <1>1, <1>4 DEF OneStream
<1>6. ~ends
  BY <1>1, <1>3, <1>5 DEF Open
<1> QED BY <1>0, <1>1, <1>2, <1>4, <1>5, <1>6 DEF Advance

\* Every step keeps one stream at most.
LEMMA OneStreamKept == Typed /\ OneStream /\ [Next]_vars => OneStream'
<1> SUFFICES ASSUME Typed, OneStream, [Next]_vars PROVE OneStream'
  OBVIOUS
<1>0. ChatOK /\ StreamOK
  BY DEF Typed
<1>1. ASSUME UNCHANGED <<posting, runId, stream>>, loading => loading' PROVE OneStream'
  BY <1>1, StreamKept DEF Open, stream
<1>2. CASE Send
  <2>1. ASSUME NEW r \in Runs, Open(r)' PROVE FALSE
    <3>1. ~Open(r)
      BY <1>2 DEF Send, OneStream
    <3>2. source'[r].at = source[r].at \/ source'[r].at = "closed"
      BY <1>0, <1>2 DEF Send, CloseStream, StreamOK, Source
    <3> QED BY <2>1, <3>1, <3>2 DEF Open
  <2> QED BY <2>1 DEF OneStream
<1>3. CASE PostChat \/ PostFails
  BY <1>3 DEF PostChat, PostFails, OneStream, Open, stream
<1>4. CASE PostProject
  <2>1. sent \in Runs /\ loading' = loading /\ loading /\ posting' = FALSE /\ runId' = sent /\ ref' = sent
    BY <1>0, <1>4 DEF PostProject, ChatOK, Runs
  <2>2. ASSUME NEW r \in Runs, r # sent PROVE ~Open(r)'
    BY <1>0, <1>4, <2>2 DEF PostProject, OneStream, Open, StreamOK
  <2> QED BY <2>1, <2>2 DEF OneStream
<1>5. ASSUME NEW r \in Runs, Connect(r) \/ Disconnect(r) PROVE OneStream'
  <2>1. UNCHANGED <<posting, runId, ref, loading>>
    BY <1>5 DEF Connect, Disconnect, chat
  <2>2. ASSUME NEW s \in Runs, Open(s)' PROVE Open(s)
    BY <1>0, <1>5, <2>2 DEF Connect, Disconnect, Open, StreamOK, Source
  <2> QED BY <2>1, <2>2, StreamKept
<1>6. ASSUME NEW r \in Runs, Refuse(r) PROVE OneStream'
  <2>1. ASSUME NEW s \in Runs, Open(s)' PROVE FALSE
    <3>1. source'[r].at = "closed" /\ (s # r => source'[s] = source[s]) /\ Open(r)
      BY <1>0, <1>6 DEF Refuse, Open, StreamOK, Source
    <3>2. s # r /\ Open(s)
      BY <2>1, <3>1 DEF Open
    <3> QED BY <3>1, <3>2 DEF OneStream
  <2> QED BY <2>1 DEF OneStream
<1>7. ASSUME NEW r \in Runs, AppendEvent(r) PROVE OneStream'
  <2>1. UNCHANGED <<posting, runId>>
    BY <1>7 DEF AppendEvent
  <2>2. ASSUME NEW s \in Runs, Open(s)' PROVE (s = runId /\ s = ref /\ loading /\ ~posting)'
    <3>1. Open(s) /\ s = r /\ UNCHANGED <<loading, ref>> /\ r = runId /\ r = ref /\ ~posting
      BY <1>7, <2>2, Dispatched
    <3> QED BY <2>1, <3>1 DEF OneStream
  <2> QED BY <2>2 DEF OneStream
<1>8. ASSUME NEW f \in Fetches, Poll(f) \/ Answer(f) \/ FetchFails(f) \/ \E c \in Cards : Decide(f, c)
      PROVE  UNCHANGED <<posting, runId, stream, loading>>
  BY <1>8 DEF Poll, Answer, ListPending, RefreshApprovals, Decided, FetchFails, Decide, chat, stream
<1>9. ASSUME (\E c \in Cards : Ask(c)) \/ (\E r \in Runs : RunAppends(r)) \/ UNCHANGED vars
      PROVE  UNCHANGED <<posting, runId, stream, loading>>
  BY <1>9 DEF Ask, RunAppends, chat, vars
<1> QED BY <1>1, <1>2, <1>3, <1>4, <1>5, <1>6, <1>7, <1>8, <1>9 DEF Next, Post, Listen

-----------------------------------------------------------------------------
(* The timeline *)

Shows == Typed /\ OneStream /\ TimelineIsOfRun /\ ShownIsDispatched

\* An event that is dispatched is new to the timeline, and comes at its end.
LEMMA EventShown ==
  ASSUME Shows, NEW r \in Runs, AppendEvent(r)
  PROVE  LET n == source[r].cursor + 1
             N == Len(timeline')
         IN  /\ n \in 1..(MaxSteps + 1) /\ r = runId /\ source' \in [Runs -> Source] /\ source'[r].cursor = n
             /\ timeline' \in Seq(Runs \X (1..(MaxSteps + 1)))
             /\ N \in 1..Window /\ (N = Window \/ N = n)
             /\ \A i \in 1..N : timeline'[i] = <<r, n - N + i>>
<1> DEFINE n == source[r].cursor + 1
           S == Runs \X (1..(MaxSteps + 1))
           W == IF Len(timeline) < Window THEN timeline ELSE Tail(timeline)
<1>0. ServerOK /\ ViewOK /\ StreamOK
  BY DEF Shows, Typed
<1>1. Open(r) /\ r = runId /\ ~posting
  BY DEF Shows, OneStream, AppendEvent, Open
<1>2. source[r] \in Source /\ source[r].cursor \in Nat /\ Len(log[r]) \in Nat /\ Len(log[r]) <= MaxSteps + 1
  BY <1>0 DEF StreamOK, Source, ServerOK
<1>3. n \in 1..(MaxSteps + 1)
  <2>1. n <= Len(log[r])
    BY DEF AppendEvent
  <2>2. MaxSteps \in Nat
    OBVIOUS
  <2> QED BY <1>2, <2>1, <2>2
<1>4. source' \in [Runs -> Source] /\ source'[r].cursor = n
  <2>1. source' \in [Runs -> Source]
    BY StreamType DEF Shows, Next, Listen, StreamOK
  <2>2. \E ends \in BOOLEAN : Advance(r, n, ends)
    BY DEF AppendEvent
  <2> HIDE DEF n
  <2> QED BY <1>2, <2>1, <2>2 DEF Advance, Source
<1>5. /\ timeline \in Seq(S) /\ Len(timeline) \in Nat /\ Len(timeline) <= Window /\ Window \in Nat \ {0}
      /\ Len(timeline) = Window \/ Len(timeline) = n - 1
      /\ \A i \in 1..Len(timeline) : timeline[i] = <<r, n - 1 - Len(timeline) + i>>
  <2>1. timeline \in Seq(S) /\ Len(timeline) \in Nat /\ Len(timeline) <= Window /\ Window \in Nat \ {0}
    BY <1>0 DEF ViewOK
  <2>2. Len(timeline) = Window \/ Len(timeline) = source[r].cursor
    BY <1>1 DEF Shows, ShownIsDispatched
  <2>3. ASSUME NEW i \in 1..Len(timeline) PROVE timeline[i] = <<r, source[r].cursor - Len(timeline) + i>>
    BY <1>1, <2>1 DEF Shows, TimelineIsOfRun
  <2>4. source[r].cursor = n - 1
    BY <1>2
  <2> HIDE DEF n, S
  <2> QED BY <2>1, <2>2, <2>3, <2>4
<1>5a. n \in Nat \ {0}
  BY <1>2
<1> HIDE DEF n, S
<1>6. ~Repeated(<<r, n>>)
  <2>1. ASSUME NEW i \in 1..Len(timeline) PROVE timeline[i][2] # n
    <3>1. timeline[i][2] = n - 1 - Len(timeline) + i
      BY <1>5
    <3> QED BY <1>5, <1>5a, <3>1
  <2> QED BY <1>5, <2>1 DEF Repeated, ToSet
<1>7. timeline' = Append(W, <<r, n>>)
  BY <1>6 DEF AppendEvent, Shown, n
<1>8. /\ W \in Seq(S) /\ Len(W) \in Nat /\ Len(W) < Window
      /\ Len(W) + 1 = Window \/ Len(W) + 1 = n
      /\ \A i \in 1..Len(W) : W[i] = <<r, n - (Len(W) + 1) + i>>
  <2>1. CASE Len(timeline) < Window
    <3>1. W = timeline
      BY <2>1
    <3>2. \A i \in 1..Len(W) : n - 1 - Len(W) + i = n - (Len(W) + 1) + i
      BY <1>5, <1>5a, <3>1
    <3> HIDE DEF W
    <3> QED BY <1>5, <1>5a, <2>1, <3>1, <3>2
  <2>2. CASE Len(timeline) = Window
    <3>1. W = Tail(timeline)
      BY <2>2, <1>5
    <3>2. W \in Seq(S) /\ Len(W) = Window - 1 /\ \A i \in 1..Len(W) : W[i] = timeline[i + 1]
      BY <1>5, <2>2, <3>1
    <3> HIDE DEF W
    <3>3. ASSUME NEW i \in 1..Len(W) PROVE W[i] = <<r, n - (Len(W) + 1) + i>>
      <4>1. i + 1 \in 1..Len(timeline) /\ W[i] = timeline[i + 1]
        BY <1>5, <2>2, <3>2
      <4>2. W[i] = <<r, n - 1 - Len(timeline) + (i + 1)>>
        BY <1>5, <4>1
      <4>3. n - 1 - Len(timeline) + (i + 1) = n - (Len(W) + 1) + i
        BY <1>5, <1>5a, <2>2, <3>2
      <4> QED BY <4>2, <4>3
    <3> QED BY <1>5, <2>2, <3>2, <3>3
  <2>3. Len(timeline) < Window \/ Len(timeline) = Window
    BY <1>5
  <2> QED BY <2>1, <2>2, <2>3
<1>9. <<r, n>> \in S
  BY <1>3 DEF n, S
<1> HIDE DEF W
<1>10. /\ timeline' \in Seq(S) /\ Len(timeline') = Len(W) + 1
       /\ timeline'[Len(W) + 1] = <<r, n>> /\ \A i \in 1..Len(W) : timeline'[i] = W[i]
  BY <1>7, <1>8, <1>9, Appended
<1>11. ASSUME NEW i \in 1..Len(timeline') PROVE timeline'[i] = <<r, n - Len(timeline') + i>>
  <2>1. CASE i = Len(timeline')
    BY <1>3, <1>8, <1>10, <2>1
  <2>2. CASE i # Len(timeline')
    <3>1. i \in 1..Len(W)
      BY <1>8, <1>10, <2>2
    <3> QED BY <1>8, <1>10, <3>1
  <2> QED BY <2>1, <2>2
<1>12. Len(timeline') \in 1..Window /\ (Len(timeline') = Window \/ Len(timeline') = n)
  BY <1>5, <1>8, <1>10
<1> QED BY <1>1, <1>3, <1>4, <1>10, <1>11, <1>12 DEF n, S

\* Every step keeps the types of what is shown.
LEMMA ViewType == Shows /\ [Next]_vars => ViewOK'
<1> SUFFICES ASSUME Shows, [Next]_vars PROVE ViewOK'
  OBVIOUS
<1>0. ViewOK /\ FetchOK
  BY DEF Shows, Typed
<1>1. ASSUME timeline' = timeline, cards' \subseteq Cards PROVE ViewOK'
  BY <1>0, <1>1 DEF ViewOK
<1>2. CASE Send
  BY <1>2 DEF Send, ViewOK
<1>3. ASSUME NEW r \in Runs, AppendEvent(r) PROVE ViewOK'
  <2>1. cards' \subseteq Cards
    BY <1>0, <1>3 DEF AppendEvent, ViewOK
  <2>2. timeline' \in Seq(Runs \X (1..(MaxSteps + 1))) /\ Len(timeline') <= Window
    BY <1>3, EventShown
  <2> QED BY <2>1, <2>2 DEF ViewOK
<1>4. ASSUME NEW f \in Fetches, RefreshApprovals(f) PROVE ViewOK'
  BY <1>0, <1>1, <1>4 DEF RefreshApprovals, FetchOK, Request
<1>5. ASSUME Post \/ (\E c \in Cards : Ask(c)) \/ UNCHANGED vars PROVE UNCHANGED view
  BY <1>5 DEF Post, PostChat, PostProject, PostFails, Ask, vars
<1>6. ASSUME NEW r \in Runs, RunAppends(r) \/ Connect(r) \/ Refuse(r) \/ Disconnect(r) PROVE UNCHANGED view
  BY <1>6 DEF RunAppends, Connect, Refuse, Disconnect
<1>7. ASSUME NEW f \in Fetches,
             Poll(f) \/ ListPending(f) \/ Decided(f) \/ FetchFails(f) \/ \E c \in Cards : Decide(f, c)
      PROVE  UNCHANGED view
  BY <1>7 DEF Poll, ListPending, Decided, FetchFails, Decide
<1> QED BY <1>0, <1>1, <1>2, <1>3, <1>4, <1>5, <1>6, <1>7 DEF Next, Listen, Answer, view, ViewOK

\* A step that leaves the timeline, and how far the streams have come, alone.
LEMMA TimelineKept ==
  ASSUME TimelineIsOfRun, ShownIsDispatched, UNCHANGED <<timeline, runId>>, posting' => posting,
         \A r \in Runs : source'[r].cursor = source[r].cursor /\ (Open(r)' => Open(r)),
         runId # 0 => runId \in Runs
  PROVE  TimelineIsOfRun' /\ ShownIsDispatched'
  BY DEF TimelineIsOfRun, ShownIsDispatched

\* Every step keeps the timeline.
LEMMA TimelineHolds == Shows /\ [Next]_vars => TimelineIsOfRun' /\ ShownIsDispatched'
<1> SUFFICES ASSUME Shows, [Next]_vars PROVE TimelineIsOfRun' /\ ShownIsDispatched'
  OBVIOUS
<1>0. /\ Typed /\ ChatOK /\ ViewOK /\ StreamOK
      /\ OneStream /\ TimelineIsOfRun /\ ShownIsDispatched /\ (runId # 0 => runId \in Runs)
  BY DEF Shows, Typed, ChatOK, Runs
<1>1. ASSUME UNCHANGED <<timeline, runId, posting, source>> PROVE TimelineIsOfRun' /\ ShownIsDispatched'
  BY <1>0, <1>1, TimelineKept DEF Open
<1>2. CASE Send
  <2>1. timeline' = <<>>
    BY <1>2 DEF Send
  <2>2. ASSUME NEW r \in Runs PROVE ~Open(r)'
    <3>1. ~Open(r)
      BY <1>0, <1>2 DEF Send, OneStream
    <3>2. source'[r].at = source[r].at \/ source'[r].at = "closed"
      BY <1>0, <1>2 DEF Send, CloseStream, StreamOK, Source
    <3> QED BY <3>1, <3>2 DEF Open
  <2> QED BY <2>1, <2>2 DEF TimelineIsOfRun, ShownIsDispatched
<1>3. ASSUME Post PROVE timeline = <<>> /\ timeline' = timeline /\ \A r \in Runs : ~Open(r)
  <2>1. posting /\ timeline' = timeline
    BY <1>3 DEF Post, PostChat, PostProject, PostFails, view
  <2>2. Len(timeline) = 0
    BY <1>0, <2>1 DEF TimelineIsOfRun, ViewOK
  <2> QED BY <1>0, <2>1, <2>2 DEF ViewOK, OneStream
<1>4. CASE PostChat \/ PostFails
  <2>1. timeline' = <<>> /\ \A r \in Runs : ~Open(r)
    BY <1>3, <1>4 DEF Post
  <2>2. source' = source
    BY <1>4 DEF PostChat, PostFails, stream
  <2>3. \A r \in Runs : ~Open(r)'
    BY <2>1, <2>2 DEF Open
  <2> QED BY <2>1, <2>3 DEF TimelineIsOfRun, ShownIsDispatched
<1>5. CASE PostProject
  <2>1. ASSUME NEW r \in Runs, Open(r)' PROVE source'[r].cursor = 0
    BY <1>0, <1>3, <1>5, <2>1 DEF PostProject, Post, Open, StreamOK
  <2>2. timeline' = <<>>
    BY <1>3, <1>5 DEF Post
  <2> QED BY <2>1, <2>2 DEF TimelineIsOfRun, ShownIsDispatched
<1>6. ASSUME NEW r \in Runs, Connect(r) \/ Refuse(r) \/ Disconnect(r) PROVE TimelineIsOfRun' /\ ShownIsDispatched'
  <2>1. UNCHANGED <<timeline, runId, posting>>
    BY <1>6 DEF Connect, Refuse, Disconnect, chat, view
  <2>2. PICK a \in {"open", "closed", "connecting"} : source' = [source EXCEPT ![r].at = a] /\ Open(r)
    BY <1>6 DEF Connect, Refuse, Disconnect, Open
  <2>3. ASSUME NEW s \in Runs PROVE source'[s].cursor = source[s].cursor /\ (Open(s)' => Open(s))
    BY <1>0, <2>2 DEF Open, StreamOK, Source
  <2> QED BY <1>0, <2>1, <2>3, TimelineKept
<1>7. ASSUME NEW r \in Runs, AppendEvent(r) PROVE TimelineIsOfRun' /\ ShownIsDispatched'
  <2>1. r = runId /\ r # 0 /\ UNCHANGED <<runId, posting>> /\ ~posting
    BY <1>0, <1>7 DEF AppendEvent, OneStream, Open, Runs
  <2>2. ASSUME NEW s \in Runs, Open(s)' PROVE s = r
    BY <1>0, <1>7, <2>2, Dispatched
  <2>3. /\ source'[r].cursor = source[r].cursor + 1 /\ Len(timeline') \in 1..Window
        /\ Len(timeline') = Window \/ Len(timeline') = source'[r].cursor
        /\ \A i \in 1..Len(timeline') : timeline'[i] = <<r, source'[r].cursor - Len(timeline') + i>>
    BY <1>7, EventShown
  <2> QED BY <2>1, <2>2, <2>3 DEF TimelineIsOfRun, ShownIsDispatched
<1>8. ASSUME NEW f \in Fetches, Poll(f) \/ Answer(f) \/ FetchFails(f) \/ \E c \in Cards : Decide(f, c)
      PROVE  UNCHANGED <<timeline, runId, posting, source>>
  BY <1>8 DEF Poll, Answer, ListPending, RefreshApprovals, Decided, FetchFails, Decide, chat, view, stream
<1>9. ASSUME (\E c \in Cards : Ask(c)) \/ (\E r \in Runs : RunAppends(r)) \/ UNCHANGED vars
      PROVE  UNCHANGED <<timeline, runId, posting, source>>
  BY <1>9 DEF Ask, RunAppends, chat, view, stream, vars
<1> QED BY <1>1, <1>2, <1>4, <1>5, <1>6, <1>7, <1>8, <1>9 DEF Next, Post, Listen

-----------------------------------------------------------------------------
(* What was said *)

\* The runs are counted up.
LEMMA RunsGoUp == Typed /\ [Next]_vars => runId \in Nat /\ runId' \in Nat /\ runId <= runId'
<1> SUFFICES ASSUME Typed, [Next]_vars PROVE runId \in Nat /\ runId' \in Nat /\ runId <= runId'
  OBVIOUS
<1>1. runId \in 0..sent /\ sent \in Nat
  BY DEF Typed, ChatOK
<1>2. CASE Post
  <2>1. runId' = sent \/ runId' = runId
    BY <1>2 DEF Post, PostChat, PostProject, PostFails
  <2> QED BY <1>1, <2>1
<1>3. ASSUME Send \/ (\E c \in Cards : Ask(c)) \/ UNCHANGED vars PROVE runId' = runId
  BY <1>3 DEF Send, Ask, chat, vars
<1>4. ASSUME NEW r \in Runs, RunAppends(r) \/ Listen(r) \/ Refuse(r) \/ Disconnect(r) PROVE runId' = runId
  BY <1>4 DEF RunAppends, Listen, Connect, AppendEvent, Refuse, Disconnect, chat
<1>5. ASSUME NEW f \in Fetches, Poll(f) \/ Answer(f) \/ FetchFails(f) \/ \E c \in Cards : Decide(f, c)
      PROVE  runId' = runId
  BY <1>5 DEF Poll, Answer, ListPending, RefreshApprovals, Decided, FetchFails, Decide, chat
<1> QED BY <1>1, <1>2, <1>3, <1>4, <1>5 DEF Next

InOrder(m, now) == m.kind \in Assistant => m.label <= m.of /\ m.of <= now

\* What is said in a step: nothing, or one message that is labelled in order.
LEMMA Said ==
  ASSUME Typed, OneStream, [Next]_vars
  PROVE  \/ messages' = messages
         \/ \E m \in Message : messages' = Append(messages, m) /\ InOrder(m, runId')
<1>0. ChatOK /\ StreamOK
  BY DEF Typed
<1>1. CASE Send
  <2> DEFINE m == [of |-> sent + 1, label |-> 0, kind |-> "user"]
  <2>1. m \in Message /\ InOrder(m, runId')
    BY <1>0, <1>1 DEF Send, ChatOK, Message, Runs, Assistant, InOrder
  <2>2. messages' = Append(messages, m)
    BY <1>1 DEF Send, Say
  <2> QED BY <2>1, <2>2
<1>2. CASE Post
  <2>1. sent \in Runs /\ sent \in 0..MaxSends /\ sent \in Nat
    BY <1>0, <1>2 DEF Post, PostChat, PostProject, PostFails, ChatOK, Runs
  <2>2. ASSUME NEW k \in {"answer", "placeholder"}, runId' = sent,
               messages' = Append(messages, [of |-> sent, label |-> sent, kind |-> k])
        PROVE  \E m \in Message : messages' = Append(messages, m) /\ InOrder(m, runId')
    <3> DEFINE m == [of |-> sent, label |-> sent, kind |-> k]
    <3>1. m \in Message /\ InOrder(m, runId')
      BY <2>1, <2>2 DEF Message, InOrder
    <3> QED BY <2>2, <3>1
  <2>3. CASE PostFails
    <3> DEFINE m == [of |-> sent, label |-> 0, kind |-> "error"]
    <3>1. m \in Message /\ InOrder(m, runId')
      BY <2>1 DEF Message, Assistant, InOrder
    <3>2. messages' = Append(messages, m)
      BY <2>3 DEF PostFails, Say
    <3> QED BY <3>1, <3>2
  <2>4. CASE PostChat
    <3>1. runId' = sent
      BY <2>4 DEF PostChat
    <3>2. messages' = messages \/ messages' = Append(messages, [of |-> sent, label |-> sent, kind |-> "answer"])
      BY <2>4 DEF PostChat, Say
    <3> QED BY <2>2, <3>1, <3>2
  <2>5. CASE PostProject
    <3>1. runId' = sent
      BY <2>5 DEF PostProject
    <3>2. messages' = Append(messages, [of |-> sent, label |-> sent, kind |-> "placeholder"])
      BY <2>5 DEF PostProject, Say
    <3> QED BY <2>2, <3>1, <3>2
  <2> QED BY <1>2, <2>3, <2>4, <2>5 DEF Post
<1>3. ASSUME NEW r \in Runs, AppendEvent(r)
      PROVE  \/ messages' = messages
             \/ \E m \in Message : messages' = Append(messages, m) /\ InOrder(m, runId')
  <2> DEFINE m == [of |-> r, label |-> source[r].label, kind |-> "answer"]
  <2>1. r = runId /\ runId' = runId /\ r \in Nat
    BY <1>3 DEF AppendEvent, OneStream, Open, Runs
  <2>2. m \in Message /\ InOrder(m, runId')
    BY <1>0, <2>1 DEF StreamOK, Source, Message, InOrder
  <2>3. messages' = messages \/ messages' = Append(messages, m)
    BY <1>3 DEF AppendEvent
  <2> QED BY <2>2, <2>3
<1>4. ASSUME (\E c \in Cards : Ask(c)) \/ UNCHANGED vars PROVE messages' = messages
  BY <1>4 DEF Ask, chat, vars
<1>5. ASSUME NEW r \in Runs, RunAppends(r) \/ Connect(r) \/ Refuse(r) \/ Disconnect(r) PROVE messages' = messages
  BY <1>5 DEF RunAppends, Connect, Refuse, Disconnect, chat
<1>6. ASSUME NEW f \in Fetches, Poll(f) \/ Answer(f) \/ FetchFails(f) \/ \E c \in Cards : Decide(f, c)
      PROVE  messages' = messages
  BY <1>6 DEF Poll, Answer, ListPending, RefreshApprovals, Decided, FetchFails, Decide, chat
<1> QED BY <1>1, <1>2, <1>3, <1>4, <1>5, <1>6 DEF Next, Listen

\* Every step keeps the labels in order.
LEMMA SaidHolds == Typed /\ OneStream /\ SaidInOrder /\ [Next]_vars => SaidInOrder'
<1> SUFFICES ASSUME Typed, OneStream, SaidInOrder, [Next]_vars,
                    NEW i \in 1..Len(messages'), messages'[i].kind \in Assistant
             PROVE  messages'[i].label <= messages'[i].of /\ messages'[i].of <= runId'
  BY DEF SaidInOrder
<1>1. runId \in Nat /\ runId' \in Nat /\ runId <= runId'
  BY RunsGoUp
<1>2. messages \in Seq(Message) /\ Len(messages) \in Nat
  BY DEF Typed, ChatOK
<1>3. ASSUME i \in 1..Len(messages), messages'[i] = messages[i]
      PROVE  messages'[i].label <= messages'[i].of /\ messages'[i].of <= runId'
  <2>0. messages[i] \in Message
    BY <1>2, <1>3
  <2>1. messages[i].of \in Nat
    BY <2>0 DEF Message, Runs
  <2>2. messages[i].label <= messages[i].of /\ messages[i].of <= runId
    BY <1>3 DEF SaidInOrder
  <2> QED BY <1>1, <1>3, <2>1, <2>2
<1>4. CASE messages' = messages
  BY <1>3, <1>4
<1>5. CASE \E m \in Message : messages' = Append(messages, m) /\ InOrder(m, runId')
  <2>1. PICK m \in Message : messages' = Append(messages, m) /\ InOrder(m, runId')
    BY <1>5
  <2>2. /\ Len(messages') = Len(messages) + 1 /\ messages'[Len(messages) + 1] = m
        /\ \A j \in 1..Len(messages) : messages'[j] = messages[j]
    BY <1>2, <2>1, Appended
  <2>3. i \in 1..Len(messages) \/ i = Len(messages) + 1
    BY <1>2, <2>2
  <2> QED BY <1>3, <2>1, <2>2, <2>3 DEF InOrder
<1> QED BY <1>4, <1>5, Said

\* The message that would be saved is one of the current run.
LEMMA CaptureFollows == Typed /\ SaidInOrder => CapturedIsOfRun
<1> SUFFICES ASSUME Typed, SaidInOrder, CanCapture PROVE messages[Captured].of = runId
  BY DEF CapturedIsOfRun
<1> DEFINE I == {i \in 1..Len(messages) : messages[i].kind \in Assistant /\ messages[i].label = runId}
<1>1. Captured = IF I # {} THEN Max(I) ELSE 0
  BY DEF Captured, SelectLastInSeq
<1>2. I # {} /\ Captured = Max(I)
  BY <1>1 DEF CanCapture
<1>3. Len(messages) \in Nat /\ I \in SUBSET (1..Len(messages))
  BY DEF Typed, ChatOK
<1>4. Captured \in I
  <2> HIDE DEF I
  <2> QED BY <1>2, <1>3, LastPlace
<1> DEFINE k == Captured
<1>5. k \in 1..Len(messages) /\ messages[k].kind \in Assistant /\ messages[k].label = runId
  BY <1>4
<1>6. messages[k].of \in Nat /\ runId \in Nat
  <2>1. messages[k] \in Message /\ runId \in 0..sent /\ sent \in Nat
    BY <1>5 DEF Typed, ChatOK
  <2> HIDE DEF k
  <2> QED BY <2>1 DEF Message, Runs
<1>7. messages[k].label <= messages[k].of /\ messages[k].of <= runId
  BY <1>5 DEF SaidInOrder
<1> QED BY <1>5, <1>6, <1>7

-----------------------------------------------------------------------------
(* The theorems *)

LEMMA InitHolds == Init => IInv
<1> SUFFICES ASSUME Init PROVE IInv
  OBVIOUS
<1>1. ServerOK
  BY DEF Init, ServerOK
<1>2. ChatOK
  <2>1. 0 \in 0..MaxSends /\ <<>> \in Seq(Message)
    OBVIOUS
  <2>2. messages \in Seq(Message) /\ sent \in 0..MaxSends /\ runId \in 0..sent
    BY <2>1 DEF Init
  <2>3. posting = FALSE /\ loading = FALSE /\ error = FALSE /\ terminal = FALSE
    BY DEF Init
  <2> QED BY <2>2, <2>3 DEF ChatOK
<1>3. ViewOK
  BY DEF Init, ViewOK
<1>4. StreamOK
  <2>1. NoSource \in Source /\ NoSource.label = 0
    BY DEF NoSource, Source
  <2> QED BY <2>1 DEF Init, StreamOK, Runs
<1>5. FetchOK
  BY DEF Init, FetchOK, NoFetch, Request
<1>6. OneStream /\ ShownIsDispatched
  BY DEF Init, OneStream, ShownIsDispatched, Open, NoSource
<1>7. TimelineIsOfRun /\ SaidInOrder
  BY DEF Init, TimelineIsOfRun, SaidInOrder
<1> QED BY <1>1, <1>2, <1>3, <1>4, <1>5, <1>6, <1>7 DEF IInv, Typed

LEMMA StepHolds == IInv /\ [Next]_vars => IInv'
  BY ServerType, ChatType, StreamType, FetchType, ViewType, OneStreamKept, TimelineHolds, SaidHolds
     DEF IInv, Typed, Shows

LEMMA Typing == Typed => TypeOK
<1> SUFFICES ASSUME Typed PROVE TypeOK
  OBVIOUS
<1>1. \A r \in Runs : log[r] \in Seq(Events) /\ Len(log[r]) <= MaxSteps + 1
  BY DEF Typed, ServerOK
<1> QED BY <1>1 DEF Typed, ServerOK, ChatOK, ViewOK, StreamOK, FetchOK, TypeOK

LEMMA Invariant == Spec => []IInv
  BY InitHolds, StepHolds, PTL DEF Spec

\* Type correctness of the chat, for any bounds, approvals and requests.
THEOREM TypeCorrect == Spec => []TypeOK
<1>1. IInv => TypeOK
  BY Typing DEF IInv
<1> QED BY <1>1, Invariant, PTL

\* useChat leaves no EventSource behind: whatever order messages, ends of runs,
\* refusals and reconnections come in, the one that is open is the current run's.
THEOREM StreamsAreClosed == Spec => []OneStream
<1>1. IInv => OneStream
  BY DEF IInv
<1> QED BY <1>1, Invariant, PTL

\* setEvents knows events by their number alone, and that is enough: the timeline
\* is the end of the current run's log, without gaps, repetitions or strangers.
THEOREM TimelinesAreOfTheirRun == Spec => []TimelineIsOfRun
<1>1. IInv => TimelineIsOfRun
  BY DEF IInv
<1> QED BY <1>1, Invariant, PTL

\* Chat.tsx saves what was said in the run it names as the source, although a
\* stream labels its answer with the run before its own.
THEOREM CapturesAreOfTheirRun == Spec => []CapturedIsOfRun
<1>1. IInv => CapturedIsOfRun
  BY CaptureFollows DEF IInv
<1> QED BY <1>1, Invariant, PTL
=============================================================================
