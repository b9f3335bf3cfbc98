----------------------------- MODULE ChatClient -----------------------------
(***************************************************************************)
(* The chat of the web frontend (hooks/useChat.ts, components/Chat.tsx and  *)
(* ApprovalCards.tsx): a message becomes a run, the run's timeline comes    *)
(* through an EventSource, its approvals through a poll, and the answer may *)
(* be saved as a note of that run.                                         *)
(*                                                                         *)
(* What a handler captured when it was made is part of the state: a stream's *)
(* handlers keep the run that was current when the message was sent.        *)
(***************************************************************************)
EXTENDS Naturals, Sequences, SequencesExt

CONSTANTS
    MaxSends,    \* bound on messages sent; run i is the one message i becomes
    Asks,        \* what one run may ask an approval for
    Fetches,     \* requests about approvals that are under way at one time
    MaxSteps,    \* bound on the events of a run before the one that ends it
    Window,      \* events the timeline keeps, 40 in the code
    MaxFaults,   \* bound on requests and connections that fail
    Framed       \* whether the server ends the lines of its frames

Runs  == 1..MaxSends
Cards == Runs \X Asks

ASSUME BoundsAreNat == {MaxSends, MaxFaults} \subseteq Nat /\ {MaxSteps, Window} \subseteq Nat \ {0}
ASSUME FramedIsBoolean == Framed \in BOOLEAN

VARIABLES
    log,        \* server: the events of each run, its number is an event's sequence
    approval,   \* server: the approvals of each run
    sent,       \* messages sent
    posting,    \* whether the POST of the last one is under way
    loading,    \* the hook's state: a run is awaited
    runId,      \* the current run, 0 before the first
    error,      \* whether an error is shown
    terminal,   \* terminalRef: the awaited run is over
    messages,   \* what was said, and the run each message is labelled with
    timeline,   \* the events shown
    cards,      \* the approvals shown
    source,     \* per run: its EventSource
    ref,        \* streamRef: the run whose EventSource it holds, 0 for none
    fetch,      \* requests about approvals
    faults      \* failures so far

server == <<log, approval>>
chat   == <<sent, posting, loading, runId, error, terminal, messages>>
view   == <<timeline, cards>>
stream == <<source, ref>>
vars   == <<server, chat, view, stream, fetch, faults>>

-----------------------------------------------------------------------------
(* Data *)

Events   == {"step", "completed", "failed"}
Message  == [of : Runs, label : 0..MaxSends, kind : {"user", "placeholder", "answer", "error"}]
Source   == [at : {"none", "connecting", "open", "closed"}, cursor : 0..(MaxSteps + 1), label : 0..MaxSends]
Request  == [op : {"none", "poll", "decide"}, at : {"none", "sent", "answered"},
             run : 0..MaxSends, card : Cards \cup {<<>>}, list : SUBSET Cards]
NoFetch  == [op |-> "none", at |-> "none", run |-> 0, card |-> <<>>, list |-> {}]
NoSource == [at |-> "none", cursor |-> 0, label |-> 0]

Over(r)  == log[r] # <<>> /\ Last(log[r]) # "step"

TypeOK ==
    /\ \A r \in Runs : log[r] \in Seq(Events) /\ Len(log[r]) <= MaxSteps + 1
    /\ approval \in [Cards -> {"none", "pending", "decided"}]
    /\ sent \in 0..MaxSends /\ posting \in BOOLEAN /\ (posting => loading)
    /\ loading \in BOOLEAN /\ error \in BOOLEAN /\ terminal \in BOOLEAN
    /\ runId \in 0..sent
    /\ messages \in Seq(Message)
    /\ timeline \in Seq(Runs \X (1..(MaxSteps + 1))) /\ Len(timeline) <= Window
    /\ cards \subseteq Cards
    /\ source \in [Runs -> Source] /\ ref \in 0..MaxSends
    /\ fetch \in [Fetches -> Request]
    /\ faults \in 0..MaxFaults

Init ==
    /\ log = [r \in Runs |-> <<>>] /\ approval = [c \in Cards |-> "none"]
    /\ sent = 0 /\ posting = FALSE /\ loading = FALSE /\ runId = 0 /\ error = FALSE /\ terminal = FALSE
    /\ messages = <<>> /\ timeline = <<>> /\ cards = {}
    /\ source = [r \in Runs |-> NoSource] /\ ref = 0
    /\ fetch = [f \in Fetches |-> NoFetch] /\ faults = 0

Say(m)    == messages' = Append(messages, m)
Assistant == {"placeholder", "answer"}

\* closeStream: a source that was closed dispatches nothing any more.
CloseStream ==
    /\ source' = [r \in Runs |-> IF r = ref THEN [source[r] EXCEPT !.at = "closed"] ELSE source[r]]
    /\ ref' = 0

-----------------------------------------------------------------------------
(* The server: runs, and the approvals asked for in their name *)

\* A run's task appends until it has appended the event that ends it.
RunAppends(r) ==
    /\ log[r] # <<>> /\ ~Over(r)
    /\ \E e \in Events :
        /\ e = "step" => Len(log[r]) < MaxSteps
        /\ log' = [log EXCEPT ![r] = Append(@, e)]
    /\ UNCHANGED <<approval, chat, view, stream, fetch, faults>>

Ask(c) ==
    /\ log[c[1]] # <<>> /\ approval[c] = "none"
    /\ approval' = [approval EXCEPT ![c] = "pending"]
    /\ UNCHANGED <<log, chat, view, stream, fetch, faults>>

-----------------------------------------------------------------------------
(* sendMessage *)

\* Mutant: the timeline of the last run is left where it is.
SendKeepsTimeline ==
    /\ ~loading /\ sent < MaxSends
    /\ CloseStream
    /\ sent' = sent + 1 /\ posting' = TRUE /\ loading' = TRUE /\ terminal' = FALSE /\ error' = FALSE
    /\ Say([of |-> sent + 1, label |-> 0, kind |-> "user"])
    /\ cards' = {}
    /\ UNCHANGED <<server, runId, timeline, fetch, faults>>

Send ==
    /\ ~loading /\ sent < MaxSends
    /\ CloseStream
    /\ sent' = sent + 1 /\ posting' = TRUE /\ loading' = TRUE /\ terminal' = FALSE /\ error' = FALSE
    /\ Say([of |-> sent + 1, label |-> 0, kind |-> "user"])
    /\ timeline' = <<>> /\ cards' = {}
    /\ UNCHANGED <<server, runId, fetch, faults>>

\* The answer to POST /v1/runs: a chat is over with it, answered or not.
PostChat ==
    /\ posting /\ posting' = FALSE
    /\ runId' = sent /\ terminal' = TRUE /\ loading' = FALSE
    /\ \/ Say([of |-> sent, label |-> sent, kind |-> "answer"]) /\ error' = error
       \/ error' = TRUE /\ messages' = messages
    /\ UNCHANGED <<server, sent, view, stream, fetch, faults>>

\* Mutant: only a chat becomes the current run.
PostProjectKeepsRun ==
    /\ posting /\ posting' = FALSE
    /\ log' = [log EXCEPT ![sent] = <<"step">>]
    /\ Say([of |-> sent, label |-> sent, kind |-> "placeholder"])
    /\ source' = [source EXCEPT ![sent] = [at |-> "connecting", cursor |-> 0, label |-> runId]]
    /\ ref' = sent
    /\ UNCHANGED <<approval, sent, loading, runId, error, terminal, view, fetch, faults>>

\* A project run goes on in the background. The handlers of its stream are
\* those of the moment the message was sent: they label its answer with the
\* run that was current then.
PostProject ==
    /\ posting /\ posting' = FALSE
    /\ log' = [log EXCEPT ![sent] = <<"step">>]
    /\ runId' = sent
    /\ Say([of |-> sent, label |-> sent, kind |-> "placeholder"])
    /\ source' = [source EXCEPT ![sent] = [at |-> "connecting", cursor |-> 0, label |-> runId]]
    /\ ref' = sent
    /\ UNCHANGED <<approval, sent, loading, error, terminal, view, fetch, faults>>

\* No answer, or one that is not ok; the run may exist and go on unseen.
PostFails ==
    /\ posting /\ posting' = FALSE /\ faults < MaxFaults /\ faults' = faults + 1
    /\ \E l \in {<<>>, <<"step">>} : log' = [log EXCEPT ![sent] = l]
    /\ error' = TRUE /\ loading' = FALSE
    /\ Say([of |-> sent, label |-> 0, kind |-> "error"])
    /\ UNCHANGED <<approval, sent, runId, terminal, view, stream, fetch>>

-----------------------------------------------------------------------------
(* The EventSource of a run *)

Connect(r) ==
    /\ source[r].at = "connecting"
    /\ source' = [source EXCEPT ![r].at = "open"]
    /\ UNCHANGED <<server, chat, view, ref, fetch, faults>>

\* Mutant: a connection that is refused for good is taken for one that is lost.
RefuseUnseen(r) ==
    /\ source[r].at = "connecting" /\ faults < MaxFaults /\ faults' = faults + 1
    /\ source' = [source EXCEPT ![r].at = "closed"]
    /\ UNCHANGED <<server, chat, view, ref, fetch>>

\* An answer that is no stream closes the source: onerror.
Refuse(r) ==
    /\ source[r].at = "connecting" /\ faults < MaxFaults /\ faults' = faults + 1
    /\ source' = [source EXCEPT ![r].at = "closed"]
    /\ IF terminal THEN UNCHANGED <<loading, error>> ELSE loading' = FALSE /\ error' = TRUE
    /\ UNCHANGED <<server, sent, posting, runId, terminal, messages, view, ref, fetch>>

\* A lost connection makes the source connect again, from the last event it
\* dispatched; so does the end of the stream, or of one that is idle.
Disconnect(r) ==
    /\ source[r].at = "open"
    /\ \/ faults < MaxFaults /\ faults' = faults + 1
       \/ (source[r].cursor = Len(log[r]) \/ ~Framed) /\ faults' = faults
    /\ source' = [source EXCEPT ![r].at = "connecting"]
    /\ UNCHANGED <<server, chat, view, ref, fetch>>

\* An event is known by its number alone.
Repeated(event) == \E e \in ToSet(timeline) : e[2] = event[2]

\* Mutant: old events are never dropped.
ShownAll(event) ==
    IF Repeated(event) THEN timeline ELSE Append(timeline, event)

\* setEvents: an event that is shown is not shown twice, and old ones go.
Shown(event) ==
    IF Repeated(event) THEN timeline
    ELSE Append(IF Len(timeline) < Window THEN timeline ELSE Tail(timeline), event)

\* Mutant: the stream of a run that is over stays open.
AdvanceOnly(r, n, ends) ==
    /\ source' = [source EXCEPT ![r].cursor = n]
    /\ ref' = ref

\* The event is dispatched; the one that ends the run closes the stream.
Advance(r, n, ends) ==
    /\ source' = [s \in Runs |-> [source[s] EXCEPT !.cursor = IF s = r THEN n ELSE @,
                                                   !.at = IF ends /\ s = ref THEN "closed" ELSE @]]
    /\ ref' = IF ends THEN 0 ELSE ref

\* appendEvent. An EventSource dispatches an event at an empty line, so it never
\* does when the server does not end its lines.
AppendEvent(r) ==
    LET n == source[r].cursor + 1
        ends == log[r][n] # "step"
    IN
    /\ source[r].at = "open" /\ Framed /\ n <= Len(log[r])
    /\ timeline' = Shown(<<r, n>>)
    /\ Advance(r, n, ends)
    /\ terminal' = (terminal \/ ends) /\ loading' = (loading /\ ~ends)
    /\ cards' = IF ends THEN {} ELSE cards
    /\ error' = (error \/ log[r][n] = "failed")
    /\ messages' = IF log[r][n] = "completed"
                   THEN Append(messages, [of |-> r, label |-> source[r].label, kind |-> "answer"])
                   ELSE messages
    /\ UNCHANGED <<server, sent, posting, runId, fetch, faults>>

-----------------------------------------------------------------------------
(* Approvals: the poll, and the user's decisions *)

\* Mutant: no poll while the stream is there to tell.
PollWithoutStream(f) ==
    /\ loading /\ runId # 0 /\ ref = 0 /\ fetch[f] = NoFetch
    /\ fetch' = [fetch EXCEPT ![f] = [NoFetch EXCEPT !.op = "poll", !.at = "sent", !.run = runId]]
    /\ UNCHANGED <<server, chat, view, stream, faults>>

\* Every two seconds while a run is awaited, whether the last poll was answered or
\* not; the current run is still the last one while a message is posted.
Poll(f) ==
    /\ loading /\ runId # 0 /\ fetch[f] = NoFetch
    /\ fetch' = [fetch EXCEPT ![f] = [NoFetch EXCEPT !.op = "poll", !.at = "sent", !.run = runId]]
    /\ UNCHANGED <<server, chat, view, stream, faults>>

\* GET …/approvals?status=pending
ListPending(f) ==
    /\ fetch[f].op = "poll" /\ fetch[f].at = "sent"
    /\ fetch' = [fetch EXCEPT ![f].at = "answered",
                              ![f].list = {c \in Cards : c[1] = fetch[f].run /\ approval[c] = "pending"}]
    /\ UNCHANGED <<server, chat, view, stream, faults>>

\* refreshApprovals shows what it got, whatever has happened since it asked.
RefreshApprovals(f) ==
    /\ fetch[f].op = "poll" /\ fetch[f].at = "answered"
    /\ cards' = fetch[f].list
    /\ fetch' = [fetch EXCEPT ![f] = NoFetch]
    /\ UNCHANGED <<server, chat, timeline, stream, faults>>

\* decideApproval: the decision goes to the current run.
Decide(f, c) ==
    /\ c \in cards /\ runId # 0 /\ fetch[f] = NoFetch
    /\ error' = FALSE
    /\ fetch' = [fetch EXCEPT ![f] = [NoFetch EXCEPT !.op = "decide", !.at = "sent", !.run = runId, !.card = c]]
    /\ UNCHANGED <<server, sent, posting, loading, runId, terminal, messages, view, stream, faults>>

\* Another run's approval is not found, and one that was decided conflicts;
\* otherwise the list is asked for again.
Decided(f) ==
    LET c == fetch[f].card IN
    /\ fetch[f].op = "decide"
    /\ IF c[1] = fetch[f].run /\ approval[c] = "pending"
       THEN /\ approval' = [approval EXCEPT ![c] = "decided"]
            /\ fetch' = [fetch EXCEPT ![f] = [@ EXCEPT !.op = "poll", !.card = <<>>]]
            /\ error' = error
       ELSE /\ fetch' = [fetch EXCEPT ![f] = NoFetch]
            /\ error' = TRUE
            /\ approval' = approval
    /\ UNCHANGED <<log, sent, posting, loading, runId, terminal, messages, view, stream, faults>>

\* A request that fails, on its way or with its answer.
FetchFails(f) ==
    /\ fetch[f] # NoFetch /\ faults < MaxFaults /\ faults' = faults + 1
    /\ \/ approval' = approval
       \/ /\ fetch[f].op = "decide" /\ approval[fetch[f].card] = "pending" /\ fetch[f].card[1] = fetch[f].run
          /\ approval' = [approval EXCEPT ![fetch[f].card] = "decided"]
    /\ fetch' = [fetch EXCEPT ![f] = NoFetch]
    /\ error' = TRUE
    /\ UNCHANGED <<log, sent, posting, loading, runId, terminal, messages, view, stream>>

-----------------------------------------------------------------------------

Post      == PostChat \/ PostProject \/ PostFails
Listen(r) == Connect(r) \/ AppendEvent(r)
Answer(f) == ListPending(f) \/ RefreshApprovals(f) \/ Decided(f)

Next ==
    \/ Send \/ Post
    \/ \E r \in Runs : RunAppends(r) \/ Listen(r) \/ Refuse(r) \/ Disconnect(r)
    \/ \E f \in Fetches : Poll(f) \/ Answer(f) \/ FetchFails(f) \/ \E c \in Cards : Decide(f, c)
    \/ \E c \in Cards : Ask(c)

Spec == Init /\ [][Next]_vars

\* Requests are answered, an EventSource connects and dispatches, and the interval
\* goes on: a poll is not kept from its turn by the bound on requests. Nothing is
\* assumed of the user, and a run may take for ever.
Fairness ==
    /\ WF_vars(Post)
    /\ \A r \in Runs : WF_vars(Listen(r))
    /\ \A f \in Fetches : WF_vars(Answer(f))
    /\ SF_vars(\E f \in Fetches : Poll(f))

FairSpec == Spec /\ Fairness

-----------------------------------------------------------------------------
(* Properties *)

Open(r) == source[r].at \in {"connecting", "open"}

\* At most one EventSource is open, that of the current run, and only while the
\* chat waits for it: none is left behind to connect again for ever, whatever
\* order messages, ends, refusals and reconnections come in.
OneStream == \A r \in Runs : Open(r) => r = runId /\ r = ref /\ loading /\ ~posting

\* The timeline is the end of what the current run's stream has dispatched, each
\* event once and in order, over any number of reconnections and runs.
TimelineIsOfRun ==
    LET n == Len(timeline) IN
    n > 0 => /\ runId # 0 /\ ~posting
             /\ \A i \in 1..n : timeline[i] = <<runId, source[runId].cursor - n + i>>
             /\ n = Window \/ n = source[runId].cursor

\* The message that "Save decision" would save: the last one of the assistant
\* that has the label of the current run.
Captured == SelectLastInSeq(messages, LAMBDA m : m.kind \in Assistant /\ m.label = runId)
CanCapture == runId # 0 /\ ~loading /\ Captured # 0

\* What is saved with the provenance of a run was said in that run, although
\* answers of streams carry the label of the run before theirs.
CapturedIsOfRun == CanCapture => messages[Captured].of = runId

\* The chat waits no longer than the run it waits for: an answer, an error or the
\* end of the run frees it, over lost connections and failing requests.
LoadingEnds == loading ~> ~loading \/ (~posting /\ ~Over(sent))

Awaited(r) == loading /\ runId = r

\* While a run is awaited, what is shown of an approval of it comes to agree with
\* what the server knows, asked for or decided, although polls overlap, fail and
\* overtake each other.
CardsFollow == \A c \in Cards :
    Awaited(c[1]) ~> (c \in cards <=> approval[c] = "pending") \/ ~Awaited(c[1])

\* A completed run is saved with its answer: "A completed run can be saved as a
\* note or follow-up task with `source_run_id` provenance" (BETA_ACCEPTANCE.md:16).
CapturedIsAnswer ==
    CanCapture /\ Over(runId) /\ Last(log[runId]) = "completed" /\ terminal
        => messages[Captured].kind = "answer"
=============================================================================
