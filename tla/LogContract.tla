---------------------------- MODULE LogContract -----------------------------
(***************************************************************************)
(* What the cloud promises a device about the project's log (ADR 006),     *)
(* without the requests it takes: the log only grows; the cloud adds       *)
(* events to it, and what is taken from a device is taken in one piece,    *)
(* each event once and on the last revision of its entity; the device      *)
(* learns only of events that are in the log, and reads on from its        *)
(* cursor, a page at a time.                                               *)
(***************************************************************************)
EXTENDS Naturals, Sequences

CONSTANTS Entities, CloudEvents, DeviceEvents, PageLimit

VARIABLES
    log,      \* events with their entity and the revision they made of it
    settled,  \* the device's events that it knows to be in the log
    read,     \* places of the log the device has read
    cursor    \* how far it has read, but for what a page leaves out

Entry == [id : CloudEvents \cup DeviceEvents, entity : Entities, revision : Nat]

Init == log = <<>> /\ settled = {} /\ read = {} /\ cursor = 0

Before(l, i) == {k \in DOMAIN l : k < i /\ l[k].entity = l[i].entity}

New(l, i) == \A k \in DOMAIN l : k < i => l[k].id # l[i].id

\* Place i has the revision after the one of the last event before it on its entity.
Follows(l, i) ==
    \/ Before(l, i) = {} /\ l[i].revision = 1
    \/ \E k \in Before(l, i) : /\ \A j \in Before(l, i) : j <= k
                               /\ l[i].revision = l[k].revision + 1

FromDevice(l, i) == l[i].id \in DeviceEvents /\ New(l, i) /\ Follows(l, i)

Grown == /\ log' \in Seq(Entry) /\ Len(log) <= Len(log')
         /\ \A i \in DOMAIN log : log'[i] = log[i]

\* The cloud writes one event, on whatever revision it read.
Write == /\ Grown /\ Len(log') = Len(log) + 1
         /\ log'[Len(log')].id \in CloudEvents /\ New(log', Len(log'))
         /\ UNCHANGED <<settled, read, cursor>>

\* Events of the device are added, all those of one request or none.
Take == /\ Grown /\ \A i \in DOMAIN log' \ DOMAIN log : FromDevice(log', i)
        /\ UNCHANGED <<settled, read, cursor>>

Learn == /\ settled \subseteq settled'
         /\ \A e \in settled' : e \in DeviceEvents /\ \E i \in DOMAIN log : log[i].id = e
         /\ UNCHANGED <<log, read, cursor>>

Read == /\ cursor' \in cursor..Len(log)
        /\ read' = read \cup {i \in cursor+1..cursor' : i <= cursor + PageLimit}
        /\ UNCHANGED <<log, settled>>

Next == Write \/ Take \/ Learn \/ Read

Spec == Init /\ [][Next]_<<log, settled, read, cursor>>
=============================================================================
