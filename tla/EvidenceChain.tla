--------------------------- MODULE EvidenceChain ---------------------------
(***************************************************************************)
(* The evidence chain of one case of ForensicCore (text16/b): registration,*)
(* verification, notes and transfers append events to it under the lock of *)
(* the case row, and Verify looks for what was done to the table outside   *)
(* the service. A digest is a sequence of the one canonical envelope that  *)
(* it is the hash of.                                                      *)
(***************************************************************************)
EXTENDS Naturals, Sequences, SequencesExt

CONSTANTS
    Requests,       \* bound: requests in flight
    People,         \* custodians and targets of a transfer
    MaxTime,        \* bound: the clock
    MaxEvents,      \* bound: events of the case
    Tampering       \* whether someone edits the table, once

VARIABLES
    clock,          \* time.Now
    custodian,      \* Case.custodian, 0 at first
    events,         \* the rows of chain_events by sequence
    request,        \* what each request read before its transaction
    tampered        \* history: what the one edit of the table was done to

vars == <<clock, custodian, events, request, tampered>>

Idle == [type |-> "none", at |-> 0, from |-> 0]
ZeroDigest == <<>>

Envelope(type, sequence, prev, at, from, to) ==
    [type |-> type, sequence |-> sequence, prev |-> prev, at |-> at,
     from |-> from, to |-> to]
Digest(envelope) == <<envelope>>
Row(envelope) == [envelope |-> envelope, digest |-> Digest(envelope)]

Init ==
    /\ clock = 0
    /\ custodian = 0
    /\ events = <<>>
    /\ request = [r \in Requests |-> Idle]
    /\ tampered = "no"

\* The handler reads the time, and Transfer the custodian it will name as the
\* giver, before the case is locked.
Begin(r, type) ==
    /\ request[r] = Idle
    /\ request' = [request EXCEPT ![r] =
           [type |-> type, at |-> clock,
            from |-> IF type = "transfer" THEN custodian ELSE 0]]
    /\ UNCHANGED <<clock, custodian, events, tampered>>

\* The time of an event, not before that of the event it follows
EventTime_Given(last, at) == at
EventTime(last, at) == IF at < last.at THEN last.at ELSE at

\* chain.Append with the change of custodian, in one transaction
AppendEvent(r, to) ==
    /\ request[r] # Idle
    /\ Len(events) < MaxEvents
    /\ LET q == request[r]
           last == IF events = <<>> THEN Row(Envelope("none", 0, <<>>, 0, 0, 0))
                   ELSE Last(events)
           prev == IF events = <<>> THEN ZeroDigest ELSE last.digest
       IN  /\ q.type = "transfer" <=> to \in People
           /\ events' = Append(events, Row(Envelope(q.type,
                  last.envelope.sequence + 1, prev, EventTime(last.envelope, q.at),
                  q.from, to)))
           /\ custodian' = IF q.type = "transfer" THEN to ELSE custodian
    /\ request' = [request EXCEPT ![r] = Idle]
    /\ UNCHANGED <<clock, tampered>>

\* Edits outside the service: a row is deleted, or its envelope changed with
\* its digest recomputed or not. Nothing after the last row tells of it.
Tamper(i, edited) ==
    /\ Tampering
    /\ tampered = "no"
    /\ events' = edited
    /\ tampered' = IF i = Len(events) THEN "tail" ELSE "inner"
    /\ UNCHANGED <<clock, custodian, request>>

Forged(row) == [row.envelope EXCEPT !.from = 9]
Delete(i) == Tamper(i, RemoveAt(events, i))
Recompute(i) == Tamper(i, [events EXCEPT ![i] = Row(Forged(@))])
Alter(i) ==
    /\ events' = [events EXCEPT ![i].envelope = Forged(events[i])]
    /\ Tampering /\ tampered = "no" /\ tampered' = "inner"
    /\ UNCHANGED <<clock, custodian, request>>

Tick == clock < MaxTime /\ clock' = clock + 1
        /\ UNCHANGED <<custodian, events, request, tampered>>

Next ==
    \/ \E r \in Requests, type \in {"note", "transfer"} : Begin(r, type)
    \/ \E r \in Requests, to \in People \cup {0} : AppendEvent(r, to)
    \/ \E i \in DOMAIN events : Delete(i) \/ Recompute(i) \/ Alter(i)
    \/ Tick

Spec == Init /\ [][Next]_vars
-----------------------------------------------------------------------------
\* chain.Verify
Healthy ==
    /\ events # <<>> => /\ events[1].envelope.sequence = 1
                        /\ events[1].envelope.prev = ZeroDigest
    /\ \A i \in DOMAIN events : events[i].digest = Digest(events[i].envelope)
    /\ \A i \in 2 .. Len(events) :
           /\ events[i].envelope.sequence = events[i - 1].envelope.sequence + 1
           /\ events[i].envelope.prev = events[i - 1].digest
           /\ events[i].envelope.at >= events[i - 1].envelope.at

\* Verify reports a chain that requests appended to at once as healthy, and one
\* as broken whose row was altered without its digest, or was edited when other
\* rows already followed it, whatever is appended later (chain.go:110-293).
VerifySound == Healthy <=> tampered # "inner"

\* The custodian of the case is the one the last transfer names (chainops.go:36-59).
LastTransfer ==
    LET transfers == {i \in DOMAIN events : events[i].envelope.type = "transfer"}
    IN  tampered = "no" /\ transfers # {} =>
            custodian = events[CHOOSE i \in transfers :
                                   \A j \in transfers : j <= i].envelope.to
-----------------------------------------------------------------------------
\* The chain as a log
log == [i \in DOMAIN events |-> events[i].envelope]
=============================================================================
