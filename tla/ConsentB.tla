------------------------------ MODULE ConsentB ------------------------------
(***************************************************************************)
(* The other consent ledger (text6/b), for one purpose of one              *)
(* organization. Writers of a stream hold its advisory lock until they     *)
(* commit and the rebuild keeps all writers out; but whether the subject   *)
(* is erased is read before the lock and not again. A batch is of one      *)
(* subject here.                                                           *)
(***************************************************************************)
EXTENDS Naturals, Sequences, FiniteSets, FiniteSetsExt

CONSTANTS
    Subjects,       \* subjects of the organization
    EventIds,       \* event_id, chosen by the client
    Expiries,       \* expires_at of grants; 0: none
    Requests,       \* bound: requests in flight
    MaxTime,        \* bound: the clock
    MaxBatch        \* bound: events of a batch

VARIABLES
    clock,          \* utcnow
    erased,         \* Subject.erased
    events,         \* ConsentEvent rows, in the order of their commits
    state,          \* ConsentState: version and last event of a stream
    exports,        \* ExportCopy: subjects with a registered copy
    request         \* what each request will do to the subject it has checked

vars == <<clock, erased, events, state, exports, request>>

\* canonical_fingerprint leaves the expected version out.
Contents == [id : EventIds, subject : Subjects, type : {"grant", "withdraw"},
             expires : Expiries]
Idle == [op |-> "idle", subject |-> 0, late |-> FALSE]
NoRow == [version |-> 0, last |-> 0]

Init ==
    /\ clock = 0
    /\ erased = [s \in Subjects |-> FALSE]
    /\ events = <<>>
    /\ state = [s \in Subjects |-> NoRow]
    /\ exports = {}
    /\ request = [r \in Requests |-> Idle]

Stream(evs, s) == {i \in DOMAIN evs : evs[i].subject = s}
Newest(evs, s) == evs[Max(Stream(evs, s))]
Version(evs, s) == IF Stream(evs, s) = {} THEN 0 ELSE Newest(evs, s).version
Used(evs, id) == \E i \in DOMAIN evs : evs[i].id = id

\* fold_stream and evaluate_validity: the last event counts.
Valid(evs, s) ==
    /\ Stream(evs, s) # {}
    /\ LET last == Newest(evs, s)
       IN  last.type = "grant" /\ (last.expires = 0 \/ clock < last.expires)

-----------------------------------------------------------------------------
\* _get_active_subject; late is set when the subject is erased meanwhile.
Begin(r, op, s) ==
    /\ request[r] = Idle /\ ~erased[s]
    /\ request' = [request EXCEPT ![r] = [op |-> op, subject |-> s, late |-> FALSE]]
    /\ UNCHANGED <<clock, erased, events, state, exports>>

Ends(r) == request' = [request EXCEPT ![r] = Idle]

Replayed(evs, c) == \E i \in DOMAIN evs : evs[i].content = c
Accepts(evs, c, expected) ==
    \/ Replayed(evs, c)
    \/ /\ ~Used(evs, c.id)
       /\ expected = Version(evs, c.subject)
       /\ c.type = "withdraw" <=> Valid(evs, c.subject)

Appended(evs, c) ==
    IF Replayed(evs, c) THEN evs
    ELSE Append(evs, [id |-> c.id, subject |-> c.subject, type |-> c.type, at |-> clock,
                      version |-> Version(evs, c.subject) + 1,
                      expires |-> IF c.type = "grant" THEN c.expires ELSE 0, content |-> c])

\* append_event, or import_batch: under the lock, all of the events or none
AppendEvents(r, batch, expected) ==
    LET s == request[r].subject
        after[n \in 0 .. Len(batch)] ==
            IF n = 0 THEN events ELSE Appended(after[n - 1], batch[n])
        evs == after[Len(batch)]
    IN  /\ request[r].op = "append"
        /\ \A n \in DOMAIN batch :
               /\ batch[n].subject = s
               /\ \A m \in DOMAIN batch : batch[m].id = batch[n].id => m = n
               /\ Accepts(after[n - 1], batch[n], expected + n - 1)
        /\ events' = evs
        /\ state' = IF evs = events THEN state
                    ELSE [state EXCEPT ![s] = [version |-> evs[Len(evs)].version,
                                               last |-> evs[Len(evs)].id]]
        /\ Ends(r)
        /\ UNCHANGED <<clock, erased, exports>>

RegisterExport(r) ==
    /\ request[r].op = "export"
    /\ exports' = exports \cup {[of |-> request[r].subject, late |-> request[r].late]}
    /\ Ends(r)
    /\ UNCHANGED <<clock, erased, events, state>>

EraseSubject(s) ==
    /\ ~erased[s]
    /\ erased' = [erased EXCEPT ![s] = TRUE]
    /\ exports' = {e \in exports : e.of # s}
    /\ request' = [r \in Requests |->
           IF request[r].subject = s THEN [request[r] EXCEPT !.late = TRUE] ELSE request[r]]
    /\ UNCHANGED <<clock, events, state>>

Rebuilt(s) ==
    IF Stream(events, s) = {} THEN NoRow
    ELSE [version |-> Newest(events, s).version, last |-> Newest(events, s).id]
RebuildStates ==
    /\ state' = [s \in Subjects |-> Rebuilt(s)]
    /\ UNCHANGED <<clock, erased, events, exports, request>>

Tick == clock < MaxTime /\ clock' = clock + 1
        /\ UNCHANGED <<erased, events, state, exports, request>>

Next ==
    \/ \E r \in Requests, op \in {"append", "export"}, s \in Subjects : Begin(r, op, s)
    \/ \E r \in Requests, n \in 1 .. MaxBatch : \E batch \in [1 .. n -> Contents] :
           \E expected \in 0 .. Len(events) : AppendEvents(r, batch, expected)
    \/ \E r \in Requests : RegisterExport(r)
    \/ \E s \in Subjects : EraseSubject(s)
    \/ RebuildStates
    \/ Tick

Spec == Init /\ [][Next]_vars
-----------------------------------------------------------------------------
\* A stream alternates: a grant comes when no grant is valid, and a withdrawal
\* when one is. The state is the one a rebuild would compute, and an erased
\* subject has only such export copies as a request registered that had checked
\* the subject before (consent.py:237-361, 428-507, subjects.py:82-105).
ConsentSound ==
    /\ \A s \in Subjects : state[s] = Rebuilt(s)
    /\ \A i, j \in DOMAIN events : events[i].id = events[j].id => i = j
    /\ \A i \in DOMAIN events :
           LET e == events[i]
               earlier == {j \in Stream(events, e.subject) : j < i}
               before == events[Max(earlier)]
           IN  /\ e.version = Cardinality(earlier) + 1
               /\ e.type = "withdraw" <=>
                      /\ earlier # {} /\ before.type = "grant"
                      /\ before.expires = 0 \/ e.at < before.expires
    /\ \A e \in exports : erased[e.of] => e.late
=============================================================================
