------------------------------ MODULE ConsentA ------------------------------
(***************************************************************************)
(* The consent ledger of ConsentVault (text6/a), for one purpose of one    *)
(* organization. Every write holds the advisory lock of the organization   *)
(* for its whole transaction, a batch for all of its events. The time a    *)
(* write goes by is read before that lock.                                 *)
(***************************************************************************)
EXTENDS Naturals, Sequences, FiniteSets, SequencesExt

CONSTANTS
    Subjects,       \* subject_ref
    EventIds,       \* event_id, chosen by the client
    Expiries,       \* expires_at of grants; 0: none
    MaxTime,        \* bound: the clock
    MaxVersion,     \* bound: expected versions that clients send
    MaxPolicies,    \* bound: published policy versions
    MaxBatch        \* bound: events of a batch

VARIABLES
    clock,          \* utcnow
    policies,       \* the last PolicyVersion
    db,             \* Subject, ConsentEvent, ConsentState, EventIdempotency rows
    copies          \* SubjectExportCopy: subjects with a registered copy

vars == <<clock, policies, db, copies>>

Writes == [id : EventIds, subject : Subjects, action : {"grant", "withdraw"},
           expected : 0 .. MaxVersion, policy : 1 .. MaxPolicies, expires : Expiries]
NoWrite == [id |-> 0, subject |-> 0, action |-> "none", expected |-> 0, policy |-> 0,
            expires |-> 0]
NoState == [status |-> "none", version |-> 0, policy |-> 0, expires |-> 0, granted |-> 0]
Unused == [write |-> NoWrite, erased |-> FALSE]

Init ==
    /\ clock = 0
    /\ policies = 0
    /\ db = [pseudonym |-> [s \in Subjects |-> 0],      \* 0: no such subject
             issued |-> 0,                              \* pseudonyms so far
             events |-> <<>>,
             state |-> [s \in Subjects |-> NoState],
             used |-> [i \in EventIds |-> Unused]]
    /\ copies = {}

-----------------------------------------------------------------------------
\* What an event makes of the state before it; a withdrawal keeps the grant.
Step(state, e) ==
    IF e.action = "grant"
    THEN [status |-> "granted", version |-> state.version + 1, policy |-> e.policy,
          expires |-> e.expires, granted |-> e.sequence]
    ELSE [state EXCEPT !.status = "withdrawn", !.version = @ + 1]

Of(st, p) == SelectSeq(st.events, LAMBDA e : e.of = p)

\* Same event and same request: the stored answer. Erased: 410.
Replays(st, w) == st.used[w.id] = [write |-> w, erased |-> FALSE]
Accepts(st, w, now) ==
    \/ Replays(st, w)
    \/ /\ st.used[w.id] = Unused
       /\ w.expected = st.state[w.subject].version
       /\ w.action = "grant" => w.policy <= policies /\ (w.expires = 0 \/ w.expires > now)
       /\ w.action = "withdraw" => st.state[w.subject].status = "granted"

\* write_event: an unknown subject is registered under a new pseudonym.
Written(st, w) ==
    IF Replays(st, w) THEN st ELSE
    LET known == st.pseudonym[w.subject] # 0
        p == IF known THEN st.pseudonym[w.subject] ELSE st.issued + 1
        e == [of |-> p, action |-> w.action, sequence |-> Len(Of(st, p)) + 1,
              policy |-> w.policy, expires |-> w.expires, id |-> w.id]
    IN  [pseudonym |-> [st.pseudonym EXCEPT ![w.subject] = p],
         issued |-> IF known THEN st.issued ELSE p,
         events |-> Append(st.events, e),
         state |-> [st.state EXCEPT ![w.subject] = Step(@, e)],
         used |-> [st.used EXCEPT ![w.id] = [write |-> w, erased |-> FALSE]]]

\* A single write, or batch_import: all of its events or none.
Write(batch, now) ==
    LET after[n \in 0 .. Len(batch)] ==
            IF n = 0 THEN db ELSE Written(after[n - 1], batch[n])
    IN  /\ \A i, j \in DOMAIN batch : batch[i].id = batch[j].id => i = j
        /\ \A n \in DOMAIN batch : Accepts(after[n - 1], batch[n], now)
        /\ db' = after[Len(batch)]
    /\ UNCHANGED <<clock, policies, copies>>

PublishPolicy ==
    /\ policies < MaxPolicies
    /\ policies' = policies + 1
    /\ UNCHANGED <<clock, db, copies>>

RegisterCopy(s) ==
    /\ db.pseudonym[s] # 0
    /\ copies' = copies \cup {s}
    /\ UNCHANGED <<clock, policies, db>>

\* delete_subject: the history stays under the pseudonym, and so does the fact
\* that the events of the subject were used.
Tombstones(s) ==
    [i \in EventIds |->
        IF db.used[i].write.subject = s THEN [db.used[i] EXCEPT !.erased = TRUE] ELSE db.used[i]]
DeleteSubject(s) ==
    /\ db.pseudonym[s] # 0
    /\ db' = [db EXCEPT !.pseudonym[s] = 0, !.state[s] = NoState, !.used = Tombstones(s)]
    /\ copies' = copies \ {s}
    /\ UNCHANGED <<clock, policies>>

\* rebuild_organization: the events of living subjects in the order of their
\* sequence
Replayed(s) ==
    IF db.pseudonym[s] = 0 THEN NoState
    ELSE FoldLeft(Step, NoState, Of(db, db.pseudonym[s]))
Rebuild ==
    /\ db' = [db EXCEPT !.state = [s \in Subjects |-> Replayed(s)]]
    /\ UNCHANGED <<clock, policies, copies>>

Tick == clock < MaxTime /\ clock' = clock + 1 /\ UNCHANGED <<policies, db, copies>>

Next ==
    \/ \E n \in 1 .. MaxBatch : \E batch \in [1 .. n -> Writes], now \in 0 .. clock :
           Write(batch, now)
    \/ PublishPolicy
    \/ \E s \in Subjects : RegisterCopy(s) \/ DeleteSubject(s)
    \/ Rebuild
    \/ Tick

Spec == Init /\ [][Next]_vars
-----------------------------------------------------------------------------
\* The state that writes maintain is the one a rebuild would compute, an event
\* id stands for one event of the history, and once a subject is erased no event
\* of its history can be written again for whoever takes its name (services.py:
\* 324-490 and 660-750, services_rebuild.py:60-125).
ConsentSound ==
    /\ \A s \in Subjects : db.state[s] = Replayed(s)
    /\ \A i, j \in DOMAIN db.events : db.events[i].id = db.events[j].id => i = j
    /\ \A i \in DOMAIN db.events :
           db.used[db.events[i].id].erased <=>
               \A s \in Subjects : db.pseudonym[s] # db.events[i].of
    /\ \A s \in copies : db.pseudonym[s] # 0
=============================================================================
