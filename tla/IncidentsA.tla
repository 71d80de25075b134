----------------------------- MODULE IncidentsA -----------------------------
(***************************************************************************)
(* One incident of text18/a: its stages, members, evidence, action items   *)
(* and reminders. Every operation locks the incident row and then runs to  *)
(* its commit, hence one step each; a sweep locks items and skips those    *)
(* that are locked, and reads the clock before.                            *)
(***************************************************************************)
EXTENDS Naturals, Sequences, FiniteSets

CONSTANTS
    Role,           \* User.role of each user
    Severity,       \* Incident.severity
    Requests,       \* request ids
    MaxEvidence,    \* MaxEvidencePerIncident, 50 in the code
    Batch,          \* the batch of a sweep
    MaxTime,        \* bound: the clock stops here
    MaxItems,       \* bound: action items
    MaxVersion      \* bound: schedules of an action item

VARIABLES
    clock,          \* s.clock.Now()
    incident,       \* version, what closure asks for, members with case roles
    phases,         \* incident_phases: entered_at of each, in order
    evidence,       \* request ids of the evidence rows, 0 without one
    items,          \* action_items rows
    reminders,      \* reminders rows, with the time they were made at
    used            \* idempotent_requests: ids that were stored

vars == <<clock, incident, phases, evidence, items, reminders, used>>

Users == DOMAIN Role
Stages == <<"detected", "triaged", "contained", "eradicated", "recovered",
            "reviewed", "closed">>
Status == Stages[Len(phases)]

\* CreateIncident, by user 1
Init ==
    /\ clock = 0
    /\ incident = [version |-> 1, rootCause |-> FALSE,
                   members |-> [u \in Users |-> IF u = 1 /\ Role[1] # "admin"
                                                THEN Role[1] ELSE "none"]]
    /\ phases = <<0>>
    /\ evidence = <<>>
    /\ items = <<>>
    /\ reminders = {}
    /\ used = {}

-----------------------------------------------------------------------------
\* runMutated: a stored id is answered with the stored response, or refused if
\* it belongs to another call; id 0 stands for none.
Mutates(id) == id \notin used /\ used' = IF id = 0 THEN used ELSE used \cup {id}

Access(u, roles) == Role[u] = "admin" \/ incident.members[u] \in roles

AllowedRole == [triaged |-> "analyst", contained |-> "responder",
                eradicated |-> "responder", recovered |-> "responder",
                reviewed |-> "analyst", closed |-> "admin"]

\* The gates of triage and closure. root_cause and lessons_learned come together.
Gates(target, rootCause) ==
    /\ target = "triaged" /\ Severity = "P1" =>
           \E u \in Users : incident.members[u] = "responder"
    /\ target = "closed" =>
           rootCause /\ \E i \in DOMAIN items : items[i].status \in {"open", "done"}

Transition(u, id, expected, rootCause) ==
    /\ Mutates(id)
    /\ Status # "closed"
    /\ LET target == Stages[Len(phases) + 1]
       IN  Access(u, {AllowedRole[target]}) /\ Gates(target, rootCause)
    /\ incident.version = expected
    /\ incident' = [incident EXCEPT !.version = @ + 1, !.rootCause = @ \/ rootCause]
    /\ phases' = Append(phases, clock)
    /\ UNCHANGED <<clock, evidence, items, reminders>>

AssignMember(u, member, caseRole) ==
    /\ Role[u] = "admin"
    /\ caseRole \in {Role[member], "admin"}
    /\ incident' = [incident EXCEPT !.members[member] = caseRole]
    /\ UNCHANGED <<clock, phases, evidence, items, reminders, used>>

AddEvidence(u, id) ==
    /\ Mutates(id)
    /\ Status # "closed" /\ Access(u, {"analyst"})
    /\ Len(evidence) < MaxEvidence
    /\ evidence' = Append(evidence, id)
    /\ UNCHANGED <<clock, incident, phases, items, reminders>>

CreateActionItem(u, id, due) ==
    /\ Mutates(id)
    /\ Status # "closed" /\ Access(u, {"analyst", "responder"})
    /\ Len(items) < MaxItems
    /\ items' = Append(items, [due |-> due, version |-> 1, status |-> "open"])
    /\ UNCHANGED <<clock, incident, phases, evidence, reminders>>

\* These two do not look at the status of the incident.
RescheduleActionItem(u, id, i, due) ==
    /\ Mutates(id)
    /\ Access(u, {"analyst", "responder"})
    /\ items[i].status = "open" /\ items[i].version < MaxVersion
    /\ items' = [items EXCEPT ![i].due = due, ![i].version = @ + 1]
    /\ UNCHANGED <<clock, incident, phases, evidence, reminders>>

SetActionItemStatus(u, i, status) ==
    /\ Access(u, {"analyst", "responder"})
    /\ items[i].status = "open"
    /\ items' = [items EXCEPT ![i].status = status]
    /\ UNCHANGED <<clock, incident, phases, evidence, reminders, used>>

-----------------------------------------------------------------------------
\* DueActionItems takes the open items that are due by now, the reminded ones
\* too, ordered by due time and cut at the batch.
DueActionItems(now, locked) ==
    LET due == {i \in DOMAIN items :
                   items[i].status = "open" /\ items[i].due <= now /\ i \notin locked}
        before(i) == {j \in due : \/ items[j].due < items[i].due
                                  \/ items[j].due = items[i].due /\ j < i}
    IN  {i \in due : Cardinality(before(i)) < Batch}

Reminded(i) == \E r \in reminders : r.item = i /\ r.version = items[i].version

SweepDueOnce(now, locked) ==
    /\ reminders' = reminders \cup
           {[item |-> i, version |-> items[i].version, due |-> items[i].due, at |-> clock] :
               i \in {i \in DueActionItems(now, locked) : ~Reminded(i)}}
    /\ UNCHANGED <<clock, incident, phases, evidence, items, used>>

Tick ==
    /\ clock < MaxTime
    /\ clock' = clock + 1
    /\ UNCHANGED <<incident, phases, evidence, items, reminders, used>>

Next ==
    \/ \E u \in Users, id \in Requests \cup {0} :
           \/ \E rootCause \in BOOLEAN : Transition(u, id, incident.version, rootCause)
           \/ AddEvidence(u, id)
           \/ \E due \in 0 .. MaxTime :
                  \/ CreateActionItem(u, id, due)
                  \/ \E i \in DOMAIN items : RescheduleActionItem(u, id, i, due)
    \/ \E u, member \in Users, caseRole \in {"analyst", "responder", "admin"} :
           AssignMember(u, member, caseRole)
    \/ \E u \in Users, i \in DOMAIN items, status \in {"done", "canceled"} :
           SetActionItemStatus(u, i, status)
    \/ \E now \in 0 .. clock, locked \in SUBSET DOMAIN items : SweepDueOnce(now, locked)
    \/ Tick

Spec == Init /\ [][Next]_vars
-----------------------------------------------------------------------------
\* Stage, version and phases move together, and the phase times never go back,
\* which the metrics rely on; closure had its root cause and an action item. A
\* request id has one effect. A reminder is of a schedule that was due when it
\* was made, and of each schedule there is one, although reminded items stay in
\* the sweep (transitions.go:49-163, evidence.go:44-102, actions.go:96-301).
IncidentSound ==
    /\ incident.version = Len(phases)
    /\ \A p \in 1 .. Len(phases) - 1 : phases[p] <= phases[p + 1]
    /\ Status = "closed" => incident.rootCause /\ items # <<>>
    /\ \A m, n \in DOMAIN evidence : evidence[m] = evidence[n] => m = n \/ evidence[m] = 0
    /\ Len(evidence) <= MaxEvidence
    /\ \A r, q \in reminders : r.item = q.item /\ r.version = q.version => r = q
    /\ \A r \in reminders :
           /\ r.due <= r.at
           /\ r.version <= items[r.item].version
           /\ r.version = items[r.item].version => r.due = items[r.item].due
=============================================================================
