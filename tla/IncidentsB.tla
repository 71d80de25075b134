----------------------------- MODULE IncidentsB -----------------------------
(***************************************************************************)
(* One incident of text18/b: its stages, evidence, action items and        *)
(* notifications. A mutation runs in the transaction that stores its       *)
(* response, an error too, under its request id. Schedulers hold what they *)
(* have read from one transaction to the next.                             *)
(***************************************************************************)
EXTENDS Naturals, Sequences, FiniteSets, SequencesExt

CONSTANTS
    Severity,       \* Incident.severity
    Requests,       \* X-Request-Id values that are sent again
    Schedulers,     \* processes that run the reminder scheduler
    MaxEvidence,    \* MaxEvidencePerIncident, 50 in the code
    Batch,          \* batchSize
    MaxTime,        \* bound: the clock stops here
    MaxItems,       \* bound: action items
    MaxVersion      \* bound: schedules of an action item

VARIABLES
    clock,          \* time.Now()
    incident,       \* stage 1 .. 7, version, responder assigned, texts given
    events,         \* stage events: stage left, stage entered, version
    evidence,       \* request ids of the evidence rows
    items,          \* action_items rows
    reminders,      \* reminder_dispatches, and the notifications in order
    server          \* answered: ids with a stored response; due: what ticks hold

vars == <<clock, incident, events, evidence, items, reminders, server>>

OrderedStages == <<"detected", "triaged", "contained", "eradicated", "recovered",
                   "postmortem", "closed">>
Stage == OrderedStages[incident.stage]

Init ==
    /\ clock = 0
    /\ incident = [stage |-> 1, version |-> 1, responder |-> FALSE, texts |-> FALSE]
    /\ events = <<>>
    /\ evidence = <<>>
    /\ items = <<>>
    /\ reminders = [dispatched |-> {}, notifications |-> <<>>]
    /\ server = [answered |-> {}, due |-> [s \in Schedulers |-> <<>>]]

-----------------------------------------------------------------------------
\* idemExec: a known id is answered with the stored response. The row of an id
\* in flight is not visible, its insert makes a second call wait. Id 0 stands
\* for one that is sent once.
Executes(id) ==
    /\ id \notin server.answered
    /\ server' = [server EXCEPT !.answered = IF id = 0 THEN @ ELSE @ \cup {id}]

\* Any result with an error status is stored as well.
Refused(id) == Executes(id) /\ UNCHANGED <<clock, incident, events, evidence, items, reminders>>

AssignPerson(id, role) ==
    /\ Executes(id)
    /\ incident' = [incident EXCEPT !.responder = @ \/ role = "responder"]
    /\ UNCHANGED <<clock, events, evidence, items, reminders>>

\* The gates on entering a stage; texts: root_cause and lessons_learned
Gates(to, texts) ==
    /\ to = "triaged" /\ Severity = "P1" => incident.responder
    /\ to \in {"postmortem", "closed"} => texts \/ incident.texts
    /\ to = "closed" => /\ items # <<>>
                        /\ \A i \in DOMAIN items : items[i].status # "open"

Transition(id, expected, texts) ==
    /\ Executes(id)
    /\ Stage # "closed" /\ incident.version = expected
    /\ LET to == OrderedStages[incident.stage + 1]
       IN  /\ Gates(to, texts)
           /\ incident' = [incident EXCEPT !.stage = @ + 1, !.version = @ + 1,
                               !.texts = @ \/ to \in {"postmortem", "closed"}]
           /\ events' = Append(events, [from |-> Stage, to |-> to,
                                        version |-> incident.version + 1])
    /\ UNCHANGED <<clock, evidence, items, reminders>>

\* None of these looks at the stage.
AddEvidence(id) ==
    /\ Executes(id)
    /\ Len(evidence) < MaxEvidence
    /\ evidence' = Append(evidence, id)
    /\ UNCHANGED <<clock, incident, events, items, reminders>>

CreateActionItem(id, due) ==
    /\ Executes(id)
    /\ Len(items) < MaxItems
    /\ items' = Append(items, [due |-> due, version |-> 1, status |-> "open"])
    /\ UNCHANGED <<clock, incident, events, evidence, reminders>>

RescheduleActionItem(id, i, due, expected) ==
    /\ Executes(id)
    /\ items[i].version = expected /\ expected < MaxVersion
    /\ items' = [items EXCEPT ![i].due = due, ![i].version = @ + 1]
    /\ UNCHANGED <<clock, incident, events, evidence, reminders>>

UpdateActionItemStatus(id, i, status) ==
    /\ Executes(id)
    /\ items' = [items EXCEPT ![i].status = status]
    /\ UNCHANGED <<clock, incident, events, evidence, reminders>>

-----------------------------------------------------------------------------
Dispatched(i, version) == <<i, version>> \in reminders.dispatched
Due == {i \in DOMAIN items : /\ items[i].status = "open" /\ items[i].due <= clock
                             /\ ~Dispatched(i, items[i].version)}

\* tick reads items and versions, in the order of their due times.
Read(s, order) ==
    /\ server.due[s] = <<>> /\ Due # {}
    /\ \A m, n \in DOMAIN order : m < n => items[order[m]].due <= items[order[n]].due
    /\ server' = [server EXCEPT !.due[s] =
           [n \in 1 .. (IF Len(order) < Batch THEN Len(order) ELSE Batch) |->
               <<order[n], items[order[n]].version>>]]
    /\ UNCHANGED <<clock, incident, events, evidence, items, reminders>>

\* dispatch: the row of the version that was read decides, the notification
\* tells the item as it is now.
Dispatch(i, version) ==
    IF Dispatched(i, version) THEN reminders ELSE
    [dispatched |-> reminders.dispatched \cup {<<i, version>>},
     notifications |-> Append(reminders.notifications,
         [item |-> i, reserved |-> version, version |-> items[i].version])]

DispatchNext(s) ==
    /\ server.due[s] # <<>>
    /\ reminders' = Dispatch(Head(server.due[s])[1], Head(server.due[s])[2])
    /\ server' = [server EXCEPT !.due[s] = Tail(@)]
    /\ UNCHANGED <<clock, incident, events, evidence, items>>

\* A restart, or an error of the database: the rest of the tick is lost.
Restart(s) ==
    /\ server.due[s] # <<>>
    /\ server' = [server EXCEPT !.due[s] = <<>>]
    /\ UNCHANGED <<clock, incident, events, evidence, items, reminders>>

Tick ==
    /\ clock < MaxTime
    /\ clock' = clock + 1
    /\ UNCHANGED <<incident, events, evidence, items, reminders, server>>

Next ==
    \/ \E id \in Requests \cup {0} :
           \/ Refused(id) \/ AddEvidence(id)
           \/ \E role \in {"analyst", "responder"} : AssignPerson(id, role)
           \/ \E texts \in BOOLEAN : Transition(id, incident.version, texts)
           \/ \E due \in 0 .. MaxTime + 1 :
                  \/ CreateActionItem(id, due)
                  \/ \E i \in DOMAIN items :
                         RescheduleActionItem(id, i, due, items[i].version)
           \/ \E i \in DOMAIN items, status \in {"open", "done", "cancelled"} :
                  UpdateActionItemStatus(id, i, status)
    \/ \E s \in Schedulers :
           \/ \E order \in SetToSeqs(Due) : Read(s, order)
           \/ DispatchNext(s) \/ Restart(s)
    \/ Tick

Spec == Init /\ [][Next]_vars
-----------------------------------------------------------------------------
\* The stage events are the way of the incident, step by step; closure had its
\* texts and an action item; a request id has one effect. Each version that was
\* reserved has one notification, of that version or of a later one when the
\* item was rescheduled between the two reads; until then the owner is told of
\* a schedule that was due (incidents.go:194-320, evidence.go:43-90,
\* action_items.go:24-242, scheduler.go:59-130, idem.go:34-119).
IncidentSound ==
    /\ incident.stage = Len(events) + 1 /\ incident.version = incident.stage
    /\ \A e \in DOMAIN events : /\ events[e].from = OrderedStages[e]
                                /\ events[e].to = OrderedStages[e + 1]
                                /\ events[e].version = e + 1
    /\ Stage = "closed" => incident.texts /\ items # <<>>
    /\ Len(evidence) <= MaxEvidence
    /\ \A m, n \in DOMAIN evidence : evidence[m] = evidence[n] => m = n \/ evidence[m] = 0
    /\ Len(reminders.notifications) = Cardinality(reminders.dispatched)
    /\ \A n \in DOMAIN reminders.notifications :
           LET sent == reminders.notifications[n]
           IN  /\ Dispatched(sent.item, sent.reserved)
               /\ sent.reserved <= sent.version /\ sent.version <= items[sent.item].version
               /\ sent.reserved = items[sent.item].version =>
                      items[sent.item].due <= clock
    /\ \A s \in Schedulers : \A n \in DOMAIN server.due[s] :
           server.due[s][n][2] <= items[server.due[s][n][1]].version
=============================================================================
