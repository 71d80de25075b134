------------------------------ MODULE NursingB ------------------------------
(***************************************************************************)
(* Care tasks of text2/b: generation, invitations, acceptance, time-outs   *)
(* and the coordinator's changes. A request reads its task, and the        *)
(* invitation it names, before it waits for the row lock and never reads   *)
(* them again; its other queries are fresh. `held' is what one slow        *)
(* request has read. An error rolls the request back.                      *)
(***************************************************************************)
EXTENDS Naturals, Sequences, FiniteSets, SequencesExt, FiniteSetsExt

CONSTANTS
    Tasks,          \* one occurrence of each plan
    Workers,        \* active and qualified workers of the unit
    Start,          \* starts_at of each generated task, tasks take one unit
    Moves,          \* starts_at a coordinator asks for
    Prerequisite,   \* the tasks of its prerequisite plans on the same day
    Rest,           \* rest_between_shifts_hours
    Week,           \* length of a week
    Cap,            \* weekly_hour_limit
    Ttl,            \* invitation_ttl_minutes
    MaxTime,        \* bound: the clock stops here
    MaxRows         \* bound: assignments rows

VARIABLES
    clock,          \* clock.now()
    db,             \* tasks: tasks rows; rows: assignments rows
    held,           \* what the slow request has read, if there is one
    overtaken       \* tasks written from what was no longer so

vars == <<clock, db, held, overtaken>>

Live == {"pending", "accepted"}

Init ==
    /\ clock = 0
    /\ db = [tasks |-> [t \in Tasks |->
                 [status |-> "none", start |-> Start[t], latest |-> Start[t], links |-> {}]],
             rows |-> <<>>]
    /\ held = {}
    /\ overtaken = {}

-----------------------------------------------------------------------------
\* _live_assignment: 0 for none
LiveRow(d, t) ==
    LET live == {i \in DOMAIN d.rows : d.rows[i].task = t /\ d.rows[i].status \in Live}
    IN  IF live = {} THEN 0 ELSE Min(live)

\* The worker's other bookings: those of the task as they are, others as seen
Booked(d, seen, t, w, but) ==
    LET Holds(r) == r.worker = w /\ r.status \in Live
    IN  {<<i, d.rows[i].start>> : i \in {j \in DOMAIN d.rows \ {but} :
                                            Holds(d.rows[j]) /\ d.rows[j].task = t}}
        \cup {<<i, seen[i].start>> : i \in {j \in DOMAIN seen :
                                            Holds(seen[j]) /\ seen[j].task # t}}

InWeek(booked, start) == {b \in booked : b[2] \div Week = start \div Week}

\* The message about an overlap takes .value of a column that is a string: it raises
Raises(booked, start) == \E b \in booked : b[2] = start

Rested(x, y) == x # y /\ (x < y => y >= x + 1 + Rest) /\ (y < x => x >= y + 1 + Rest)

\* evaluate_candidate, of a worker who is active and qualified
Feasible_NoRest(booked, start) == Cardinality(InWeek(booked, start)) < Cap
Feasible(booked, start) ==
    /\ \A b \in booked : Rested(b[2], start)
    /\ Cardinality(InWeek(booked, start)) < Cap

\* rank_candidates: the least time left, the least load, the lowest id
Ranked(booked, start, w) ==
    \A v \in Workers \ {w} : Feasible(booked[v], start) =>
        LET left == Cardinality(InWeek(booked[w], start)) - Cardinality(InWeek(booked[v], start))
            load == Cardinality(booked[v]) - Cardinality(booked[w])
        IN  left > 0 \/ (left = 0 /\ (load > 0 \/ (load = 0 /\ w < v)))

\* An attribute set to the value that was loaded is not written
Write(d, t, loaded, status) ==
    IF loaded = status THEN d ELSE [d EXCEPT !.tasks[t].status = status]

SetRow(d, i, status) == IF i = 0 THEN d ELSE [d EXCEPT !.rows[i].status = status]

\* _create_invitation, of the interval that was loaded
Invited(d, t, w, start, now) ==
    [d EXCEPT !.rows = Append(@, [task |-> t, worker |-> w, status |-> "pending",
                                  start |-> start, expires |-> now + Ttl])]

\* uq_one_pending_per_task and uq_one_accepted_per_task
Indexed(d) ==
    \A i, j \in DOMAIN d.rows :
        i # j /\ d.rows[i].task = d.rows[j].task /\ d.rows[i].status \in Live
            => d.rows[i].status # d.rows[j].status

-----------------------------------------------------------------------------
Current == [now |-> clock, tasks |-> db.tasks, rows |-> db.rows]

RowsOf(rows, t) == [i \in {j \in DOMAIN rows : rows[j].task = t} |-> rows[i]]

\* A request that read s, and other tasks' rows as seen, commits d
Commits(s, ts, seen, d) ==
    /\ Len(d.rows) <= MaxRows
    /\ Indexed(d)
    /\ db' = d
    /\ \/ held' = held \ {s}
       \/ s = Current /\ held' = held
    /\ overtaken' = overtaken \cup
           {t \in ts : \/ s.tasks[t] # db.tasks[t]
                       \/ RowsOf(s.rows, t) # RowsOf(db.rows, t)
                       \/ seen # db.rows}
    /\ UNCHANGED clock

\* Bound: after a late write no other request is slow
Begin ==
    /\ held = {} /\ overtaken = {}
    /\ held' = {Current}
    /\ UNCHANGED <<clock, db, overtaken>>

Requests == {Current} \cup held

\* generate_tasks: what exists is left alone, a prerequisite not generated yet
\* is not linked.
Generate(t) ==
    /\ LET links == {r \in Prerequisite[t] : db.tasks[r].status # "none"}
       IN  db' = [db EXCEPT !.tasks[t].status = IF @ = "none" THEN "pending" ELSE @,
                            !.tasks[t].links = @ \cup links]
    /\ UNCHANGED <<clock, held, overtaken>>

\* schedule_task in a session that loaded the task as `loaded': the invited
\* worker, none if no one fits. It fails if one in the pool overlaps.
Chosen(d, seen, t, loaded) ==
    LET booked == [w \in Workers |-> Booked(d, seen, t, w, 0)]
    IN  {w \in Workers : /\ Feasible(booked[w], loaded.start)
                         /\ Ranked(booked, loaded.start, w)}

Schedulable(d, seen, t, loaded, now) ==
    /\ loaded.status \in {"pending", "invited"}
    /\ loaded.latest > now
    /\ \/ \E r \in d.tasks[t].links : d.tasks[r].status # "completed"
       \/ \A w \in Workers : ~ Raises(Booked(d, seen, t, w, 0), loaded.start)

Scheduled(d, seen, t, loaded, now) ==
    IF LiveRow(d, t) # 0 \/ \E r \in d.tasks[t].links : d.tasks[r].status # "completed"
    THEN {d}
    ELSE LET best == Chosen(d, seen, t, loaded)
         IN  IF best = {} THEN {d}
             ELSE {Write(Invited(d, t, w, loaded.start, now), t, loaded.status, "invited") :
                       w \in best}

schedule_task(s, seen, t) ==
    /\ s.tasks[t].status # "none"
    /\ LiveRow(db, t) = 0
    /\ Schedulable(db, seen, t, s.tasks[t], s.now)
    /\ \E d \in Scheduled(db, seen, t, s.tasks[t], s.now) \ {db} : Commits(s, {t}, seen, d)

\* expire_due_invitations writes over what the rows have become meanwhile
Due(s) == {i \in DOMAIN s.rows : s.rows[i].status = "pending" /\ s.rows[i].expires <= s.now}

Expired(s) ==
    LET ts == {s.rows[i].task : i \in Due(s)}
    IN  [tasks |-> [t \in Tasks |->
             IF t \in ts /\ s.tasks[t].status = "invited"
             THEN [db.tasks[t] EXCEPT !.status = "pending"] ELSE db.tasks[t]],
         rows |-> [i \in DOMAIN db.rows |->
             IF i \in Due(s) THEN [db.rows[i] EXCEPT !.status = "expired"] ELSE db.rows[i]]]

\* sweep_and_reallocate: one task that cannot be scheduled fails the sweep
sweep_and_reallocate(s) ==
    LET ts == {s.rows[i].task : i \in Due(s)}
        Next(ds, t) == UNION {IF LiveRow(d, t) # 0 THEN {d}
                              ELSE IF Schedulable(d, d.rows, t, d.tasks[t], s.now)
                                   THEN Scheduled(d, d.rows, t, d.tasks[t], s.now) ELSE {}
                              : d \in ds}
    IN  /\ ts # {}
        /\ \E d \in FoldLeft(Next, {Expired(s)}, SetToSortSeq(ts, <)) :
               Commits(s, ts, db.rows, d)

\* Both refusals of accept_invitation that would void it are rolled back.
accept_invitation(s, seen, i) ==
    LET t == s.rows[i].task
        booked == Booked(db, seen, t, s.rows[i].worker, i)
    IN  /\ s.rows[i].status = "pending"
        /\ s.rows[i].expires > s.now
        /\ Feasible(booked, s.tasks[t].start)
        /\ Commits(s, {t}, seen,
                   Write(SetRow(db, i, "accepted"), t, s.tasks[t].status, "assigned"))

decline_invitation(s, i) ==
    LET t == s.rows[i].task
    IN  /\ s.rows[i].status = "pending"
        /\ Commits(s, {t}, db.rows,
                   Write(SetRow(db, i, "declined"), t, s.tasks[t].status, "pending"))

\* manual_assign does not ask for the status of the task
manual_assign(s, seen, t, w) ==
    /\ s.tasks[t].status # "none"
    /\ Feasible(Booked(db, seen, t, w, 0), s.tasks[t].start)
    /\ LET d == SetRow(db, LiveRow(db, t), "cancelled")
       IN  Commits(s, {t}, seen, Write(Invited(d, t, w, s.tasks[t].start, s.now),
                                       t, s.tasks[t].status, "invited"))

manual_unassign(s, t) ==
    /\ s.tasks[t].status # "none"
    /\ Commits(s, {t}, db.rows, Write(SetRow(db, LiveRow(db, t), "cancelled"),
                                      t, s.tasks[t].status, "pending"))

\* manual_reschedule: the worker who does not fit is cancelled and the status
\* stays: the second query still finds the row, the session does not flush.
manual_reschedule(s, seen, t, start) ==
    LET i == LiveRow(db, t)
        booked == Booked(db, seen, t, db.rows[i].worker, i)
        leaves == i # 0 /\ db.rows[i].status = "accepted" /\ ~ Feasible(booked, start)
        d == [db EXCEPT !.tasks[t].start = start, !.tasks[t].latest = start + 1]
        e == IF i = 0 THEN d ELSE [d EXCEPT !.rows[i].start = start]
    IN  /\ s.tasks[t].status # "none"
        /\ leaves => ~ Raises(booked, start)
        /\ Commits(s, {t}, seen,
               IF i # 0 /\ s.tasks[t].status = "pending"
               THEN Write(SetRow(e, IF leaves THEN i ELSE 0, "cancelled"), t, "pending", "invited")
               ELSE SetRow(e, IF leaves THEN i ELSE 0, "cancelled"))

\* complete_task takes no lock
complete_task(s, t) ==
    /\ \E i \in DOMAIN db.rows : db.rows[i].task = t /\ db.rows[i].status = "accepted"
    /\ Commits(s, {t}, db.rows, Write(db, t, s.tasks[t].status, "completed"))

Tick == clock < MaxTime /\ clock' = clock + 1 /\ UNCHANGED <<db, held, overtaken>>

Next ==
    \/ Begin
    \/ Tick
    \/ \E t \in Tasks : Generate(t)
    \/ \E s \in Requests, t \in Tasks : manual_unassign(s, t) \/ complete_task(s, t)
    \/ \E s \in Requests, t \in Tasks : \E seen \in {s.rows, db.rows} :
           \/ schedule_task(s, seen, t)
           \/ \E w \in Workers : manual_assign(s, seen, t, w)
           \/ \E start \in Moves : manual_reschedule(s, seen, t, start)
    \/ \E s \in Requests : sweep_and_reallocate(s)
    \/ \E s \in Requests : \E i \in DOMAIN s.rows :
           \/ decline_invitation(s, i)
           \/ \E seen \in {s.rows, db.rows} : accept_invitation(s, seen, i)

Spec == Init /\ [][Next]_vars

-----------------------------------------------------------------------------
Holding(t, status) == {i \in DOMAIN db.rows : db.rows[i].task = t /\ db.rows[i].status = status}

\* A task that no late request has written has one invitation when it is
\* invited and none otherwise, its live row is of its present interval, and the
\* work a worker has accepted keeps the rest and the weekly limit
\* (scheduling.py:93-667, constraints.py:108-285).
NursingSound ==
    /\ \A t \in Tasks \ overtaken :
           /\ db.tasks[t].status = "invited" <=> Holding(t, "pending") # {}
           /\ Holding(t, "accepted") # {} => db.tasks[t].status \in {"assigned", "completed"}
           /\ \A i \in Holding(t, "pending") \cup Holding(t, "accepted") :
                  db.rows[i].start = db.tasks[t].start
    /\ \A t, u \in Tasks \ overtaken :
           \A i \in Holding(t, "accepted"), j \in Holding(u, "accepted") :
               i # j /\ db.rows[i].worker = db.rows[j].worker =>
                   t # u /\ Rested(db.rows[i].start, db.rows[j].start)
=============================================================================
