------------------------------ MODULE NursingA ------------------------------
(***************************************************************************)
(* Care tasks of text2/a: generation, revision, offers, their acceptance   *)
(* and the coordinator's changes. Only an acceptance checks and writes in  *)
(* one statement. Every other request works on the objects its session has *)
(* read, and at the end writes each attribute it changed over whatever the *)
(* row has become; `held' is what one slow request has read.               *)
(***************************************************************************)
EXTENDS Naturals, Sequences, FiniteSets, SequencesExt, TLC

CONSTANTS
    Plans,          \* care plans of one unit, an occurrence of each
    Caregivers,     \* qualified caregivers of the unit
    Start,          \* scheduled_start of each plan's task, of one unit
    Prerequisite,   \* prerequisite_plan_id of each plan, 0 for none
    Rest,           \* min_rest_hours
    Week,           \* length of a week
    Cap,            \* weekly_hour_limit
    Ttl,            \* offer_ttl_minutes
    MaxTime,        \* bound: the clock stops here
    MaxVersion,     \* bound: versions of a plan
    MaxOffers       \* bound: offers

VARIABLES
    clock,          \* clock.now()
    db,             \* version of the plans, tasks, offers, caregiver assigned
    held,           \* what the slow request has read, if there is one
    overtaken       \* tasks written from what was no longer so

vars == <<clock, db, held, overtaken>>

Tasks == Plans \X (1 .. MaxVersion)
Never == <<0, 0>>

Init ==
    /\ clock = 0
    /\ db = [version |-> [p \in Plans |-> 1],
             status |-> [t \in Tasks |-> "none"],
             depends |-> [t \in Tasks |-> Never],
             caregiver |-> [t \in Tasks |-> 0],
             offers |-> <<>>]
    /\ held = {}
    /\ overtaken = {}

-----------------------------------------------------------------------------
\* assigned_tasks: a completed task is no longer counted
Assigned(v, c, t) == {u \in Tasks \ {t} : v.caregiver[u] = c /\ v.status[u] = "assigned"}

InWeek(v, c, t) == {u \in Assigned(v, c, t) : Start[u[1]] \div Week = Start[t[1]] \div Week}

Rested(x, y) == x # y /\ (x < y => y >= x + 1 + Rest) /\ (y < x => x >= y + 1 + Rest)

\* validate_assignment
Valid(v, c, t) ==
    /\ \A u \in Assigned(v, c, t) : Rested(Start[u[1]], Start[t[1]])
    /\ Cardinality(InWeek(v, c, t)) < Cap
    /\ v.depends[t] # Never => v.status[v.depends[t]] = "completed"

\* rank_candidates: most time left, least load to come, lowest id
Eligible(v, t) ==
    {c \in Caregivers :
        /\ Valid(v, c, t)
        /\ \A i \in DOMAIN v.offers :
               v.offers[i].task = t /\ v.offers[i].caregiver = c
                   => v.offers[i].status \notin {"expired", "rejected"}}

Load(v, c, t, now) == Cardinality({u \in Assigned(v, c, t) : Start[u[1]] >= now})

Best(v, t, now) ==
    {c \in Eligible(v, t) : \A e \in Eligible(v, t) \ {c} :
        LET less == Cardinality(InWeek(v, e, t)) - Cardinality(InWeek(v, c, t))
            load == Load(v, e, t, now) - Load(v, c, t, now)
        IN  less > 0 \/ (less = 0 /\ (load > 0 \/ (load = 0 /\ c < e)))}

Superseded(v, ts) ==
    [v EXCEPT !.offers = [i \in DOMAIN @ |->
        IF @[i].task \in ts /\ @[i].status = "pending"
        THEN [@[i] EXCEPT !.status = "superseded"] ELSE @[i]]]

Offered(v, t, c, now) ==
    [v EXCEPT !.status[t] = "offered",
              !.offers = Append(@, [task |-> t, caregiver |-> c, status |-> "pending",
                                    expires |-> now + Ttl])]

\* _try_reoffer of a task that was just set to pending
Reoffered(v, t, now) ==
    LET w == Superseded(v, {t})
    IN  IF Best(w, t, now) = {} THEN w
        ELSE Offered(w, t, CHOOSE c \in Best(w, t, now) : TRUE, now)

-----------------------------------------------------------------------------
\* What the session that read s and made v of it leaves in the database. The
\* status of the tasks in `flushed' was written even if it came back.
Merged(s, v, flushed) ==
    [version |-> [p \in Plans |-> IF v.version[p] # s.version[p] THEN v.version[p]
                                  ELSE db.version[p]],
     status |-> [t \in Tasks |-> IF v.status[t] # s.status[t] \/ t \in flushed
                                 THEN v.status[t] ELSE db.status[t]],
     depends |-> db.depends,
     caregiver |-> [t \in Tasks |-> IF v.caregiver[t] # s.caregiver[t]
                                    THEN v.caregiver[t] ELSE db.caregiver[t]],
     offers |-> [i \in DOMAIN db.offers |->
                    IF i \in DOMAIN s.offers /\ v.offers[i].status # s.offers[i].status
                    THEN [db.offers[i] EXCEPT !.status = v.offers[i].status]
                    ELSE db.offers[i]]
                \o SubSeq(v.offers, Len(s.offers) + 1, Len(v.offers))]

OffersOf(d, t) == [i \in {j \in DOMAIN d.offers : d.offers[j].task = t} |-> d.offers[i]]

Current == [now |-> clock] @@ db

\* What the request relied on: the task, its offers, its prerequisite, the work
\* of the caregivers and the version of the plan
Stale(s, t) ==
    \/ s.status # db.status
    \/ s.caregiver # db.caregiver
    \/ s.version[t[1]] # db.version[t[1]]
    \/ OffersOf(s, t) # OffersOf(db, t)

Commits(s, ts, d) ==
    /\ Len(d.offers) <= MaxOffers
    /\ db' = d
    /\ \/ held' = held \ {s}
       \/ s = Current /\ held' = held
    /\ overtaken' = overtaken \cup {t \in ts : Stale(s, t)}
    /\ UNCHANGED clock

\* Bound: after a late write no other request is slow
Begin ==
    /\ held = {} /\ overtaken = {}
    /\ held' = {Current}
    /\ UNCHANGED <<clock, db, overtaken>>

Requests == {Current} \cup held

\* generate_tasks of version n: a task that exists is skipped, the prerequisite
\* is the newest one that is not cancelled.
Newest(d, p) ==
    {<<p, n>> : n \in {m \in 1 .. MaxVersion :
        /\ d.status[<<p, m>>] \notin {"none", "cancelled"}
        /\ \A k \in m + 1 .. MaxVersion : d.status[<<p, k>>] \in {"none", "cancelled"}}}

Generated(d, p, n, now) ==
    LET t == <<p, n>>
        required == IF Prerequisite[p] = 0 THEN {} ELSE Newest(d, Prerequisite[p])
    IN  IF d.status[t] # "none" \/ Start[p] < now THEN d
        ELSE [d EXCEPT !.status[t] = "pending",
                       !.depends[t] = IF required = {} THEN Never ELSE CHOOSE r \in required : TRUE]

generate_tasks(s, p) ==
    Commits(s, {<<p, s.version[p]>>}, Generated(db, p, s.version[p], s.now))

\* revise_plan
revise_plan(s, p) ==
    LET n == s.version[p] + 1
        old == {t \in Tasks : /\ t[1] = p /\ t[2] < n
                              /\ Start[p] > s.now /\ s.status[t] \in {"pending", "offered"}}
        v == [Superseded(s, old) EXCEPT
                 !.version[p] = n,
                 !.status = [t \in Tasks |-> IF t \in old THEN "cancelled" ELSE @[t]]]
    IN  /\ n <= MaxVersion
        /\ Commits(s, {t \in Tasks : t[1] = p}, Generated(Merged(s, v, {}), p, n, s.now))

\* create_offer asked for by a coordinator: c is 0 when none is named
create_offer(s, t, c) ==
    LET v == Superseded(s, {t})
        chosen == IF c = 0 THEN Best(v, t, s.now) ELSE {e \in {c} : Valid(v, e, t)}
    IN  /\ s.status[t] \in {"pending", "offered"}
        /\ \E e \in chosen : Commits(s, {t}, Merged(s, Offered(v, t, e, s.now), {}))

\* accept_offer: three conditional updates and an insert into a unique column
accept_offer(s, i) ==
    LET t == s.offers[i].task
        d == [db EXCEPT !.offers[i].status = "accepted"]
    IN  /\ db.offers[i].status = "pending"
        /\ db.offers[i].expires > s.now
        /\ db.status[t] \in {"pending", "offered"}
        /\ db.caregiver[t] = 0
        /\ Commits(s, {t}, [Superseded(d, {t}) EXCEPT
                               !.status[t] = "assigned",
                               !.caregiver[t] = s.offers[i].caregiver])

reject_offer(s, i) ==
    LET t == s.offers[i].task
        v == [s EXCEPT !.offers[i].status = "rejected", !.status[t] = "pending"]
        w == Reoffered(v, t, s.now)
        written == IF s.status[t] # "pending" THEN {t} ELSE {}
    IN  /\ s.offers[i].status = "pending"
        /\ Commits(s, {t}, Merged(s, w, written))

\* expire_offers
expire_offers(s) ==
    LET Due == {i \in DOMAIN s.offers : s.offers[i].status = "pending" /\ s.offers[i].expires <= s.now}
        ts == {s.offers[i].task : i \in Due}
        Expired(v, i) ==
            LET w == [v EXCEPT !.offers[i].status = "expired"]
                t == s.offers[i].task
            IN  IF v.status[t] = "offered" THEN Reoffered([w EXCEPT !.status[t] = "pending"], t, s.now)
                ELSE w
    IN  /\ Due # {}
        /\ Commits(s, ts, Merged(s, FoldLeft(Expired, s, SetToSortSeq(Due, <)),
                                 {t \in ts : s.status[t] = "offered"}))

\* manual_adjust: a first assignment is an insert into a unique column
manual_adjust(s, t, c) ==
    /\ s.status[t] \notin {"none", "completed", "cancelled"}
    /\ Valid(s, c, t)
    /\ s.caregiver[t] = 0 => db.caregiver[t] = 0
    /\ Commits(s, {t}, Merged(s, [Superseded(s, {t}) EXCEPT !.status[t] = "assigned",
                                                            !.caregiver[t] = c], {}))

complete_task(s, t) ==
    /\ s.status[t] = "assigned"
    /\ Commits(s, {t}, Merged(s, [s EXCEPT !.status[t] = "completed"], {}))

Tick == clock < MaxTime /\ clock' = clock + 1 /\ UNCHANGED <<db, held, overtaken>>

Next ==
    \/ Begin
    \/ Tick
    \/ \E s \in Requests : \/ \E p \in Plans : generate_tasks(s, p) \/ revise_plan(s, p)
                           \/ expire_offers(s)
    \/ \E s \in Requests, t \in Tasks : \/ complete_task(s, t)
                                        \/ \E c \in Caregivers \cup {0} : create_offer(s, t, c)
                                        \/ \E c \in Caregivers : manual_adjust(s, t, c)
    \/ \E s \in Requests : \E i \in DOMAIN s.offers : accept_offer(s, i) \/ reject_offer(s, i)

Spec == Init /\ [][Next]_vars

-----------------------------------------------------------------------------
Pending(t) == {i \in DOMAIN db.offers : db.offers[i].task = t /\ db.offers[i].status = "pending"}

\* No task is accepted twice, whatever ran late. A task that no late request
\* has written has one pending offer while it is offered and none otherwise, a
\* caregiver from its assignment on, a completed prerequisite before it is
\* offered; and one of an old version that is still open has begun
\* (assignment.py:172-382, scheduling.py:47-117).
NursingSound ==
    /\ \A i, j \in DOMAIN db.offers :
           i # j /\ db.offers[i].task = db.offers[j].task =>
               ~ (db.offers[i].status = "accepted" /\ db.offers[j].status = "accepted")
    /\ \A t \in Tasks \ overtaken :
           /\ Cardinality(Pending(t)) = (IF db.status[t] = "offered" THEN 1 ELSE 0)
           /\ db.caregiver[t] # 0 <=> db.status[t] \in {"assigned", "completed"}
           /\ /\ db.status[t] \in {"offered", "assigned", "completed"}
              /\ db.depends[t] \notin {Never} \cup overtaken
              => db.status[db.depends[t]] = "completed"
           /\ t[2] < db.version[t[1]] /\ db.status[t] \in {"pending", "offered"}
              => Start[t[1]] <= clock
=============================================================================
