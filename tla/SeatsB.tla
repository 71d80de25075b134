------------------------------- MODULE SeatsB -------------------------------
(***************************************************************************)
(* Seats and waitlist of SkillPulse (text4/b), for one published program.  *)
(* Seat changes hold the lock of the program row. Confirm and cancel load  *)
(* their enrollment before they wait for that lock, and the session keeps  *)
(* what it loaded: they decide on the row as it was. A cancellation and    *)
(* the promotion that follows it are one step, also where the settlement   *)
(* before them has committed and let go of the lock.                       *)
(***************************************************************************)
EXTENDS Naturals, Sequences, FiniteSets, FiniteSetsExt

CONSTANTS
    Learners,       \* learners
    Capacity,       \* Program.capacity
    Hold,           \* SEAT_HOLD_HOURS
    Deadline,       \* Program.enrollment_deadline
    MaxTime,        \* bound: the clock
    MaxRows         \* bound: enrollments of the program

VARIABLES
    now,            \* now_utc
    rows,           \* Enrollment rows by id
    loaded,         \* the row that a learner's request has loaded, as it was
    revived         \* history: rows confirmed after they had ended

vars == <<now, rows, loaded, revived>>

Active == {"pending", "confirmed", "waitlisted"}
Row(l, status, position, granted) ==
    [learner |-> l, status |-> status, position |-> position, granted |-> granted]
Nothing == [id |-> 0, seen |-> "none", settled |-> FALSE]

With(rs, states) == {i \in DOMAIN rs : rs[i].status \in states}
Holding(rs) == With(rs, {"pending", "confirmed"})
ActiveOf(rs, l) == {i \in With(rs, Active) : rs[i].learner = l}
Positions(rs) == {rs[i].position : i \in With(rs, {"waitlisted"})}

Init ==
    /\ now = 0
    /\ rows = <<>>
    /\ loaded = [l \in Learners |-> Nothing]
    /\ revived = {}

\* Rows whose hold is over. The session does not see that the row it loaded
\* while it waited has been granted a seat since.
Due(rs, unseen) ==
    {i \in With(rs, {"pending"}) \ unseen : now >= rs[i].granted + Hold}
Expired(rs, unseen) ==
    [i \in DOMAIN rs |->
        IF i \in Due(rs, unseen) THEN [rs[i] EXCEPT !.status = "expired"] ELSE rs[i]]

\* Free seats go to the head of the queue, as long as there are both.
GrantFirst(rs) ==
    LET first == CHOOSE i \in With(rs, {"waitlisted"}) :
                     rs[i].position = Min(Positions(rs))
    IN  [rs EXCEPT ![first] = Row(@.learner, "pending", 0, now)]
Grant_Unchecked(rs) == IF With(rs, {"waitlisted"}) = {} THEN rs ELSE GrantFirst(rs)
Grant(rs) ==
    IF Cardinality(Holding(rs)) >= Capacity \/ With(rs, {"waitlisted"}) = {}
    THEN rs ELSE GrantFirst(rs)
Promoted(rs) ==
    LET after[n \in 0 .. Len(rs)] == IF n = 0 THEN rs ELSE Grant(after[n - 1])
    IN  after[Len(rs)]

Settled(rs, unseen) ==
    IF Due(rs, unseen) = {} THEN rs ELSE Promoted(Expired(rs, unseen))

-----------------------------------------------------------------------------
\* The newcomer is seated before the queue moves. A learner with an active
\* row gets that one back.
Enroll(l) ==
    /\ ActiveOf(rows, l) = {}
    /\ now <= Deadline
    /\ Len(rows) < MaxRows
    /\ LET rs == Expired(rows, {})
           new == IF Cardinality(Holding(rs)) < Capacity
                  THEN Row(l, "pending", 0, now)
                  ELSE Row(l, "waitlisted", 1 + Max(Positions(rs) \cup {0}), 0)
       IN  rows' = Promoted(Append(rs, new))
    /\ UNCHANGED <<now, loaded, revived>>

\* _get_enrollment_or_404, before the lock
Load(l, i) ==
    /\ loaded[l] = Nothing
    /\ rows[i].learner = l
    /\ loaded' = [loaded EXCEPT ![l] =
           [id |-> i, seen |-> rows[i].status, settled |-> FALSE]]
    /\ UNCHANGED <<now, rows, revived>>

\* The loaded row that this request still sees as waiting
Unseen(l) == IF loaded[l].seen = "waitlisted" THEN {loaded[l].id} ELSE {}

\* The state of the row for the session: what it loaded, or what it wrote itself
Seen(l, settled) ==
    LET i == loaded[l].id
    IN  IF settled[i] = rows[i] THEN loaded[l].seen ELSE settled[i].status

Done(l) == loaded' = [loaded EXCEPT ![l] = Nothing]

\* _settle_expiries commits when something expired, which releases the lock:
\* the rest of the request goes on without it, later.
SettleFirst(l) ==
    /\ loaded[l] # Nothing
    /\ ~loaded[l].settled
    /\ Due(rows, Unseen(l)) # {}
    /\ rows' = Settled(rows, Unseen(l))
    /\ loaded' = [loaded EXCEPT ![l].seen = Seen(l, Settled(rows, Unseen(l))),
                                ![l].settled = TRUE]
    /\ UNCHANGED <<now, revived>>

Ready(l) ==
    /\ loaded[l] # Nothing
    /\ loaded[l].settled \/ Due(rows, Unseen(l)) = {}

\* The unique index on active rows refuses to confirm an ended row next to a
\* new one.
Confirm(l) ==
    /\ Ready(l)
    /\ LET i == loaded[l].id
       IN  IF loaded[l].seen = "pending" /\ ActiveOf(rows, l) \subseteq {i}
           THEN /\ rows' = [rows EXCEPT ![i].status = "confirmed"]
                /\ revived' = IF i \in With(rows, Active) THEN revived
                              ELSE revived \cup {i}
           ELSE UNCHANGED <<rows, revived>>
    /\ Done(l)
    /\ UNCHANGED now

Cancel(l) ==
    /\ Ready(l)
    /\ LET i == loaded[l].id
           seen == loaded[l].seen
           cancelled == [rows EXCEPT ![i].status = "cancelled", ![i].position = 0]
       IN  rows' = CASE seen \notin Active -> rows
                     [] seen = "waitlisted" -> cancelled
                     [] OTHER -> Promoted(cancelled)
    /\ Done(l)
    /\ UNCHANGED <<now, revived>>

SweepExpired ==
    /\ rows' = Settled(rows, {})
    /\ UNCHANGED <<now, loaded, revived>>

Tick == now < MaxTime /\ now' = now + 1 /\ UNCHANGED <<rows, loaded, revived>>

Next ==
    \/ \E l \in Learners : Enroll(l) \/ SettleFirst(l) \/ Confirm(l) \/ Cancel(l)
    \/ \E l \in Learners, i \in DOMAIN rows : Load(l, i)
    \/ SweepExpired
    \/ Tick

Spec == Init /\ [][Next]_vars
-----------------------------------------------------------------------------
\* Seats are handed out within the capacity: the program is overbooked by no
\* more than the ended rows that a confirmation brought back after a stale
\* read (enrollment_service.py:219-242). A learner has one active row, and no
\* two learners the same place in the queue.
SeatsSound ==
    /\ Cardinality(Holding(rows) \ revived) <= Capacity
    /\ \A i, j \in With(rows, Active) : rows[i].learner = rows[j].learner => i = j
    /\ \A i, j \in With(rows, {"waitlisted"}) :
           rows[i].position = rows[j].position => i = j
=============================================================================
