------------------------------- MODULE SeatsA -------------------------------
(***************************************************************************)
(* Seats, waitlist, results and certificates of SkillPulse (text4/a), for  *)
(* one course, which offers one published version. A learner has one       *)
(* enrollment row of a version. Seat changes hold the lock of the course   *)
(* row, result changes the lock of the enrollment row, and both read what  *)
(* they change after the lock: a request is one step, but the time it goes *)
(* by was read before it waited for the lock.                              *)
(***************************************************************************)
EXTENDS Naturals, FiniteSets, FiniteSetsExt

CONSTANTS
    Learners,       \* users with the role LEARNER
    Diligent,       \* bound: the learners that submit results
    Capacity,       \* Course.capacity
    Steps,          \* order_index of the version's steps
    Prerequisites,  \* prerequisite orders of each step
    Hold,           \* seat_hold_hours
    Deadline,       \* Course.enrollment_deadline
    MaxTime         \* bound: the clock

VARIABLES
    time,           \* utcnow
    row,            \* the enrollment of each learner
    result,         \* StepResult rows: what passed, what a manager judged
    certificate     \* Certificate.status, "none" without a row

vars == <<time, row, result, certificate>>

NoRow == [status |-> "none", seat |-> 0, position |-> 0, until |-> 0]
Ended(status) == [NoRow EXCEPT !.status = status]
Seated(n, t) == [NoRow EXCEPT !.status = "ENROLLED", !.seat = n, !.until = t + Hold]
Queued(p) == [NoRow EXCEPT !.status = "WAITLISTED", !.position = p]

Holding(rows) == {l \in Learners : rows[l].status \in {"ENROLLED", "CONFIRMED"}}
Waiting(rows) == {l \in Learners : rows[l].status = "WAITLISTED"}
Positions(rows) == {rows[l].position : l \in Waiting(rows)}
FreeSeat(rows) == Min((1 .. Capacity) \ {rows[l].seat : l \in Holding(rows)})

Times == 0 .. MaxTime
Read == 0 .. time     \* the time that a request may have read

Init ==
    /\ time = 0
    /\ row = [l \in Learners |-> NoRow]
    /\ result = [l \in Learners |-> [passed |-> {}, judged |-> {}]]
    /\ certificate = [l \in Learners |-> "none"]

-----------------------------------------------------------------------------
(* What a transaction does under the lock of the course.                   *)

Compact(rows) ==
    [l \in Learners |->
        IF l \in Waiting(rows)
        THEN Queued(Cardinality({p \in Positions(rows) : p <= rows[l].position}))
        ELSE rows[l]]

\* The head of the queue gets the lowest free seat and a hold of its own.
PromoteOne(rows, t) ==
    IF Waiting(rows) = {} \/ Cardinality(Holding(rows)) >= Capacity THEN rows
    ELSE LET first == CHOOSE l \in Waiting(rows) :
                          rows[l].position = Min(Positions(rows))
         IN  [rows EXCEPT ![first] = Seated(FreeSeat(rows), t)]

Granted(rows, t, seats) ==
    LET promoted[n \in 0 .. seats] ==
            IF n = 0 THEN rows ELSE PromoteOne(promoted[n - 1], t)
    IN  promoted[seats]
Promote(rows, t, seats) ==
    LET promoted == Granted(rows, t, seats)
    IN  IF promoted = rows THEN rows ELSE Compact(promoted)

Due(rows, t) == {l \in Learners : rows[l].status = "ENROLLED" /\ rows[l].until <= t}

\* _expire_and_promote
Settled(rows, t) ==
    LET due == Due(rows, t)
    IN  Promote([l \in Learners |-> IF l \in due THEN Ended("EXPIRED") ELSE rows[l]],
                t, Cardinality(due))

Next_Position(rows) == 1 + Max(Positions(rows) \cup {0})

\* A repeat finds its row; a new or ended one gets a seat or a place in the queue.
Enroll(l, t) ==
    LET rows == Settled(row, t)
    IN  /\ \/ /\ rows[l].status \in {"ENROLLED", "CONFIRMED", "WAITLISTED"}
              /\ row' = rows
           \/ /\ rows[l].status \in {"none", "CANCELLED", "EXPIRED"}
              /\ t <= Deadline
              /\ row' = [rows EXCEPT ![l] =
                     IF Cardinality(Holding(rows)) < Capacity
                     THEN Seated(FreeSeat(rows), t) ELSE Queued(Next_Position(rows))]
        /\ UNCHANGED <<time, result, certificate>>

\* A confirmation that finds no seat raises: what it expired is rolled back.
Confirm(l, t) ==
    LET rows == Settled(row, t)
    IN  /\ rows[l].status \in {"ENROLLED", "CONFIRMED"}
        /\ row' = [rows EXCEPT ![l].status = "CONFIRMED", ![l].until = 0]
        /\ UNCHANGED <<time, result, certificate>>

Revoked(status) == IF status = "VALID" THEN "REVOKED" ELSE status

\* Cancelling does not expire other holds; it gives the one seat on.
Cancel(l, t) ==
    /\ row[l].status \in {"ENROLLED", "CONFIRMED", "WAITLISTED"}
    /\ LET rows == [row EXCEPT ![l] = Ended("CANCELLED")]
       IN  row' = IF l \in Holding(row) THEN Promote(rows, t, 1) ELSE Compact(rows)
    /\ certificate' = [certificate EXCEPT ![l] = Revoked(@)]
    /\ UNCHANGED <<time, result>>

ExpireHolds(t) ==
    /\ row' = Settled(row, t)
    /\ UNCHANGED <<time, result, certificate>>

-----------------------------------------------------------------------------
(* Results, under the lock of the enrollment.                              *)

Reconciled(status, passed) ==
    IF Steps \subseteq passed THEN "VALID" ELSE Revoked(status)

\* A claim passes a step that no manager judged. An exact repeat changes nothing.
SubmitResult(l, s, claimed) ==
    /\ row[l].status = "CONFIRMED"
    /\ Prerequisites[s] \subseteq result[l].passed
    /\ LET passed == IF claimed /\ s \notin result[l].judged
                     THEN result[l].passed \cup {s} ELSE result[l].passed
       IN  /\ result' = [result EXCEPT ![l].passed = passed]
           /\ certificate' = [certificate EXCEPT ![l] = Reconciled(@, passed)]
    /\ UNCHANGED <<time, row>>

CorrectResult(l, s, pass) ==
    /\ row[l].status = "CONFIRMED"
    /\ LET passed == IF pass THEN result[l].passed \cup {s} ELSE result[l].passed \ {s}
       IN  /\ result' = [result EXCEPT ![l] =
                  [passed |-> passed, judged |-> @.judged \cup {s}]]
           /\ certificate' = [certificate EXCEPT ![l] = Reconciled(@, passed)]
    /\ UNCHANGED <<time, row>>

Tick == time < MaxTime /\ time' = time + 1 /\ UNCHANGED <<row, result, certificate>>

Next ==
    \/ \E l \in Learners, t \in Read : Enroll(l, t) \/ Confirm(l, t) \/ Cancel(l, t)
    \/ \E t \in Read : ExpireHolds(t)
    \/ \E l \in Diligent, s \in Steps, b \in BOOLEAN :
           SubmitResult(l, s, b) \/ CorrectResult(l, s, b)
    \/ Tick

Spec == Init /\ [][Next]_vars
-----------------------------------------------------------------------------
\* Holders have seats 1 to capacity of their own; the queue is numbered from 1
\* without gaps; nobody waits while a seat is free (enrollments.py:238-278),
\* whoever expired, cancelled, confirmed or asked with a time read too early.
SeatsSound ==
    /\ \A l \in Learners : row[l].seat \in 1 .. Capacity <=> l \in Holding(row)
    /\ \A l, m \in Holding(row) : row[l].seat = row[m].seat => l = m
    /\ Positions(row) = 1 .. Cardinality(Waiting(row))
    /\ Waiting(row) # {} => Cardinality(Holding(row)) = Capacity

\* A valid certificate is of a confirmed seat with all steps passed, after any
\* cancellation, new enrollment and correction (progress.py:240-275).
CertificateSound ==
    \A l \in Learners : certificate[l] = "VALID" =>
        row[l].status = "CONFIRMED" /\ Steps \subseteq result[l].passed
=============================================================================
