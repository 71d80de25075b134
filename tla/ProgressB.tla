----------------------------- MODULE ProgressB -----------------------------
(***************************************************************************)
(* The step results and the certificate of one enrolment of text4/b. An    *)
(* evaluation holds the row of its own step from its update to its commit; *)
(* the other results and the certificate it reads without a lock.          *)
(***************************************************************************)
EXTENDS Naturals

CONSTANTS
    Steps,          \* steps of the pinned version
    Prerequisites,  \* prerequisite steps of each step
    Requests        \* evaluations in flight at most

VARIABLES
    enrollment,     \* Enrollment.status
    result,         \* StepResult.status of each step, "none" without a row
    certificate,    \* "none", "valid" or "revoked"
    request,        \* what each evaluation has read
    crossed         \* an evaluation committed on what was no longer so

vars == <<enrollment, result, certificate, request, crossed>>

Idle == [phase |-> "idle"]

Init ==
    /\ enrollment = "confirmed"
    /\ result = [i \in Steps |-> "none"]
    /\ certificate = "none"
    /\ request = [r \in Requests |-> Idle]
    /\ crossed = FALSE

\* A second submission returns the row there is.
submit(i) ==
    /\ enrollment = "confirmed"
    /\ result[i] = "none"
    /\ \A p \in Prerequisites[i] : result[p] = "passed"
    /\ result' = [result EXCEPT ![i] = "submitted"]
    /\ UNCHANGED <<enrollment, certificate, request, crossed>>

\* evaluate_submission and correct_result do not ask for the enrolment's status.
\* The one that differs, the first evaluation of correct_result, is a
\* correction as well, with the same new state.
evaluate_submission(r, i, status) ==
    /\ request[r] = Idle
    /\ result[i] \notin {"none", status}
    /\ request' = [request EXCEPT ![r] = [phase |-> "loaded", step |-> i, status |-> status,
                                          old |-> result[i]]]
    /\ UNCHANGED <<enrollment, result, certificate, crossed>>

\* The flush waits for the row, then reconcile_certificate reads the rest.
Flush(r) ==
    LET q == request[r]
    IN  /\ q.phase = "loaded"
        /\ \A o \in Requests : request[o].phase = "flushed" => request[o].step # q.step
        /\ request' = [request EXCEPT ![r] =
               [phase |-> "flushed", step |-> q.step, status |-> q.status, old |-> q.old,
                results |-> [result EXCEPT ![q.step] = q.status], certificate |-> certificate]]
        /\ UNCHANGED <<enrollment, result, certificate, crossed>>

complete(results) == \A i \in Steps : results[i] = "passed"

\* reconcile_certificate, from the certificate it has read
Reconciled(seen, results) ==
    IF complete(results) THEN "valid" ELSE IF seen = "valid" THEN "revoked" ELSE seen

\* A first certificate is an insert into a unique column, which can fail, and
\* an attribute that keeps its value is not written.
Commit(r) ==
    LET q == request[r]
        new == Reconciled(q.certificate, q.results)
    IN  /\ q.phase = "flushed"
        /\ request' = [request EXCEPT ![r] = Idle]
        /\ UNCHANGED enrollment
        /\ IF q.certificate = "none" /\ new = "valid" /\ certificate # "none"
           THEN UNCHANGED <<result, certificate, crossed>>
           ELSE /\ result' = [result EXCEPT ![q.step] = q.status]
                /\ certificate' = IF new = q.certificate THEN certificate ELSE new
                /\ crossed' = (\/ crossed
                               \/ [result EXCEPT ![q.step] = q.status] # q.results
                               \/ result[q.step] # q.old
                               \/ certificate # q.certificate)

\* cancel leaves the results and the certificate
cancel ==
    /\ enrollment = "confirmed"
    /\ enrollment' = "cancelled"
    /\ UNCHANGED <<result, certificate, request, crossed>>

Next ==
    \/ \E i \in Steps : submit(i)
    \/ \E r \in Requests, i \in Steps, status \in {"passed", "failed"} :
           evaluate_submission(r, i, status)
    \/ \E r \in Requests : Flush(r) \/ Commit(r)
    \/ cancel

Spec == Init /\ [][Next]_vars

-----------------------------------------------------------------------------
\* As long as no two evaluations have crossed, the certificate is valid exactly
\* while every step is passed (progress_service.py:186-310).
CertificateSound == ~ crossed => (certificate = "valid" <=> complete(result))
=============================================================================
