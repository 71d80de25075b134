------------------------------ MODULE ReviewA ------------------------------
(***************************************************************************)
(* Revisions, checklist, reviews and the approval of one job of ProofCycle *)
(* (text15/a). Each operation is one transaction that begins by updating   *)
(* the job row, which locks it and is refused once the job is approved; an *)
(* upload writes its file inside and cleans it up after a rollback.        *)
(***************************************************************************)
EXTENDS Naturals, Sequences, FiniteSets

CONSTANTS
    Reviewers,      \* JobReviewer rows
    Items,          \* the checklist template
    MaxId,          \* bound: revision ids, which a rollback uses up
    MaxVersion      \* bound: updates of an item or a comment

VARIABLES
    job,            \* Job: status, current_revision_id
    revision,       \* Revision rows with their snapshot, by version_no
    nextId,         \* the next revision id
    approval,       \* revision ids of the Approval rows
    files           \* ids of the revision files on disk

vars == <<job, revision, nextId, approval, files>>

Versions == DOMAIN revision
Ids == {revision[v].id : v \in Versions}
Current == {v \in Versions : revision[v].id = job.current}

NewRevision(id) ==
    [id |-> id, status |-> "active",
     item |-> [i \in Items |-> [status |-> "pending", version |-> 1]],
     completed |-> {},
     comment |-> [r \in Reviewers |-> 0]]

Init ==
    /\ job = [status |-> "in_review", current |-> 0]
    /\ revision = <<>>
    /\ nextId = 1
    /\ approval = {}
    /\ files = {}

\* lockJobTx, lockCurrentRevisionTx
LockJob == job.status = "in_review"
LockRevision(v) == LockJob /\ v \in Current

Superseded(revisions) ==
    [v \in DOMAIN revisions |-> [revisions[v] EXCEPT !.status =
        IF @ = "active" THEN "superseded" ELSE @]]

\* An upload commits; or is rolled back and its file removed; or the process
\* ends before the commit and leaves the file.
SubmitRevision ==
    /\ LockJob
    /\ nextId <= MaxId
    /\ nextId' = nextId + 1
    /\ \/ /\ revision' = Append(Superseded(revision), NewRevision(nextId))
          /\ job' = [job EXCEPT !.current = nextId]
          /\ files' = files \cup {nextId}
       \/ UNCHANGED <<revision, job, files>>
       \/ files' = files \cup {nextId} /\ UNCHANGED <<revision, job>>
    /\ UNCHANGED approval

UpdateChecklistItem(v, i, verdict, expected) ==
    /\ LockRevision(v)
    /\ revision[v].item[i].version = expected
    /\ revision' = [revision EXCEPT ![v].item[i] =
           [status |-> verdict, version |-> expected + 1]]
    /\ UNCHANGED <<job, nextId, approval, files>>

\* The author's own comment: added, then changed against the version he saw
AddOrUpdateComment(v, r, expected) ==
    /\ LockRevision(v)
    /\ revision[v].comment[r] = expected
    /\ revision' = [revision EXCEPT ![v].comment[r] = expected + 1]
    /\ UNCHANGED <<job, nextId, approval, files>>

CompleteReview(v, r) ==
    /\ LockRevision(v)
    /\ revision' = [revision EXCEPT ![v].completed = @ \cup {r}]
    /\ UNCHANGED <<job, nextId, approval, files>>

Bad(rev) == {i \in Items : rev.item[i].status \in {"pending", "fail"}}

\* The guarded update of the status is undone with the rest when a check fails.
Approve ==
    /\ LockJob
    /\ \E v \in Current :
           /\ Cardinality(revision[v].completed) >= Cardinality(Reviewers)
           /\ Bad(revision[v]) = {}
    /\ job' = [job EXCEPT !.status = "approved"]
    /\ approval' = approval \cup {job.current}
    /\ UNCHANGED <<revision, nextId, files>>

Next ==
    \/ SubmitRevision
    \/ \E v \in Versions, i \in Items, s \in {"pass", "fail", "na"}, n \in 1 .. MaxVersion :
           UpdateChecklistItem(v, i, s, n)
    \/ \E v \in Versions, r \in Reviewers, n \in 0 .. MaxVersion - 1 :
           AddOrUpdateComment(v, r, n)
    \/ \E v \in Versions, r \in Reviewers : CompleteReview(v, r)
    \/ Approve

Spec == Init /\ [][Next]_vars
-----------------------------------------------------------------------------
\* What is approved is the newest revision, with every reviewer done and no item
\* open or failed, and stays so: verdicts, completions and uploads that arrive
\* late do not reach it; every version has its file (service.go:224-595).
ReviewSound ==
    /\ \A v \in Versions : revision[v].status = "active" <=> v = Len(revision)
    /\ Current = {v \in Versions : v = Len(revision)}
    /\ Ids \subseteq files
    /\ approval # {} <=> job.status = "approved"
    /\ \A id \in approval : id = revision[Len(revision)].id
    /\ approval # {} => /\ Bad(revision[Len(revision)]) = {}
                        /\ revision[Len(revision)].completed = Reviewers
=============================================================================
