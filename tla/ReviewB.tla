------------------------------ MODULE ReviewB ------------------------------
(***************************************************************************)
(* Versions, review rounds, opinions and the sign-off of one job of the    *)
(* other ProofCycle (text15/b). Each operation is one transaction under    *)
(* the lock of the job row. The file of a version lies at a path made from *)
(* its number: an upload moves it there inside the transaction, and after  *)
(* a rollback, when the lock is gone, removes it again.                    *)
(***************************************************************************)
EXTENDS Naturals, Sequences, FiniteSets

CONSTANTS
    Reviewers,      \* JobReviewer rows, at least one
    Items,          \* the checklist template
    MaxVersions,    \* bound: versions
    MaxRow,         \* bound: Opinion.row_version
    MaxFaults       \* bound: uploads that fail after the move

VARIABLES
    status,         \* Job.status
    version,        \* FileVersion and ReviewRound rows; their status moves together
    signoff,        \* versions of the Signoff rows
    files,          \* version numbers with a file at their path
    removing,       \* numbers whose file a failed upload has yet to remove
    doomed,         \* numbers that some upload failed to commit, or to notice
    up              \* the integrity check at the start passed

vars == <<status, version, signoff, files, removing, doomed, up>>

Versions == DOMAIN version
None == [verdict |-> "none", row |-> 0]
Open == [status |-> "open", opinion |-> [r \in Reviewers |-> [i \in Items |-> None]]]

Init ==
    /\ status = "in_review"
    /\ version = <<>>
    /\ signoff = {}
    /\ files = {} /\ removing = {} /\ doomed = {}
    /\ up = TRUE

InReview_Any == up
InReview == up /\ status = "in_review"

Activated ==
    Append([v \in Versions |-> [version[v] EXCEPT !.status =
                IF @ = "open" THEN "superseded" ELSE @]], Open)

\* After the move: committed; committed, but the answer is lost; rolled back
\* before or after the row was prepared, which is what the clean-up goes by.
UploadRevision ==
    LET n == Len(version) + 1
    IN  /\ InReview
        /\ n <= MaxVersions
        /\ files' = files \cup {n}
        /\ \/ version' = Activated /\ UNCHANGED <<removing, doomed>>
           \/ /\ Cardinality(doomed) < MaxFaults
              /\ version' \in {version, Activated}
              /\ removing' = removing \cup {n}
              /\ doomed' = doomed \cup {n}
           \/ UNCHANGED <<version, removing, doomed>>
        /\ UNCHANGED <<status, signoff, up>>

RemoveFailed(n) ==
    /\ n \in removing
    /\ removing' = removing \ {n}
    /\ files' = files \ {n}
    /\ UNCHANGED <<status, version, signoff, doomed, up>>

\* A crash at any point and RecoverOrphans: the server does not start without
\* the file of a version.
Restart ==
    /\ removing' = {}
    /\ files' = files \cap Versions
    /\ up' = (Versions \subseteq files)
    /\ UNCHANGED <<status, version, signoff, doomed>>

\* A request is all or nothing, each item with the row version last seen.
SubmitOpinions(r, v, items, verdict, expected) ==
    /\ up
    /\ v \in Versions
    /\ version[v].status = "open"
    /\ \A i \in items : version[v].opinion[r][i].row = expected[i]
    /\ version' = [version EXCEPT ![v].opinion[r] = [i \in Items |->
           IF i \in items THEN [verdict |-> verdict[i], row |-> expected[i] + 1] ELSE @[i]]]
    /\ UNCHANGED <<status, signoff, files, removing, doomed, up>>

\* evaluateOpenRound: every reviewer answered every item, and none with fail
Settled(v) ==
    \A r \in Reviewers, i \in Items : version[v].opinion[r][i].verdict \in {"pass", "na"}

SignOff ==
    LET v == Len(version)
    IN  /\ InReview
        /\ v \in Versions
        /\ version[v].status = "open"
        /\ Settled(v)
        /\ version' = [version EXCEPT ![v].status = "approved"]
        /\ signoff' = signoff \cup {v}
        /\ status' = "approved"
        /\ UNCHANGED <<files, removing, doomed, up>>

Next ==
    \/ UploadRevision
    \/ \E n \in removing : RemoveFailed(n)
    \/ Restart
    \/ \E r \in Reviewers, v \in Versions, items \in SUBSET Items \ {{}} :
       \E verdict \in [items -> {"pass", "fail", "na"}], expected \in [items -> 0 .. MaxRow - 1] :
           SubmitOpinions(r, v, items, verdict, expected)
    \/ SignOff

Spec == Init /\ [][Next]_vars
-----------------------------------------------------------------------------
\* Only the newest version is open or signed off, with every item answered and
\* none failed, also by requests that come after (reviews.go:83-290); a version
\* lacks its file only when an upload of that number went wrong at its end, and
\* a server that runs has them all but those (uploads.go:35-192).
ReviewSound ==
    /\ \A v \in Versions : version[v].status # "superseded" <=> v = Len(version)
    /\ \A v \in signoff : v = Len(version) /\ version[v].status = "approved" /\ Settled(v)
    /\ status = "approved" <=> signoff # {}
    /\ Versions \ doomed \subseteq files
    /\ ~ up => Versions \cap doomed # {}
=============================================================================
