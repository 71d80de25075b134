----------------------------- MODULE VersionsB -----------------------------
(***************************************************************************)
(* The versions of one program of text4/b. A request takes no lock and     *)
(* works on what it has read: `held' is what one slow request has read.    *)
(***************************************************************************)
EXTENDS Naturals, Sequences, FiniteSets

CONSTANTS
    Payloads,       \* step lists: of each position its prerequisite positions
    MaxSteps,       \* MAX_STEPS
    MaxVersions     \* bound: versions

VARIABLES
    db,             \* versions: status, steps, steps when published; current
    held,           \* what the slow request has read, if there is one
    overtaken       \* versions changed from what was no longer so

vars == <<db, held, overtaken>>

Version(steps) == [status |-> "draft", steps |-> steps, frozen |-> <<>>]

\* create_program
Init ==
    /\ db = [versions |-> <<Version(<<>>)>>, current |-> 0]
    /\ held = {}
    /\ overtaken = {}

-----------------------------------------------------------------------------
\* _ensure_acyclic: no set of steps waits for itself
_ensure_acyclic(steps) ==
    \A S \in SUBSET DOMAIN steps : S # {} => \E i \in S : steps[i] \cap S = {}

\* validate_step_payload and validate_persisted_steps
validate_steps(steps) ==
    /\ Len(steps) \in 1 .. MaxSteps
    /\ \A i \in DOMAIN steps : steps[i] \subseteq DOMAIN steps \ {i}
    /\ _ensure_acyclic(steps)

Requests == {db} \cup held

Begin == held = {} /\ held' = {db} /\ UNCHANGED <<db, overtaken>>

Commits(s, v, d) ==
    /\ db' = d
    /\ \/ held' = held \ {s}
       \/ s = db /\ held' = held
    /\ overtaken' = overtaken \cup (IF v \in DOMAIN s.versions /\ s.versions[v] # db.versions[v]
                                    THEN {v} ELSE {})

\* The current version is written only when it is not the one that was read.
Points(s, d, v) == IF s.current = v THEN d ELSE [d EXCEPT !.current = v]

\* create_draft: uq_version_number refuses a second one of the same number
create_draft(s, base) ==
    LET n == Len(s.versions) + 1
    IN  /\ \A v \in DOMAIN s.versions : s.versions[v].status # "draft"
        /\ n <= MaxVersions
        /\ Len(db.versions) < n
        /\ Commits(s, n, [db EXCEPT !.versions = Append(@, Version(
               IF base = 0 THEN <<>> ELSE db.versions[base].steps))])

\* replace_steps: uq_step_position refuses it when the steps are no longer those
\* it deletes. The version itself is not written.
replace_steps(s, v, steps) ==
    /\ s.versions[v].status = "draft"
    /\ validate_steps(steps)
    /\ s.versions[v].steps = db.versions[v].steps
    /\ Commits(s, v, [db EXCEPT !.versions[v].steps = steps])

publish_version(s, v) ==
    /\ s.versions[v].status = "draft"
    /\ validate_steps(s.versions[v].steps)
    /\ Commits(s, v, Points(s, [db EXCEPT !.versions[v].status = "published",
                                          !.versions[v].frozen = s.versions[v].steps], v))

rollback(s, v) ==
    /\ s.versions[v].status = "published"
    /\ Commits(s, v, Points(s, db, v))

Next ==
    \/ Begin
    \/ \E s \in Requests : \E base \in {s.current} \cup DOMAIN s.versions : create_draft(s, base)
    \/ \E s \in Requests : \E v \in DOMAIN s.versions :
           \/ \E steps \in Payloads : replace_steps(s, v, steps)
           \/ publish_version(s, v)
           \/ rollback(s, v)

Spec == Init /\ [][Next]_vars

-----------------------------------------------------------------------------
\* There is never a second draft, and learners are never sent to one. A version
\* that no late request has changed is published with steps that can all be
\* taken, and keeps them (versions_service.py:76-304).
VersionsSound ==
    /\ Cardinality({v \in DOMAIN db.versions : db.versions[v].status = "draft"}) <= 1
    /\ db.current # 0 => db.versions[db.current].status = "published"
    /\ \A v \in DOMAIN db.versions \ overtaken :
           db.versions[v].status = "published" =>
               validate_steps(db.versions[v].steps) /\ db.versions[v].steps = db.versions[v].frozen
=============================================================================
