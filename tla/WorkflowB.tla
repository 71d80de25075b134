----------------------------- MODULE WorkflowB -----------------------------
(***************************************************************************)
(* The approval engine of text8/b: versions of one template and one        *)
(* instance of it. Decisions, withdrawal and time-outs hold the lock of    *)
(* the instance row. A withdrawal has loaded the instance before it waits  *)
(* for that lock and does not read it again.                               *)
(***************************************************************************)
EXTENDS Naturals, Sequences, FiniteSets

CONSTANTS
    Definitions,    \* definitions offered: [start |-> node, nodes |-> [...]]
    MaxVersions     \* bound: versions of the template

VARIABLES
    versions,       \* TemplateVersion rows by number: [of, published]
    current,        \* Template.current_version_number, 0 before the first
    instance,       \* the Instance row: [version, status, node]
    activities,     \* its NodeActivity rows with their tasks, in order
    withdrawing     \* the status that the withdrawal in flight has loaded

vars == <<versions, current, instance, activities, withdrawing>>

\* _node_refs
Refs(node) ==
    CASE node.type = "approval" -> {node.next} \cup (node.reject \ {"none"})
      [] node.type = "condition" -> {node.to[i] : i \in DOMAIN node.to} \cup {node.default}
      [] OTHER -> {}

\* The nodes that can be reached from those of S: they are in every set that
\* holds S and what its nodes refer to.
Reach(d, S) ==
    {m \in DOMAIN d.nodes :
        \A T \in SUBSET DOMAIN d.nodes :
            S \subseteq T /\ (\A n \in T : Refs(d.nodes[n]) \subseteq T) => m \in T}

\* validate_definition: every reference resolves, nobody is both approver and
\* escalation target, every node is reached and none reaches itself.
Valid(d) ==
    LET ids == DOMAIN d.nodes
    IN  /\ d.start \in ids
        /\ \A n \in ids : Refs(d.nodes[n]) \subseteq ids
        /\ \A n \in ids : d.nodes[n].type = "approval" =>
               /\ d.nodes[n].approvers \cap d.nodes[n].to = {}
               /\ d.nodes[n].timeout = "escalate" => d.nodes[n].to # {}
        /\ Reach(d, {d.start}) = ids
        /\ \A n \in ids : n \notin Reach(d, Refs(d.nodes[n]))

Init ==
    /\ versions = <<>>
    /\ current = 0
    /\ instance = [version |-> 0, status |-> "none", node |-> "none"]
    /\ activities = <<>>
    /\ withdrawing = "none"

-----------------------------------------------------------------------------
UnchangedFlow == UNCHANGED <<instance, activities, withdrawing>>

\* create_template and create_version
CreateVersion(d, publish) ==
    /\ Len(versions) < MaxVersions
    /\ publish => Valid(d)
    /\ versions' = Append(versions, [of |-> d, published |-> publish])
    /\ current' = IF publish THEN Len(versions) + 1 ELSE current
    /\ UnchangedFlow

Publish(v) ==
    /\ ~versions[v].published /\ Valid(versions[v].of)
    /\ versions' = [versions EXCEPT ![v].published = TRUE]
    /\ current' = v
    /\ UnchangedFlow

Rollback(v) ==
    /\ versions[v].published
    /\ current' = v
    /\ UNCHANGED versions
    /\ UnchangedFlow

-----------------------------------------------------------------------------
\* _enter_condition: the first branch that holds, else the default
Branch(node) ==
    LET holding == {i \in DOMAIN node.to : node.when[i]}
    IN  IF holding = {} THEN node.default
        ELSE node.to[CHOOSE i \in holding : \A j \in holding : i <= j]

\* _advance: conditions are passed through at once.
Target(d, n) ==
    LET target[m \in DOMAIN d.nodes] ==
            IF d.nodes[m].type = "condition" THEN target[Branch(d.nodes[m])] ELSE m
    IN  target[n]

Entered(d, n) ==
    [node |-> n, status |-> "pending", escalated |-> FALSE,
     deadline |-> d.nodes[n].timeout # "never",
     tasks |-> [u \in d.nodes[n].approvers |-> "pending"]]

\* The instance goes on from activities acts to node n.
Advance(d, version, acts, n) ==
    LET m == Target(d, n)
    IN  IF d.nodes[m].type = "end"
        THEN /\ instance' = [version |-> version, status |-> d.nodes[m].outcome, node |-> m]
             /\ activities' = acts
        ELSE /\ instance' = [version |-> version, status |-> "running", node |-> m]
             /\ activities' = Append(acts, Entered(d, m))

\* start_instance: the current version, or a published one that the submitter names
Start(v) ==
    /\ instance.status = "none"
    /\ versions[v].published
    /\ Advance(versions[v].of, v, <<>>, versions[v].of.start)
    /\ UNCHANGED <<versions, current, withdrawing>>

-----------------------------------------------------------------------------
Pending(a) == {u \in DOMAIN a.tasks : a.tasks[u] = "pending"}
Closed(a, status) ==
    [u \in DOMAIN a.tasks |-> IF u \in Pending(a) THEN status ELSE a.tasks[u]]

\* The definition of the version that the instance was started with
D == versions[instance.version].of
Now == activities[Len(activities)]
Config == D.nodes[Now.node]
Set(a) == [activities EXCEPT ![Len(activities)] = a]
Live == instance.status = "running" /\ Len(activities) > 0 /\ Now.status = "pending"
UnchangedRest == UNCHANGED <<versions, current, withdrawing>>

Goes(acts, n) == Advance(D, instance.version, acts, n)

\* _reject_path closes every task that is pending in the table: the one just
\* rejected too, as the session has not flushed it.
RejectPath ==
    LET acts == Set([Now EXCEPT !.status = "rejected", !.tasks = Closed(Now, "closed")])
    IN  IF Config.reject = {"none"}
        THEN /\ instance' = [instance EXCEPT !.status = "rejected"]
             /\ activities' = acts
        ELSE Goes(acts, CHOOSE n \in Config.reject : TRUE)

Reject(u) ==
    /\ Live /\ u \in Pending(Now)
    /\ RejectPath
    /\ UnchangedRest

\* One approval is enough, or the last of the pending tasks is approved. Tasks
\* that a time-out closed no longer count.
Passes_First(u) == TRUE
Passes(u) == Config.mode = "any" \/ Pending(Now) = {u}
Approve(u) ==
    /\ Live /\ u \in Pending(Now)
    /\ LET approved == [Now EXCEPT !.tasks[u] = "approved"]
       IN  IF Passes(u)
           THEN Goes(Set([approved EXCEPT !.status = "completed",
                                          !.tasks = Closed(approved, "closed")]),
                     Config.next)
           ELSE activities' = Set(approved) /\ UNCHANGED instance
    /\ UnchangedRest

\* The submitter's request loads the instance, then waits for its lock.
BeginWithdraw ==
    /\ withdrawing = "none" /\ instance.status # "none"
    /\ withdrawing' = instance.status
    /\ UNCHANGED <<versions, current, instance, activities>>

Withdraw ==
    /\ withdrawing = "running"
    /\ activities' =
           IF Now.status # "pending" THEN activities
           ELSE Set([Now EXCEPT !.status = "withdrawn", !.tasks = Closed(Now, "withdrawn")])
    /\ instance' = [instance EXCEPT !.status = "withdrawn"]
    /\ withdrawing' = "none"
    /\ UNCHANGED <<versions, current>>

RefuseWithdraw ==
    /\ withdrawing \notin {"none", "running"}
    /\ withdrawing' = "none"
    /\ UNCHANGED <<versions, current, instance, activities>>

-----------------------------------------------------------------------------
\* run_sweep: a deadline that is set passes at any time.
Due == Live /\ Now.deadline /\ UnchangedRest

Escalate ==
    /\ Due /\ Config.timeout = "escalate"
    /\ activities' = Set([Now EXCEPT !.escalated = TRUE, !.deadline = FALSE,
           !.tasks = [u \in DOMAIN @ \cup Config.to |->
               IF u \in DOMAIN @ THEN Closed(Now, "timeout_closed")[u] ELSE "pending"]])
    /\ UNCHANGED instance

AutoApprove ==
    /\ Due /\ Config.timeout = "approve"
    /\ Goes(Set([Now EXCEPT !.status = "timeout_resolved", !.tasks = Closed(Now, "approved")]),
            Config.next)

AutoReject == Due /\ Config.timeout = "reject" /\ RejectPath

Users == UNION {DOMAIN activities[i].tasks : i \in DOMAIN activities}

Next ==
    \/ \E d \in Definitions, publish \in BOOLEAN : CreateVersion(d, publish)
    \/ \E v \in DOMAIN versions : Publish(v) \/ Rollback(v) \/ Start(v)
    \/ \E u \in Users : Approve(u) \/ Reject(u)
    \/ BeginWithdraw \/ Withdraw \/ RefuseWithdraw
    \/ Escalate \/ AutoApprove \/ AutoReject

Spec == Init /\ [][Next]_vars
-----------------------------------------------------------------------------
\* A running instance waits at one activity, the last, which somebody can still
\* decide; an ended one has nothing open. A completed activity had the
\* approvals of its mode from those whom a time-out had not replaced, and the
\* current version is a published one (engine.py:134-493, timeouts.py:45-160).
WorkflowSound ==
    /\ current # 0 => versions[current].published
    /\ instance.status = "running" =>
           Live /\ Now.node = instance.node /\ Pending(Now) # {}
    /\ \A i \in DOMAIN activities :
           LET a == activities[i]
               Had(s) == {u \in DOMAIN a.tasks : a.tasks[u] = s}
           IN  /\ a.status # "pending" => Pending(a) = {}
               /\ a.status = "pending" =>
                      i = Len(activities) /\ instance.status = "running"
               /\ a.status = "completed" =>
                      /\ Had("approved") # {}
                      /\ D.nodes[a.node].mode = "all" =>
                             Had("approved") \cup Had("timeout_closed") = DOMAIN a.tasks
               /\ Had("timeout_closed") # {} => a.escalated
=============================================================================
