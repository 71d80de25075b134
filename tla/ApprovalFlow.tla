---------------------------- MODULE ApprovalFlow ----------------------------
(***************************************************************************)
(* The approval engine of text8/a: template versions, running instances,   *)
(* their tasks and time-out escalations, the idempotency ledger, the API   *)
(* sessions that serve start, decide and withdraw, and the escalation      *)
(* workers.  One database transaction is one or two steps here: the step   *)
(* that waits for the instance row (SELECT ... FOR UPDATE) and the step    *)
(* that writes everything and commits.  What a transaction has written is  *)
(* invisible before its commit, so only the locks it holds in between are  *)
(* part of the state.                                                      *)
(*                                                                         *)
(* A task row is named by <<instance, node, round, slot>>: round 0 is the  *)
(* activation of the node, round k its k-th escalation, and the slot is a  *)
(* position in the node's assignees (round 0) or escalation targets.       *)
(***************************************************************************)
EXTENDS Integers, Sequences, FiniteSets, Functions

CONSTANTS
    Versions,     \* version numbers of the template, 1 .. n
    Nodes,        \* node ids used by the definitions
    Users,        \* submitters, assignees and escalation targets
    Submitters,   \* the users who start instances
    Contexts,     \* values of an instance's context the conditions tell apart
    Definition,   \* Definition[v]: the JSON definition submitted as version v
    Instances,    \* 1 .. n, instance ids
    Slots,        \* 1 .. n, positions in a list of assignees or targets
    Sessions,     \* concurrent API calls
    Workers,      \* escalation workers, one per replica of the service
    RequestIds,   \* 1 .. n, request ids clients have generated
    BatchLimit,   \* worker_batch_size
    MaxRounds,    \* bound: escalations of one node that the model follows
    MaxFaults     \* bound: crashes, lost connections and failed escalations

VARIABLES
    version,   \* version[v]: "none", "draft" or "published"
    current,   \* template.current_version_id, 0 for NULL
    inst,      \* instance rows
    task,      \* status of every task row, "none" while it does not exist
    esc,       \* status of the escalation row of <<instance, node>>
    due,       \* the escalations whose due_at has passed, in the order of due_at
    rounds,    \* escalations applied to <<instance, node>>
    history,   \* history_event rows of each instance, in id order
    record,    \* committed idempotency_record rows
    session,   \* what each API call holds and is about to do
    worker,    \* what each escalation worker holds and is about to do
    faults     \* faults so far

rowVars == <<version, current, inst, task, esc, due, rounds, history, record>>
vars == <<rowVars, session, worker, faults>>

-----------------------------------------------------------------------------
(* Definitions and their validation (dsl.py) *)

NodeOf(v, n) == Definition[v].nodes[n]
TypeOf(v, n) == NodeOf(v, n).type
NodesOf(v)   == DOMAIN Definition[v].nodes

OutTargets(v, n) ==
    CASE TypeOf(v, n) \in {"start", "approval"} -> {NodeOf(v, n).next}
      [] TypeOf(v, n) = "condition" ->
            {NodeOf(v, n).default}
              \cup {NodeOf(v, n).branches[b].next : b \in DOMAIN NodeOf(v, n).branches}
      [] OTHER -> {}

(* What validate_definition accepts: one start node and an end node, people *)
(* on every approval, every reference resolved, every node reachable from   *)
(* start_node, no cycle.  "targets" is <<>> for a node without a time-out.  *)
ValidDefinition(v) ==
    LET edges(n) == OutTargets(v, n) IN
    /\ Cardinality({n \in NodesOf(v) : TypeOf(v, n) = "start"}) = 1
    /\ \E n \in NodesOf(v) : TypeOf(v, n) = "end"
    /\ \A n \in NodesOf(v) :
          TypeOf(v, n) = "approval" =>
             /\ NodeOf(v, n).mode \in {"all", "any"}
             /\ NodeOf(v, n).assignees # <<>>
             /\ IsInjective(NodeOf(v, n).assignees)
    /\ Definition[v].start \in NodesOf(v)
    /\ \A n \in NodesOf(v) : edges(n) \subseteq NodesOf(v)
    /\ \A S \in SUBSET NodesOf(v) :
          Definition[v].start \in S /\ (\A n \in S : edges(n) \subseteq S)
             => S = NodesOf(v)
    /\ \A S \in (SUBSET NodesOf(v)) \ {{}} : \E n \in S : edges(n) \cap S = {}

AcceptedVersions == {v \in Versions : ValidDefinition(v)}

(* The first branch whose expression holds of the context, else default.   *)
(* "when" is the set of contexts that satisfy the expression, "raises" the *)
(* set of those it cannot compare, such as one without the variable.       *)
Chosen(v, n, ctx) ==
    LET branches == NodeOf(v, n).branches
        hits == {b \in DOMAIN branches : ctx \in branches[b].when}
    IN  IF hits = {}
        THEN NodeOf(v, n).default
        ELSE branches[CHOOSE b \in hits : \A c \in hits : b <= c].next

(* The nodes _activate visits from n: conditions, then where it stops. *)
Route(v, ctx) ==
    LET route[n \in NodesOf(v)] ==
            IF TypeOf(v, n) = "condition"
            THEN <<n>> \o route[Chosen(v, n, ctx)]
            ELSE <<n>>
    IN  route

(* Where the instance goes when it leaves the node n. *)
Onward(v, ctx, n)  == Route(v, ctx)[NodeOf(v, n).next]
Landing(v, ctx, n) == Onward(v, ctx, n)[Len(Onward(v, ctx, n))]

(* No branch that is tried before the chosen one raises. *)
Evaluates(v, n, ctx) ==
    LET branches == NodeOf(v, n).branches IN
    \A b \in DOMAIN branches : ctx \in branches[b].raises =>
        \E c \in 1 .. b - 1 : ctx \in branches[c].when

(* _activate raises on a start node, and a condition node has no "next".   *)
Lands(v, ctx, n) ==
    /\ TypeOf(v, n) \in {"start", "approval"}
    /\ TypeOf(v, Landing(v, ctx, n)) \in {"approval", "end"}

CanLeave(v, ctx, n) ==
    /\ Lands(v, ctx, n)
    /\ \A k \in 1 .. Len(Onward(v, ctx, n)) - 1 : Evaluates(v, Onward(v, ctx, n)[k], ctx)

HasTimeout(v, n) == TypeOf(v, n) = "approval" /\ NodeOf(v, n).targets # <<>>

(* How many task rows a round of the node creates. *)
Crowd(v, n, r) ==
    IF TypeOf(v, n) # "approval" THEN 0
    ELSE Len(IF r = 0 THEN NodeOf(v, n).assignees ELSE NodeOf(v, n).targets)

(* The people of a node are a list and fit the slots. *)
ASSUME SlotsAssumption ==
    /\ MaxRounds \in Nat \ {0} /\ MaxFaults \in Nat /\ BatchLimit \in Nat \ {0}
    /\ 0 \notin RequestIds /\ 0 \notin Versions
    /\ \A v \in Versions :
          /\ NodesOf(v) \subseteq Nodes
          /\ \A n \in NodesOf(v) : TypeOf(v, n) = "approval" =>
                NodeOf(v, n).assignees \in Seq(Users) /\ NodeOf(v, n).targets \in Seq(Users)
          /\ \A n \in NodesOf(v), r \in 0 .. MaxRounds :
                Crowd(v, n, r) \in Nat /\ 1 .. Crowd(v, n, r) \subseteq Slots

(* The branches of a condition are a list, tried in its order. *)
ASSUME BranchesAssumption ==
    \A v \in Versions : \A n \in NodesOf(v) : TypeOf(v, n) = "condition" =>
       /\ Len(NodeOf(v, n).branches) \in Nat
       /\ DOMAIN NodeOf(v, n).branches = 1 .. Len(NodeOf(v, n).branches)

-----------------------------------------------------------------------------
TaskKeys == Instances \X Nodes \X (0 .. MaxRounds) \X Slots
EscKeys  == Instances \X Nodes

NoInstance == [status |-> "none"]
ClosedStatus == {"completed", "rejected", "withdrawn"}
Instance == [status : {"running"} \cup ClosedStatus, version : Versions,
             node : Nodes, submitter : Submitters, context : Contexts]
TaskStatus == {"none", "pending", "approved", "rejected", "canceled"}
EscStatus  == {"none", "pending", "done", "canceled"}
ClosingEvent == {"withdraw", "reject", "complete"}
EventType  == {"start", "task_approve", "task_reject", "tasks_canceled",
               "node_approve", "branch", "escalate"} \cup ClosingEvent
(* "by" is the request whose transaction wrote the event, 0 for a worker. *)
Event == [type : EventType, node : Nodes, by : RequestIds \cup {0}]

StartCall    == [kind : {"start"}, version : Versions, submitter : Submitters,
                 context : Contexts]
DecideCall   == [kind : {"decide"}, task : TaskKeys, decision : {"approve", "reject"}]
WithdrawCall == [kind : {"withdraw"}, inst : Instances]
Call == StartCall \cup DecideCall \cup WithdrawCall

Idle == [pc |-> "idle"]
SessionState == {Idle} \cup [pc : {"claimed", "locked"}, rid : RequestIds, call : Call]
Resting == [pc |-> "idle", batch |-> <<>>, claimed |-> FALSE]

TypeOK ==
    /\ version \in [Versions -> {"none", "draft", "published"}]
    /\ current \in Versions \cup {0}
    /\ inst \in [Instances -> Instance \cup {NoInstance}]
    /\ task \in [TaskKeys -> TaskStatus]
    /\ esc \in [EscKeys -> EscStatus]
    /\ due \in Seq(EscKeys)
    /\ rounds \in [EscKeys -> 0 .. MaxRounds]
    /\ history \in [Instances -> Seq(Event)]
    /\ record \subseteq RequestIds
    /\ session \in [Sessions -> SessionState]
    /\ worker \in [Workers -> [pc : {"idle", "batch", "applying"},
                               batch : Seq(EscKeys), claimed : BOOLEAN]]
    /\ faults \in 0 .. MaxFaults

Init ==
    /\ version = [v \in Versions |-> "none"]
    /\ current = 0
    /\ inst = [i \in Instances |-> NoInstance]
    /\ task = [t \in TaskKeys |-> "none"]
    /\ esc = [e \in EscKeys |-> "none"]
    /\ due = <<>>
    /\ rounds = [e \in EscKeys |-> 0]
    /\ history = [i \in Instances |-> <<>>]
    /\ record = {}
    /\ session = [s \in Sessions |-> Idle]
    /\ worker = [w \in Workers |-> Resting]
    /\ faults = 0

-----------------------------------------------------------------------------
(* Templates *)

(* create_template and add_version: the next version number, as a draft. *)
AddVersion(v) ==
    /\ version[v] = "none"
    /\ \A u \in Versions : u < v => version[u] # "none"
    /\ v \in AcceptedVersions
    /\ version' = [version EXCEPT ![v] = "draft"]
    /\ UNCHANGED <<current, inst, task, esc, due, rounds, history, record,
                   session, worker, faults>>

Publish(v) ==
    /\ version[v] = "draft"
    /\ v \in AcceptedVersions
    /\ version' = [version EXCEPT ![v] = "published"]
    /\ current' = v
    /\ UNCHANGED <<inst, task, esc, due, rounds, history, record, session,
                   worker, faults>>

Rollback(v) ==
    /\ version[v] = "published"
    /\ current # v
    /\ current' = v
    /\ UNCHANGED <<version, inst, task, esc, due, rounds, history, record,
                   session, worker, faults>>

-----------------------------------------------------------------------------
(* Row locks.  A session in "locked" and a worker in "applying" hold the    *)
(* instance row; a worker holds the escalation rows of its batch from the   *)
(* claim to the first commit or rollback after it.                          *)

InstanceOf(c) == IF c.kind = "decide" THEN c.task[1] ELSE c.inst

SessionHolds(s, i) == session[s].pc = "locked" /\ InstanceOf(session[s].call) = i
WorkerHolds(w, i)  == worker[w].pc = "applying" /\ Head(worker[w].batch)[1] = i
InstanceFree(i) ==
    /\ \A s \in Sessions : ~SessionHolds(s, i)
    /\ \A w \in Workers : ~WorkerHolds(w, i)

Claims(w, e) == worker[w].claimed /\ e \in Range(worker[w].batch)
EscFree(e)   == \A w \in Workers : ~Claims(w, e)

(* An update that would cancel the escalation waits for its row. *)
MayCancelEsc(e) == esc[e] = "pending" => EscFree(e)

Running_NotChecked(i) == inst[i].status # "none"
Running(i) == inst[i].status = "running"

PendingTasks_AnyStatus(i, n) == {t \in TaskKeys : t[1] = i /\ t[2] = n /\ task[t] # "none"}
PendingTasks(i, n) == {t \in TaskKeys : t[1] = i /\ t[2] = n /\ task[t] = "pending"}

(* The row of instance i, moved to a node and a status; nothing else of it  *)
(* ever changes.                                                            *)
Moved(i, node, status) ==
    [status |-> status, version |-> inst[i].version, node |-> node,
     submitter |-> inst[i].submitter, context |-> inst[i].context]

(* The rows the arrival at node n of version v adds to instance i. *)
NewTasks(v, i, n, r) == {<<i, n, r, x>> : x \in 1 .. Crowd(v, n, r)}
NewEscs(v, i, n)     == IF HasTimeout(v, n) THEN {<<i, n>>} ELSE {}

Marked(f, S, value) == [k \in DOMAIN f |-> IF k \in S THEN value ELSE f[k]]
EscsCanceled(e) == IF esc[e] = "pending" THEN Marked(esc, {e}, "canceled") ELSE esc

Log(type, n, rid) == <<[type |-> type, node |-> n, by |-> rid]>>
(* What _activate writes on its way: a branch event per condition node. *)
RouteLog(route, rid) ==
    [k \in 1 .. Len(route) - 1 |-> [type |-> "branch", node |-> route[k], by |-> rid]]
ArrivalLog(v, n, rid) ==
    IF TypeOf(v, n) = "end" THEN Log("complete", n, rid) ELSE <<>>
ArrivalStatus_WrongWord(v, n) == IF TypeOf(v, n) = "end" THEN "complete" ELSE "running"
ArrivalStatus(v, n) == IF TypeOf(v, n) = "end" THEN "completed" ELSE "running"

-----------------------------------------------------------------------------
(* API calls.  The first statement of each inserts the request id, whose    *)
(* primary key makes a concurrent holder of the same id wait; a recorded id *)
(* replays the stored answer or is refused, and changes nothing.  Ids are   *)
(* interchangeable, so a new request takes the least one not in use.        *)

FreeIds_Forgetful == {r \in RequestIds : \A s \in Sessions :
                                     session[s].pc # "idle" => session[s].rid # r}
FreeIds == {r \in RequestIds : /\ r \notin record
                               /\ \A s \in Sessions :
                                     session[s].pc # "idle" => session[s].rid # r}

Claim(s, c) ==
    \E r \in FreeIds :
       /\ \A q \in FreeIds : r <= q
       /\ session' = [session EXCEPT ![s] = [pc |-> "claimed", rid |-> r, call |-> c]]

BeginStart(s, user, ctx) ==
    /\ session[s].pc = "idle"
    /\ current # 0 /\ version[current] = "published"
    /\ Claim(s, [kind |-> "start", version |-> current, submitter |-> user,
                 context |-> ctx])
    /\ UNCHANGED <<rowVars, worker, faults>>

AssigneeOf(t) ==
    LET node == NodeOf(inst[t[1]].version, t[2])
    IN  IF t[3] = 0 THEN node.assignees[t[4]] ELSE node.targets[t[4]]

(* The checks of decide_task on what never changes: the bound version is    *)
(* the expected one, the task belongs to the instance of the path, and the  *)
(* actor is its assignee.                                                   *)
BeginDecide(s, i, expected, t, actor, decision) ==
    /\ session[s].pc = "idle"
    /\ inst[i] # NoInstance /\ inst[i].version = expected
    /\ t[1] = i /\ AssigneeOf(t) = actor
    /\ Claim(s, [kind |-> "decide", task |-> t, decision |-> decision])
    /\ UNCHANGED <<rowVars, worker, faults>>

BeginWithdraw(s, i, actor) ==
    /\ session[s].pc = "idle"
    /\ inst[i] # NoInstance /\ inst[i].submitter = actor
    /\ Claim(s, [kind |-> "withdraw", inst |-> i])
    /\ UNCHANGED <<rowVars, worker, faults>>

LockInstance(s) ==
    /\ session[s].pc = "claimed"
    /\ session[s].call.kind # "start"
    /\ InstanceFree(InstanceOf(session[s].call))
    /\ session' = [session EXCEPT ![s] = [pc |-> "locked", rid |-> session[s].rid,
                                          call |-> session[s].call]]
    /\ UNCHANGED <<rowVars, worker, faults>>

(* The idempotency row is written in the transaction that has the effect. *)
Answer(s) ==
    /\ record' = record \cup {session[s].rid}
    /\ session' = [session EXCEPT ![s] = Idle]

CommitStart(s) ==
    LET c == session[s].call
        v == c.version
        first == Definition[v].start
        route == Onward(v, c.context, first)
        node == Landing(v, c.context, first)
        rid == session[s].rid
    IN
    /\ session[s].pc = "claimed" /\ c.kind = "start"
    /\ CanLeave(v, c.context, first)
    /\ \E i \in Instances :
          /\ inst[i] = NoInstance
          /\ \A j \in Instances : j < i => inst[j] # NoInstance
          /\ inst' = [inst EXCEPT ![i] =
                        [status |-> ArrivalStatus(v, node), version |-> v, node |-> node,
                         submitter |-> c.submitter, context |-> c.context]]
          /\ task' = Marked(task, NewTasks(v, i, node, 0), "pending")
          /\ esc' = Marked(esc, NewEscs(v, i, node), "pending")
          /\ history' = [history EXCEPT ![i] = Log("start", first, rid)
                            \o RouteLog(route, rid) \o ArrivalLog(v, node, rid)]
    /\ Answer(s)
    /\ UNCHANGED <<version, current, due, rounds, worker, faults>>

(* decide_task holding the lock, its checks on what does change passed. *)
Deciding(s, decision) ==
    /\ session[s].pc = "locked"
    /\ session[s].call.kind = "decide"
    /\ session[s].call.decision = decision
    /\ Running(session[s].call.task[1])
    /\ task[session[s].call.task] = "pending"

Others_Ignored(t) == PendingTasks(t[1], t[2]) \ PendingTasks(t[1], t[2])
Others(t)  == PendingTasks(t[1], t[2]) \ {t}
ModeAt(t)  == NodeOf(inst[t[1]].version, t[2]).mode
(* What one more approval, or one more rejection, of t settles. *)
Passes_OneShort(t) == ModeAt(t) = "any" \/ Cardinality(Others(t)) <= 1
Passes(t)  == ModeAt(t) = "any" \/ Others(t) = {}
Fails(t)   == ModeAt(t) = "all" \/ Others(t) = {}

(* One more answer, and the node waits for the others. *)
DecideAndWait(s) ==
    LET t == session[s].call.task
        Records(status, event) ==
            /\ task' = [task EXCEPT ![t] = status]
            /\ history' = [history EXCEPT ![t[1]] = @ \o Log(event, t[2], session[s].rid)]
    IN
    /\ \/ Deciding(s, "approve") /\ ~Passes(t) /\ Records("approved", "task_approve")
       \/ Deciding(s, "reject") /\ ~Fails(t) /\ Records("rejected", "task_reject")
    /\ Answer(s)
    /\ UNCHANGED <<version, current, inst, esc, due, rounds, worker, faults>>

(* _handle_rejection: the node cannot pass any more, the flow is rejected. *)
RejectNode(s) ==
    LET t == session[s].call.task
        i == t[1]
        n == t[2]
        rid == session[s].rid
    IN
    /\ Deciding(s, "reject")
    /\ Fails(t)
    /\ MayCancelEsc(<<i, n>>)
    /\ task' = [Marked(task, Others(t), "canceled") EXCEPT ![t] = "rejected"]
    /\ esc' = EscsCanceled(<<i, n>>)
    /\ inst' = [inst EXCEPT ![i] = Moved(i, n, "rejected")]
    /\ history' = [history EXCEPT ![i] =
                     @ \o Log("task_reject", n, rid) \o Log("reject", n, rid)]
    /\ Answer(s)
    /\ UNCHANGED <<version, current, due, rounds, worker, faults>>

(* _handle_approval: the node has passed, the instance moves on. *)
ApproveNode(s) ==
    LET t == session[s].call.task
        i == t[1]
        n == t[2]
        v == inst[i].version
        route == Onward(v, inst[i].context, n)
        node == Landing(v, inst[i].context, n)
        rid == session[s].rid
    IN
    /\ Deciding(s, "approve")
    /\ Passes(t)
    /\ CanLeave(v, inst[i].context, n)
    /\ MayCancelEsc(<<i, n>>)
    /\ task' = Marked([Marked(task, Others(t), "canceled") EXCEPT ![t] = "approved"],
                      NewTasks(v, i, node, 0), "pending")
    /\ esc' = Marked(EscsCanceled(<<i, n>>), NewEscs(v, i, node), "pending")
    /\ inst' = [inst EXCEPT ![i] = Moved(i, node, ArrivalStatus(v, node))]
    /\ history' = [history EXCEPT ![i] =
                     @ \o Log("task_approve", n, rid)
                       \o (IF Others(t) # {} THEN Log("tasks_canceled", n, rid) ELSE <<>>)
                       \o Log("node_approve", n, rid)
                       \o RouteLog(route, rid) \o ArrivalLog(v, node, rid)]
    /\ Answer(s)
    /\ UNCHANGED <<version, current, due, rounds, worker, faults>>

CommitWithdraw(s) ==
    LET i == session[s].call.inst
        n == inst[i].node
        rid == session[s].rid
    IN
    /\ session[s].pc = "locked" /\ session[s].call.kind = "withdraw"
    /\ Running(i)
    /\ MayCancelEsc(<<i, n>>)
    /\ task' = Marked(task, {t \in TaskKeys : t[1] = i /\ task[t] = "pending"}, "canceled")
    /\ esc' = EscsCanceled(<<i, n>>)
    /\ inst' = [inst EXCEPT ![i] = Moved(i, n, "withdrawn")]
    /\ history' = [history EXCEPT ![i] = @ \o Log("withdraw", n, rid)]
    /\ Answer(s)
    /\ UNCHANGED <<version, current, due, rounds, worker, faults>>

(* A check under the lock fails, or activating the next node raises: the    *)
(* transaction rolls back, the inserted idempotency row with it, and the    *)
(* same id may be used again.                                               *)
RefusedUnderLock(c) ==
    \/ ~Running(InstanceOf(c))
    \/ c.kind = "decide" /\ task[c.task] # "pending"

(* The version, context and node a call would leave. *)
Leaving(c) ==
    CASE c.kind = "start" -> {<<c.version, c.context, Definition[c.version].start>>}
      [] c.kind = "decide" /\ c.decision = "approve" /\ Passes(c.task) ->
            {<<inst[c.task[1]].version, inst[c.task[1]].context, c.task[2]>>}
      [] OTHER -> {}
ActivationRaises(c) == \E l \in Leaving(c) : ~CanLeave(l[1], l[2], l[3])

Refuse(s) ==
    LET c == session[s].call IN
    /\ \/ session[s].pc = "locked" /\ RefusedUnderLock(c)
       \/ session[s].pc = "locked" /\ ~RefusedUnderLock(c) /\ ActivationRaises(c)
       \/ session[s].pc = "claimed" /\ c.kind = "start" /\ ActivationRaises(c)
    /\ session' = [session EXCEPT ![s] = Idle]
    /\ UNCHANGED <<rowVars, worker, faults>>

(* The call dies before its commit: crash, lost connection, 500. *)
Abort(s) ==
    /\ session[s].pc # "idle"
    /\ faults < MaxFaults
    /\ faults' = faults + 1
    /\ session' = [session EXCEPT ![s] = Idle]
    /\ UNCHANGED <<rowVars, worker>>

-----------------------------------------------------------------------------
(* Escalation workers *)

(* The due_at of a pending escalation passes. *)
Elapse(e) ==
    /\ esc[e] = "pending"
    /\ e \notin Range(due)
    /\ due' = Append(due, e)
    /\ UNCHANGED <<version, current, inst, task, esc, rounds, history, record,
                   session, worker, faults>>

(* SELECT ... due_at <= now ORDER BY due_at LIMIT n FOR UPDATE SKIP LOCKED: *)
(* the first of the positions in "due" that can be claimed, up to the limit. *)
ClaimDue(w) ==
    LET claimable == {k \in DOMAIN due : esc[due[k]] = "pending" /\ EscFree(due[k])} IN
    /\ worker[w].pc = "idle"
    /\ \E n \in 1 .. BatchLimit : \E at \in [1 .. n -> claimable] :
          /\ \A j, k \in 1 .. n : j < k => at[j] < at[k]
          /\ \A p \in claimable :
                p \in Range(at) \/ (n = BatchLimit /\ \A k \in 1 .. n : at[k] < p)
          /\ worker' = [worker EXCEPT ![w] = [pc |-> "batch",
                                              batch |-> [k \in 1 .. n |-> due[at[k]]],
                                              claimed |-> TRUE]]
    /\ UNCHANGED <<rowVars, session, faults>>

LockForEscalation(w) ==
    /\ worker[w].pc = "batch"
    /\ InstanceFree(Head(worker[w].batch)[1])
    /\ worker' = [worker EXCEPT ![w] = [pc |-> "applying", batch |-> worker[w].batch,
                                        claimed |-> worker[w].claimed]]
    /\ UNCHANGED <<rowVars, session, faults>>

(* Whatever ended the transaction, its row locks are gone, and the loop     *)
(* goes on with the objects it had read.                                    *)
NextInBatch(w) ==
    LET rest == Tail(worker[w].batch) IN
    worker' = [worker EXCEPT ![w] =
                 IF rest = <<>> THEN Resting
                 ELSE [pc |-> "batch", batch |-> rest, claimed |-> FALSE]]

(* The row of the escalation in hand can be written. *)
OwnsRow(w, e) == \A u \in Workers \ {w} : ~Claims(u, e)

StillWaiting(e) ==
    /\ Running(e[1])
    /\ inst[e[1]].node = e[2]
    /\ PendingTasks(e[1], e[2]) # {}

Escalate(w) ==
    LET e == Head(worker[w].batch)
        i == e[1]
        n == e[2]
        r == rounds[e] + 1
    IN
    /\ worker[w].pc = "applying"
    /\ OwnsRow(w, e) /\ StillWaiting(e) /\ r <= MaxRounds
    /\ task' = Marked(Marked(task, PendingTasks(i, n), "canceled"),
                      NewTasks(inst[i].version, i, n, r), "pending")
    /\ rounds' = [rounds EXCEPT ![e] = r]
    /\ history' = [history EXCEPT ![i] = @ \o Log("escalate", n, 0)]
    /\ esc' = [esc EXCEPT ![e] = "done"]
    /\ NextInBatch(w)
    /\ UNCHANGED <<version, current, inst, due, record, session, faults>>

DropEscalation(w) ==
    LET e == Head(worker[w].batch) IN
    /\ worker[w].pc = "applying"
    /\ OwnsRow(w, e) /\ ~StillWaiting(e)
    /\ esc' = [esc EXCEPT ![e] = "canceled"]
    /\ NextInBatch(w)
    /\ UNCHANGED <<version, current, inst, task, due, rounds, history, record,
                   session, faults>>

FailEscalation_NotRetried(w) ==
    /\ worker[w].pc \in {"batch", "applying"}
    /\ faults < MaxFaults
    /\ faults' = faults + 1
    /\ due' = SelectSeq(due, LAMBDA e : e # Head(worker[w].batch))
    /\ NextInBatch(w)
    /\ UNCHANGED <<version, current, inst, task, esc, rounds, history, record, session>>

(* One escalation fails: rolled back, recorded as an attempt, still pending. *)
FailEscalation(w) ==
    /\ worker[w].pc \in {"batch", "applying"}
    /\ faults < MaxFaults
    /\ faults' = faults + 1
    /\ NextInBatch(w)
    /\ UNCHANGED <<rowVars, session>>

(* The process dies with its batch and is started again. *)
WorkerCrash(w) ==
    /\ worker[w].pc # "idle"
    /\ faults < MaxFaults
    /\ faults' = faults + 1
    /\ worker' = [worker EXCEPT ![w] = Resting]
    /\ UNCHANGED <<rowVars, session>>

-----------------------------------------------------------------------------
(* A session that holds the instance waits for the escalation row, and the  *)
(* worker that holds the escalation row waits for the instance: PostgreSQL  *)
(* aborts one of the two.                                                   *)

WaitsForInstance(w, i) == worker[w].pc = "batch" /\ Head(worker[w].batch)[1] = i

SessionWantsEsc(s, e) ==
    /\ SessionHolds(s, e[1])
    /\ esc[e] = "pending"
    /\ Running(e[1]) /\ inst[e[1]].node = e[2]
    /\ LET c == session[s].call IN
       \/ c.kind = "withdraw"
       \/ /\ c.kind = "decide" /\ task[c.task] = "pending"
          /\ IF c.decision = "approve" THEN Passes(c.task) ELSE Fails(c.task)

BreakSessionDeadlock(s, w) ==
    /\ worker[w].pc = "batch" /\ worker[w].claimed
    /\ SessionWantsEsc(s, Head(worker[w].batch))
    /\ \/ session' = [session EXCEPT ![s] = Idle] /\ UNCHANGED worker
       \/ NextInBatch(w) /\ UNCHANGED session
    /\ UNCHANGED <<rowVars, faults>>

(* The same between two workers, one of which holds no escalation row. *)
BreakWorkerDeadlock(w, u) ==
    /\ w # u
    /\ worker[w].pc = "applying"
    /\ WaitsForInstance(u, Head(worker[w].batch)[1])
    /\ Claims(u, Head(worker[w].batch))
    /\ NextInBatch(w) \/ NextInBatch(u)
    /\ UNCHANGED <<rowVars, session, faults>>

-----------------------------------------------------------------------------
TemplateStep == \E v \in Versions : AddVersion(v) \/ Publish(v) \/ Rollback(v)

Begin(s) ==
    \/ \E user \in Submitters, ctx \in Contexts : BeginStart(s, user, ctx)
    \/ \E i \in Instances, actor \in Submitters : BeginWithdraw(s, i, actor)
    \/ \E t \in {k \in TaskKeys : task[k] # "none"}, i \in Instances,
          expected \in Versions, actor \in Users, decision \in {"approve", "reject"} :
             BeginDecide(s, i, expected, t, actor, decision)

Finish(s) ==
    \/ CommitStart(s) \/ DecideAndWait(s) \/ RejectNode(s) \/ ApproveNode(s)
    \/ CommitWithdraw(s) \/ Refuse(s)

Apply(w) == Escalate(w) \/ DropEscalation(w)

Deadlocks ==
    \/ \E s \in Sessions, w \in Workers : BreakSessionDeadlock(s, w)
    \/ \E w, u \in Workers : BreakWorkerDeadlock(w, u)

Next ==
    \/ TemplateStep
    \/ \E s \in Sessions : Begin(s) \/ LockInstance(s) \/ Finish(s) \/ Abort(s)
    \/ \E e \in EscKeys : Elapse(e)
    \/ \E w \in Workers : \/ ClaimDue(w) \/ LockForEscalation(w) \/ Apply(w)
                          \/ FailEscalation(w) \/ WorkerCrash(w)
    \/ Deadlocks

(* A transaction that can end ends, the database breaks every deadlock and  *)
(* grants a row to a waiter that asks often enough, and the worker polls.   *)
Fairness ==
    /\ \A s \in Sessions : SF_vars(Finish(s))
    /\ \A w \in Workers : /\ WF_vars(ClaimDue(w))
                          /\ SF_vars(LockForEscalation(w))
                          /\ SF_vars(Apply(w))
    /\ WF_vars(Deadlocks)

Spec == Init /\ [][Next]_vars
FairSpec == Spec /\ Fairness

-----------------------------------------------------------------------------
(* Properties *)

(* Open work belongs to an open instance: a pending task or a pending       *)
(* escalation is at the current node of a running instance, and a running   *)
(* instance is at a node where somebody can still act.  decide_task,        *)
(* withdraw and _apply_escalation each keep three tables in step for this.  *)
OpenTasksAtNode ==
    \A t \in TaskKeys : task[t] = "pending" =>
        inst[t[1]].status = "running" /\ inst[t[1]].node = t[2]
OpenEscsAtNode ==
    \A e \in EscKeys : esc[e] = "pending" =>
        inst[e[1]].status = "running" /\ inst[e[1]].node = e[2]
RunningHasWork ==
    \A i \in Instances : inst[i].status = "running" =>
        \E t \in TaskKeys : t[1] = i /\ task[t] = "pending"
LiveWorkMatchesInstance == OpenTasksAtNode /\ OpenEscsAtNode /\ RunningHasWork

(* A recorded request id has taken effect exactly once, in one instance,    *)
(* and an id whose transaction did not commit has left nothing behind       *)
(* (acquire_idempotency, store_idempotency_result).                         *)
Effects(r) ==
    {p \in UNION {{i} \X DOMAIN history[i] : i \in Instances} :
        LET event == history[p[1]][p[2]] IN
        /\ event.by = r
        /\ event.type \in {"start", "task_approve", "task_reject", "withdraw"}}
RequestAppliedOnce ==
    \A r \in RequestIds : Cardinality(Effects(r)) = (IF r \in record THEN 1 ELSE 0)

(* The history of an instance ends with the event that closed it, has no    *)
(* other closing event, and a running instance has none.                    *)
HistoryClosesOnce ==
    \A i \in Instances :
        LET closing == {k \in DOMAIN history[i] : history[i][k].type \in ClosingEvent}
        IN  closing = (IF inst[i].status \in ClosedStatus THEN {Len(history[i])} ELSE {})

(* A node is escalated at most once ("status 保证只处理一次", models.py:175). *)
EscalatedOnce == \A e \in EscKeys : rounds[e] <= 1

(* An instance leaves an approval node only when the node has passed: in    *)
(* mode "all" everybody asked in the last round has approved and nobody has *)
(* rejected, in mode "any" somebody has approved and nobody is still asked. *)
PassedAt(i, n, mode) ==
    LET at(status) == {t \in TaskKeys : t[1] = i /\ t[2] = n /\ task'[t] = status}
    IN  /\ at("approved") # {} /\ at("pending") = {}
        /\ mode = "all" => /\ at("rejected") = {}
                           /\ \A t \in at("canceled") : t[3] < rounds[<<i, n>>]
LeavesOnlyWhenPassed ==
    [][\A i \in Instances :
          inst[i] # NoInstance /\ inst'[i].node # inst[i].node =>
             PassedAt(i, inst[i].node, NodeOf(inst[i].version, inst[i].node).mode)]_vars

(* What has been settled stays settled: a handled task, a closed instance   *)
(* with its history, the version an instance is bound to, whatever is       *)
(* published or rolled back meanwhile, and an escalation is never reopened, *)
(* though a replica that holds it in memory may void one that was applied.  *)
SettledStaysSettled ==
    [][/\ \A t \in TaskKeys : task[t] \notin {"none", "pending"} => task'[t] = task[t]
       /\ \A e \in EscKeys : /\ esc[e] = "canceled" => esc'[e] = "canceled"
                             /\ esc[e] = "done" => esc'[e] \in {"done", "canceled"}
       /\ \A i \in Instances : inst[i].status \in ClosedStatus =>
             inst'[i] = inst[i] /\ history'[i] = history[i]
       /\ \A i \in Instances : inst[i] # NoInstance =>
             inst'[i].version = inst[i].version]_vars

(* A pending escalation whose time has come is settled: by a worker, after  *)
(* however many failures, crashes and deadlocks, or by the decision that    *)
(* overtakes it ("保留 pending，下轮重试", engine.py:547).                    *)
EscalationSettles ==
    \A e \in EscKeys :
        (esc[e] = "pending" /\ e \in Range(due)) ~> (esc[e] # "pending")

(* The ConflictError that ends _activate is never raised for a definition   *)
(* that was accepted ("发布前校验保证不可达", engine.py:319).                  *)
ActivationNeverRaises ==
    \A s \in Sessions :
        \/ session[s].pc = "idle"
        \/ \A l \in Leaving(session[s].call) : Lands(l[1], l[2], l[3])
        \/ session[s].pc = "claimed" /\ session[s].call.kind # "start"
        \/ session[s].pc = "locked" /\ RefusedUnderLock(session[s].call)
=============================================================================
