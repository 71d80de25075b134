------------------------- MODULE ApprovalFlowProofs -------------------------
(***************************************************************************)
(* Theorems of ApprovalFlow: for any definitions, instances, people,       *)
(* sessions and any number of escalation workers, the rows are well typed, *)
(* open work belongs to the current node of a running instance, what is    *)
(* settled stays settled, an instance leaves a node only when it has       *)
(* passed, and a request id takes effect exactly once.                     *)
(*                                                                         *)
(* The argument has four parts.  An accepted definition has no cycle, so   *)
(* the walk of _activate ends and never comes back.  IInv keeps the tables *)
(* in step; BInv says what an instance has left behind, which is why no    *)
(* row is ever written twice; HInv says what each request has left in the  *)
(* history.                                                                *)
(***************************************************************************)
EXTENDS ApprovalFlow, FiniteSetTheorems, SequenceTheorems, WellFoundedInduction, TLAPS

(* The strengthening: what the rows and the processes may refer to. *)
TemplatesAccepted == \A v \in Versions : version[v] # "none" => v \in AcceptedVersions

InstancesBound ==
    \A i \in Instances : inst[i].status # "none" =>
        /\ inst[i].version \in AcceptedVersions
        /\ inst[i].node \in NodesOf(inst[i].version)
        /\ Running(i) => TypeOf(inst[i].version, inst[i].node) = "approval"

CallsBound ==
    \A s \in Sessions : session[s].pc # "idle" =>
        /\ session[s].pc = "locked" => session[s].call.kind # "start"
        /\ session[s].call.kind = "start" => session[s].call.version \in AcceptedVersions

EscsBound ==
    \A e \in EscKeys : esc[e] # "none" =>
        inst[e[1]].status # "none" /\ HasTimeout(inst[e[1]].version, e[2])

WorkersBound ==
    \A w \in Workers : worker[w].pc # "idle" =>
        /\ worker[w].batch # <<>>
        /\ \A k \in 1 .. Len(worker[w].batch) : esc[worker[w].batch[k]] # "none"

IInv == /\ TypeOK
        /\ TemplatesAccepted /\ InstancesBound /\ CallsBound /\ EscsBound /\ WorkersBound
        /\ LiveWorkMatchesInstance

-----------------------------------------------------------------------------
(* Accepted definitions.  validate_definition refuses every cycle, so the   *)
(* walk of _activate ends, and what it passes is never reached again.       *)

(* Every nonempty set of nodes has one whose edges all leave the set. *)
LEMMA LastNode ==
    ASSUME NEW v \in AcceptedVersions, NEW S \in SUBSET NodesOf(v), S # {}
    PROVE  \E n \in S : OutTargets(v, n) \cap S = {}
  BY DEF AcceptedVersions, ValidDefinition

LEMMA EdgesStay ==
    ASSUME NEW v \in AcceptedVersions, NEW n \in NodesOf(v)
    PROVE  OutTargets(v, n) \subseteq NodesOf(v)
  BY DEF AcceptedVersions, ValidDefinition

LEMMA LeastNumber ==
    ASSUME NEW S \in SUBSET Nat, S # {}
    PROVE  \E b \in S : \A c \in S : b <= c
  <1> DEFINE R == {pair \in Nat \X Nat : pair[1] < pair[2]}
  <1>1. IsWellFoundedOn(R, Nat)
    <2>1. R = OpToRel(<, Nat)
      BY DEF OpToRel
    <2> QED
      BY <2>1, NatLessThanWellFounded
  <1> HIDE DEF R
  <1>2. \E b \in S : \A c \in S : ~ (<<c, b>> \in R)
    BY <1>1, WFMin
  <1>3. \A b, c \in Nat : <<c, b>> \in R <=> c < b
    BY DEF R
  <1>4. PICK b \in S : \A c \in S : ~ (<<c, b>> \in R)
    BY <1>2
  <1>5. \A c \in S : c \in Nat /\ b \in Nat /\ ~ (c < b)
    BY <1>3, <1>4
  <1>6. \A c \in S : b <= c
    BY <1>5
  <1> QED
    BY <1>6

(* A condition leads along one of its edges. *)
LEMMA ChosenIsEdge ==
    ASSUME NEW v \in AcceptedVersions, NEW n \in NodesOf(v), NEW ctx,
           TypeOf(v, n) = "condition"
    PROVE  Chosen(v, n, ctx) \in OutTargets(v, n)
  <1> DEFINE branches == NodeOf(v, n).branches
             hits == {b \in DOMAIN branches : ctx \in branches[b].when}
             least == CHOOSE b \in hits : \A c \in hits : b <= c
  <1>1. OutTargets(v, n) =
            {NodeOf(v, n).default} \cup {branches[b].next : b \in DOMAIN branches}
    BY DEF OutTargets
  <1>2. Chosen(v, n, ctx) =
            IF hits = {} THEN NodeOf(v, n).default ELSE branches[least].next
    BY DEF Chosen
  <1>3. hits # {} => least \in DOMAIN branches
    <2>1. hits \in SUBSET Nat
      BY BranchesAssumption DEF AcceptedVersions
    <2> SUFFICES ASSUME hits # {} PROVE least \in DOMAIN branches
      OBVIOUS
    <2>2. \E b \in hits : \A c \in hits : b <= c
      <3> HIDE DEF hits
      <3> QED
        BY <2>1, LeastNumber
    <2>3. least \in hits
      BY <2>2
    <2> QED
      BY <2>3
  <1> QED
    BY <1>1, <1>2, <1>3

-----------------------------------------------------------------------------
(* The walk of _activate exists: built from the nodes that end it.          *)

Walk(v, ctx, f, n) ==
    IF TypeOf(v, n) = "condition" THEN <<n>> \o f[Chosen(v, n, ctx)] ELSE <<n>>

(* f is the walk on the nodes of D, which it does not leave. *)
Walks(v, ctx, f, D) ==
    /\ D \subseteq NodesOf(v)
    /\ \A n \in D : TypeOf(v, n) = "condition" => Chosen(v, n, ctx) \in D
    /\ \A n \in D : f[n] = Walk(v, ctx, f, n)

LEMMA WalksAgree ==
    ASSUME NEW v \in AcceptedVersions, NEW ctx, NEW f, NEW D, Walks(v, ctx, f, D),
           NEW g, NEW E, Walks(v, ctx, g, E)
    PROVE  \A n \in D \cap E : f[n] = g[n]
  <1> DEFINE B == {n \in D \cap E : f[n] # g[n]}
  <1> SUFFICES ASSUME B # {} PROVE FALSE
    OBVIOUS
  <1>1. B \in SUBSET NodesOf(v)
    BY DEF Walks
  <1>2. PICK n \in B : OutTargets(v, n) \cap B = {}
    <2> HIDE DEF B
    <2> QED
      BY <1>1, LastNode
  <1>3. n \in D /\ n \in E /\ f[n] # g[n] /\ n \in NodesOf(v)
    BY <1>1, <1>2
  <1>4. f[n] = Walk(v, ctx, f, n) /\ g[n] = Walk(v, ctx, g, n)
    BY <1>3 DEF Walks
  <1>5. CASE TypeOf(v, n) = "condition"
    <2> DEFINE m == Chosen(v, n, ctx)
    <2>1. m \in D /\ m \in E
      BY <1>3, <1>5 DEF Walks
    <2>2. m \in OutTargets(v, n)
      BY <1>3, <1>5, ChosenIsEdge
    <2>3. m \notin B
      BY <1>2, <2>2
    <2>4. f[m] = g[m]
      BY <2>1, <2>3
    <2> QED
      BY <1>3, <1>4, <1>5, <2>4 DEF Walk
  <1>6. CASE TypeOf(v, n) # "condition"
    BY <1>3, <1>4, <1>6 DEF Walk
  <1> QED
    BY <1>5, <1>6

LEMMA WalkFromEvery ==
    ASSUME NEW v \in AcceptedVersions, NEW ctx, NEW n \in NodesOf(v)
    PROVE  \E D, f : n \in D /\ Walks(v, ctx, f, D)
  <1> DEFINE Has(m) == \E D, f : m \in D /\ Walks(v, ctx, f, D)
             B == {m \in NodesOf(v) : ~Has(m)}
  <1> SUFFICES ASSUME B # {} PROVE FALSE
    OBVIOUS
  <1>1. PICK m \in B : OutTargets(v, m) \cap B = {}
    <2>1. B \in SUBSET NodesOf(v)
      OBVIOUS
    <2> HIDE DEF B
    <2> QED
      BY <2>1, LastNode
  <1>2. m \in NodesOf(v) /\ ~Has(m)
    BY <1>1
  <1>3. CASE TypeOf(v, m) # "condition"
    <2> DEFINE D == {m}
               f == [x \in D |-> <<m>>]
    <2>1. Walks(v, ctx, f, D)
      BY <1>2, <1>3 DEF Walks, Walk
    <2> QED
      BY <1>2, <2>1
  <1>4. CASE TypeOf(v, m) = "condition"
    <2> DEFINE j == Chosen(v, m, ctx)
    <2>1. j \in OutTargets(v, m) /\ j \in NodesOf(v)
      BY <1>2, <1>4, ChosenIsEdge, EdgesStay
    <2>2. Has(j)
      BY <1>1, <2>1
    <2>3. PICK D, f : j \in D /\ Walks(v, ctx, f, D)
      BY <2>2
    <2>4. m \notin D
      BY <1>2, <2>3
    <2> DEFINE E == D \cup {m}
               g == [x \in E |-> IF x = m THEN <<m>> \o f[j] ELSE f[x]]
    <2>5. g[m] = <<m>> \o f[j] /\ \A x \in D : g[x] = f[x]
      BY <2>4
    <2>6. g[m] = Walk(v, ctx, g, m)
      BY <1>4, <2>3, <2>5 DEF Walk
    <2>7. ASSUME NEW x \in D PROVE g[x] = Walk(v, ctx, g, x)
      <3> HIDE DEF g, E
      <3>1. g[x] = f[x] /\ f[x] = Walk(v, ctx, f, x)
        BY <2>3, <2>5 DEF Walks
      <3>2. TypeOf(v, x) = "condition" => Chosen(v, x, ctx) \in D
        BY <2>3 DEF Walks
      <3> QED
        BY <2>5, <3>1, <3>2 DEF Walk
    <2> HIDE DEF g
    <2>8. Walks(v, ctx, g, E)
      BY <1>2, <1>4, <2>3, <2>6, <2>7 DEF Walks
    <2> QED
      BY <1>2, <2>8
  <1> QED
    BY <1>3, <1>4

(* So Route is that walk: the definition by recursion has a value. *)
LEMMA RouteIsWalk ==
    ASSUME NEW v \in AcceptedVersions, NEW ctx
    PROVE  \A n \in NodesOf(v) : Route(v, ctx)[n] = Walk(v, ctx, Route(v, ctx), n)
  <1> DEFINE Value(n, s) == \E D, f : n \in D /\ Walks(v, ctx, f, D) /\ s = f[n]
             F == [n \in NodesOf(v) |-> CHOOSE s : Value(n, s)]
             N == NodesOf(v)
  <1>1. ASSUME NEW n \in N, NEW D, NEW f, n \in D, Walks(v, ctx, f, D)
        PROVE  F[n] = f[n]
    <2>1. Value(n, f[n])
      BY <1>1
    <2>2. Value(n, F[n])
      BY <2>1
    <2>3. PICK E, g : n \in E /\ Walks(v, ctx, g, E) /\ F[n] = g[n]
      BY <2>2
    <2> QED
      BY <1>1, <2>3, WalksAgree
  <1> HIDE DEF F
  <1>2. ASSUME NEW n \in N
        PROVE  F[n] = Walk(v, ctx, F, n)
    <2>1. PICK D, f : n \in D /\ Walks(v, ctx, f, D)
      BY WalkFromEvery
    <2>2. F[n] = f[n] /\ f[n] = Walk(v, ctx, f, n)
      BY <1>1, <2>1 DEF Walks
    <2>3. CASE TypeOf(v, n) = "condition"
      <3> DEFINE m == Chosen(v, n, ctx)
      <3>1. m \in D /\ m \in N
        BY <2>1, <2>3 DEF Walks
      <3>2. F[m] = f[m]
        BY <1>1, <2>1, <3>1
      <3> QED
        BY <2>2, <2>3, <3>2 DEF Walk
    <2>4. CASE TypeOf(v, n) # "condition"
      BY <2>2, <2>4 DEF Walk
    <2> QED
      BY <2>3, <2>4
  <1> DEFINE Step(h) == [n \in N |-> IF TypeOf(v, n) = "condition"
                                     THEN <<n>> \o h[Chosen(v, n, ctx)]
                                     ELSE <<n>>]
  <1>3. F = Step(F)
    <2>1. F = [n \in N |-> F[n]]
      BY DEF F
    <2>2. \A n \in N : F[n] = Step(F)[n]
      BY <1>2 DEF Walk
    <2> QED
      BY <2>1, <2>2
  <1>4. Route(v, ctx) = CHOOSE h : h = Step(h)
    BY DEF Route
  <1>5. Route(v, ctx) = Step(Route(v, ctx))
    <2> HIDE DEF Step
    <2> QED
      BY <1>3, <1>4
  <1> QED
    BY <1>5 DEF Walk

-----------------------------------------------------------------------------
(* What can still be reached from a node *)

Shut(v, S) == \A m \in S : OutTargets(v, m) \subseteq S
Reach(v, n) ==
    {m \in NodesOf(v) : \A S \in SUBSET NodesOf(v) : n \in S /\ Shut(v, S) => m \in S}

LEMMA ReachFacts ==
    ASSUME NEW v \in AcceptedVersions, NEW n \in NodesOf(v)
    PROVE  /\ n \in Reach(v, n)
           /\ Reach(v, n) \subseteq NodesOf(v)
           /\ Shut(v, Reach(v, n))
           /\ \A S \in SUBSET NodesOf(v) : n \in S /\ Shut(v, S) => Reach(v, n) \subseteq S
           /\ \A m \in Reach(v, n) : Reach(v, m) \subseteq Reach(v, n)
  <1>1. n \in Reach(v, n) /\ Reach(v, n) \subseteq NodesOf(v)
    BY DEF Reach
  <1>2. \A S \in SUBSET NodesOf(v) : n \in S /\ Shut(v, S) => Reach(v, n) \subseteq S
    BY DEF Reach
  <1>3. Shut(v, Reach(v, n))
    <2> SUFFICES ASSUME NEW m \in Reach(v, n), NEW k \in OutTargets(v, m)
                 PROVE  k \in Reach(v, n)
      BY DEF Shut
    <2>1. m \in NodesOf(v) /\ k \in NodesOf(v)
      BY EdgesStay DEF Reach
    <2>2. \A S \in SUBSET NodesOf(v) : n \in S /\ Shut(v, S) => k \in S
      BY DEF Reach, Shut
    <2> QED
      BY <2>1, <2>2 DEF Reach
  <1>4. \A m \in Reach(v, n) : Reach(v, m) \subseteq Reach(v, n)
    BY <1>3 DEF Reach
  <1> QED
    BY <1>1, <1>2, <1>3, <1>4

(* A node cannot be reached from its successors. *)
LEMMA NoWayBack ==
    ASSUME NEW v \in AcceptedVersions, NEW n \in NodesOf(v), NEW m \in OutTargets(v, n)
    PROVE  n \notin Reach(v, m)
  <1> SUFFICES ASSUME n \in Reach(v, m) PROVE FALSE
    OBVIOUS
  <1>1. m \in NodesOf(v)
    BY EdgesStay
  <1> DEFINE S == {k \in Reach(v, m) : n \in Reach(v, k)}
  <1>2. S \in SUBSET NodesOf(v) /\ n \in S /\ m \in S
    BY <1>1, ReachFacts
  <1>3. PICK k \in S : OutTargets(v, k) \cap S = {}
    <2> HIDE DEF S
    <2> QED
      BY <1>2, LastNode
  <1>4. k \in NodesOf(v) /\ k \in Reach(v, m) /\ n \in Reach(v, k)
    BY <1>2, <1>3
  <1>5. k # n
    BY <1>2, <1>3
  <1> DEFINE T == {k} \cup UNION {Reach(v, j) : j \in OutTargets(v, k)}
  <1>6. OutTargets(v, k) \subseteq NodesOf(v)
    BY <1>4, EdgesStay
  <1>7. T \in SUBSET NodesOf(v) /\ k \in T
    BY <1>4, <1>6, ReachFacts
  <1>8. Shut(v, T)
    <2> SUFFICES ASSUME NEW x \in T PROVE OutTargets(v, x) \subseteq T
      BY DEF Shut
    <2>1. CASE x = k
      <3>1. \A j \in OutTargets(v, k) : j \in Reach(v, j)
        BY <1>6, ReachFacts
      <3> QED
        BY <2>1, <3>1
    <2>2. CASE x # k
      <3>1. PICK j \in OutTargets(v, k) : x \in Reach(v, j)
        BY <2>2
      <3>2. OutTargets(v, x) \subseteq Reach(v, j)
        BY <1>6, <3>1, ReachFacts DEF Shut
      <3> QED
        BY <3>2
    <2> QED
      BY <2>1, <2>2
  <1>9. n \in T
    <2> HIDE DEF T
    <2> QED
      BY <1>4, <1>7, <1>8, ReachFacts
  <1>10. PICK j \in OutTargets(v, k) : n \in Reach(v, j)
    BY <1>5, <1>9
  <1>11. j \in Reach(v, m)
    BY <1>1, <1>4, ReachFacts DEF Shut
  <1>12. j \in S
    BY <1>10, <1>11
  <1> QED
    BY <1>3, <1>12

(* The walk of _activate from any node of an accepted definition is a       *)
(* nonempty sequence of its nodes, and ends at one that was reachable.      *)
LEMMA RouteStays ==
    ASSUME NEW v \in AcceptedVersions, NEW ctx, NEW n \in NodesOf(v)
    PROVE  /\ Route(v, ctx)[n] \in Seq(NodesOf(v)) \ {<<>>}
           /\ Route(v, ctx)[n][Len(Route(v, ctx)[n])] \in Reach(v, n)
           /\ TypeOf(v, Route(v, ctx)[n][Len(Route(v, ctx)[n])]) # "condition"
  <1> DEFINE R == Route(v, ctx)
             Good(m) == /\ R[m] \in Seq(NodesOf(v)) \ {<<>>}
                        /\ R[m][Len(R[m])] \in Reach(v, m)
                        /\ TypeOf(v, R[m][Len(R[m])]) # "condition"
             B == {m \in NodesOf(v) : ~Good(m)}
  <1> SUFFICES ASSUME B # {} PROVE FALSE
    OBVIOUS
  <1>1. PICK m \in B : OutTargets(v, m) \cap B = {}
    <2>1. B \in SUBSET NodesOf(v)
      OBVIOUS
    <2> HIDE DEF B
    <2> QED
      BY <2>1, LastNode
  <1>2. m \in NodesOf(v) /\ ~Good(m)
    BY <1>1
  <1>3. R[m] = Walk(v, ctx, R, m)
    BY <1>2, RouteIsWalk
  <1>4. CASE TypeOf(v, m) # "condition"
    <2>1. R[m] = <<m>>
      BY <1>3, <1>4 DEF Walk
    <2>2. m \in Reach(v, m)
      BY <1>2, ReachFacts
    <2> QED
      BY <1>2, <1>4, <2>1, <2>2
  <1>5. CASE TypeOf(v, m) = "condition"
    <2> DEFINE j == Chosen(v, m, ctx)
    <2>1. j \in OutTargets(v, m) /\ j \in NodesOf(v)
      BY <1>2, <1>5, ChosenIsEdge, EdgesStay
    <2>2. Good(j)
      BY <1>1, <2>1
    <2>3. R[m] = <<m>> \o R[j]
      BY <1>3, <1>5 DEF Walk
    <2>4. Reach(v, j) \subseteq Reach(v, m)
      BY <1>2, <2>1, ReachFacts DEF Shut
    <2> DEFINE q == R[j]
    <2>5. q \in Seq(NodesOf(v)) /\ q # <<>> /\ q[Len(q)] \in Reach(v, m)
          /\ TypeOf(v, q[Len(q)]) # "condition"
      BY <2>2, <2>4
    <2> HIDE DEF q
    <2>6. /\ <<m>> \o q \in Seq(NodesOf(v)) \ {<<>>}
          /\ (<<m>> \o q)[Len(<<m>> \o q)] = q[Len(q)]
      <3>1. Len(q) \in Nat \ {0}
        BY <2>5, EmptySeq, LenProperties
      <3>2. <<m>> \in Seq(NodesOf(v)) /\ Len(<<m>>) = 1
        BY <1>2
      <3>3. /\ <<m>> \o q \in Seq(NodesOf(v)) /\ Len(<<m>> \o q) = 1 + Len(q)
            /\ \A k \in 1 .. 1 + Len(q) :
                  (<<m>> \o q)[k] = IF k <= 1 THEN <<m>>[k] ELSE q[k - 1]
        BY <2>5, <3>2, ConcatProperties
      <3>4. (<<m>> \o q)[1 + Len(q)] = q[Len(q)]
        BY <3>1, <3>3
      <3>5. <<m>> \o q # <<>>
        BY <3>1, <3>3
      <3> QED
        BY <3>3, <3>4, <3>5
    <2>7. R[m] = <<m>> \o q
      BY <2>3 DEF q
    <2> HIDE DEF R
    <2> QED
      BY <1>2, <2>5, <2>6, <2>7
  <1> QED
    BY <1>4, <1>5

(* Leaving a node of an accepted definition goes along nodes of it, to one  *)
(* from which it cannot be reached again.                                   *)
LEMMA RouteLands ==
    ASSUME NEW v \in AcceptedVersions, NEW ctx \in Contexts, NEW n \in NodesOf(v),
           CanLeave(v, ctx, n)
    PROVE  /\ v \in Versions
           /\ Onward(v, ctx, n) \in Seq(NodesOf(v)) /\ Onward(v, ctx, n) # <<>>
           /\ Landing(v, ctx, n) \in NodesOf(v)
           /\ TypeOf(v, Landing(v, ctx, n)) \in {"approval", "end"}
           /\ Landing(v, ctx, n) # n
           /\ n \notin Reach(v, Landing(v, ctx, n))
           /\ Landing(v, ctx, n) \in Reach(v, n)
  <1> DEFINE m == NodeOf(v, n).next
  <1>1. v \in Versions /\ ValidDefinition(v)
    BY DEF AcceptedVersions
  <1>2. m \in OutTargets(v, n)
    BY DEF CanLeave, Lands, OutTargets
  <1>3. m \in NodesOf(v)
    BY <1>2, EdgesStay
  <1> HIDE DEF m
  <1>4. /\ Onward(v, ctx, n) \in Seq(NodesOf(v)) \ {<<>>}
        /\ Landing(v, ctx, n) \in Reach(v, m)
    BY <1>3, RouteStays DEF Onward, Landing, m
  <1>5. Landing(v, ctx, n) \in NodesOf(v)
    BY <1>3, <1>4, ReachFacts
  <1>6. n \notin Reach(v, m)
    BY <1>2, NoWayBack
  <1>7. n \notin Reach(v, Landing(v, ctx, n))
    BY <1>3, <1>4, <1>6, ReachFacts
  <1>8. Landing(v, ctx, n) \in Reach(v, n)
    BY <1>2, <1>4, ReachFacts DEF Shut
  <1> QED
    BY <1>1, <1>4, <1>5, <1>6, <1>7, <1>8 DEF CanLeave, Lands

(* _activate ends: from every start and approval node of a definition that  *)
(* validate_definition accepted, whatever the context, its walk through the *)
(* conditions stops at a node that is none, from which the node it left     *)
(* cannot be reached again.                                                 *)
THEOREM ActivationEnds ==
    ASSUME NEW v \in AcceptedVersions, NEW ctx, NEW n \in NodesOf(v),
           TypeOf(v, n) \in {"start", "approval"}
    PROVE  /\ Onward(v, ctx, n) \in Seq(NodesOf(v)) \ {<<>>}
           /\ Landing(v, ctx, n) \in NodesOf(v)
           /\ TypeOf(v, Landing(v, ctx, n)) # "condition"
           /\ n \notin Reach(v, Landing(v, ctx, n))
  <1> DEFINE m == NodeOf(v, n).next
  <1>1. m \in OutTargets(v, n)
    BY DEF OutTargets
  <1>2. m \in NodesOf(v)
    BY <1>1, EdgesStay
  <1> HIDE DEF m
  <1>3. /\ Onward(v, ctx, n) \in Seq(NodesOf(v)) \ {<<>>}
        /\ Landing(v, ctx, n) \in Reach(v, m)
        /\ TypeOf(v, Landing(v, ctx, n)) # "condition"
    BY <1>2, RouteStays DEF Onward, Landing, m
  <1>4. n \notin Reach(v, m)
    BY <1>1, NoWayBack
  <1> QED
    BY <1>2, <1>3, <1>4, ReachFacts

-----------------------------------------------------------------------------
(* Lemmas about the operators the actions are built from *)

LEMMA CrowdNotEmpty ==
    ASSUME NEW v \in AcceptedVersions, NEW n \in NodesOf(v), NEW r \in 0 .. MaxRounds,
           TypeOf(v, n) = "approval", r = 0 \/ HasTimeout(v, n)
    PROVE  Crowd(v, n, r) \in Nat \ {0} /\ 1 .. Crowd(v, n, r) \subseteq Slots
  <1>1. v \in Versions /\ ValidDefinition(v)
    BY DEF AcceptedVersions
  <1>2. /\ NodeOf(v, n).assignees \in Seq(Users) /\ NodeOf(v, n).targets \in Seq(Users)
        /\ Crowd(v, n, r) \in Nat /\ 1 .. Crowd(v, n, r) \subseteq Slots
    BY <1>1, SlotsAssumption
  <1>3. NodeOf(v, n).assignees # <<>>
    BY <1>1 DEF ValidDefinition
  <1>4. r # 0 => NodeOf(v, n).targets # <<>>
    BY DEF HasTimeout
  <1>5. Crowd(v, n, r) = IF r = 0 THEN Len(NodeOf(v, n).assignees)
                                  ELSE Len(NodeOf(v, n).targets)
    BY DEF Crowd
  <1> QED
    BY <1>2, <1>3, <1>4, <1>5, EmptySeq

LEMMA NewTasksAreTasks ==
    ASSUME NEW v \in Versions, NEW i \in Instances, NEW n \in NodesOf(v),
           NEW r \in 0 .. MaxRounds
    PROVE  /\ NewTasks(v, i, n, r) \subseteq TaskKeys
           /\ \A t \in NewTasks(v, i, n, r) : t[1] = i /\ t[2] = n
           /\ Crowd(v, n, r) \in Nat \ {0} => <<i, n, r, 1>> \in NewTasks(v, i, n, r)
  <1>1. Crowd(v, n, r) \in Nat /\ 1 .. Crowd(v, n, r) \subseteq Slots /\ n \in Nodes
    BY SlotsAssumption
  <1> QED
    BY <1>1 DEF NewTasks, TaskKeys

LEMMA RouteLogTyped ==
    ASSUME NEW route \in Seq(Nodes), route # <<>>, NEW rid \in RequestIds
    PROVE  RouteLog(route, rid) \in Seq(Event)
  <1>1. Len(route) - 1 \in Nat
    BY EmptySeq
  <1>2. \A k \in 1 .. Len(route) - 1 :
            [type |-> "branch", node |-> route[k], by |-> rid] \in Event
    BY DEF Event, EventType
  <1> QED
    BY <1>1, <1>2 DEF RouteLog

LEMMA LogTyped ==
    ASSUME NEW type \in EventType, NEW n \in Nodes, NEW rid \in RequestIds \cup {0}
    PROVE  Log(type, n, rid) \in Seq(Event)
  BY DEF Log, Event

LEMMA LogsAssociate ==
    \A a, b, c \in Seq(Event) : (a \o b) \o c = a \o (b \o c)
  BY ConcatAssociative

LEMMA ArrivalTyped ==
    ASSUME NEW v, NEW n \in Nodes, NEW rid \in RequestIds
    PROVE  /\ ArrivalLog(v, n, rid) \in Seq(Event)
           /\ ArrivalStatus(v, n) \in {"running", "completed"}
           /\ ArrivalStatus(v, n) = "running" <=> TypeOf(v, n) # "end"
  BY LogTyped DEF ArrivalLog, ArrivalStatus, EventType, ClosingEvent

(* What the transaction of a request writes to the history: its effect      *)
(* first, in the end what closes the instance, and all of it in its name.   *)
EffectType == {"start", "task_approve", "task_reject", "withdraw"}
Quiet(log, rid) ==
    /\ log \in Seq(Event)
    /\ \A k \in 1 .. Len(log) :
          log[k].by = rid /\ log[k].type \notin EffectType /\ log[k].type \notin ClosingEvent
Writes(log, rid, closes) ==
    /\ log \in Seq(Event) /\ log # <<>>
    /\ \A k \in 1 .. Len(log) :
          /\ log[k].by = rid
          /\ log[k].type \in EffectType <=> k = 1
          /\ log[k].type \in ClosingEvent <=> closes /\ k = Len(log)

LEMMA LogIsOne ==
    ASSUME NEW type \in EventType, NEW n \in Nodes, NEW rid \in RequestIds \cup {0}
    PROVE  /\ Log(type, n, rid) \in Seq(Event) /\ Log(type, n, rid) # <<>>
           /\ Len(Log(type, n, rid)) = 1
           /\ Log(type, n, rid)[1].type = type /\ Log(type, n, rid)[1].by = rid
  BY LogTyped DEF Log

LEMMA WriteBegins ==
    ASSUME NEW type \in {"start", "task_approve", "task_reject", "withdraw"},
           NEW n \in Nodes, NEW rid \in RequestIds
    PROVE  Writes(Log(type, n, rid), rid, type = "withdraw")
  <1>1. type \in EventType /\ type \in EffectType
    BY DEF EventType, EffectType, ClosingEvent
  <1>2. type \in ClosingEvent <=> type = "withdraw"
    BY DEF ClosingEvent
  <1> DEFINE log == Log(type, n, rid)
             closes == type = "withdraw"
  <1>3. log \in Seq(Event) /\ log # <<>> /\ Len(log) = 1 /\ log[1].type = type /\ log[1].by = rid
    BY <1>1, LogIsOne
  <1>4. log[1].type \in ClosingEvent <=> closes
    BY <1>2, <1>3
  <1> HIDE DEF log, closes
  <1>5. Writes(log, rid, closes)
    BY <1>1, <1>3, <1>4 DEF Writes
  <1> QED
    BY <1>5 DEF log, closes

LEMMA QuietLog ==
    ASSUME NEW type \in {"tasks_canceled", "node_approve", "branch", "escalate"},
           NEW n \in Nodes, NEW rid \in RequestIds \cup {0}
    PROVE  Quiet(Log(type, n, rid), rid)
  <1>1. type \in EventType /\ type \notin EffectType /\ type \notin ClosingEvent
    BY DEF EventType, EffectType, ClosingEvent
  <1> QED
    BY <1>1, LogIsOne DEF Quiet

LEMMA QuietRoute ==
    ASSUME NEW route \in Seq(Nodes), route # <<>>, NEW rid \in RequestIds
    PROVE  Quiet(RouteLog(route, rid), rid)
  <1> DEFINE log == RouteLog(route, rid)
  <1>1. log \in Seq(Event) /\ Len(route) - 1 \in Nat
    BY RouteLogTyped, EmptySeq
  <1>2. Len(log) = Len(route) - 1
    BY <1>1 DEF RouteLog
  <1>3. \A k \in 1 .. Len(log) : log[k].by = rid /\ log[k].type = "branch"
    BY <1>1, <1>2 DEF RouteLog
  <1> QED
    BY <1>1, <1>3 DEF Quiet, EffectType, ClosingEvent

LEMMA WriteGoesOn ==
    ASSUME NEW log, NEW more, NEW rid, Writes(log, rid, FALSE), Quiet(more, rid)
    PROVE  Writes(log \o more, rid, FALSE)
  <1>1. /\ log \in Seq(Event) /\ more \in Seq(Event) /\ log # <<>>
        /\ Len(log) \in Nat \ {0} /\ Len(more) \in Nat
    BY EmptySeq, LenProperties DEF Writes, Quiet
  <1> DEFINE all == log \o more
  <1>2. /\ all \in Seq(Event) /\ Len(all) = Len(log) + Len(more)
        /\ \A k \in 1 .. Len(all) :
              all[k] = IF k <= Len(log) THEN log[k] ELSE more[k - Len(log)]
    BY <1>1, ConcatProperties
  <1>3. all # <<>>
    BY <1>1, <1>2, EmptySeq
  <1> HIDE DEF all
  <1> SUFFICES ASSUME NEW k \in 1 .. Len(all)
               PROVE  /\ all[k].by = rid
                      /\ all[k].type \in EffectType <=> k = 1
                      /\ all[k].type \notin ClosingEvent
    BY <1>2, <1>3 DEF all, Writes
  <1>4. CASE k <= Len(log)
    BY <1>1, <1>2, <1>4 DEF Writes
  <1>5. CASE k > Len(log)
    <2>1. k - Len(log) \in 1 .. Len(more) /\ k # 1
      BY <1>1, <1>2, <1>5
    <2>2. all[k] = more[k - Len(log)]
      BY <1>1, <1>2, <1>5
    <2> QED
      BY <2>1, <2>2 DEF Quiet
  <1> QED
    BY <1>1, <1>2, <1>4, <1>5

LEMMA WriteCloses ==
    ASSUME NEW log, NEW type \in {"reject", "complete"}, NEW n \in Nodes,
           NEW rid \in RequestIds, Writes(log, rid, FALSE)
    PROVE  Writes(log \o Log(type, n, rid), rid, TRUE)
  <1> DEFINE more == Log(type, n, rid)
             all == log \o more
  <1>1. type \in EventType /\ type \notin EffectType /\ type \in ClosingEvent
    BY DEF EventType, EffectType, ClosingEvent
  <1>2. more \in Seq(Event) /\ Len(more) = 1 /\ more[1].type = type /\ more[1].by = rid
    BY <1>1, LogIsOne
  <1>3. log \in Seq(Event) /\ log # <<>> /\ Len(log) \in Nat \ {0}
    BY EmptySeq DEF Writes
  <1> HIDE DEF more
  <1>4. /\ all \in Seq(Event) /\ Len(all) = Len(log) + 1
        /\ \A k \in 1 .. Len(all) :
              all[k] = IF k <= Len(log) THEN log[k] ELSE more[k - Len(log)]
    <2>1. /\ all \in Seq(Event) /\ Len(all) = Len(log) + Len(more)
          /\ \A k \in 1 .. Len(log) + Len(more) :
                all[k] = IF k <= Len(log) THEN log[k] ELSE more[k - Len(log)]
      BY ONLY <1>2, <1>3, ConcatProperties
    <2> HIDE DEF all
    <2> QED
      BY <1>2, <2>1
  <1>5. all # <<>>
    BY <1>3, <1>4, EmptySeq
  <1> HIDE DEF all
  <1> SUFFICES ASSUME NEW k \in 1 .. Len(all)
               PROVE  /\ all[k].by = rid
                      /\ all[k].type \in EffectType <=> k = 1
                      /\ all[k].type \in ClosingEvent <=> k = Len(all)
    BY <1>4, <1>5 DEF all, more, Writes
  <1>6. CASE k <= Len(log)
    BY <1>3, <1>4, <1>6 DEF Writes
  <1>7. CASE k > Len(log)
    <2>1. k = Len(log) + 1 /\ k - Len(log) = 1
      BY <1>3, <1>4, <1>7
    <2>2. all[k] = more[1]
      BY <1>3, <1>4, <1>7, <2>1
    <2> QED
      BY <1>1, <1>2, <1>3, <1>4, <2>1, <2>2
  <1> QED
    BY <1>3, <1>4, <1>6, <1>7

(* Arriving at an end node closes the instance, at an approval it does not. *)
LEMMA WriteArrives ==
    ASSUME NEW log, NEW v, NEW n \in Nodes, NEW rid \in RequestIds, Writes(log, rid, FALSE)
    PROVE  Writes(log \o ArrivalLog(v, n, rid), rid, ArrivalStatus(v, n) \in ClosedStatus)
  <1>1. CASE TypeOf(v, n) = "end"
    <2>1. ArrivalStatus(v, n) \in ClosedStatus
      BY <1>1 DEF ArrivalStatus, ClosedStatus
    <2>2. Writes(log \o Log("complete", n, rid), rid, TRUE)
      BY WriteCloses
    <2>3. Writes(log \o ArrivalLog(v, n, rid), rid, TRUE)
      BY <1>1, <2>2 DEF ArrivalLog
    <2> QED
      BY <2>1, <2>3 DEF Writes
  <1>2. CASE TypeOf(v, n) # "end"
    <2>1. ArrivalStatus(v, n) \notin ClosedStatus
      BY <1>2 DEF ArrivalStatus, ClosedStatus
    <2>2. log \o ArrivalLog(v, n, rid) = log
      BY <1>2, ConcatEmptySeq DEF ArrivalLog, Writes
    <2> QED
      BY <2>1, <2>2 DEF Writes
  <1> QED
    BY <1>1, <1>2

(* The transaction of s writes to the history of instance i. *)
Recorded(s, i, closes) ==
    \E log : /\ Writes(log, session[s].rid, closes)
             /\ history' = [history EXCEPT ![i] = @ \o log]

-----------------------------------------------------------------------------
(* The inductive invariant *)

LEMMA InitIInv == Init => IInv
  <1> SUFFICES ASSUME Init PROVE IInv
    OBVIOUS
  <1> USE DEF Init
  <1>1. TypeOK
    BY SlotsAssumption
    DEF TypeOK, NoInstance, Resting, Idle, SessionState, EscStatus, TaskStatus
  <1>2. TemplatesAccepted /\ InstancesBound /\ CallsBound /\ EscsBound /\ WorkersBound
    BY DEF TemplatesAccepted, InstancesBound, CallsBound, EscsBound, WorkersBound,
           NoInstance, Resting, Idle
  <1>3. LiveWorkMatchesInstance
    BY DEF LiveWorkMatchesInstance, OpenTasksAtNode, OpenEscsAtNode, RunningHasWork,
           NoInstance
  <1> QED
    BY <1>1, <1>2, <1>3 DEF IInv

LEMMA TemplateStepIInv == IInv /\ TemplateStep => IInv'
  <1> SUFFICES ASSUME IInv, NEW v \in Versions, AddVersion(v) \/ Publish(v) \/ Rollback(v)
              PROVE  IInv'
    BY DEF TemplateStep
  <1> USE DEF IInv, AddVersion, Publish, Rollback
  <1>1. TypeOK'
    BY DEF TypeOK
  <1>2. TemplatesAccepted'
    BY DEF TemplatesAccepted, TypeOK
  <1>3. InstancesBound' /\ CallsBound' /\ EscsBound' /\ WorkersBound'
    BY DEF InstancesBound, CallsBound, EscsBound, WorkersBound, Running
  <1>4. LiveWorkMatchesInstance'
    BY DEF LiveWorkMatchesInstance, OpenTasksAtNode, OpenEscsAtNode, RunningHasWork
  <1> QED
    BY <1>1, <1>2, <1>3, <1>4

(* What is said of the rows alone survives a step that leaves them alone. *)
LEMMA RowsKept ==
    ASSUME IInv, UNCHANGED rowVars
    PROVE  TemplatesAccepted' /\ InstancesBound' /\ EscsBound' /\ LiveWorkMatchesInstance'
  <1> USE DEF IInv, rowVars
  <1>1. TemplatesAccepted' /\ InstancesBound' /\ EscsBound'
    BY DEF TemplatesAccepted, InstancesBound, EscsBound, Running
  <1>2. LiveWorkMatchesInstance'
    BY DEF LiveWorkMatchesInstance, OpenTasksAtNode, OpenEscsAtNode, RunningHasWork
  <1> QED
    BY <1>1, <1>2

LEMMA SessionStepIInv ==
    ASSUME IInv, UNCHANGED <<rowVars, worker>>, faults' \in 0 .. MaxFaults,
           session' \in [Sessions -> SessionState], CallsBound'
    PROVE  IInv'
  <1>1. TypeOK'
    BY DEF IInv, TypeOK, rowVars
  <1>2. WorkersBound'
    BY DEF IInv, WorkersBound, rowVars
  <1> QED
    BY <1>1, <1>2, RowsKept DEF IInv

LEMMA ClaimTyped ==
    ASSUME IInv, NEW s \in Sessions, NEW c \in Call, session[s].pc = "idle", Claim(s, c),
           c.kind = "start" => c.version \in AcceptedVersions
    PROVE  session' \in [Sessions -> SessionState] /\ CallsBound'
  <1>1. PICK r \in RequestIds :
            session' = [session EXCEPT ![s] = [pc |-> "claimed", rid |-> r, call |-> c]]
    BY DEF Claim, FreeIds
  <1>2. [pc |-> "claimed", rid |-> r, call |-> c] \in SessionState
    BY DEF SessionState
  <1>3. session' \in [Sessions -> SessionState]
    BY <1>1, <1>2 DEF IInv, TypeOK
  <1>4. CallsBound'
    BY <1>1 DEF IInv, TypeOK, CallsBound
  <1> QED
    BY <1>3, <1>4

LEMMA BeginIInv == ASSUME IInv, NEW s \in Sessions, Begin(s) PROVE IInv'
  <1>1. CASE \E user \in Submitters, ctx \in Contexts : BeginStart(s, user, ctx)
    <2>1. PICK user \in Submitters, ctx \in Contexts : BeginStart(s, user, ctx)
      BY <1>1
    <2> DEFINE c == [kind |-> "start", version |-> current, submitter |-> user,
                     context |-> ctx]
    <2>2. current \in Versions /\ current \in AcceptedVersions
      BY <2>1 DEF BeginStart, IInv, TypeOK, TemplatesAccepted
    <2>3. c \in Call
      BY <2>2 DEF Call, StartCall
    <2>4. session' \in [Sessions -> SessionState] /\ CallsBound'
      BY <2>1, <2>2, <2>3, ClaimTyped DEF BeginStart
    <2> QED
      BY <2>1, <2>4, SessionStepIInv DEF BeginStart, IInv, TypeOK
  <1>2. CASE \E i \in Instances, actor \in Submitters : BeginWithdraw(s, i, actor)
    <2>1. PICK i \in Instances, actor \in Submitters : BeginWithdraw(s, i, actor)
      BY <1>2
    <2>2. [kind |-> "withdraw", inst |-> i] \in Call
      BY DEF Call, WithdrawCall
    <2>3. session' \in [Sessions -> SessionState] /\ CallsBound'
      BY <2>1, <2>2, ClaimTyped DEF BeginWithdraw
    <2> QED
      BY <2>1, <2>3, SessionStepIInv DEF BeginWithdraw, IInv, TypeOK
  <1>3. CASE \E t \in {k \in TaskKeys : task[k] # "none"}, i \in Instances,
               expected \in Versions, actor \in Users, decision \in {"approve", "reject"} :
                  BeginDecide(s, i, expected, t, actor, decision)
    <2>1. PICK t \in TaskKeys, i \in Instances, expected \in Versions, actor \in Users,
               decision \in {"approve", "reject"} : BeginDecide(s, i, expected, t, actor, decision)
      BY <1>3
    <2>2. [kind |-> "decide", task |-> t, decision |-> decision] \in Call
      BY DEF Call, DecideCall
    <2>3. session' \in [Sessions -> SessionState] /\ CallsBound'
      BY <2>1, <2>2, ClaimTyped DEF BeginDecide
    <2> QED
      BY <2>1, <2>3, SessionStepIInv DEF BeginDecide, IInv, TypeOK
  <1> QED
    BY <1>1, <1>2, <1>3 DEF Begin

(* A session that only takes its lock, or ends without an effect. *)
LEMMA SessionEndsIInv ==
    ASSUME IInv, NEW s \in Sessions, UNCHANGED <<rowVars, worker>>, faults' \in 0 .. MaxFaults,
           \/ session' = [session EXCEPT ![s] = Idle]
           \/ /\ session[s].pc = "claimed" /\ session[s].call.kind # "start"
              /\ session' = [session EXCEPT ![s] = [pc |-> "locked", rid |-> session[s].rid,
                                                    call |-> session[s].call]]
    PROVE  IInv'
  <1>1. CASE session' = [session EXCEPT ![s] = Idle]
    <2>1. session' \in [Sessions -> SessionState]
      BY <1>1 DEF IInv, TypeOK, SessionState
    <2>2. CallsBound'
      BY <1>1 DEF IInv, TypeOK, CallsBound, Idle
    <2> QED
      BY <2>1, <2>2, SessionStepIInv
  <1>2. CASE /\ session[s].pc = "claimed" /\ session[s].call.kind # "start"
             /\ session' = [session EXCEPT ![s] = [pc |-> "locked", rid |-> session[s].rid,
                                                   call |-> session[s].call]]
    <2> DEFINE locked == [pc |-> "locked", rid |-> session[s].rid, call |-> session[s].call]
    <2>1. session[s] \in [pc : {"claimed", "locked"}, rid : RequestIds, call : Call]
      BY <1>2 DEF IInv, TypeOK, SessionState, Idle
    <2>2. locked \in SessionState
      BY <2>1 DEF SessionState
    <2>3. session' \in [Sessions -> SessionState]
      BY <1>2, <2>2 DEF IInv, TypeOK
    <2>4. CallsBound'
      BY <1>2 DEF IInv, TypeOK, CallsBound
    <2> QED
      BY <2>3, <2>4, SessionStepIInv
  <1> QED
    BY <1>1, <1>2

LEMMA LockInstanceIInv == ASSUME IInv, NEW s \in Sessions, LockInstance(s) PROVE IInv'
  BY SessionEndsIInv DEF LockInstance, IInv, TypeOK

LEMMA RefuseIInv == ASSUME IInv, NEW s \in Sessions, Refuse(s) PROVE IInv'
  BY SessionEndsIInv DEF Refuse, IInv, TypeOK

LEMMA MoreFaults ==
    ASSUME IInv, faults < MaxFaults, faults' = faults + 1 PROVE faults' \in 0 .. MaxFaults
  BY SlotsAssumption DEF IInv, TypeOK

LEMMA AbortIInv == ASSUME IInv, NEW s \in Sessions, Abort(s) PROVE IInv'
  <1>1. faults' \in 0 .. MaxFaults
    BY MoreFaults DEF Abort
  <1> QED
    BY <1>1, SessionEndsIInv DEF Abort

(* The workers' own steps: the batch shrinks or is dropped. *)
WorkerState == [pc : {"idle", "batch", "applying"}, batch : Seq(EscKeys), claimed : BOOLEAN]

LEMMA WorkerStepIInv ==
    ASSUME IInv, UNCHANGED <<rowVars, session>>, faults' \in 0 .. MaxFaults,
           worker' \in [Workers -> WorkerState], WorkersBound'
    PROVE  IInv'
  <1>1. TypeOK'
    BY DEF IInv, TypeOK, rowVars, WorkerState
  <1>2. CallsBound'
    BY DEF IInv, CallsBound, rowVars
  <1> QED
    BY <1>1, <1>2, RowsKept DEF IInv

(* A tail, element by element, for sequences of escalations. *)
LEMMA TailElements ==
    ASSUME NEW q \in Seq(EscKeys), q # <<>>
    PROVE  /\ Tail(q) \in Seq(EscKeys)
           /\ \A k \in 1 .. Len(Tail(q)) : k + 1 \in 1 .. Len(q) /\ Tail(q)[k] = q[k + 1]
  BY HeadTailProperties, EmptySeq

LEMMA NextInBatchTyped ==
    ASSUME IInv, NEW w \in Workers, worker[w].pc # "idle", NextInBatch(w),
           \A e \in EscKeys : esc[e] # "none" => esc'[e] # "none"
    PROVE  worker' \in [Workers -> WorkerState] /\ WorkersBound'
  <1> DEFINE q == worker[w].batch
  <1>1. q \in Seq(EscKeys) /\ q # <<>> /\ \A k \in 1 .. Len(q) : q[k] \in EscKeys /\ esc[q[k]] # "none"
    BY ElementOfSeq DEF IInv, TypeOK, WorkersBound
  <1>2. /\ Tail(q) \in Seq(EscKeys)
        /\ \A k \in 1 .. Len(Tail(q)) : k + 1 \in 1 .. Len(q) /\ Tail(q)[k] = q[k + 1]
    BY <1>1, TailElements
  <1>3. \A k \in 1 .. Len(Tail(q)) : esc'[Tail(q)[k]] # "none"
    BY <1>1, <1>2
  <1>4. worker' = [worker EXCEPT ![w] =
                     IF Tail(q) = <<>> THEN Resting
                     ELSE [pc |-> "batch", batch |-> Tail(q), claimed |-> FALSE]]
    BY DEF NextInBatch
  <1>5. worker' \in [Workers -> WorkerState]
    BY <1>2, <1>4, EmptySeq DEF IInv, TypeOK, WorkerState, Resting
  <1>6. ASSUME NEW u \in Workers, worker'[u].pc # "idle"
        PROVE  /\ worker'[u].batch # <<>>
               /\ \A k \in 1 .. Len(worker'[u].batch) : esc'[worker'[u].batch[k]] # "none"
    <2>1. CASE u = w
      BY <1>2, <1>3, <1>4, <1>6, <2>1 DEF IInv, TypeOK, Resting
    <2>2. CASE u # w
      <3>1. worker'[u] = worker[u]
        BY <1>4, <2>2 DEF IInv, TypeOK
      <3>2. \A k \in 1 .. Len(worker[u].batch) :
               worker[u].batch[k] \in EscKeys /\ esc[worker[u].batch[k]] # "none"
        BY <1>6, <3>1, ElementOfSeq DEF IInv, TypeOK, WorkersBound
      <3> QED
        BY <1>6, <3>1, <3>2 DEF IInv, WorkersBound
    <2> QED
      BY <2>1, <2>2
  <1> QED
    BY <1>5, <1>6 DEF WorkersBound

LEMMA ClaimDueIInv == ASSUME IInv, NEW w \in Workers, ClaimDue(w) PROVE IInv'
  <1>1. PICK q \in Seq(EscKeys) :
            /\ q # <<>> /\ \A k \in 1 .. Len(q) : esc[q[k]] = "pending"
            /\ worker' = [worker EXCEPT ![w] = [pc |-> "batch", batch |-> q, claimed |-> TRUE]]
    <2> DEFINE claimable == {k \in DOMAIN due : esc[due[k]] = "pending" /\ EscFree(due[k])}
    <2>0. PICK n \in 1 .. BatchLimit : \E at \in [1 .. n -> claimable] :
              worker' = [worker EXCEPT ![w] = [pc |-> "batch",
                                              batch |-> [k \in 1 .. n |-> due[at[k]]],
                                              claimed |-> TRUE]]
      BY DEF ClaimDue
    <2>1. PICK at \in [1 .. n -> claimable] :
              worker' = [worker EXCEPT ![w] = [pc |-> "batch",
                                              batch |-> [k \in 1 .. n |-> due[at[k]]],
                                              claimed |-> TRUE]]
      BY <2>0
    <2>2. \A k \in 1 .. n : due[at[k]] \in EscKeys /\ esc[due[at[k]]] = "pending"
      BY ElementOfSeq DEF IInv, TypeOK
    <2> DEFINE q == [k \in 1 .. n |-> due[at[k]]]
    <2>3. q \in Seq(EscKeys) /\ Len(q) = n
      BY <2>2, SlotsAssumption, IsASeq
    <2>4. q # <<>>
      BY <2>3, EmptySeq, SlotsAssumption
    <2> QED
      BY <2>1, <2>2, <2>3, <2>4
  <1>2. worker' \in [Workers -> WorkerState]
    BY <1>1 DEF IInv, TypeOK, WorkerState
  <1>3. WorkersBound'
    BY <1>1, EmptySeq DEF IInv, TypeOK, WorkersBound, ClaimDue, rowVars
  <1> QED
    BY <1>2, <1>3, WorkerStepIInv DEF ClaimDue, IInv, TypeOK

LEMMA LockForEscalationIInv ==
    ASSUME IInv, NEW w \in Workers, LockForEscalation(w) PROVE IInv'
  <1> DEFINE applying == [pc |-> "applying", batch |-> worker[w].batch,
                          claimed |-> worker[w].claimed]
  <1>1. worker[w].pc = "batch" /\ worker' = [worker EXCEPT ![w] = applying]
    BY DEF LockForEscalation
  <1>2. worker' \in [Workers -> WorkerState]
    BY <1>1 DEF IInv, TypeOK, WorkerState
  <1>3. WorkersBound'
    BY <1>1 DEF IInv, TypeOK, WorkersBound, LockForEscalation, rowVars
  <1> QED
    BY <1>2, <1>3, WorkerStepIInv DEF LockForEscalation, IInv, TypeOK

LEMMA FailEscalationIInv ==
    ASSUME IInv, NEW w \in Workers, FailEscalation(w) PROVE IInv'
  <1>1. faults' \in 0 .. MaxFaults
    BY MoreFaults DEF FailEscalation
  <1>2. worker' \in [Workers -> WorkerState] /\ WorkersBound'
    BY NextInBatchTyped DEF FailEscalation, rowVars
  <1> QED
    BY <1>1, <1>2, WorkerStepIInv DEF FailEscalation

LEMMA WorkerCrashIInv ==
    ASSUME IInv, NEW w \in Workers, WorkerCrash(w) PROVE IInv'
  <1>1. faults' \in 0 .. MaxFaults
    BY MoreFaults DEF WorkerCrash
  <1>2. worker' \in [Workers -> WorkerState]
    BY EmptySeq DEF WorkerCrash, IInv, TypeOK, WorkerState, Resting
  <1>3. WorkersBound'
    BY DEF WorkerCrash, IInv, TypeOK, WorkersBound, Resting, rowVars
  <1> QED
    BY <1>1, <1>2, <1>3, WorkerStepIInv DEF WorkerCrash

LEMMA ElapseIInv == ASSUME IInv, NEW e \in EscKeys, Elapse(e) PROVE IInv'
  <1> USE DEF IInv, Elapse
  <1>1. TypeOK'
    BY AppendProperties DEF TypeOK
  <1>2. TemplatesAccepted' /\ InstancesBound' /\ CallsBound' /\ EscsBound' /\ WorkersBound'
    BY DEF TemplatesAccepted, InstancesBound, CallsBound, EscsBound, WorkersBound, Running
  <1>3. LiveWorkMatchesInstance'
    BY DEF LiveWorkMatchesInstance, OpenTasksAtNode, OpenEscsAtNode, RunningHasWork
  <1> QED
    BY <1>1, <1>2, <1>3

LEMMA DeadlocksIInv == IInv /\ Deadlocks => IInv'
  <1>1. ASSUME IInv, NEW s \in Sessions, NEW w \in Workers, BreakSessionDeadlock(s, w)
        PROVE  IInv'
    <2>1. worker[w].pc # "idle" /\ faults' \in 0 .. MaxFaults
      BY <1>1 DEF BreakSessionDeadlock, IInv, TypeOK
    <2>2. CASE session' = [session EXCEPT ![s] = Idle] /\ UNCHANGED worker
      BY <1>1, <2>1, <2>2, SessionEndsIInv DEF BreakSessionDeadlock
    <2>3. CASE NextInBatch(w) /\ UNCHANGED session
      <3>1. worker' \in [Workers -> WorkerState] /\ WorkersBound'
        BY <1>1, <2>1, <2>3, NextInBatchTyped DEF BreakSessionDeadlock, rowVars
      <3> QED
        BY <1>1, <2>1, <2>3, <3>1, WorkerStepIInv DEF BreakSessionDeadlock
    <2> QED
      BY <1>1, <2>2, <2>3 DEF BreakSessionDeadlock
  <1>2. ASSUME IInv, NEW w \in Workers, NEW u \in Workers, BreakWorkerDeadlock(w, u)
        PROVE  IInv'
    <2>1. worker[w].pc # "idle" /\ worker[u].pc # "idle" /\ faults' \in 0 .. MaxFaults
      BY <1>2 DEF BreakWorkerDeadlock, WaitsForInstance, IInv, TypeOK
    <2>2. worker' \in [Workers -> WorkerState] /\ WorkersBound'
      BY <1>2, <2>1, NextInBatchTyped DEF BreakWorkerDeadlock, rowVars
    <2> QED
      BY <1>2, <2>1, <2>2, WorkerStepIInv DEF BreakWorkerDeadlock
  <1> QED
    BY <1>1, <1>2 DEF Deadlocks

-----------------------------------------------------------------------------
(* The steps that commit a decision, a withdrawal or an escalation *)

LEMMA AnswerTyped ==
    ASSUME IInv, NEW s \in Sessions, session[s].pc # "idle", Answer(s)
    PROVE  /\ record' \subseteq RequestIds
           /\ session' \in [Sessions -> SessionState]
           /\ CallsBound'
           /\ session[s].rid \in RequestIds /\ session[s].call \in Call
  <1>1. session[s] \in [pc : {"claimed", "locked"}, rid : RequestIds, call : Call]
    BY DEF IInv, TypeOK, SessionState, Idle
  <1>2. record' \subseteq RequestIds /\ session' \in [Sessions -> SessionState]
    BY <1>1 DEF Answer, IInv, TypeOK, SessionState
  <1>3. CallsBound'
    BY DEF Answer, IInv, TypeOK, CallsBound, Idle
  <1> QED
    BY <1>1, <1>2, <1>3

(* What a session that decides knows of its task. *)
LEMMA DecidingKnows ==
    ASSUME IInv, NEW s \in Sessions, NEW d \in {"approve", "reject"}, Deciding(s, d)
    PROVE  LET t == session[s].call.task IN
           /\ t \in TaskKeys /\ t[1] \in Instances /\ t[2] \in Nodes
           /\ task[t] = "pending" /\ session[s].pc = "locked"
           /\ Running(t[1]) /\ inst[t[1]] \in Instance /\ inst[t[1]].node = t[2]
           /\ inst[t[1]].version \in AcceptedVersions
           /\ t[2] \in NodesOf(inst[t[1]].version)
           /\ TypeOf(inst[t[1]].version, t[2]) = "approval"
  <1> DEFINE t == session[s].call.task
  <1>1. session[s].call \in Call /\ session[s].call.kind = "decide"
    BY DEF Deciding, IInv, TypeOK, SessionState, Idle
  <1>2. t \in TaskKeys
    BY <1>1 DEF Call, StartCall, DecideCall, WithdrawCall
  <1>3. t[1] \in Instances /\ t[2] \in Nodes
    BY <1>2 DEF TaskKeys
  <1>4. Running(t[1]) /\ task[t] = "pending" /\ inst[t[1]].node = t[2]
    BY <1>2 DEF Deciding, IInv, LiveWorkMatchesInstance, OpenTasksAtNode
  <1>5. inst[t[1]] \in Instance
    BY <1>3, <1>4 DEF IInv, TypeOK, NoInstance, Running
  <1> QED
    BY <1>2, <1>3, <1>4, <1>5 DEF Deciding, IInv, InstancesBound, Running

LEMMA WorkersKept ==
    ASSUME IInv, UNCHANGED worker, \A e \in EscKeys : esc[e] # "none" => esc'[e] # "none"
    PROVE  WorkersBound'
  BY ElementOfSeq DEF IInv, TypeOK, WorkersBound

(* One more answer, and the node waits for the others. *)
Waits(s, t, status) ==
    /\ t = session[s].call.task
    /\ t \in TaskKeys /\ t[1] \in Instances /\ t[2] \in Nodes /\ task[t] = "pending"
    /\ Running(t[1]) /\ inst[t[1]].node = t[2]
    /\ status \in {"approved", "rejected"} /\ (status = "rejected" => ~Fails(t))
    /\ Others(t) # {}
    /\ session[s].pc # "idle" /\ session[s].rid \in RequestIds /\ Answer(s)
    /\ task' = [task EXCEPT ![t] = status]
    /\ Recorded(s, t[1], FALSE)
    /\ UNCHANGED <<version, current, inst, esc, due, rounds, worker, faults>>

LEMMA DecideAndWaitWaits ==
    ASSUME IInv, NEW s \in Sessions, DecideAndWait(s) PROVE \E t, status : Waits(s, t, status)
  <1> DEFINE t == session[s].call.task
  <1>1. PICK d \in {"approve", "reject"}, status \in {"approved", "rejected"},
             event \in {"task_approve", "task_reject"} :
            /\ Deciding(s, d) /\ Others(t) # {} /\ (status = "rejected" => ~Fails(t))
            /\ task' = [task EXCEPT ![t] = status]
            /\ history' = [history EXCEPT ![t[1]] = @ \o Log(event, t[2], session[s].rid)]
    BY DEF DecideAndWait, Passes, Fails
  <1>2. /\ t \in TaskKeys /\ t[1] \in Instances /\ t[2] \in Nodes /\ task[t] = "pending"
        /\ session[s].pc = "locked" /\ Running(t[1]) /\ inst[t[1]].node = t[2]
    BY <1>1, DecidingKnows
  <1>3. Answer(s) /\ UNCHANGED <<version, current, inst, esc, due, rounds, worker, faults>>
    BY DEF DecideAndWait
  <1>4. session[s].rid \in RequestIds
    BY <1>2, <1>3, AnswerTyped
  <1>5. Recorded(s, t[1], FALSE)
    <2>1. Writes(Log(event, t[2], session[s].rid), session[s].rid, event = "withdraw")
      BY <1>2, <1>4, WriteBegins
    <2>2. Writes(Log(event, t[2], session[s].rid), session[s].rid, FALSE)
      BY <2>1 DEF Writes
    <2> QED
      BY <1>1, <2>2 DEF Recorded
  <1>6. t = session[s].call.task
    OBVIOUS
  <1> HIDE DEF t
  <1>7. Waits(s, t, status)
    BY <1>1, <1>2, <1>3, <1>4, <1>5, <1>6 DEF Waits
  <1> QED
    BY <1>7

LEMMA DecideAndWaitIInv ==
    ASSUME IInv, NEW s \in Sessions, DecideAndWait(s) PROVE IInv'
  <1>1. PICK t, status : Waits(s, t, status)
    BY DecideAndWaitWaits
  <1>2. /\ record' \subseteq RequestIds /\ session' \in [Sessions -> SessionState]
        /\ CallsBound'
    BY <1>1, AnswerTyped DEF Waits
  <1>3. TypeOK'
    <2>1. history' \in [Instances -> Seq(Event)]
      BY <1>1, ConcatProperties DEF Waits, Recorded, Writes, IInv, TypeOK
    <2>2. task' \in [TaskKeys -> TaskStatus]
      BY <1>1 DEF Waits, IInv, TypeOK, TaskStatus
    <2> QED
      BY <1>1, <1>2, <2>1, <2>2 DEF Waits, IInv, TypeOK
  <1>4. TemplatesAccepted' /\ InstancesBound' /\ EscsBound' /\ WorkersBound'
    BY <1>1 DEF Waits, IInv, TemplatesAccepted, InstancesBound, EscsBound, WorkersBound, Running
  <1>5. LiveWorkMatchesInstance'
    <2>1. OpenTasksAtNode' /\ OpenEscsAtNode'
      BY <1>1 DEF Waits, IInv, TypeOK, LiveWorkMatchesInstance, OpenTasksAtNode, OpenEscsAtNode
    <2>2. PICK other \in TaskKeys : other[1] = t[1] /\ task[other] = "pending" /\ other # t
      BY <1>1 DEF Waits, Others, PendingTasks
    <2>3. task'[other] = "pending"
      BY <1>1, <2>2 DEF Waits, IInv, TypeOK
    <2>4. RunningHasWork'
      BY <1>1, <2>2, <2>3 DEF Waits, IInv, TypeOK, LiveWorkMatchesInstance, RunningHasWork
    <2> QED
      BY <2>1, <2>4 DEF LiveWorkMatchesInstance
  <1> QED
    BY <1>2, <1>3, <1>4, <1>5 DEF IInv

(* Cancelling an escalation touches nothing else. *)
LEMMA EscsCanceledFunction ==
    ASSUME IInv, NEW e \in EscKeys, NEW f, f = EscsCanceled(e)
    PROVE  /\ f \in [EscKeys -> EscStatus]
           /\ f[e] # "pending"
           /\ \A x \in EscKeys : x # e => f[x] = esc[x]
           /\ \A x \in EscKeys : f[x] = "pending" => esc[x] = "pending"
           /\ \A x \in EscKeys : f[x] = "none" <=> esc[x] = "none"
  <1>1. esc \in [EscKeys -> EscStatus]
    BY DEF IInv, TypeOK
  <1> QED
    BY <1>1 DEF EscsCanceled, Marked, EscStatus

(* Everything open at a running instance is canceled and it closes:         *)
(* _handle_rejection and withdraw.                                          *)
Closes(s, i, status) ==
    /\ session[s].pc # "idle" /\ session[s].rid \in RequestIds /\ Answer(s)
    /\ i \in Instances /\ Running(i) /\ inst[i] \in Instance /\ status \in ClosedStatus
    /\ task' \in [TaskKeys -> TaskStatus]
    /\ \A t \in TaskKeys : /\ task'[t] = "pending" => task[t] = "pending" /\ t[1] # i
                           /\ (task[t] # "pending" \/ t[1] # i) => task'[t] = task[t]
    /\ esc' = EscsCanceled(<<i, inst[i].node>>)
    /\ inst' = [inst EXCEPT ![i] = Moved(i, inst[i].node, status)]
    /\ Recorded(s, i, TRUE)
    /\ UNCHANGED <<version, current, due, rounds, worker, faults>>

LEMMA CloseIInv ==
    ASSUME IInv, NEW s \in Sessions, NEW i, NEW status, Closes(s, i, status)
    PROVE  IInv'
  <1> USE DEF Closes
  <1> DEFINE n == inst[i].node
             e == <<i, n>>
  <1>1. /\ record' \subseteq RequestIds /\ session' \in [Sessions -> SessionState]
        /\ CallsBound'
    BY AnswerTyped
  <1>2. n \in Nodes /\ e \in EscKeys
    BY DEF Instance, EscKeys
  <1>3. /\ Moved(i, n, status) \in Instance
        /\ Moved(i, n, status).status = status
        /\ Moved(i, n, status).node = n
        /\ Moved(i, n, status).version = inst[i].version
    BY <1>2 DEF Moved, Instance
  <1>4. /\ esc' \in [EscKeys -> EscStatus]
        /\ esc'[e] # "pending"
        /\ \A x \in EscKeys : x # e => esc'[x] = esc[x]
        /\ \A x \in EscKeys : esc'[x] = "pending" => esc[x] = "pending"
        /\ \A x \in EscKeys : esc'[x] = "none" <=> esc[x] = "none"
    <2>1. esc' = EscsCanceled(e) /\ IInv /\ e \in EscKeys
      BY <1>2
    <2> HIDE DEF e
    <2> QED
      BY ONLY <2>1, EscsCanceledFunction
  <1>5. \A j \in Instances : /\ j = i => inst'[j] = Moved(i, n, status)
                             /\ j # i => inst'[j] = inst[j]
    BY DEF IInv, TypeOK
  <1>6. status # "running" /\ status # "none"
    BY DEF ClosedStatus
  <1>7. TypeOK'
    <2>1. history' \in [Instances -> Seq(Event)]
      BY ConcatProperties DEF Recorded, Writes, IInv, TypeOK
    <2> QED
      BY <1>1, <1>3, <1>4, <2>1 DEF IInv, TypeOK
  <1>8. TemplatesAccepted' /\ InstancesBound'
    BY <1>3, <1>5, <1>6 DEF IInv, TemplatesAccepted, InstancesBound, Running
  <1>9. EscsBound'
    <2>1. \A j \in Instances : /\ inst'[j].version = inst[j].version
                               /\ inst[j].status # "none" => inst'[j].status # "none"
      BY <1>3, <1>5, <1>6
    <2> SUFFICES ASSUME NEW x \in EscKeys, esc'[x] # "none"
                 PROVE  inst'[x[1]].status # "none" /\ HasTimeout(inst'[x[1]].version, x[2])
      BY DEF EscsBound
    <2>2. x[1] \in Instances
      BY DEF EscKeys
    <2> QED
      BY <1>4, <2>1, <2>2 DEF IInv, EscsBound
  <1>10. WorkersBound'
    BY <1>4, WorkersKept
  <1>11. LiveWorkMatchesInstance'
    <2>1. OpenTasksAtNode'
      <3> SUFFICES ASSUME NEW t \in TaskKeys, task'[t] = "pending"
                   PROVE  inst'[t[1]].status = "running" /\ inst'[t[1]].node = t[2]
        BY DEF OpenTasksAtNode
      <3>1. task[t] = "pending" /\ t[1] # i
        BY DEF Closes
      <3>2. t[1] \in Instances
        BY DEF TaskKeys
      <3>3. inst'[t[1]] = inst[t[1]]
        BY <1>5, <3>1, <3>2
      <3> QED
        BY <3>1, <3>3 DEF IInv, LiveWorkMatchesInstance, OpenTasksAtNode
    <2>2. OpenEscsAtNode'
      <3>1. SUFFICES ASSUME NEW x \in EscKeys, esc'[x] = "pending"
                     PROVE  inst'[x[1]].status = "running" /\ inst'[x[1]].node = x[2]
        BY DEF OpenEscsAtNode
      <3>2. x[1] \in Instances /\ x = <<x[1], x[2]>>
        BY DEF EscKeys
      <3>3. esc[x] = "pending" /\ x # e
        BY <1>4, <3>1
      <3>4. inst[x[1]].status = "running" /\ inst[x[1]].node = x[2]
        BY <3>3 DEF IInv, LiveWorkMatchesInstance, OpenEscsAtNode
      <3>5. x[1] # i
        BY <3>2, <3>3, <3>4
      <3> QED
        BY <1>5, <3>2, <3>4, <3>5
    <2>3. RunningHasWork'
      BY <1>3, <1>5, <1>6 DEF IInv, LiveWorkMatchesInstance, RunningHasWork
    <2> QED
      BY <2>1, <2>2, <2>3 DEF LiveWorkMatchesInstance
  <1> QED
    BY <1>1, <1>7, <1>8, <1>9, <1>10, <1>11 DEF IInv

LEMMA RejectNodeCloses ==
    ASSUME IInv, NEW s \in Sessions, RejectNode(s) PROVE \E i, status : Closes(s, i, status)
  <1> DEFINE t == session[s].call.task
             i == t[1]
             n == t[2]
             rid == session[s].rid
             log == Log("task_reject", n, rid) \o Log("reject", n, rid)
  <1>1. Deciding(s, "reject") /\ Answer(s)
    BY DEF RejectNode
  <1>2. /\ t \in TaskKeys /\ i \in Instances /\ n \in Nodes /\ task[t] = "pending"
        /\ session[s].pc = "locked" /\ Running(i) /\ inst[i] \in Instance /\ inst[i].node = n
    BY <1>1, DecidingKnows
  <1>3. rid \in RequestIds
    BY <1>1, <1>2, AnswerTyped
  <1>4. Writes(log, rid, TRUE)
    <2>1. Writes(Log("task_reject", n, rid), rid, "task_reject" = "withdraw")
      BY <1>2, <1>3, WriteBegins
    <2>2. Writes(Log("task_reject", n, rid), rid, FALSE)
      BY <2>1 DEF Writes
    <2> HIDE DEF n, rid
    <2> QED
      BY <1>2, <1>3, <2>2, WriteCloses
  <1>5. history' = [history EXCEPT ![i] = @ \o log]
    <2>1. history[i] \in Seq(Event)
      BY <1>2 DEF IInv, TypeOK
    <2>2. Log("task_reject", n, rid) \in Seq(Event) /\ Log("reject", n, rid) \in Seq(Event)
      BY <1>2, <1>3, LogTyped DEF EventType, ClosingEvent
    <2>3. (history[i] \o Log("task_reject", n, rid)) \o Log("reject", n, rid)
             = history[i] \o log
      BY <2>1, <2>2, LogsAssociate
    <2> QED
      BY <2>3 DEF RejectNode
  <1>6. task' = [Marked(task, Others(t), "canceled") EXCEPT ![t] = "rejected"]
    BY DEF RejectNode
  <1>7. /\ Marked(task, Others(t), "canceled") \in [TaskKeys -> TaskStatus]
        /\ \A k \in TaskKeys : Marked(task, Others(t), "canceled")[k]
                                  = IF k \in Others(t) THEN "canceled" ELSE task[k]
    <2>1. task \in [TaskKeys -> TaskStatus] /\ "canceled" \in TaskStatus
      BY DEF IInv, TypeOK, TaskStatus
    <2> QED
      BY <2>1 DEF Marked
  <1>8. task' \in [TaskKeys -> TaskStatus]
    BY <1>2, <1>6, <1>7 DEF TaskStatus
  <1>9. \A k \in TaskKeys : task'[k] = "pending" => task[k] = "pending" /\ k[1] # i
    <2>1. SUFFICES ASSUME NEW k \in TaskKeys, task'[k] = "pending"
                   PROVE  task[k] = "pending" /\ k[1] # i
      OBVIOUS
    <2>2. k # t /\ k \notin Others(t) /\ task[k] = "pending"
      BY <1>2, <1>6, <1>7, <2>1
    <2>3. inst[k[1]].node = k[2]
      BY <2>2 DEF IInv, LiveWorkMatchesInstance, OpenTasksAtNode
    <2> QED
      BY <1>2, <2>2, <2>3 DEF Others, PendingTasks
  <1>10. \A k \in TaskKeys : k[1] # i => task'[k] = task[k]
    BY <1>2, <1>6, <1>7 DEF Others, PendingTasks
  <1>11. /\ esc' = EscsCanceled(<<i, inst[i].node>>)
         /\ inst' = [inst EXCEPT ![i] = Moved(i, inst[i].node, "rejected")]
         /\ UNCHANGED <<version, current, due, rounds, worker, faults>>
    BY <1>2 DEF RejectNode
  <1>12. "rejected" \in ClosedStatus /\ session[s].pc # "idle"
    BY <1>2 DEF ClosedStatus
  <1>13. Recorded(s, i, TRUE)
    BY <1>4, <1>5 DEF Recorded
  <1>14. \A k \in TaskKeys : task[k] # "pending" => task'[k] = task[k]
    BY <1>2, <1>6, <1>7 DEF Others, PendingTasks
  <1> HIDE DEF i, n, t, log, rid
  <1>15. Closes(s, i, "rejected")
    BY <1>1, <1>2, <1>3, <1>8, <1>9, <1>10, <1>11, <1>12, <1>13, <1>14 DEF Closes, rid
  <1> QED
    BY <1>15

LEMMA RejectNodeIInv == ASSUME IInv, NEW s \in Sessions, RejectNode(s) PROVE IInv'
  BY RejectNodeCloses, CloseIInv

LEMMA CommitWithdrawCloses ==
    ASSUME IInv, NEW s \in Sessions, CommitWithdraw(s)
    PROVE  \E i, status : Closes(s, i, status)
  <1> DEFINE i == session[s].call.inst
             open == {t \in TaskKeys : t[1] = i /\ task[t] = "pending"}
             log == Log("withdraw", inst[i].node, session[s].rid)
  <1>1. session[s].pc # "idle" /\ session[s].call.kind = "withdraw" /\ Answer(s) /\ Running(i)
    BY DEF CommitWithdraw
  <1>2. session[s].rid \in RequestIds /\ session[s].call \in Call
    BY <1>1, AnswerTyped
  <1>3. i \in Instances
    BY <1>1, <1>2 DEF Call, StartCall, DecideCall, WithdrawCall
  <1>4. inst[i] \in Instance /\ inst[i].node \in Nodes
    BY <1>1, <1>3 DEF IInv, TypeOK, NoInstance, Running, Instance
  <1>5. Writes(log, session[s].rid, TRUE)
    <2>1. Writes(log, session[s].rid, "withdraw" = "withdraw")
      BY <1>2, <1>4, WriteBegins
    <2> QED
      BY <2>1
  <1>6. task' = Marked(task, open, "canceled")
    BY DEF CommitWithdraw
  <1>7. /\ task' \in [TaskKeys -> TaskStatus]
        /\ \A k \in TaskKeys : task'[k] = IF k \in open THEN "canceled" ELSE task[k]
    <2>1. task \in [TaskKeys -> TaskStatus] /\ "canceled" \in TaskStatus
      BY DEF IInv, TypeOK, TaskStatus
    <2> HIDE DEF open
    <2> QED
      BY <1>6, <2>1 DEF Marked
  <1>8. \A k \in TaskKeys : /\ task'[k] = "pending" => task[k] = "pending" /\ k[1] # i
                            /\ (task[k] # "pending" \/ k[1] # i) => task'[k] = task[k]
    BY <1>7
  <1>9. /\ esc' = EscsCanceled(<<i, inst[i].node>>)
        /\ inst' = [inst EXCEPT ![i] = Moved(i, inst[i].node, "withdrawn")]
        /\ history' = [history EXCEPT ![i] = @ \o log]
        /\ UNCHANGED <<version, current, due, rounds, worker, faults>>
    BY DEF CommitWithdraw
  <1>10. "withdrawn" \in ClosedStatus
    BY DEF ClosedStatus
  <1>11. Recorded(s, i, TRUE)
    BY <1>5, <1>9 DEF Recorded
  <1> HIDE DEF i, log
  <1>12. Closes(s, i, "withdrawn")
    BY <1>1, <1>2, <1>3, <1>4, <1>7, <1>8, <1>9, <1>10, <1>11 DEF Closes
  <1> QED
    BY <1>12

LEMMA CommitWithdrawIInv == ASSUME IInv, NEW s \in Sessions, CommitWithdraw(s) PROVE IInv'
  BY CommitWithdrawCloses, CloseIInv

(* An instance arrives at an approval or end node, with nothing open left   *)
(* behind: the end of start_instance and of _handle_approval.  "tasks" and  *)
(* "escs" are the tables before the rows of the new node are added.         *)
Arrives(s, i, v, node, row, tasks, escs) ==
    /\ session[s].pc # "idle" /\ Answer(s)
    /\ v \in AcceptedVersions /\ node \in NodesOf(v)
    /\ TypeOf(v, node) \in {"approval", "end"}
    /\ inst[i].status # "none" => inst[i].version = v
    /\ row \in Instance /\ row.version = v /\ row.node = node
    /\ row.status = ArrivalStatus(v, node)
    /\ inst' = [inst EXCEPT ![i] = row]
    /\ tasks \in [TaskKeys -> TaskStatus] /\ escs \in [EscKeys -> EscStatus]
    /\ \A t \in TaskKeys : tasks[t] = "pending" => task[t] = "pending" /\ t[1] # i
    /\ \A t \in TaskKeys : t[1] # i => tasks[t] = task[t]
    /\ \A e \in EscKeys : escs[e] = "pending" => esc[e] = "pending" /\ e[1] # i
    /\ \A e \in EscKeys : escs[e] = "none" <=> esc[e] = "none"
    /\ task' = Marked(tasks, NewTasks(v, i, node, 0), "pending")
    /\ esc' = Marked(escs, NewEscs(v, i, node), "pending")
    /\ history' \in [Instances -> Seq(Event)]
    /\ UNCHANGED <<version, current, due, rounds, worker, faults>>

LEMMA ArriveIInv ==
    ASSUME IInv, NEW s \in Sessions, NEW i \in Instances, NEW v, NEW node, NEW row,
           NEW tasks, NEW escs, Arrives(s, i, v, node, row, tasks, escs)
    PROVE  IInv'
  <1> USE DEF Arrives
  <1> DEFINE new == NewTasks(v, i, node, 0)
             newEsc == NewEscs(v, i, node)
  <1>1. /\ record' \subseteq RequestIds /\ session' \in [Sessions -> SessionState]
        /\ CallsBound'
    BY AnswerTyped
  <1>2. v \in Versions /\ node \in Nodes
    BY SlotsAssumption DEF AcceptedVersions
  <1>3. /\ new \subseteq TaskKeys
        /\ \A t \in new : t[1] = i /\ t[2] = node
        /\ Crowd(v, node, 0) \in Nat \ {0} => <<i, node, 0, 1>> \in new
    BY <1>2, NewTasksAreTasks, SlotsAssumption
  <1>4. TypeOf(v, node) # "approval" => new = {}
    <2>1. TypeOf(v, node) # "approval" => Crowd(v, node, 0) = 0
      BY DEF Crowd
    <2> QED
      BY <2>1 DEF NewTasks
  <1>5. TypeOf(v, node) = "approval" => Crowd(v, node, 0) \in Nat \ {0}
    BY CrowdNotEmpty, SlotsAssumption
  <1>6. newEsc \subseteq EscKeys /\ \A e \in newEsc : e = <<i, node>> /\ HasTimeout(v, node)
    BY <1>2 DEF NewEscs, EscKeys
  <1>7. HasTimeout(v, node) => TypeOf(v, node) = "approval"
    BY DEF HasTimeout
  <1>8. /\ row.status \in {"running", "completed"}
        /\ row.status = "running" <=> TypeOf(v, node) = "approval"
    BY DEF ArrivalStatus
  <1> HIDE DEF new, newEsc
  <1>9. /\ task' \in [TaskKeys -> TaskStatus]
        /\ \A t \in TaskKeys : task'[t] = IF t \in new THEN "pending" ELSE tasks[t]
    BY DEF Marked, TaskStatus, new
  <1>10. /\ esc' \in [EscKeys -> EscStatus]
         /\ \A e \in EscKeys : esc'[e] = IF e \in newEsc THEN "pending" ELSE escs[e]
    BY DEF Marked, EscStatus, newEsc
  <1>11. \A j \in Instances : inst'[j] = IF j = i THEN row ELSE inst[j]
    BY DEF IInv, TypeOK
  <1>12. TypeOK'
    BY <1>1, <1>9, <1>10 DEF IInv, TypeOK
  <1>13. TemplatesAccepted' /\ InstancesBound'
    BY <1>8, <1>11 DEF IInv, TemplatesAccepted, InstancesBound, Running
  <1>14. EscsBound'
    <2> SUFFICES ASSUME NEW e \in EscKeys, esc'[e] # "none"
                 PROVE  inst'[e[1]].status # "none" /\ HasTimeout(inst'[e[1]].version, e[2])
      BY DEF EscsBound
    <2>1. e[1] \in Instances
      BY DEF EscKeys
    <2>2. CASE e \in newEsc
      BY <1>6, <1>8, <1>11, <2>2
    <2>3. CASE e \notin newEsc
      <3>1. inst[e[1]].status # "none" /\ HasTimeout(inst[e[1]].version, e[2])
        BY <1>10, <2>3 DEF IInv, EscsBound
      <3> QED
        BY <1>8, <1>11, <2>1, <3>1
    <2> QED
      BY <2>2, <2>3
  <1>15. WorkersBound'
    BY <1>10, WorkersKept
  <1>16. OpenTasksAtNode'
    <2> SUFFICES ASSUME NEW t \in TaskKeys, task'[t] = "pending"
                 PROVE  inst'[t[1]].status = "running" /\ inst'[t[1]].node = t[2]
      BY DEF OpenTasksAtNode
    <2>1. t[1] \in Instances
      BY DEF TaskKeys
    <2>2. CASE t \in new
      BY <1>3, <1>4, <1>8, <1>11, <2>1, <2>2
    <2>3. CASE t \notin new
      BY <1>9, <1>11, <2>1, <2>3 DEF IInv, LiveWorkMatchesInstance, OpenTasksAtNode
    <2> QED
      BY <2>2, <2>3
  <1>17. OpenEscsAtNode'
    <2> SUFFICES ASSUME NEW e \in EscKeys, esc'[e] = "pending"
                 PROVE  inst'[e[1]].status = "running" /\ inst'[e[1]].node = e[2]
      BY DEF OpenEscsAtNode
    <2>1. e[1] \in Instances
      BY DEF EscKeys
    <2>2. CASE e \in newEsc
      BY <1>6, <1>7, <1>8, <1>11, <2>1, <2>2
    <2>3. CASE e \notin newEsc
      BY <1>10, <1>11, <2>1, <2>3 DEF IInv, LiveWorkMatchesInstance, OpenEscsAtNode
    <2> QED
      BY <2>2, <2>3
  <1>18. RunningHasWork'
    <2> SUFFICES ASSUME NEW j \in Instances, inst'[j].status = "running"
                 PROVE  \E t \in TaskKeys : t[1] = j /\ task'[t] = "pending"
      BY DEF RunningHasWork
    <2>1. CASE j = i
      <3>1. <<i, node, 0, 1>> \in new
        BY <1>3, <1>5, <1>8, <1>11, <2>1
      <3> QED
        BY <1>3, <1>9, <2>1, <3>1
    <2>2. CASE j # i
      <3>1. PICK t \in TaskKeys : t[1] = j /\ task[t] = "pending"
        BY <1>11, <2>2 DEF IInv, LiveWorkMatchesInstance, RunningHasWork
      <3> QED
        BY <1>3, <1>9, <2>2, <3>1
    <2> QED
      BY <2>1, <2>2
  <1> QED
    BY <1>1, <1>12, <1>13, <1>14, <1>15, <1>16, <1>17, <1>18
    DEF IInv, LiveWorkMatchesInstance

(* start_instance creates a row that was not there. *)
Starts(s, i, v, node, row) ==
    /\ i \in Instances /\ inst[i] = NoInstance /\ inst[i].status = "none"
    /\ Arrives(s, i, v, node, row, task, esc)
    /\ session[s].rid \in RequestIds
    /\ \E log : /\ Writes(log, session[s].rid, row.status \in ClosedStatus)
                /\ history' = [history EXCEPT ![i] = log]

LEMMA CommitStartArrives ==
    ASSUME IInv, NEW s \in Sessions, CommitStart(s)
    PROVE  \E i, v, node, row : Starts(s, i, v, node, row)
  <1> DEFINE c == session[s].call
             v == c.version
             first == Definition[v].start
             route == Onward(v, c.context, first)
             node == Landing(v, c.context, first)
             rid == session[s].rid
             log == Log("start", first, rid) \o RouteLog(route, rid) \o ArrivalLog(v, node, rid)
             row == [status |-> ArrivalStatus(v, node), version |-> v, node |-> node,
                     submitter |-> c.submitter, context |-> c.context]
  <1>1. /\ session[s].pc # "idle" /\ c.kind = "start" /\ Answer(s)
        /\ CanLeave(v, c.context, first)
        /\ UNCHANGED <<version, current, due, rounds, worker, faults>>
    BY DEF CommitStart
  <1>2. rid \in RequestIds /\ c \in Call
    BY <1>1, AnswerTyped
  <1>3. c.context \in Contexts /\ c.submitter \in Submitters
    BY <1>1, <1>2 DEF Call, StartCall, DecideCall, WithdrawCall
  <1>4. v \in AcceptedVersions
    BY <1>1 DEF IInv, CallsBound
  <1>5. v \in Versions /\ first \in NodesOf(v) /\ first \in Nodes
    BY <1>4, SlotsAssumption DEF AcceptedVersions, ValidDefinition
  <1>6. /\ route \in Seq(NodesOf(v)) /\ route # <<>> /\ node \in NodesOf(v)
        /\ TypeOf(v, node) \in {"approval", "end"}
    <2> HIDE DEF v, first, c
    <2> QED
      BY <1>1, <1>3, <1>4, <1>5, RouteLands
  <1>7. node \in Nodes /\ route \in Seq(Nodes)
    BY <1>5, <1>6, SlotsAssumption, SeqMonotonic
  <1>8. PICK i \in Instances :
            /\ inst[i] = NoInstance
            /\ inst' = [inst EXCEPT ![i] = row]
            /\ task' = Marked(task, NewTasks(v, i, node, 0), "pending")
            /\ esc' = Marked(esc, NewEscs(v, i, node), "pending")
            /\ history' = [history EXCEPT ![i] = log]
    BY DEF CommitStart
  <1>9. row \in Instance /\ row.version = v /\ row.node = node
        /\ row.status = ArrivalStatus(v, node)
    BY <1>3, <1>5, <1>7, ArrivalTyped, <1>2 DEF Instance, ClosedStatus
  <1>10. history' \in [Instances -> Seq(Event)]
    <2>1. /\ Log("start", first, rid) \in Seq(Event) /\ RouteLog(route, rid) \in Seq(Event)
          /\ ArrivalLog(v, node, rid) \in Seq(Event)
      <3> HIDE DEF first, route, node, rid, v
      <3> QED
        BY <1>2, <1>5, <1>6, <1>7, LogTyped, RouteLogTyped, ArrivalTyped DEF EventType
    <2>2. log \in Seq(Event)
      BY <2>1, ConcatProperties
    <2> HIDE DEF log
    <2> QED
      BY <1>8, <2>2 DEF IInv, TypeOK
  <1>11. inst[i].status = "none"
    <2>1. NoInstance.status = "none"
      BY DEF NoInstance
    <2> QED
      BY <1>8, <2>1
  <1>12. /\ \A t \in TaskKeys : task[t] = "pending" => t[1] # i
         /\ \A e \in EscKeys : esc[e] = "pending" => e[1] # i
    BY <1>11 DEF IInv, LiveWorkMatchesInstance, OpenTasksAtNode, OpenEscsAtNode
  <1>13. task \in [TaskKeys -> TaskStatus] /\ esc \in [EscKeys -> EscStatus]
    BY DEF IInv, TypeOK
  <1>15. Writes(log, rid, row.status \in ClosedStatus)
    <2>1. Writes(Log("start", first, rid), rid, "start" = "withdraw")
      BY <1>2, <1>5, WriteBegins
    <2>2. Writes(Log("start", first, rid), rid, FALSE)
      BY <2>1 DEF Writes
    <2>3. Quiet(RouteLog(route, rid), rid)
      <3> HIDE DEF route, rid
      <3> QED
        BY <1>2, <1>6, <1>7, QuietRoute
    <2> HIDE DEF first, route, node, rid, v, row
    <2>4. Writes(Log("start", first, rid) \o RouteLog(route, rid), rid, FALSE)
      BY <2>2, <2>3, WriteGoesOn
    <2>5. Writes(log, rid, ArrivalStatus(v, node) \in ClosedStatus)
      BY <1>2, <1>7, <2>4, WriteArrives
    <2> HIDE DEF log
    <2> QED
      BY <1>9, <2>5
  <1>16. rid = session[s].rid
    OBVIOUS
  <1> HIDE DEF c, v, first, route, node, rid, log, row
  <1>14. Arrives(s, i, v, node, row, task, esc)
    BY <1>1, <1>4, <1>6, <1>8, <1>9, <1>10, <1>11, <1>12, <1>13 DEF Arrives
  <1>17. Starts(s, i, v, node, row)
    <2>1. \E l : Writes(l, rid, row.status \in ClosedStatus) /\ history' = [history EXCEPT ![i] = l]
      BY <1>8, <1>15
    <2> QED
      BY <1>2, <1>8, <1>11, <1>14, <1>16, <2>1 DEF Starts
  <1> QED
    BY <1>17

LEMMA CommitStartIInv == ASSUME IInv, NEW s \in Sessions, CommitStart(s) PROVE IInv'
  <1>1. PICK i, v, node, row : Starts(s, i, v, node, row)
    BY CommitStartArrives
  <1> QED
    BY <1>1, ArriveIInv DEF Starts

(* _handle_approval: the approval of t passes its node n, and the instance   *)
(* moves on to a node from which n cannot be reached again.                 *)
Passing(s, t, i, n, v, node, row, tasks, escs) ==
    /\ t = session[s].call.task /\ i = t[1] /\ n = t[2] /\ v = inst[i].version
    /\ t \in TaskKeys /\ i \in Instances /\ n \in NodesOf(v)
    /\ task[t] = "pending" /\ Passes(t)
    /\ Running(i) /\ inst[i].node = n /\ inst[i] # NoInstance
    /\ node # n /\ node \in Reach(v, n) /\ n \notin Reach(v, node)
    /\ \A k \in TaskKeys : tasks[k] = IF k = t THEN "approved" ELSE
                                      IF k \in Others(t) THEN "canceled" ELSE task[k]
    /\ escs = EscsCanceled(<<i, n>>)
    /\ Arrives(s, i, v, node, row, tasks, escs)
    /\ session[s].rid \in RequestIds /\ Recorded(s, i, row.status \in ClosedStatus)

LEMMA ApproveNodeArrives ==
    ASSUME IInv, NEW s \in Sessions, ApproveNode(s)
    PROVE  \E t, i, n, v, node, row, tasks, escs :
              Passing(s, t, i, n, v, node, row, tasks, escs)
  <1> DEFINE t == session[s].call.task
             i == t[1]
             n == t[2]
             v == inst[i].version
             ctx == inst[i].context
             route == Onward(v, ctx, n)
             node == Landing(v, ctx, n)
             rid == session[s].rid
             canceled == IF Others(t) # {} THEN Log("tasks_canceled", n, rid) ELSE <<>>
             row == Moved(i, node, ArrivalStatus(v, node))
             tasks == [Marked(task, Others(t), "canceled") EXCEPT ![t] = "approved"]
  <1>1. /\ Deciding(s, "approve") /\ Answer(s) /\ CanLeave(v, ctx, n)
        /\ task' = Marked(tasks, NewTasks(v, i, node, 0), "pending")
        /\ esc' = Marked(EscsCanceled(<<i, n>>), NewEscs(v, i, node), "pending")
        /\ inst' = [inst EXCEPT ![i] = row]
        /\ history' = [history EXCEPT ![i] =
                         @ \o Log("task_approve", n, rid) \o canceled
                           \o Log("node_approve", n, rid)
                           \o RouteLog(route, rid) \o ArrivalLog(v, node, rid)]
        /\ UNCHANGED <<version, current, due, rounds, worker, faults>>
    BY DEF ApproveNode
  <1>2. /\ t \in TaskKeys /\ i \in Instances /\ n \in Nodes /\ task[t] = "pending"
        /\ session[s].pc = "locked" /\ Running(i) /\ inst[i] \in Instance /\ inst[i].node = n
        /\ v \in AcceptedVersions /\ n \in NodesOf(v)
    BY <1>1, DecidingKnows
  <1>3. rid \in RequestIds /\ session[s].pc # "idle"
    BY <1>1, <1>2, AnswerTyped
  <1>4. ctx \in Contexts
    BY <1>2 DEF Instance
  <1>5. /\ v \in Versions /\ route \in Seq(NodesOf(v)) /\ route # <<>>
        /\ node \in NodesOf(v) /\ TypeOf(v, node) \in {"approval", "end"}
        /\ node # n /\ node \in Reach(v, n) /\ n \notin Reach(v, node)
    <2>1. v \in AcceptedVersions /\ ctx \in Contexts /\ n \in NodesOf(v)
          /\ CanLeave(v, ctx, n)
      BY <1>1, <1>2, <1>4
    <2> HIDE DEF v, n, ctx
    <2> QED
      BY ONLY <2>1, RouteLands
  <1>6. node \in Nodes /\ route \in Seq(Nodes)
    BY <1>5, SlotsAssumption, SeqMonotonic
  <1>7. row \in Instance /\ row.version = v /\ row.node = node
        /\ row.status = ArrivalStatus(v, node)
    BY <1>2, <1>3, <1>6, ArrivalTyped DEF Moved, Instance, ClosedStatus
  <1>8. history' \in [Instances -> Seq(Event)]
    <2>1. /\ Log("task_approve", n, rid) \in Seq(Event) /\ canceled \in Seq(Event)
          /\ Log("node_approve", n, rid) \in Seq(Event)
      <3>1. Log("tasks_canceled", n, rid) \in Seq(Event) /\ <<>> \in Seq(Event)
        BY <1>2, <1>3, LogTyped, EmptySeq DEF EventType
      <3> QED
        BY <1>2, <1>3, <3>1, LogTyped DEF EventType
    <2>2. RouteLog(route, rid) \in Seq(Event) /\ ArrivalLog(v, node, rid) \in Seq(Event)
      <3> HIDE DEF route, node, rid, v
      <3> QED
        BY <1>3, <1>5, <1>6, RouteLogTyped, ArrivalTyped
    <2>3. history[i] \in Seq(Event)
      BY <1>2 DEF IInv, TypeOK
    <2> HIDE DEF canceled, route, node, rid, v, n, i
    <2>4. history[i] \o Log("task_approve", n, rid) \o canceled \o Log("node_approve", n, rid)
             \o RouteLog(route, rid) \o ArrivalLog(v, node, rid) \in Seq(Event)
      BY <2>1, <2>2, <2>3, ConcatProperties
    <2> QED
      BY <1>1, <2>4 DEF IInv, TypeOK
  <1>9. tasks \in [TaskKeys -> TaskStatus] /\ task \in [TaskKeys -> TaskStatus]
        /\ \A k \in TaskKeys : tasks[k] = IF k = t THEN "approved" ELSE
                                          IF k \in Others(t) THEN "canceled" ELSE task[k]
    <2>1. task \in [TaskKeys -> TaskStatus]
      BY DEF IInv, TypeOK
    <2> HIDE DEF t
    <2> QED
      BY <1>2, <2>1 DEF Marked, TaskStatus
  <1>10. \A k \in TaskKeys : tasks[k] = "pending" => task[k] = "pending" /\ k[1] # i
    <2>1. SUFFICES ASSUME NEW k \in TaskKeys, tasks[k] = "pending"
                   PROVE  task[k] = "pending" /\ k[1] # i
      OBVIOUS
    <2>2. k # t /\ k \notin Others(t) /\ task[k] = "pending"
      BY <1>9, <2>1
    <2>3. inst[k[1]].node = k[2]
      BY <2>2 DEF IInv, LiveWorkMatchesInstance, OpenTasksAtNode
    <2> QED
      BY <1>2, <2>2, <2>3 DEF Others, PendingTasks
  <1>11. \A k \in TaskKeys : k[1] # i => tasks[k] = task[k]
    BY <1>9 DEF Others, PendingTasks
  <1> DEFINE escs == EscsCanceled(<<i, n>>)
  <1>12. /\ escs \in [EscKeys -> EscStatus]
         /\ \A e \in EscKeys : escs[e] = "pending" => esc[e] = "pending" /\ e[1] # i
         /\ \A e \in EscKeys : escs[e] = "none" <=> esc[e] = "none"
    <2> DEFINE here == <<i, n>>
    <2>1. here \in EscKeys /\ escs = EscsCanceled(here)
      BY <1>2 DEF EscKeys
    <2>2. \A e \in EscKeys : esc[e] = "pending" /\ e[1] = i => e = here
      BY <1>2 DEF IInv, LiveWorkMatchesInstance, OpenEscsAtNode, EscKeys
    <2> HIDE DEF here, escs, i
    <2>3. /\ escs \in [EscKeys -> EscStatus] /\ escs[here] # "pending"
          /\ \A x \in EscKeys : escs[x] = "pending" => esc[x] = "pending"
          /\ \A x \in EscKeys : escs[x] = "none" <=> esc[x] = "none"
      BY <2>1, EscsCanceledFunction
    <2> QED
      BY <2>2, <2>3
  <1>16. Passes(t) /\ inst[i] # NoInstance
    <2>1. Passes(t)
      BY DEF ApproveNode
    <2>2. NoInstance.status # "running"
      BY DEF NoInstance
    <2>3. inst[i].status = "running"
      BY <1>2 DEF Running
    <2> HIDE DEF t, i
    <2> QED
      BY <2>1, <2>2, <2>3
  <1>17. t = session[s].call.task /\ i = t[1] /\ n = t[2] /\ v = inst[i].version
    OBVIOUS
  <1>18. escs = EscsCanceled(<<i, n>>) /\ rid = session[s].rid
    OBVIOUS
  <1>20. Recorded(s, i, row.status \in ClosedStatus)
    <2> DEFINE l1 == Log("task_approve", n, rid)
               l2 == l1 \o canceled
               l3 == l2 \o Log("node_approve", n, rid)
               l4 == l3 \o RouteLog(route, rid)
               log == l4 \o ArrivalLog(v, node, rid)
    <2>1. Writes(l1, rid, "task_approve" = "withdraw")
      BY <1>2, <1>3, WriteBegins
    <2>2. Writes(l1, rid, FALSE)
      BY <2>1 DEF Writes
    <2>3. Writes(l2, rid, FALSE)
      <3>1. CASE canceled = <<>>
        <4>1. l1 \o <<>> = l1
          BY <2>2, ConcatEmptySeq DEF Writes
        <4> HIDE DEF l1, canceled
        <4> QED
          BY <2>2, <3>1, <4>1
      <3>2. CASE canceled = Log("tasks_canceled", n, rid)
        <4>1. Quiet(Log("tasks_canceled", n, rid), rid)
          BY <1>2, <1>3, QuietLog
        <4> HIDE DEF l1, canceled
        <4> QED
          BY <2>2, <3>2, <4>1, WriteGoesOn
      <3> QED
        BY <3>1, <3>2
    <2>4. Quiet(Log("node_approve", n, rid), rid)
      BY <1>2, <1>3, QuietLog
    <2>5. Quiet(RouteLog(route, rid), rid)
      <3> HIDE DEF route, rid
      <3> QED
        BY <1>3, <1>5, <1>6, QuietRoute
    <2>6. Writes(l3, rid, FALSE)
      <3> HIDE DEF l2
      <3> QED
        BY <2>3, <2>4, WriteGoesOn
    <2>7. Writes(l4, rid, FALSE)
      <3> HIDE DEF l3, route
      <3> QED
        BY <2>5, <2>6, WriteGoesOn
    <2>8. Writes(log, rid, ArrivalStatus(v, node) \in ClosedStatus)
      <3> HIDE DEF l4, v, node, rid
      <3> QED
        BY <1>3, <1>6, <2>7, WriteArrives
    <2>9. history' = [history EXCEPT ![i] = @ \o log]
      <3>1. /\ history[i] \in Seq(Event) /\ l1 \in Seq(Event) /\ canceled \in Seq(Event)
            /\ Log("node_approve", n, rid) \in Seq(Event)
            /\ RouteLog(route, rid) \in Seq(Event) /\ ArrivalLog(v, node, rid) \in Seq(Event)
        <4>1. history[i] \in Seq(Event)
          BY <1>2 DEF IInv, TypeOK
        <4>2. l1 \in Seq(Event)
          BY <2>2 DEF Writes
        <4>3. canceled \in Seq(Event)
          BY <1>2, <1>3, LogIsOne, EmptySeq DEF EventType
        <4>4. ArrivalLog(v, node, rid) \in Seq(Event)
          BY <1>3, <1>6, ArrivalTyped
        <4> HIDE DEF canceled, route, node, v, rid, l1, n, i
        <4> QED
          BY <2>4, <2>5, <4>1, <4>2, <4>3, <4>4 DEF Quiet
      <3> DEFINE h == history[i]
                 g == Log("node_approve", n, rid)
                 p == RouteLog(route, rid)
                 q == ArrivalLog(v, node, rid)
      <3>2. history' = [history EXCEPT ![i] = (((((h \o l1) \o canceled) \o g) \o p) \o q)]
        BY <1>1
      <3>3. /\ l2 = l1 \o canceled /\ l3 = l2 \o g /\ l4 = l3 \o p /\ log = l4 \o q
            /\ l2 \in Seq(Event) /\ l3 \in Seq(Event) /\ l4 \in Seq(Event)
        BY <2>3, <2>6, <2>7 DEF Writes
      <3>4. /\ h \in Seq(Event) /\ l1 \in Seq(Event) /\ canceled \in Seq(Event)
            /\ g \in Seq(Event) /\ p \in Seq(Event) /\ q \in Seq(Event)
        BY <3>1
      <3> HIDE DEF h, g, p, q, l1, l2, l3, l4, canceled, log
      <3>5. (h \o l1) \o canceled = h \o l2
        <4>1. h \in Seq(Event) /\ l1 \in Seq(Event) /\ canceled \in Seq(Event)
          BY <3>3, <3>4
        <4>2. l2 = l1 \o canceled
          BY <3>3
        <4> QED
          BY ONLY <4>1, <4>2, LogsAssociate
      <3>6. (h \o l2) \o g = h \o l3
        <4>1. h \in Seq(Event) /\ l2 \in Seq(Event) /\ g \in Seq(Event)
          BY <3>3, <3>4
        <4>2. l3 = l2 \o g
          BY <3>3
        <4> QED
          BY ONLY <4>1, <4>2, LogsAssociate
      <3>7. (h \o l3) \o p = h \o l4
        <4>1. h \in Seq(Event) /\ l3 \in Seq(Event) /\ p \in Seq(Event)
          BY <3>3, <3>4
        <4>2. l4 = l3 \o p
          BY <3>3
        <4> QED
          BY ONLY <4>1, <4>2, LogsAssociate
      <3>8. (h \o l4) \o q = h \o log
        <4>1. h \in Seq(Event) /\ l4 \in Seq(Event) /\ q \in Seq(Event)
          BY <3>3, <3>4
        <4>2. log = l4 \o q
          BY <3>3
        <4> QED
          BY ONLY <4>1, <4>2, LogsAssociate
      <3> QED
        BY <3>2, <3>5, <3>6, <3>7, <3>8 DEF h
    <2>10. Writes(log, rid, row.status \in ClosedStatus)
      <3> HIDE DEF log, row
      <3> QED
        BY <1>7, <2>8
    <2> HIDE DEF log, row, i, rid
    <2> QED
      BY <1>18, <2>9, <2>10 DEF Recorded
  <1> HIDE DEF t, i, n, v, ctx, route, node, rid, canceled, row, tasks, escs
  <1>13. esc' = Marked(escs, NewEscs(v, i, node), "pending")
    BY <1>1 DEF escs
  <1>14. i \in Instances /\ v \in AcceptedVersions /\ inst[i].version = v
    BY <1>2 DEF v
  <1>15. Arrives(s, i, v, node, row, tasks, escs)
    BY <1>1, <1>3, <1>5, <1>7, <1>8, <1>9, <1>10, <1>11, <1>12, <1>13, <1>14 DEF Arrives
  <1>19. Passing(s, t, i, n, v, node, row, tasks, escs)
    BY <1>2, <1>3, <1>5, <1>9, <1>15, <1>16, <1>17, <1>18, <1>20 DEF Passing
  <1> QED
    BY <1>19

LEMMA ApproveNodeIInv == ASSUME IInv, NEW s \in Sessions, ApproveNode(s) PROVE IInv'
  <1>1. PICK t, i, n, v, node, row, tasks, escs :
            Passing(s, t, i, n, v, node, row, tasks, escs)
    BY ApproveNodeArrives
  <1> QED
    BY <1>1, ArriveIInv DEF Passing

(* The escalation in hand exists, and the instance it is for. *)
LEMMA HeadKnows ==
    ASSUME IInv, NEW w \in Workers, worker[w].pc # "idle"
    PROVE  LET e == Head(worker[w].batch) IN
           e \in EscKeys /\ esc[e] # "none" /\ inst[e[1]].status # "none"
             /\ e[1] \in Instances /\ HasTimeout(inst[e[1]].version, e[2])
  <1> DEFINE q == worker[w].batch
  <1>1. q \in Seq(EscKeys) /\ q # <<>> /\ esc[q[1]] # "none"
    BY EmptySeq DEF IInv, TypeOK, WorkersBound
  <1>2. Head(q) = q[1] /\ q[1] \in EscKeys
    BY <1>1, EmptySeq, ElementOfSeq
  <1> QED
    BY <1>1, <1>2 DEF IInv, EscsBound, EscKeys

LEMMA DropEscalationIInv ==
    ASSUME IInv, NEW w \in Workers, DropEscalation(w) PROVE IInv'
  <1> DEFINE e == Head(worker[w].batch)
  <1>1. /\ worker[w].pc # "idle" /\ NextInBatch(w)
        /\ esc' = [esc EXCEPT ![e] = "canceled"]
        /\ UNCHANGED <<version, current, inst, task, due, rounds, history, record,
                       session, faults>>
    BY DEF DropEscalation
  <1>2. e \in EscKeys /\ esc[e] # "none"
    BY <1>1, HeadKnows
  <1> HIDE DEF e
  <1>3. /\ esc' \in [EscKeys -> EscStatus]
        /\ \A x \in EscKeys : esc'[x] = "none" <=> esc[x] = "none"
        /\ \A x \in EscKeys : esc'[x] = "pending" => esc[x] = "pending"
    BY <1>1, <1>2 DEF IInv, TypeOK, EscStatus
  <1>4. worker' \in [Workers -> WorkerState] /\ WorkersBound'
    BY <1>1, <1>3, NextInBatchTyped
  <1>5. TypeOK' /\ CallsBound' /\ TemplatesAccepted' /\ InstancesBound'
    BY <1>1, <1>3, <1>4
    DEF IInv, TypeOK, WorkerState, CallsBound, TemplatesAccepted, InstancesBound, Running
  <1>6. EscsBound'
    BY <1>1, <1>3 DEF IInv, EscsBound
  <1>7. LiveWorkMatchesInstance'
    BY <1>1, <1>3
    DEF IInv, LiveWorkMatchesInstance, OpenTasksAtNode, OpenEscsAtNode, RunningHasWork
  <1> QED
    BY <1>4, <1>5, <1>6, <1>7 DEF IInv

(* _apply_escalation: the open tasks of the node give way to a new round. *)
Escalates(w, e, i, n, new) ==
    /\ e \in EscKeys /\ i = e[1] /\ n = e[2] /\ i \in Instances /\ n \in Nodes
    /\ Running(i) /\ inst[i].node = n /\ esc[e] # "none"
    /\ worker[w].pc # "idle" /\ NextInBatch(w)
    /\ rounds[e] + 1 \in 0 .. MaxRounds /\ rounds' = [rounds EXCEPT ![e] = rounds[e] + 1]
    /\ new \subseteq TaskKeys /\ new # {}
    /\ \A t \in new : t[1] = i /\ t[2] = n /\ t[3] = rounds[e] + 1
    /\ task' \in [TaskKeys -> TaskStatus]
    /\ \A t \in TaskKeys : task'[t] = IF t \in new THEN "pending" ELSE
                                      IF t \in PendingTasks(i, n) THEN "canceled" ELSE task[t]
    /\ esc' = [esc EXCEPT ![e] = "done"]
    /\ history' = [history EXCEPT ![i] = @ \o Log("escalate", n, 0)]
    /\ UNCHANGED <<version, current, inst, due, record, session, faults>>

LEMMA EscalateEscalates ==
    ASSUME IInv, NEW w \in Workers, Escalate(w)
    PROVE  \E e, i, n, new : Escalates(w, e, i, n, new)
  <1> DEFINE e == Head(worker[w].batch)
             i == e[1]
             n == e[2]
             r == rounds[e] + 1
             v == inst[i].version
             new == NewTasks(v, i, n, r)
             gone == PendingTasks(i, n)
  <1>1. /\ worker[w].pc # "idle" /\ NextInBatch(w) /\ StillWaiting(e) /\ r <= MaxRounds
        /\ task' = Marked(Marked(task, gone, "canceled"), new, "pending")
        /\ rounds' = [rounds EXCEPT ![e] = r]
        /\ history' = [history EXCEPT ![i] = @ \o Log("escalate", n, 0)]
        /\ esc' = [esc EXCEPT ![e] = "done"]
        /\ UNCHANGED <<version, current, inst, due, record, session, faults>>
    BY DEF Escalate
  <1>2. /\ e \in EscKeys /\ esc[e] # "none" /\ i \in Instances /\ n \in Nodes
        /\ HasTimeout(v, n)
    BY <1>1, HeadKnows DEF EscKeys
  <1>3. inst[i].status = "running" /\ inst[i].node = n
    BY <1>1 DEF StillWaiting, Running
  <1>4. v \in AcceptedVersions /\ v \in Versions /\ n \in NodesOf(v)
    BY <1>2, <1>3 DEF IInv, InstancesBound, AcceptedVersions
  <1>5. r \in 0 .. MaxRounds
    <2>1. rounds[e] \in 0 .. MaxRounds
      BY <1>2 DEF IInv, TypeOK
    <2> HIDE DEF e
    <2> QED
      BY <1>1, <2>1, SlotsAssumption
  <1>6. Crowd(v, n, r) \in Nat \ {0}
    <2> HIDE DEF v, n, r
    <2> QED
      BY <1>2, <1>4, <1>5, CrowdNotEmpty DEF HasTimeout
  <1>7. new \subseteq TaskKeys /\ (\A t \in new : t[1] = i /\ t[2] = n /\ t[3] = r) /\ new # {}
    <2> HIDE DEF v, n, r, i
    <2>1. new \subseteq TaskKeys /\ (\A t \in new : t[1] = i /\ t[2] = n) /\ new # {}
      BY <1>2, <1>4, <1>5, <1>6, NewTasksAreTasks
    <2>2. \A t \in new : t[3] = r
      BY DEF NewTasks
    <2> QED
      BY <2>1, <2>2
  <1>8. e[1] = i /\ e[2] = n /\ r = rounds[e] + 1 /\ gone = PendingTasks(i, n)
    OBVIOUS
  <1> HIDE DEF e, i, n, r, v, new, gone
  <1>9. /\ task' \in [TaskKeys -> TaskStatus]
        /\ \A t \in TaskKeys : task'[t] = IF t \in new THEN "pending" ELSE
                                          IF t \in gone THEN "canceled" ELSE task[t]
    <2>1. task \in [TaskKeys -> TaskStatus]
      BY DEF IInv, TypeOK
    <2> QED
      BY <1>1, <2>1 DEF Marked, TaskStatus
  <1>10. Escalates(w, e, i, n, new)
    BY <1>1, <1>2, <1>3, <1>5, <1>7, <1>8, <1>9 DEF Escalates, Running
  <1> QED
    BY <1>10

LEMMA EscalateIInv == ASSUME IInv, NEW w \in Workers, Escalate(w) PROVE IInv'
  <1>1. PICK e, i, n, new : Escalates(w, e, i, n, new)
    BY EscalateEscalates
  <1> USE <1>1 DEF Escalates
  <1>3. inst[i].status = "running"
    BY DEF Running
  <1>8. Log("escalate", n, 0) \in Seq(Event)
    BY LogTyped DEF EventType
  <1>10. /\ esc' \in [EscKeys -> EscStatus]
         /\ \A x \in EscKeys : esc'[x] = "none" <=> esc[x] = "none"
         /\ \A x \in EscKeys : esc'[x] = "pending" => esc[x] = "pending"
    BY DEF IInv, TypeOK, EscStatus
  <1>11. history' \in [Instances -> Seq(Event)]
    BY <1>8, ConcatProperties DEF IInv, TypeOK
  <1>12. rounds' \in [EscKeys -> 0 .. MaxRounds]
    BY DEF IInv, TypeOK
  <1>13. worker' \in [Workers -> WorkerState] /\ WorkersBound'
    BY <1>10, NextInBatchTyped
  <1>14. TypeOK'
    BY <1>10, <1>11, <1>12, <1>13 DEF IInv, TypeOK, WorkerState
  <1>15. CallsBound' /\ TemplatesAccepted' /\ InstancesBound'
    BY DEF IInv, CallsBound, TemplatesAccepted, InstancesBound, Running
  <1>16. EscsBound'
    BY <1>10 DEF IInv, EscsBound
  <1>17. OpenTasksAtNode'
    BY <1>3 DEF IInv, LiveWorkMatchesInstance, OpenTasksAtNode
  <1>18. OpenEscsAtNode'
    BY <1>10 DEF IInv, LiveWorkMatchesInstance, OpenEscsAtNode
  <1>19. RunningHasWork'
    <2> SUFFICES ASSUME NEW j \in Instances, inst[j].status = "running"
                 PROVE  \E t \in TaskKeys : t[1] = j /\ task'[t] = "pending"
      BY DEF RunningHasWork
    <2>1. CASE j = i
      BY <2>1
    <2>2. CASE j # i
      <3>1. PICK t \in TaskKeys : t[1] = j /\ task[t] = "pending"
        BY DEF IInv, LiveWorkMatchesInstance, RunningHasWork
      <3>2. t \notin new /\ t \notin PendingTasks(i, n)
        BY <2>2, <3>1 DEF PendingTasks
      <3> QED
        BY <3>1, <3>2
    <2> QED
      BY <2>1, <2>2
  <1> QED
    BY <1>13, <1>14, <1>15, <1>16, <1>17, <1>18, <1>19 DEF IInv, LiveWorkMatchesInstance

-----------------------------------------------------------------------------
(* Every step keeps the inductive invariant. *)
LEMMA StepIInv == IInv /\ [Next]_vars => IInv'
  <1>1. IInv /\ UNCHANGED vars => IInv'
    <2> SUFFICES ASSUME IInv, UNCHANGED vars PROVE IInv'
      OBVIOUS
    <2>1. UNCHANGED <<rowVars, worker>> /\ faults' \in 0 .. MaxFaults
          /\ session' \in [Sessions -> SessionState] /\ CallsBound'
      BY DEF IInv, TypeOK, vars, CallsBound
    <2> QED
      BY <2>1, SessionStepIInv
  <1>2. ASSUME IInv, NEW s \in Sessions, Finish(s) PROVE IInv'
    BY <1>2, CommitStartIInv, DecideAndWaitIInv, RejectNodeIInv, ApproveNodeIInv,
       CommitWithdrawIInv, RefuseIInv DEF Finish
  <1>3. ASSUME IInv, NEW w \in Workers, Apply(w) PROVE IInv'
    BY <1>3, EscalateIInv, DropEscalationIInv DEF Apply
  <1>4. IInv /\ Next => IInv'
    BY <1>2, <1>3, TemplateStepIInv, BeginIInv, LockInstanceIInv, AbortIInv, ElapseIInv,
       ClaimDueIInv, LockForEscalationIInv, FailEscalationIInv, WorkerCrashIInv,
       DeadlocksIInv DEF Next
  <1> QED
    BY <1>1, <1>4

THEOREM Invariance == Spec => []IInv
  BY InitIInv, StepIInv, PTL DEF Spec

(* Every row and every process state is of its type (models.py), whatever   *)
(* the interleaving, the faults and the number of replicas.                 *)
THEOREM TypeCorrect == Spec => []TypeOK
  <1>1. IInv => TypeOK
    BY DEF IInv
  <1> QED
    BY <1>1, Invariance, PTL

(* No interleaving of decisions, withdrawals, escalation workers, crashes   *)
(* and aborted transactions leaves open work at a node the instance has     *)
(* left or a running instance nobody can move (engine.py, 366-539, 571-619). *)
THEOREM OpenWorkIsLive == Spec => []LiveWorkMatchesInstance
  <1>1. IInv => LiveWorkMatchesInstance
    BY DEF IInv
  <1> QED
    BY <1>1, Invariance, PTL

-----------------------------------------------------------------------------
(* What an instance has left behind.  Rows of a node are written when the   *)
(* instance arrives there or is escalated there, so they are of a node it   *)
(* is at or has passed, and never of one that is still ahead of it.         *)
Visited(i, m) ==
    m = inst[i].node \/ m \notin Reach(inst[i].version, inst[i].node)

TasksBehind ==
    \A t \in TaskKeys : task[t] # "none" =>
        /\ inst[t[1]].status # "none"
        /\ Visited(t[1], t[2])
        /\ t[3] <= rounds[<<t[1], t[2]>>]

EscsBehind ==
    \A e \in EscKeys : esc[e] # "none" => Visited(e[1], e[2])

(* An escalation is canceled when its node is over. *)
CanceledIsOver ==
    \A e \in EscKeys : esc[e] = "canceled" =>
        ~(Running(e[1]) /\ inst[e[1]].node = e[2])

(* The answers at the node an instance is at: one rejection is the end of   *)
(* an "all" node, and only an escalation has canceled tasks there.          *)
AnswersHere ==
    \A t \in TaskKeys : Running(t[1]) /\ inst[t[1]].node = t[2] =>
        /\ task[t] = "rejected" => ModeAt(t) # "all"
        /\ task[t] = "canceled" => t[3] < rounds[<<t[1], t[2]>>]

BInv == TasksBehind /\ EscsBehind /\ CanceledIsOver /\ AnswersHere

(* What a step may do to what is settled, and when it may move an instance: *)
(* the two action properties, of one step.                                  *)
TasksSettled == \A t \in TaskKeys : task[t] \notin {"none", "pending"} => task'[t] = task[t]
EscsSettled ==
    \A e \in EscKeys : /\ esc[e] = "canceled" => esc'[e] = "canceled"
                       /\ esc[e] = "done" => esc'[e] \in {"done", "canceled"}
ClosedSettled ==
    \A i \in Instances : inst[i].status \in ClosedStatus =>
        inst'[i] = inst[i] /\ history'[i] = history[i]
VersionsKept ==
    \A i \in Instances : inst[i] # NoInstance => inst'[i].version = inst[i].version
LeavesPassed ==
    \A i \in Instances :
        inst[i] # NoInstance /\ inst'[i].node # inst[i].node =>
           PassedAt(i, inst[i].node, NodeOf(inst[i].version, inst[i].node).mode)
Keeps == TasksSettled /\ EscsSettled /\ ClosedSettled /\ VersionsKept /\ LeavesPassed

LEMMA InitBInv == Init => BInv
  <1> SUFFICES ASSUME Init PROVE BInv
    OBVIOUS
  <1>1. /\ \A t \in TaskKeys : task[t] = "none"
        /\ \A e \in EscKeys : esc[e] = "none"
    BY DEF Init
  <1> QED
    BY <1>1 DEF BInv, TasksBehind, EscsBehind, CanceledIsOver, AnswersHere

(* A step that writes none of the rows. *)
LEMMA QuietBInv ==
    ASSUME IInv, BInv, UNCHANGED <<inst, task, esc, rounds, history>>
    PROVE  BInv' /\ Keeps
  <1>1. BInv'
    BY DEF BInv, TasksBehind, EscsBehind, CanceledIsOver, AnswersHere, Visited, Running, ModeAt
  <1>2. Keeps
    BY DEF Keeps, TasksSettled, EscsSettled, ClosedSettled, VersionsKept, LeavesPassed
  <1> QED
    BY <1>1, <1>2

LEMMA KeyParts ==
    /\ \A t \in TaskKeys : t[1] \in Instances /\ t[2] \in Nodes /\ t[3] \in 0 .. MaxRounds
                           /\ <<t[1], t[2]>> \in EscKeys
    /\ \A e \in EscKeys : e[1] \in Instances /\ e[2] \in Nodes /\ e = <<e[1], e[2]>>
  BY DEF TaskKeys, EscKeys

LEMMA WaitBInv ==
    ASSUME IInv, BInv, NEW s \in Sessions, NEW t, NEW status, Waits(s, t, status)
    PROVE  BInv' /\ Keeps
  <1>1. /\ t \in TaskKeys /\ task[t] = "pending" /\ status \in {"approved", "rejected"}
        /\ status = "rejected" => ModeAt(t) # "all"
        /\ UNCHANGED <<inst, esc, rounds>> /\ Running(t[1]) /\ inst[t[1]].node = t[2]
    BY DEF Waits, Fails
  <1>2. \A k \in TaskKeys : task'[k] = IF k = t THEN status ELSE task[k]
    BY DEF Waits, IInv, TypeOK
  <1>3. history' \in [Instances -> Seq(Event)]
         /\ \A i \in Instances : i # t[1] => history'[i] = history[i]
    BY ConcatProperties DEF Waits, Recorded, Writes, IInv, TypeOK
  <1>4. TasksBehind'
    BY <1>1, <1>2 DEF BInv, TasksBehind, Visited
  <1>5. EscsBehind' /\ CanceledIsOver'
    BY <1>1 DEF BInv, EscsBehind, CanceledIsOver, Visited, Running
  <1>6. AnswersHere'
    BY <1>1, <1>2 DEF BInv, AnswersHere, Running, ModeAt
  <1>7. TasksSettled /\ EscsSettled /\ VersionsKept /\ LeavesPassed
    BY <1>1, <1>2 DEF TasksSettled, EscsSettled, VersionsKept, LeavesPassed
  <1>8. ClosedSettled
    BY <1>1, <1>3 DEF ClosedSettled, ClosedStatus, Running
  <1> QED
    BY <1>4, <1>5, <1>6, <1>7, <1>8 DEF BInv, Keeps

LEMMA CloseBInv ==
    ASSUME IInv, BInv, NEW s \in Sessions, NEW i, NEW status, Closes(s, i, status)
    PROVE  BInv' /\ Keeps
  <1> DEFINE n == inst[i].node
  <1>1. /\ i \in Instances /\ Running(i) /\ inst[i] \in Instance /\ status \in ClosedStatus
        /\ rounds' = rounds
    BY DEF Closes
  <1>2. \A t \in TaskKeys : /\ task[t] = "none" => task'[t] = "none"
                            /\ task[t] # "pending" => task'[t] = task[t]
                            /\ t[1] # i => task'[t] = task[t]
    BY DEF Closes
  <1>3. /\ \A e \in EscKeys : e # <<i, n>> => esc'[e] = esc[e]
        /\ \A e \in EscKeys : esc'[e] = "none" <=> esc[e] = "none"
        /\ \A e \in EscKeys : esc[e] # "pending" => esc'[e] = esc[e]
    <2> DEFINE here == <<i, n>>
    <2>1. here \in EscKeys /\ esc' = EscsCanceled(here)
      BY <1>1 DEF Closes, Instance, EscKeys
    <2>2. esc \in [EscKeys -> EscStatus]
      BY DEF IInv, TypeOK
    <2> HIDE DEF here
    <2> QED
      BY <2>1, <2>2 DEF EscsCanceled, Marked, here
  <1>4. \A j \in Instances : /\ j # i => inst'[j] = inst[j]
                             /\ j = i => /\ inst'[j].version = inst[j].version
                                         /\ inst'[j].node = inst[j].node
                                         /\ inst'[j].status = status
    BY <1>1 DEF Closes, IInv, TypeOK, Moved
  <1>5. \A j \in Instances : j # i => history'[j] = history[j]
    BY ConcatProperties DEF Closes, Recorded, Writes, IInv, TypeOK
  <1>6. status # "running" /\ status # "none" /\ inst[i].status = "running"
        /\ "running" \notin ClosedStatus
    BY <1>1 DEF ClosedStatus, Running
  <1> HIDE DEF n
  <1>7. TasksBehind'
    <2> SUFFICES ASSUME NEW t \in TaskKeys, task'[t] # "none"
                 PROVE  /\ inst'[t[1]].status # "none"
                        /\ Visited(t[1], t[2])'
                        /\ t[3] <= rounds'[<<t[1], t[2]>>]
      BY DEF TasksBehind
    <2>1. t[1] \in Instances
      BY KeyParts
    <2>2. task[t] # "none"
      BY <1>2
    <2>3. /\ inst[t[1]].status # "none" /\ Visited(t[1], t[2])
          /\ t[3] <= rounds[<<t[1], t[2]>>]
      BY <2>2 DEF BInv, TasksBehind
    <2>4. /\ inst'[t[1]].version = inst[t[1]].version /\ inst'[t[1]].node = inst[t[1]].node
          /\ inst'[t[1]].status # "none"
      BY <1>4, <1>6, <2>1, <2>3
    <2> QED
      BY <1>1, <2>3, <2>4 DEF Visited
  <1>8. EscsBehind'
    <2> SUFFICES ASSUME NEW e \in EscKeys, esc'[e] # "none"
                 PROVE  Visited(e[1], e[2])'
      BY DEF EscsBehind
    <2>1. e[1] \in Instances /\ Visited(e[1], e[2])
      BY <1>3, KeyParts DEF BInv, EscsBehind
    <2>2. inst'[e[1]].version = inst[e[1]].version /\ inst'[e[1]].node = inst[e[1]].node
      BY <1>4, <2>1
    <2> QED
      BY <2>1, <2>2 DEF Visited
  <1>9. CanceledIsOver'
    <2> SUFFICES ASSUME NEW e \in EscKeys, esc'[e] = "canceled",
                        inst'[e[1]].status = "running", inst'[e[1]].node = e[2]
                 PROVE  FALSE
      BY DEF CanceledIsOver, Running
    <2>1. e[1] \in Instances /\ e = <<e[1], e[2]>>
      BY KeyParts
    <2>2. e[1] # i
      BY <1>4, <1>6, <2>1
    <2>3. e # <<i, n>>
      BY <2>1, <2>2
    <2> QED
      BY <1>3, <1>4, <2>1, <2>2, <2>3 DEF BInv, CanceledIsOver, Running
  <1>10. AnswersHere'
    <2> SUFFICES ASSUME NEW t \in TaskKeys,
                        inst'[t[1]].status = "running", inst'[t[1]].node = t[2]
                 PROVE  /\ task'[t] = "rejected" => ModeAt(t)' # "all"
                        /\ task'[t] = "canceled" => t[3] < rounds'[<<t[1], t[2]>>]
      BY DEF AnswersHere, Running
    <2>1. t[1] \in Instances /\ t[1] # i
      BY <1>4, <1>6, KeyParts
    <2> QED
      BY <1>1, <1>2, <1>4, <2>1 DEF BInv, AnswersHere, Running, ModeAt
  <1>11. TasksSettled /\ EscsSettled
    BY <1>2, <1>3 DEF TasksSettled, EscsSettled
  <1>12. ClosedSettled /\ VersionsKept /\ LeavesPassed
    BY <1>4, <1>5, <1>6 DEF ClosedSettled, VersionsKept, LeavesPassed
  <1> QED
    BY <1>7, <1>8, <1>9, <1>10, <1>11, <1>12 DEF BInv, Keeps

(* Where an instance arrives, it has not been. *)
Ahead(i, v, node) ==
    \/ inst[i].status = "none"
    \/ /\ inst[i].status # "none" /\ inst[i].version = v
       /\ node \in Reach(v, inst[i].node) /\ inst[i].node # node
       /\ inst[i].node \notin Reach(v, node)

LEMMA NothingAhead ==
    ASSUME IInv, BInv, NEW i \in Instances, NEW v \in AcceptedVersions,
           NEW node \in NodesOf(v), Ahead(i, v, node)
    PROVE  /\ \A t \in TaskKeys : task[t] # "none" /\ t[1] = i =>
                 t[2] # node /\ t[2] \notin Reach(v, node)
           /\ \A e \in EscKeys : esc[e] # "none" /\ e[1] = i =>
                 e[2] # node /\ e[2] \notin Reach(v, node)
  <1>1. node \in Reach(v, node)
    BY ReachFacts
  <1>2. CASE inst[i].status = "none"
    BY <1>2 DEF BInv, TasksBehind, IInv, EscsBound
  <1>3. CASE inst[i].status # "none"
    <2> DEFINE n == inst[i].node
    <2>1. /\ inst[i].version = v /\ n \in NodesOf(v)
          /\ node \in Reach(v, n) /\ n # node /\ n \notin Reach(v, node)
      BY <1>3 DEF Ahead, IInv, InstancesBound
    <2>2. Reach(v, node) \subseteq Reach(v, n)
      <3> HIDE DEF n
      <3> QED
        BY <2>1, ReachFacts
    <2>3. \A m : Visited(i, m) => m # node /\ m \notin Reach(v, node)
      BY <1>1, <2>1, <2>2 DEF Visited
    <2>4. \A t \in TaskKeys : task[t] # "none" => Visited(t[1], t[2])
      BY DEF BInv, TasksBehind
    <2>5. \A e \in EscKeys : esc[e] # "none" => Visited(e[1], e[2])
      BY DEF BInv, EscsBehind
    <2> QED
      BY <2>3, <2>4, <2>5
  <1> QED
    BY <1>2, <1>3

LEMMA ArriveBInv ==
    ASSUME IInv, BInv, NEW s \in Sessions, NEW i \in Instances, NEW v, NEW node, NEW row,
           NEW tasks, NEW escs, Arrives(s, i, v, node, row, tasks, escs),
           Ahead(i, v, node),
           \A t \in TaskKeys : tasks[t] # "none" => task[t] # "none",
           \A e \in EscKeys : e[1] # i => escs[e] = esc[e]
    PROVE  /\ BInv'
           /\ \A t \in TaskKeys : task'[t] # tasks[t] => tasks[t] = "none" /\ t[2] = node
           /\ \A t \in TaskKeys : task'[t] = "pending" /\ t[1] = i => t[2] = node
           /\ \A e \in EscKeys : esc'[e] # escs[e] => escs[e] = "none"
  <1> DEFINE new == NewTasks(v, i, node, 0)
             newEsc == NewEscs(v, i, node)
  <1>1. v \in AcceptedVersions /\ node \in NodesOf(v) /\ node \in Nodes
    BY SlotsAssumption DEF Arrives, AcceptedVersions
  <1>2. \A t \in new : t[1] = i /\ t[2] = node /\ t[3] = 0
    BY DEF NewTasks
  <1>3. \A e \in newEsc : e[1] = i /\ e[2] = node
    BY DEF NewEscs
  <1>4. /\ \A t \in TaskKeys : task[t] # "none" /\ t[1] = i =>
              t[2] # node /\ t[2] \notin Reach(v, node)
        /\ \A e \in EscKeys : esc[e] # "none" /\ e[1] = i =>
              e[2] # node /\ e[2] \notin Reach(v, node)
    BY <1>1, NothingAhead
  <1> HIDE DEF new, newEsc
  <1>5. \A t \in TaskKeys : task'[t] = IF t \in new THEN "pending" ELSE tasks[t]
    BY DEF Arrives, Marked, new
  <1>6. \A e \in EscKeys : esc'[e] = IF e \in newEsc THEN "pending" ELSE escs[e]
    BY DEF Arrives, Marked, newEsc
  <1>7. /\ \A t \in TaskKeys : t[1] # i => tasks[t] = task[t]
        /\ \A t \in TaskKeys : tasks[t] = "pending" => t[1] # i
        /\ \A e \in EscKeys : escs[e] = "none" <=> esc[e] = "none"
        /\ rounds' = rounds
    BY DEF Arrives
  <1>8. \A j \in Instances : inst'[j] = IF j = i THEN row ELSE inst[j]
    BY DEF Arrives, IInv, TypeOK
  <1>9. row.version = v /\ row.node = node /\ row.status \in {"running", "completed"}
    BY DEF Arrives, ArrivalStatus
  <1>10. \A t \in TaskKeys : t[1] \in Instances /\ rounds[<<t[1], t[2]>>] \in 0 .. MaxRounds
    BY KeyParts DEF IInv, TypeOK
  <1>11. TasksBehind'
    <2> SUFFICES ASSUME NEW t \in TaskKeys, task'[t] # "none"
                 PROVE  /\ inst'[t[1]].status # "none"
                        /\ Visited(t[1], t[2])'
                        /\ t[3] <= rounds'[<<t[1], t[2]>>]
      BY DEF TasksBehind
    <2>1. CASE t \in new
      <3>1. t[3] <= rounds[<<t[1], t[2]>>]
        BY <1>2, <1>10, <2>1, SlotsAssumption
      <3>2. t[1] = i /\ inst'[t[1]] = row /\ t[2] = node
        BY <1>2, <1>8, <2>1
      <3> QED
        BY <1>7, <1>9, <3>1, <3>2 DEF Visited
    <2>2. CASE t \notin new
      <3>1. task[t] # "none"
        BY <1>5, <2>2
      <3>2. inst[t[1]].status # "none" /\ t[3] <= rounds[<<t[1], t[2]>>] /\ Visited(t[1], t[2])
        BY <3>1 DEF BInv, TasksBehind
      <3>3. CASE t[1] = i
        BY <1>4, <1>7, <1>8, <1>9, <1>10, <3>1, <3>2, <3>3 DEF Visited
      <3>4. CASE t[1] # i
        BY <1>7, <1>8, <1>10, <3>2, <3>4 DEF Visited
      <3> QED
        BY <3>3, <3>4
    <2> QED
      BY <2>1, <2>2
  <1>12. EscsBehind'
    <2> SUFFICES ASSUME NEW e \in EscKeys, esc'[e] # "none" PROVE Visited(e[1], e[2])'
      BY DEF EscsBehind
    <2>1. e[1] \in Instances
      BY KeyParts
    <2>2. CASE e \in newEsc
      BY <1>3, <1>8, <1>9, <2>1, <2>2 DEF Visited
    <2>3. CASE e \notin newEsc
      <3>1. esc[e] # "none"
        BY <1>6, <1>7, <2>3
      <3>2. Visited(e[1], e[2])
        BY <3>1 DEF BInv, EscsBehind
      <3>3. CASE e[1] = i
        BY <1>4, <1>8, <1>9, <2>1, <3>1, <3>3 DEF Visited
      <3>4. CASE e[1] # i
        BY <1>8, <2>1, <3>2, <3>4 DEF Visited
      <3> QED
        BY <3>3, <3>4
    <2> QED
      BY <2>2, <2>3
  <1>13. CanceledIsOver'
    <2> SUFFICES ASSUME NEW e \in EscKeys, esc'[e] = "canceled",
                        inst'[e[1]].status = "running", inst'[e[1]].node = e[2]
                 PROVE  FALSE
      BY DEF CanceledIsOver, Running
    <2>1. e[1] \in Instances /\ escs[e] = "canceled" /\ esc[e] # "none"
      BY <1>6, <1>7, KeyParts
    <2>2. CASE e[1] = i
      BY <1>4, <1>8, <1>9, <2>1, <2>2
    <2>3. CASE e[1] # i
      BY <1>8, <2>1, <2>3 DEF BInv, CanceledIsOver, Running
    <2> QED
      BY <2>2, <2>3
  <1>14. AnswersHere'
    <2> SUFFICES ASSUME NEW t \in TaskKeys,
                        inst'[t[1]].status = "running", inst'[t[1]].node = t[2]
                 PROVE  /\ task'[t] = "rejected" => ModeAt(t)' # "all"
                        /\ task'[t] = "canceled" => t[3] < rounds'[<<t[1], t[2]>>]
      BY DEF AnswersHere, Running
    <2>1. t[1] \in Instances
      BY KeyParts
    <2>2. CASE t[1] = i
      <3>1. task[t] = "none"
        BY <1>4, <1>8, <1>9, <2>1, <2>2
      <3>2. task'[t] \in {"pending", "none"}
        BY <1>5, <3>1
      <3> QED
        BY <3>2
    <2>3. CASE t[1] # i
      <3>1. task'[t] = task[t] /\ inst'[t[1]] = inst[t[1]]
        BY <1>2, <1>5, <1>7, <1>8, <2>1, <2>3
      <3> QED
        BY <1>7, <3>1 DEF BInv, AnswersHere, Running, ModeAt
    <2> QED
      BY <2>2, <2>3
  <1>15. \A t \in TaskKeys : task'[t] # tasks[t] => tasks[t] = "none" /\ t[2] = node
    BY <1>2, <1>4, <1>5
  <1>16. \A t \in TaskKeys : task'[t] = "pending" /\ t[1] = i => t[2] = node
    BY <1>2, <1>5, <1>7
  <1>17. \A e \in EscKeys : esc'[e] # escs[e] => escs[e] = "none"
    BY <1>3, <1>4, <1>6, <1>7
  <1> QED
    BY <1>11, <1>12, <1>13, <1>14, <1>15, <1>16, <1>17 DEF BInv

LEMMA StartBInv ==
    ASSUME IInv, BInv, NEW s \in Sessions, NEW i, NEW v, NEW node, NEW row,
           Starts(s, i, v, node, row)
    PROVE  BInv' /\ Keeps
  <1>1. /\ i \in Instances /\ inst[i] = NoInstance /\ inst[i].status = "none"
        /\ Arrives(s, i, v, node, row, task, esc)
    BY DEF Starts
  <1>2. Ahead(i, v, node)
    BY <1>1 DEF Ahead
  <1>3. /\ BInv'
        /\ \A t \in TaskKeys : task'[t] # task[t] => task[t] = "none"
        /\ \A e \in EscKeys : esc'[e] # esc[e] => esc[e] = "none"
    BY <1>1, <1>2, ArriveBInv
  <1>4. \A j \in Instances : j # i => inst'[j] = inst[j] /\ history'[j] = history[j]
    BY <1>1 DEF Starts, Arrives, IInv, TypeOK
  <1>5. TasksSettled /\ EscsSettled
    BY <1>3 DEF TasksSettled, EscsSettled
  <1>6. ClosedSettled /\ VersionsKept /\ LeavesPassed
    BY <1>1, <1>4 DEF ClosedSettled, VersionsKept, LeavesPassed, ClosedStatus
  <1> QED
    BY <1>3, <1>5, <1>6 DEF Keeps

LEMMA PassBInv ==
    ASSUME IInv, BInv, NEW s \in Sessions, NEW t, NEW i, NEW n, NEW v, NEW node, NEW row,
           NEW tasks, NEW escs, Passing(s, t, i, n, v, node, row, tasks, escs)
    PROVE  BInv' /\ Keeps
  <1>1. /\ i = t[1] /\ n = t[2] /\ v = inst[i].version
        /\ t \in TaskKeys /\ i \in Instances /\ n \in NodesOf(v)
        /\ task[t] = "pending" /\ Passes(t)
        /\ inst[i].status = "running" /\ inst[i].node = n
        /\ node # n /\ node \in Reach(v, n) /\ n \notin Reach(v, node)
        /\ Arrives(s, i, v, node, row, tasks, escs)
    BY DEF Passing, Running
  <1>2. \A k \in TaskKeys : tasks[k] = IF k = t THEN "approved" ELSE
                                       IF k \in Others(t) THEN "canceled" ELSE task[k]
    BY DEF Passing
  <1>3. \A k \in Others(t) : task[k] = "pending" /\ k[1] = i /\ k[2] = n
    BY <1>1 DEF Others, PendingTasks
  <1>4. Ahead(i, v, node)
    BY <1>1 DEF Ahead
  <1>5. \A e \in EscKeys : /\ e # <<i, n>> => escs[e] = esc[e]
                           /\ esc[e] # "pending" => escs[e] = esc[e]
    <2> DEFINE here == <<i, n>>
    <2>1. escs = EscsCanceled(here) /\ esc \in [EscKeys -> EscStatus]
      BY DEF Passing, IInv, TypeOK
    <2> HIDE DEF here
    <2> QED
      BY <2>1 DEF EscsCanceled, Marked, here
  <1>6. \A e \in EscKeys : e[1] # i => escs[e] = esc[e]
    BY <1>5
  <1>7. \A k \in TaskKeys : tasks[k] # "none" => task[k] # "none"
    BY <1>1, <1>2, <1>3
  <1>8. /\ BInv'
        /\ \A k \in TaskKeys : task'[k] # tasks[k] => tasks[k] = "none" /\ k[2] = node
        /\ \A k \in TaskKeys : task'[k] = "pending" /\ k[1] = i => k[2] = node
        /\ \A e \in EscKeys : esc'[e] # escs[e] => escs[e] = "none"
    BY <1>1, <1>4, <1>6, <1>7, ArriveBInv
  <1>9. \A j \in Instances : /\ j # i => inst'[j] = inst[j] /\ history'[j] = history[j]
                             /\ j = i => inst'[j].version = v
    BY <1>1, ConcatProperties DEF Passing, Recorded, Writes, Arrives, IInv, TypeOK
  <1>10. TasksSettled /\ EscsSettled
    BY <1>1, <1>2, <1>3, <1>5, <1>8 DEF TasksSettled, EscsSettled
  <1>11. ClosedSettled /\ VersionsKept
    BY <1>1, <1>9 DEF ClosedSettled, VersionsKept, ClosedStatus
  <1>12. LeavesPassed
    <2> SUFFICES PassedAt(i, n, NodeOf(v, n).mode)
      BY <1>1, <1>9 DEF LeavesPassed
    <2>1. task'[t] = "approved"
      BY <1>1, <1>2, <1>8
    <2>2. \A k \in TaskKeys : k[1] = i /\ k[2] = n => task'[k] # "pending"
      BY <1>1, <1>8
    <2>3. ASSUME NodeOf(v, n).mode = "all", NEW k \in TaskKeys, k[1] = i, k[2] = n
          PROVE  /\ task'[k] # "rejected"
                 /\ task'[k] = "canceled" => k[3] < rounds[<<i, n>>]
      <3>1. Others(t) = {}
        BY <1>1, <2>3 DEF Passes, ModeAt
      <3>2. k # t => task'[k] = task[k]
        BY <1>1, <1>2, <1>8, <2>3, <3>1
      <3>3. /\ task[k] = "rejected" => ModeAt(k) # "all"
            /\ task[k] = "canceled" => k[3] < rounds[<<i, n>>]
        BY <1>1, <2>3 DEF BInv, AnswersHere, Running
      <3> QED
        BY <1>1, <2>1, <2>3, <3>2, <3>3 DEF ModeAt
    <2> QED
      BY <1>1, <2>1, <2>2, <2>3 DEF PassedAt
  <1> QED
    BY <1>8, <1>10, <1>11, <1>12 DEF Keeps

LEMMA EscalateBInv ==
    ASSUME IInv, BInv, NEW w \in Workers, NEW e, NEW i, NEW n, NEW new,
           Escalates(w, e, i, n, new)
    PROVE  BInv' /\ Keeps
  <1> DEFINE gone == PendingTasks(i, n)
             r == rounds[e] + 1
  <1>1. /\ e \in EscKeys /\ i = e[1] /\ n = e[2] /\ i \in Instances /\ e = <<i, n>>
        /\ inst[i].status = "running" /\ inst[i].node = n /\ esc[e] # "none"
        /\ new \subseteq TaskKeys /\ inst' = inst
        /\ \A t \in new : t[1] = i /\ t[2] = n /\ t[3] = r
    BY KeyParts DEF Escalates, Running
  <1>2. \A t \in TaskKeys : task'[t] = IF t \in new THEN "pending" ELSE
                                       IF t \in gone THEN "canceled" ELSE task[t]
    BY DEF Escalates
  <1>3. \A x \in EscKeys : /\ esc'[x] = IF x = e THEN "done" ELSE esc[x]
                           /\ rounds'[x] = IF x = e THEN r ELSE rounds[x]
                           /\ rounds[x] \in 0 .. MaxRounds
    BY <1>1 DEF Escalates, IInv, TypeOK
  <1>4. \A t \in gone : task[t] = "pending" /\ t[1] = i /\ t[2] = n
    BY DEF PendingTasks
  <1>5. rounds[e] \in Nat /\ r = rounds[e] + 1 /\ MaxRounds \in Nat
    BY <1>1, <1>3, SlotsAssumption
  <1> HIDE DEF gone, r
  <1>6. \A t \in TaskKeys : /\ t[3] \in Int /\ <<t[1], t[2]>> \in EscKeys
                            /\ <<t[1], t[2]>> = e <=> (t[1] = i /\ t[2] = n)
    <2> TAKE t \in TaskKeys
    <2>1. t[3] \in 0 .. MaxRounds /\ <<t[1], t[2]>> \in EscKeys
      BY KeyParts
    <2>2. <<t[1], t[2]>> = <<i, n>> <=> (t[1] = i /\ t[2] = n)
      OBVIOUS
    <2> QED
      BY <1>1, <1>5, <2>1, <2>2
  <1>7. \A t \in TaskKeys : task[t] # "none" => t[3] <= rounds[<<t[1], t[2]>>]
    BY DEF BInv, TasksBehind
  <1>8. \A t \in new : task[t] = "none"
    <2> SUFFICES ASSUME NEW t \in new, task[t] # "none" PROVE FALSE
      OBVIOUS
    <2>1. t \in TaskKeys /\ t[3] = r /\ <<t[1], t[2]>> = e
      BY <1>1, <1>6
    <2>2. t[3] <= rounds[e]
      BY <1>7, <2>1
    <2>3. rounds[e] + 1 <= rounds[e]
      BY <1>5, <2>1, <2>2
    <2> QED
      BY ONLY <1>5, <2>3
  <1>10. TasksBehind'
    <2> SUFFICES ASSUME NEW t \in TaskKeys, task'[t] # "none"
                 PROVE  /\ inst[t[1]].status # "none" /\ Visited(t[1], t[2])
                        /\ t[3] <= rounds'[<<t[1], t[2]>>]
      BY <1>1 DEF TasksBehind, Visited
    <2>1. CASE t \in new
      BY <1>1, <1>3, <1>5, <1>6, <2>1 DEF Visited
    <2>2. CASE t \notin new
      <3>1. task[t] # "none"
        BY <1>2, <1>4, <2>2
      <3>2. /\ inst[t[1]].status # "none" /\ Visited(t[1], t[2])
            /\ t[3] <= rounds[<<t[1], t[2]>>]
        BY <3>1 DEF BInv, TasksBehind
      <3> QED
        BY <1>3, <1>5, <1>6, <3>2
    <2> QED
      BY <2>1, <2>2
  <1>11. EscsBehind'
    BY <1>1, <1>3 DEF BInv, EscsBehind, Visited
  <1>12. CanceledIsOver'
    BY <1>1, <1>3 DEF BInv, CanceledIsOver, Running
  <1>13. AnswersHere'
    <2> SUFFICES ASSUME NEW t \in TaskKeys, Running(t[1]), inst[t[1]].node = t[2]
                 PROVE  /\ task'[t] = "rejected" => ModeAt(t) # "all"
                        /\ task'[t] = "canceled" => t[3] < rounds'[<<t[1], t[2]>>]
      BY <1>1 DEF AnswersHere, Running, ModeAt
    <2>1. /\ task[t] = "rejected" => ModeAt(t) # "all"
          /\ task[t] = "canceled" => t[3] < rounds[<<t[1], t[2]>>]
      BY DEF BInv, AnswersHere
    <2>2. task'[t] = "rejected" => task[t] = "rejected"
      BY <1>2
    <2>3. ASSUME task'[t] = "canceled" PROVE t[3] < rounds'[<<t[1], t[2]>>]
      <3>1. t \notin new
        BY <1>2, <2>3
      <3>2. CASE t \in gone
        BY <1>1, <1>3, <1>4, <1>5, <1>6, <1>7, <3>2
      <3>3. CASE t \notin gone
        BY <1>2, <1>3, <1>5, <1>6, <2>1, <2>3, <3>1, <3>3
      <3> QED
        BY <3>2, <3>3
    <2> QED
      BY <2>1, <2>2, <2>3
  <1>14. TasksSettled
    BY <1>2, <1>4, <1>8 DEF TasksSettled
  <1>15. EscsSettled
    <2>1. esc[e] # "canceled"
      BY <1>1 DEF BInv, CanceledIsOver, Running
    <2> QED
      BY <1>3, <2>1 DEF EscsSettled
  <1>16. ClosedSettled
    <2>1. \A j \in Instances : j # i => history'[j] = history[j]
      BY DEF Escalates, IInv, TypeOK
    <2> QED
      BY <1>1, <2>1 DEF ClosedSettled, ClosedStatus
  <1>17. VersionsKept /\ LeavesPassed
    BY <1>1 DEF VersionsKept, LeavesPassed
  <1> QED
    BY <1>10, <1>11, <1>12, <1>13, <1>14, <1>15, <1>16, <1>17 DEF BInv, Keeps

LEMMA DropBInv ==
    ASSUME IInv, BInv, NEW w \in Workers, DropEscalation(w)
    PROVE  BInv' /\ Keeps
  <1> DEFINE e == Head(worker[w].batch)
  <1>1. /\ worker[w].pc # "idle" /\ ~StillWaiting(e) /\ esc' = [esc EXCEPT ![e] = "canceled"]
        /\ UNCHANGED <<inst, task, rounds, history>>
    BY DEF DropEscalation
  <1>2. e \in EscKeys /\ esc[e] # "none" /\ e[1] \in Instances
    BY <1>1, HeadKnows
  <1> HIDE DEF e
  <1>3. \A x \in EscKeys : esc'[x] = IF x = e THEN "canceled" ELSE esc[x]
    BY <1>1, <1>2 DEF IInv, TypeOK
  <1>4. ~(Running(e[1]) /\ inst[e[1]].node = e[2])
    <2> SUFFICES ASSUME Running(e[1]), inst[e[1]].node = e[2]
                 PROVE  PendingTasks(e[1], e[2]) # {}
      BY <1>1 DEF StillWaiting
    <2>1. PICK t \in TaskKeys : t[1] = e[1] /\ task[t] = "pending"
      BY <1>2 DEF IInv, LiveWorkMatchesInstance, RunningHasWork, Running
    <2>2. t[2] = e[2]
      BY <2>1 DEF IInv, LiveWorkMatchesInstance, OpenTasksAtNode
    <2> QED
      BY <2>1, <2>2 DEF PendingTasks
  <1>5. TasksBehind' /\ AnswersHere'
    BY <1>1 DEF BInv, TasksBehind, AnswersHere, Visited, Running, ModeAt
  <1>6. EscsBehind'
    BY <1>1, <1>2, <1>3 DEF BInv, EscsBehind, Visited
  <1>7. CanceledIsOver'
    BY <1>1, <1>3, <1>4 DEF BInv, CanceledIsOver, Running
  <1>8. Keeps
    BY <1>1, <1>3
    DEF Keeps, TasksSettled, EscsSettled, ClosedSettled, VersionsKept, LeavesPassed
  <1> QED
    BY <1>5, <1>6, <1>7, <1>8 DEF BInv

(* Every other step writes neither the rows nor the history. *)
LEMMA StepKinds ==
    ASSUME [Next]_vars
    PROVE  \/ UNCHANGED <<inst, task, esc, rounds, history, record>>
           \/ \E s \in Sessions : CommitStart(s) \/ DecideAndWait(s) \/ RejectNode(s)
                                  \/ ApproveNode(s) \/ CommitWithdraw(s)
           \/ \E w \in Workers : Escalate(w) \/ DropEscalation(w)
  <1> DEFINE Quietly == UNCHANGED <<inst, task, esc, rounds, history, record>>
  <1>1. UNCHANGED vars => Quietly
    BY DEF vars, rowVars
  <1>2. TemplateStep => Quietly
    BY DEF TemplateStep, AddVersion, Publish, Rollback
  <1>3. ASSUME NEW s \in Sessions, Begin(s) \/ LockInstance(s) \/ Refuse(s) \/ Abort(s)
        PROVE  Quietly
    BY <1>3 DEF Begin, BeginStart, BeginDecide, BeginWithdraw, LockInstance, Refuse, Abort,
                rowVars
  <1>4. ASSUME NEW e \in EscKeys, Elapse(e) PROVE Quietly
    BY <1>4 DEF Elapse
  <1>5. ASSUME NEW w \in Workers,
               ClaimDue(w) \/ LockForEscalation(w) \/ FailEscalation(w) \/ WorkerCrash(w)
        PROVE  Quietly
    BY <1>5 DEF ClaimDue, LockForEscalation, FailEscalation, WorkerCrash, rowVars
  <1>6. Deadlocks => Quietly
    BY DEF Deadlocks, BreakSessionDeadlock, BreakWorkerDeadlock, rowVars
  <1> HIDE DEF Quietly
  <1>7. CASE Next
    BY <1>2, <1>3, <1>4, <1>5, <1>6, <1>7 DEF Next, Finish, Apply, Quietly
  <1> QED
    BY <1>1, <1>7 DEF Quietly

LEMMA StepBInv == IInv /\ BInv /\ [Next]_vars => BInv' /\ Keeps
  <1> SUFFICES ASSUME IInv, BInv, [Next]_vars PROVE BInv' /\ Keeps
    OBVIOUS
  <1>1. CASE UNCHANGED <<inst, task, esc, rounds, history, record>>
    BY <1>1, QuietBInv
  <1>2. ASSUME NEW s \in Sessions, CommitStart(s) PROVE BInv' /\ Keeps
    BY <1>2, CommitStartArrives, StartBInv
  <1>3. ASSUME NEW s \in Sessions, DecideAndWait(s) PROVE BInv' /\ Keeps
    BY <1>3, DecideAndWaitWaits, WaitBInv
  <1>4. ASSUME NEW s \in Sessions, RejectNode(s) \/ CommitWithdraw(s) PROVE BInv' /\ Keeps
    BY <1>4, RejectNodeCloses, CommitWithdrawCloses, CloseBInv
  <1>5. ASSUME NEW s \in Sessions, ApproveNode(s) PROVE BInv' /\ Keeps
    BY <1>5, ApproveNodeArrives, PassBInv
  <1>6. ASSUME NEW w \in Workers, Escalate(w) PROVE BInv' /\ Keeps
    BY <1>6, EscalateEscalates, EscalateBInv
  <1>7. ASSUME NEW w \in Workers, DropEscalation(w) PROVE BInv' /\ Keeps
    BY <1>7, DropBInv
  <1> QED
    BY <1>1, <1>2, <1>3, <1>4, <1>5, <1>6, <1>7, StepKinds

THEOREM BehindInvariance == Spec => [](IInv /\ BInv)
  <1>1. Init => IInv /\ BInv
    BY InitIInv, InitBInv
  <1>2. (IInv /\ BInv) /\ [Next]_vars => (IInv /\ BInv)'
    BY StepIInv, StepBInv
  <1> QED
    BY <1>1, <1>2, PTL DEF Spec

(* Nothing that runs beside it (a second replica with a stale batch, a      *)
(* withdrawal, a new version of the template) changes an answered task, a   *)
(* closed instance or its history, the version an instance is bound to, or  *)
(* reopens an escalation (engine.py, 366-539, 571-619).                     *)
THEOREM SettledStays == Spec => SettledStaysSettled
  <1>1. IInv /\ BInv /\ [Next]_vars =>
          [/\ \A t \in TaskKeys : task[t] \notin {"none", "pending"} => task'[t] = task[t]
           /\ \A e \in EscKeys : /\ esc[e] = "canceled" => esc'[e] = "canceled"
                                 /\ esc[e] = "done" => esc'[e] \in {"done", "canceled"}
           /\ \A i \in Instances : inst[i].status \in ClosedStatus =>
                 inst'[i] = inst[i] /\ history'[i] = history[i]
           /\ \A i \in Instances : inst[i] # NoInstance =>
                 inst'[i].version = inst[i].version]_vars
    BY StepBInv DEF Keeps, TasksSettled, EscsSettled, ClosedSettled, VersionsKept
  <1> QED
    BY <1>1, BehindInvariance, PTL DEF Spec, SettledStaysSettled

(* _handle_approval moves an instance on only when its node has passed:     *)
(* whatever order decisions and escalations take, no "all" node is left     *)
(* with a rejection or with somebody of the last round unanswered.          *)
THEOREM LeavesPassedNodes == Spec => LeavesOnlyWhenPassed
  <1>1. IInv /\ BInv /\ [Next]_vars =>
          [\A i \in Instances :
              inst[i] # NoInstance /\ inst'[i].node # inst[i].node =>
                 PassedAt(i, inst[i].node, NodeOf(inst[i].version, inst[i].node).mode)]_vars
    BY StepBInv DEF Keeps, LeavesPassed
  <1> QED
    BY <1>1, BehindInvariance, PTL DEF Spec, LeavesOnlyWhenPassed

-----------------------------------------------------------------------------
(* The history a request leaves. *)
EffectsIn(h, r) ==
    {p \in UNION {{i} \X DOMAIN h[i] : i \in Instances} :
        h[p[1]][p[2]].by = r /\ h[p[1]][p[2]].type \in EffectType}
ClosingIn(h, i) == {k \in DOMAIN h[i] : h[i][k].type \in ClosingEvent}

IsEffect(h, r, p) ==
    \E j \in Instances : \E k \in 1 .. Len(h[j]) :
       p = <<j, k>> /\ h[j][k].by = r /\ h[j][k].type \in EffectType

(* History g is history h, and log for the instance i. *)
Grown(h, g, i, log) ==
    /\ h \in [Instances -> Seq(Event)] /\ i \in Instances /\ log \in Seq(Event)
    /\ g = [h EXCEPT ![i] = h[i] \o log]

NoHistoryYet == \A i \in Instances : inst[i] = NoInstance => history[i] = <<>>
AppliedOnce ==
    \A r \in RequestIds :
        /\ r \notin record => Effects(r) = {}
        /\ r \in record => \E p : Effects(r) = {p}
(* An id in use is not recorded, and one session has it. *)
IdsHeld ==
    /\ \A s \in Sessions : session[s].pc # "idle" => session[s].rid \notin record
    /\ \A s, u \in Sessions : /\ session[s].pc # "idle" /\ session[u].pc # "idle"
                              /\ session[s].rid = session[u].rid
                              => s = u
HInv == NoHistoryYet /\ AppliedOnce /\ IdsHeld /\ HistoryClosesOnce

LEMMA EffectsMember ==
    ASSUME NEW h, h \in [Instances -> Seq(Event)], NEW r, NEW p
    PROVE  p \in EffectsIn(h, r) <=> IsEffect(h, r, p)
  <1>1. \A j \in Instances : DOMAIN h[j] = 1 .. Len(h[j])
    BY LenProperties
  <1>2. ASSUME p \in EffectsIn(h, r) PROVE IsEffect(h, r, p)
    <2>1. PICK j \in Instances : p \in {j} \X DOMAIN h[j]
      BY <1>2 DEF EffectsIn
    <2>2. PICK k \in 1 .. Len(h[j]) : p = <<j, k>>
      BY <1>1, <2>1
    <2>3. p[1] = j /\ p[2] = k
      BY <2>2
    <2>4. h[j][k].by = r /\ h[j][k].type \in EffectType
      BY <1>2, <2>3 DEF EffectsIn
    <2> QED
      BY <2>2, <2>4 DEF IsEffect
  <1>3. ASSUME IsEffect(h, r, p) PROVE p \in EffectsIn(h, r)
    <2>0. PICK j \in Instances : \E k \in 1 .. Len(h[j]) :
              p = <<j, k>> /\ h[j][k].by = r /\ h[j][k].type \in EffectType
      BY <1>3 DEF IsEffect
    <2>1. PICK k \in 1 .. Len(h[j]) :
              p = <<j, k>> /\ h[j][k].by = r /\ h[j][k].type \in EffectType
      BY <2>0
    <2>2. p \in {j} \X DOMAIN h[j] /\ p[1] = j /\ p[2] = k
      BY <1>1, <2>1
    <2> QED
      BY <2>1, <2>2 DEF EffectsIn
  <1> QED
    BY <1>2, <1>3

LEMMA Longer ==
    ASSUME NEW h, NEW g, NEW i, NEW log, Grown(h, g, i, log)
    PROVE  /\ g \in [Instances -> Seq(Event)]
           /\ Len(h[i]) \in Nat /\ Len(log) \in Nat
           /\ \A j \in Instances : j # i => g[j] = h[j]
           /\ Len(g[i]) = Len(h[i]) + Len(log)
           /\ \A m \in 1 .. Len(g[i]) :
                 \/ m \in 1 .. Len(h[i]) /\ g[i][m] = h[i][m]
                 \/ /\ m > Len(h[i]) /\ m - Len(h[i]) \in 1 .. Len(log)
                    /\ g[i][m] = log[m - Len(h[i])]
  <1>1. /\ h[i] \in Seq(Event) /\ g[i] = h[i] \o log /\ log \in Seq(Event)
        /\ \A j \in Instances : j # i => g[j] = h[j]
    BY DEF Grown
  <1>2. Len(h[i]) \in Nat /\ Len(log) \in Nat
    BY <1>1, LenProperties
  <1>3. /\ h[i] \o log \in Seq(Event) /\ Len(h[i] \o log) = Len(h[i]) + Len(log)
        /\ \A m \in 1 .. Len(h[i]) + Len(log) :
              (h[i] \o log)[m] = IF m <= Len(h[i]) THEN h[i][m] ELSE log[m - Len(h[i])]
    BY <1>1, ConcatProperties
  <1>4. ASSUME NEW m \in 1 .. Len(g[i])
        PROVE  \/ m \in 1 .. Len(h[i]) /\ g[i][m] = h[i][m]
               \/ /\ m > Len(h[i]) /\ m - Len(h[i]) \in 1 .. Len(log)
                  /\ g[i][m] = log[m - Len(h[i])]
    BY <1>1, <1>2, <1>3
  <1>5. g \in [Instances -> Seq(Event)]
    BY <1>1, <1>3 DEF Grown
  <1> QED
    BY <1>1, <1>2, <1>3, <1>4, <1>5

LEMMA QuietEffects ==
    ASSUME NEW h, NEW g, NEW i, NEW log, Grown(h, g, i, log), NEW rid, Quiet(log, rid),
           NEW r
    PROVE  /\ EffectsIn(g, r) = EffectsIn(h, r)
           /\ ClosingIn(g, i) = ClosingIn(h, i)
  <1>1. /\ g \in [Instances -> Seq(Event)] /\ Len(h[i]) \in Nat /\ Len(log) \in Nat
        /\ \A j \in Instances : j # i => g[j] = h[j]
        /\ Len(g[i]) = Len(h[i]) + Len(log)
        /\ \A m \in 1 .. Len(g[i]) :
              \/ m \in 1 .. Len(h[i]) /\ g[i][m] = h[i][m]
              \/ /\ m > Len(h[i]) /\ m - Len(h[i]) \in 1 .. Len(log)
                 /\ g[i][m] = log[m - Len(h[i])]
    BY Longer
  <1>9. g \in [Instances -> Seq(Event)]
    BY <1>1
  <1>10. h \in [Instances -> Seq(Event)] /\ i \in Instances
    BY DEF Grown
  <1>2. \A k \in 1 .. Len(log) : log[k].type \notin EffectType /\ log[k].type \notin ClosingEvent
    BY DEF Quiet
  <1>3. \A m \in 1 .. Len(h[i]) : m \in 1 .. Len(g[i]) /\ g[i][m] = h[i][m]
    BY <1>1
  <1>4. \A m \in 1 .. Len(g[i]) :
           g[i][m].type \in EffectType \/ g[i][m].type \in ClosingEvent => m \in 1 .. Len(h[i])
    BY <1>1, <1>2
  <1>5. ASSUME NEW p PROVE p \in EffectsIn(g, r) <=> p \in EffectsIn(h, r)
    <2>1. p \in EffectsIn(g, r) <=> IsEffect(g, r, p)
      BY <1>9, EffectsMember
    <2>2. p \in EffectsIn(h, r) <=> IsEffect(h, r, p)
      BY <1>10, EffectsMember
    <2>3. ASSUME NEW j \in Instances, NEW k \in 1 .. Len(g[j]), g[j][k].type \in EffectType
          PROVE  k \in 1 .. Len(h[j]) /\ g[j][k] = h[j][k]
      BY <1>1, <1>3, <1>4, <2>3
    <2>4. ASSUME NEW j \in Instances, NEW k \in 1 .. Len(h[j])
          PROVE  k \in 1 .. Len(g[j]) /\ g[j][k] = h[j][k]
      BY <1>1, <1>3, <2>4
    <2>5. IsEffect(g, r, p) <=> IsEffect(h, r, p)
      BY <2>3, <2>4 DEF IsEffect
    <2> QED
      BY <2>1, <2>2, <2>5
  <1>6. DOMAIN g[i] = 1 .. Len(g[i]) /\ DOMAIN h[i] = 1 .. Len(h[i])
    BY <1>1, LenProperties
  <1>7. ClosingIn(g, i) = ClosingIn(h, i)
    BY <1>3, <1>4, <1>6 DEF ClosingIn
  <1> QED
    BY <1>5, <1>7

LEMMA WriteEffects ==
    ASSUME NEW h, NEW g, NEW i, NEW log, Grown(h, g, i, log), NEW rid, NEW closes,
           Writes(log, rid, closes), NEW r
    PROVE  /\ r # rid => EffectsIn(g, r) = EffectsIn(h, r)
           /\ r = rid => EffectsIn(g, r) = EffectsIn(h, r) \cup {<<i, Len(h[i]) + 1>>}
           /\ ClosingIn(g, i) = ClosingIn(h, i) \cup (IF closes THEN {Len(g[i])} ELSE {})
  <1>0. log \in Seq(Event) /\ log # <<>>
    BY DEF Writes
  <1>1. /\ g \in [Instances -> Seq(Event)] /\ Len(h[i]) \in Nat /\ Len(log) \in Nat
        /\ \A j \in Instances : j # i => g[j] = h[j]
        /\ Len(g[i]) = Len(h[i]) + Len(log)
        /\ \A m \in 1 .. Len(g[i]) :
              \/ m \in 1 .. Len(h[i]) /\ g[i][m] = h[i][m]
              \/ /\ m > Len(h[i]) /\ m - Len(h[i]) \in 1 .. Len(log)
                 /\ g[i][m] = log[m - Len(h[i])]
    BY <1>0, Longer
  <1>9. g \in [Instances -> Seq(Event)]
    BY <1>1
  <1>10. h \in [Instances -> Seq(Event)] /\ i \in Instances
    BY DEF Grown
  <1>2. Len(log) >= 1
    BY <1>0, <1>1, EmptySeq
  <1>3. \A m \in 1 .. Len(h[i]) : m \in 1 .. Len(g[i]) /\ g[i][m] = h[i][m]
    BY <1>1
  <1>4. \A m \in 1 .. Len(g[i]) : m \notin 1 .. Len(h[i]) =>
           /\ g[i][m].by = rid
           /\ g[i][m].type \in EffectType <=> m = Len(h[i]) + 1
           /\ g[i][m].type \in ClosingEvent <=> (closes /\ m = Len(g[i]))
    <2> TAKE m \in 1 .. Len(g[i])
    <2> HAVE m \notin 1 .. Len(h[i])
    <2> DEFINE k == m - Len(h[i])
    <2>1. k \in 1 .. Len(log) /\ g[i][m] = log[k]
      BY <1>1
    <2>2. /\ log[k].by = rid
          /\ log[k].type \in EffectType <=> k = 1
          /\ log[k].type \in ClosingEvent <=> (closes /\ k = Len(log))
      BY <2>1 DEF Writes
    <2>3. (k = 1 <=> m = Len(h[i]) + 1) /\ (k = Len(log) <=> m = Len(g[i]))
      BY <1>1
    <2> HIDE DEF k
    <2> QED
      BY <2>1, <2>2, <2>3
  <1>5. Len(h[i]) + 1 \in 1 .. Len(g[i]) /\ Len(h[i]) + 1 \notin 1 .. Len(h[i])
    BY <1>1, <1>2
  <1>6. ASSUME NEW p
        PROVE  p \in EffectsIn(g, r) <=>
                  p \in EffectsIn(h, r) \/ (r = rid /\ p = <<i, Len(h[i]) + 1>>)
    <2>1. p \in EffectsIn(g, r) <=> IsEffect(g, r, p)
      BY <1>9, EffectsMember
    <2>2. p \in EffectsIn(h, r) <=> IsEffect(h, r, p)
      BY <1>10, EffectsMember
    <2>3. ASSUME NEW j \in Instances, NEW k \in 1 .. Len(g[j]), g[j][k].type \in EffectType
          PROVE  \/ k \in 1 .. Len(h[j]) /\ g[j][k] = h[j][k]
                 \/ j = i /\ k = Len(h[i]) + 1 /\ g[j][k].by = rid
      BY <1>1, <1>3, <1>4, <2>3
    <2>4. ASSUME NEW j \in Instances, NEW k \in 1 .. Len(h[j])
          PROVE  k \in 1 .. Len(g[j]) /\ g[j][k] = h[j][k]
      BY <1>1, <1>3, <2>4
    <2>5. /\ g[i][Len(h[i]) + 1].by = rid /\ g[i][Len(h[i]) + 1].type \in EffectType
          /\ Len(h[i]) + 1 \in 1 .. Len(g[i])
      BY <1>4, <1>5
    <2>6. IsEffect(g, r, p) => IsEffect(h, r, p) \/ (r = rid /\ p = <<i, Len(h[i]) + 1>>)
      BY <2>3 DEF IsEffect
    <2>7. IsEffect(h, r, p) => IsEffect(g, r, p)
      BY <2>4 DEF IsEffect
    <2>8. r = rid /\ p = <<i, Len(h[i]) + 1>> => IsEffect(g, r, p)
      BY <1>10, <2>5 DEF IsEffect
    <2> QED
      BY <2>1, <2>2, <2>6, <2>7, <2>8
  <1>7. DOMAIN g[i] = 1 .. Len(g[i]) /\ DOMAIN h[i] = 1 .. Len(h[i])
    BY <1>1, LenProperties
  <1>8. ClosingIn(g, i) = ClosingIn(h, i) \cup (IF closes THEN {Len(g[i])} ELSE {})
    <2>1. Len(g[i]) \in 1 .. Len(g[i]) /\ Len(g[i]) \notin 1 .. Len(h[i])
      BY <1>1, <1>2
    <2>2. ASSUME NEW k
          PROVE  k \in ClosingIn(g, i) <=>
                    k \in ClosingIn(h, i) \/ (closes /\ k = Len(g[i]))
      BY <1>3, <1>4, <1>7, <2>1 DEF ClosingIn
    <2> QED
      BY <2>2
  <1> QED
    BY <1>6, <1>8

LEMMA EffectsAre ==
    ASSUME NEW r
    PROVE  Effects(r) = EffectsIn(history, r) /\ Effects(r)' = EffectsIn(history', r)
  BY DEF Effects, EffectsIn, EffectType

LEMMA ClosesOnce ==
    /\ HistoryClosesOnce <=>
          \A i \in Instances : ClosingIn(history, i) =
             (IF inst[i].status \in ClosedStatus THEN {Len(history[i])} ELSE {})
    /\ HistoryClosesOnce' <=>
          \A i \in Instances : ClosingIn(history', i) =
             (IF inst'[i].status \in ClosedStatus THEN {Len(history'[i])} ELSE {})
  BY DEF HistoryClosesOnce, ClosingIn

LEMMA InitHInv == Init => HInv
  <1> SUFFICES ASSUME Init PROVE HInv
    OBVIOUS
  <1>1. history = [i \in Instances |-> <<>>] /\ record = {} /\ inst = [i \in Instances |-> NoInstance]
        /\ session = [s \in Sessions |-> Idle]
    BY DEF Init
  <1>2. NoHistoryYet
    BY <1>1 DEF NoHistoryYet
  <1>3. \A i \in Instances : DOMAIN history[i] = {} /\ inst[i].status = "none"
    BY <1>1 DEF NoInstance
  <1>4. AppliedOnce
    BY <1>1, <1>3 DEF AppliedOnce, Effects
  <1>5. IdsHeld
    BY <1>1 DEF IdsHeld, Idle
  <1>6. HistoryClosesOnce
    BY <1>3 DEF HistoryClosesOnce, ClosedStatus
  <1> QED
    BY <1>2, <1>4, <1>5, <1>6 DEF HInv

(* Which id a session holds. *)
LEMMA ClaimIds ==
    ASSUME IInv, IdsHeld, NEW s \in Sessions, NEW c, Claim(s, c), record' = record
    PROVE  IdsHeld'
  <1>1. PICK r \in FreeIds :
            session' = [session EXCEPT ![s] = [pc |-> "claimed", rid |-> r, call |-> c]]
    BY DEF Claim
  <1>2. /\ r \notin record
        /\ \A u \in Sessions : session[u].pc # "idle" => session[u].rid # r
    BY DEF FreeIds
  <1>3. \A u \in Sessions : /\ u = s => session'[u].pc = "claimed" /\ session'[u].rid = r
                            /\ u # s => session'[u] = session[u]
    BY <1>1 DEF IInv, TypeOK
  <1> QED
    BY <1>2, <1>3 DEF IdsHeld

(* A session ends, with its id recorded or not. *)
LEMMA EndIds ==
    ASSUME IInv, IdsHeld, NEW s \in Sessions, session' = [session EXCEPT ![s] = Idle],
           record' = record \/ (session[s].pc # "idle" /\ record' = record \cup {session[s].rid})
    PROVE  IdsHeld'
  <1>1. \A u \in Sessions : /\ u = s => session'[u].pc = "idle"
                            /\ u # s => session'[u] = session[u]
    BY DEF IInv, TypeOK, Idle
  <1> QED
    BY <1>1 DEF IdsHeld

LEMMA AnswerIds ==
    ASSUME IInv, IdsHeld, NEW s \in Sessions, session[s].pc # "idle", Answer(s)
    PROVE  IdsHeld'
  BY EndIds DEF Answer

LEMMA SameIds ==
    ASSUME IdsHeld, UNCHANGED <<session, record>> PROVE IdsHeld'
  BY DEF IdsHeld

LEMMA LockIds ==
    ASSUME IInv, IdsHeld, NEW s \in Sessions, LockInstance(s) PROVE IdsHeld'
  <1>1. /\ session[s].pc = "claimed" /\ record' = record
        /\ session' = [session EXCEPT ![s] = [pc |-> "locked", rid |-> session[s].rid,
                                              call |-> session[s].call]]
    BY DEF LockInstance, rowVars
  <1>2. \A u \in Sessions : /\ u = s => session'[u].pc = "locked"
                                        /\ session'[u].rid = session[u].rid
                            /\ u # s => session'[u] = session[u]
    BY <1>1 DEF IInv, TypeOK
  <1>3. \A u \in Sessions : session'[u].pc # "idle" =>
            session[u].pc # "idle" /\ session'[u].rid = session[u].rid
    BY <1>1, <1>2
  <1> QED
    BY <1>1, <1>3 DEF IdsHeld

LEMMA StepIds == IInv /\ IdsHeld /\ [Next]_vars => IdsHeld'
  <1> SUFFICES ASSUME IInv, IdsHeld, [Next]_vars PROVE IdsHeld'
    OBVIOUS
  <1>1. CASE UNCHANGED vars
    BY <1>1, SameIds DEF vars, rowVars
  <1>2. CASE TemplateStep
    BY <1>2, SameIds DEF TemplateStep, AddVersion, Publish, Rollback
  <1>3. ASSUME NEW s \in Sessions, Begin(s) PROVE IdsHeld'
    <2>1. record' = record /\ \E c : Claim(s, c)
      BY <1>3 DEF Begin, BeginStart, BeginDecide, BeginWithdraw, rowVars
    <2> QED
      BY <2>1, ClaimIds
  <1>4. ASSUME NEW s \in Sessions, LockInstance(s) PROVE IdsHeld'
    BY <1>4, LockIds
  <1>5. ASSUME NEW s \in Sessions, Refuse(s) \/ Abort(s) PROVE IdsHeld'
    <2>1. session' = [session EXCEPT ![s] = Idle] /\ record' = record
      BY <1>5 DEF Refuse, Abort, rowVars
    <2> QED
      BY <2>1, EndIds
  <1>6. ASSUME NEW s \in Sessions,
               CommitStart(s) \/ DecideAndWait(s) \/ RejectNode(s) \/ ApproveNode(s)
                 \/ CommitWithdraw(s)
        PROVE  IdsHeld'
    <2>1. Answer(s)
      BY <1>6 DEF CommitStart, DecideAndWait, RejectNode, ApproveNode, CommitWithdraw
    <2>2. session[s].pc # "idle"
      BY <1>6 DEF CommitStart, DecideAndWait, RejectNode, ApproveNode, CommitWithdraw, Deciding
    <2> QED
      BY <2>1, <2>2, AnswerIds
  <1>7. ASSUME NEW e \in EscKeys, Elapse(e) PROVE IdsHeld'
    BY <1>7, SameIds DEF Elapse
  <1>8. ASSUME NEW w \in Workers,
               \/ ClaimDue(w) \/ LockForEscalation(w) \/ FailEscalation(w) \/ WorkerCrash(w)
               \/ Escalate(w) \/ DropEscalation(w)
        PROVE  IdsHeld'
    <2>1. UNCHANGED <<session, record>>
      BY <1>8 DEF ClaimDue, LockForEscalation, FailEscalation, WorkerCrash, Escalate,
                  DropEscalation, rowVars
    <2> QED
      BY <2>1, SameIds
  <1>9. CASE Deadlocks
    <2>1. ASSUME NEW s \in Sessions, NEW w \in Workers, BreakSessionDeadlock(s, w) PROVE IdsHeld'
      <3>1. record' = record
            /\ (session' = session \/ session' = [session EXCEPT ![s] = Idle])
        BY <2>1 DEF BreakSessionDeadlock, rowVars
      <3> QED
        BY <3>1, EndIds, SameIds
    <2>2. ASSUME NEW w \in Workers, NEW u \in Workers, BreakWorkerDeadlock(w, u) PROVE IdsHeld'
      BY <2>2, SameIds DEF BreakWorkerDeadlock, rowVars
    <2> QED
      BY <1>9, <2>1, <2>2 DEF Deadlocks
  <1> QED
    BY <1>1, <1>2, <1>3, <1>4, <1>5, <1>6, <1>7, <1>8, <1>9 DEF Next, Finish, Apply

(* A request commits: its effect is the first of its id. *)
LEMMA CommitHInv ==
    ASSUME IInv, HInv, NEW s \in Sessions, session[s].pc # "idle", Answer(s),
           NEW i \in Instances, NEW closes \in BOOLEAN, Recorded(s, i, closes),
           inst[i].status \notin ClosedStatus,
           \A j \in Instances : j # i => inst'[j] = inst[j],
           inst'[i] # NoInstance, inst'[i].status \in ClosedStatus <=> closes
    PROVE  NoHistoryYet' /\ AppliedOnce' /\ HistoryClosesOnce'
  <1> DEFINE rid == session[s].rid
  <1>1. PICK log : Writes(log, rid, closes) /\ history' = [history EXCEPT ![i] = history[i] \o log]
    BY DEF Recorded
  <1>2. history \in [Instances -> Seq(Event)]
    BY DEF IInv, TypeOK
  <1>3. rid \notin record /\ record' = record \cup {rid}
    BY DEF HInv, IdsHeld, Answer
  <1> HIDE DEF rid
  <1>10. Grown(history, history', i, log) /\ Writes(log, rid, closes)
    BY <1>1, <1>2 DEF Grown, Writes
  <1>4. \A r : /\ r # rid => EffectsIn(history', r) = EffectsIn(history, r)
               /\ r = rid => EffectsIn(history', r)
                               = EffectsIn(history, r) \cup {<<i, Len(history[i]) + 1>>}
    BY <1>10, WriteEffects
  <1>5. ClosingIn(history', i) =
           ClosingIn(history, i) \cup (IF closes THEN {Len(history'[i])} ELSE {})
    BY <1>10, WriteEffects
  <1>6. \A j \in Instances : j # i => history'[j] = history[j]
    BY <1>1, <1>2
  <1>7. NoHistoryYet'
    BY <1>6 DEF HInv, NoHistoryYet
  <1>8. AppliedOnce'
    <2> SUFFICES ASSUME NEW r \in RequestIds
                 PROVE  /\ r \notin record' => Effects(r)' = {}
                        /\ r \in record' => \E p : Effects(r)' = {p}
      BY DEF AppliedOnce
    <2>1. /\ r \notin record => EffectsIn(history, r) = {}
          /\ r \in record => \E p : EffectsIn(history, r) = {p}
      BY EffectsAre DEF HInv, AppliedOnce
    <2>2. Effects(r)' = EffectsIn(history', r)
      BY EffectsAre
    <2>3. CASE r = rid
      <3>1. EffectsIn(history', r) = {<<i, Len(history[i]) + 1>>}
        BY <1>3, <1>4, <2>1, <2>3
      <3> QED
        BY <1>3, <2>2, <2>3, <3>1
    <2>4. CASE r # rid
      BY <1>3, <1>4, <2>1, <2>2, <2>4
    <2> QED
      BY <2>3, <2>4
  <1>9. HistoryClosesOnce'
    <2>1. \A j \in Instances : ClosingIn(history, j) =
             (IF inst[j].status \in ClosedStatus THEN {Len(history[j])} ELSE {})
      BY ClosesOnce DEF HInv
    <2> SUFFICES ASSUME NEW j \in Instances
                 PROVE  ClosingIn(history', j) =
                          (IF inst'[j].status \in ClosedStatus THEN {Len(history'[j])} ELSE {})
      BY ClosesOnce
    <2>2. CASE j = i
      BY <1>5, <2>1, <2>2
    <2>3. CASE j # i
      BY <1>6, <2>1, <2>3 DEF ClosingIn
    <2> QED
      BY <2>2, <2>3
  <1> QED
    BY <1>7, <1>8, <1>9

LEMMA StartHInv ==
    ASSUME IInv, HInv, NEW s \in Sessions, NEW i, NEW v, NEW node, NEW row,
           Starts(s, i, v, node, row)
    PROVE  NoHistoryYet' /\ AppliedOnce' /\ HistoryClosesOnce'
  <1>1. /\ i \in Instances /\ inst[i] = NoInstance /\ inst[i].status = "none"
        /\ session[s].pc # "idle" /\ Answer(s)
    BY DEF Starts, Arrives
  <1>2. /\ \A j \in Instances : j # i => inst'[j] = inst[j]
        /\ inst'[i] = row /\ row \in Instance
    BY <1>1 DEF Starts, Arrives, IInv, TypeOK
  <1>3. row # NoInstance
    BY <1>2 DEF Instance, NoInstance, ClosedStatus
  <1> DEFINE closes == row.status \in ClosedStatus
  <1>4. closes \in BOOLEAN
    OBVIOUS
  <1>5. Recorded(s, i, closes)
    <2>1. PICK log : Writes(log, session[s].rid, closes) /\ history' = [history EXCEPT ![i] = log]
      BY DEF Starts
    <2>2. history[i] \o log = log
      BY <1>1, <2>1, ConcatEmptySeq DEF HInv, NoHistoryYet, Writes
    <2> QED
      BY <2>1, <2>2 DEF Recorded
  <1>6. inst[i].status \notin ClosedStatus /\ (inst'[i].status \in ClosedStatus <=> closes)
        /\ inst'[i] # NoInstance
    BY <1>1, <1>2, <1>3 DEF ClosedStatus
  <1> HIDE DEF closes
  <1> QED
    BY <1>1, <1>2, <1>4, <1>5, <1>6, CommitHInv

LEMMA WaitHInv ==
    ASSUME IInv, HInv, NEW s \in Sessions, NEW t, NEW status, Waits(s, t, status)
    PROVE  NoHistoryYet' /\ AppliedOnce' /\ HistoryClosesOnce'
  <1> DEFINE i == t[1]
  <1>1. /\ i \in Instances /\ session[s].pc # "idle" /\ Answer(s) /\ Recorded(s, i, FALSE)
        /\ inst' = inst /\ inst[i].status = "running"
    BY DEF Waits, Running
  <1>2. inst[i].status \notin ClosedStatus /\ inst[i] # NoInstance
    BY <1>1 DEF ClosedStatus, NoInstance
  <1> HIDE DEF i
  <1> QED
    BY <1>1, <1>2, CommitHInv

LEMMA CloseHInv ==
    ASSUME IInv, HInv, NEW s \in Sessions, NEW i, NEW status, Closes(s, i, status)
    PROVE  NoHistoryYet' /\ AppliedOnce' /\ HistoryClosesOnce'
  <1>1. /\ i \in Instances /\ session[s].pc # "idle" /\ Answer(s) /\ Recorded(s, i, TRUE)
        /\ inst[i].status = "running" /\ status \in ClosedStatus
        /\ inst' = [inst EXCEPT ![i] = Moved(i, inst[i].node, status)]
    BY DEF Closes, Running
  <1>2. /\ \A j \in Instances : j # i => inst'[j] = inst[j]
        /\ inst'[i].status = status
    BY <1>1 DEF IInv, TypeOK, Moved
  <1>3. inst[i].status \notin ClosedStatus /\ inst'[i] # NoInstance
    BY <1>1, <1>2 DEF ClosedStatus, NoInstance
  <1> QED
    BY <1>1, <1>2, <1>3, CommitHInv

LEMMA PassHInv ==
    ASSUME IInv, HInv, NEW s \in Sessions, NEW t, NEW i, NEW n, NEW v, NEW node, NEW row,
           NEW tasks, NEW escs, Passing(s, t, i, n, v, node, row, tasks, escs)
    PROVE  NoHistoryYet' /\ AppliedOnce' /\ HistoryClosesOnce'
  <1> DEFINE closes == row.status \in ClosedStatus
  <1>1. /\ i \in Instances /\ session[s].pc # "idle" /\ Answer(s) /\ Recorded(s, i, closes)
        /\ inst[i].status = "running" /\ row \in Instance
        /\ inst' = [inst EXCEPT ![i] = row] /\ closes \in BOOLEAN
    <2>1. closes \in BOOLEAN
      OBVIOUS
    <2> HIDE DEF closes
    <2>2. Recorded(s, i, closes)
      BY DEF Passing, closes
    <2> QED
      BY <2>1, <2>2 DEF Passing, Arrives, Running
  <1>2. /\ \A j \in Instances : j # i => inst'[j] = inst[j]
        /\ inst'[i] = row
    BY <1>1 DEF IInv, TypeOK
  <1>3. inst[i].status \notin ClosedStatus /\ inst'[i] # NoInstance
        /\ (inst'[i].status \in ClosedStatus <=> closes)
    BY <1>1, <1>2 DEF ClosedStatus, NoInstance, Instance
  <1> HIDE DEF closes
  <1> QED
    BY <1>1, <1>2, <1>3, CommitHInv

LEMMA EscalateHInv ==
    ASSUME IInv, HInv, NEW w \in Workers, NEW e, NEW i, NEW n, NEW new,
           Escalates(w, e, i, n, new)
    PROVE  NoHistoryYet' /\ AppliedOnce' /\ HistoryClosesOnce'
  <1> DEFINE log == Log("escalate", n, 0)
  <1>1. /\ i \in Instances /\ n \in Nodes /\ inst[i].status = "running"
        /\ history' = [history EXCEPT ![i] = history[i] \o log]
        /\ inst' = inst /\ record' = record
    BY DEF Escalates, Running
  <1>2. history \in [Instances -> Seq(Event)]
    BY DEF IInv, TypeOK
  <1>3. Quiet(log, 0) /\ log \in Seq(Event)
    BY <1>1, QuietLog DEF Quiet
  <1> HIDE DEF log
  <1>11. Grown(history, history', i, log)
    BY <1>1, <1>2, <1>3 DEF Grown
  <1>4. \A r : EffectsIn(history', r) = EffectsIn(history, r)
    BY <1>3, <1>11, QuietEffects
  <1>5. ClosingIn(history', i) = ClosingIn(history, i)
    BY <1>3, <1>11, QuietEffects
  <1>6. \A j \in Instances : j # i => history'[j] = history[j]
    BY <1>1, <1>2
  <1>7. inst[i] # NoInstance /\ inst[i].status \notin ClosedStatus
    BY <1>1 DEF NoInstance, ClosedStatus
  <1>8. NoHistoryYet'
    BY <1>1, <1>6, <1>7 DEF HInv, NoHistoryYet
  <1>9. AppliedOnce'
    <2> SUFFICES ASSUME NEW r \in RequestIds
                 PROVE  /\ r \notin record => Effects(r)' = {}
                        /\ r \in record => \E p : Effects(r)' = {p}
      BY <1>1 DEF AppliedOnce
    <2>1. Effects(r)' = Effects(r)
      BY <1>4, EffectsAre
    <2> QED
      BY <2>1 DEF HInv, AppliedOnce
  <1>10. HistoryClosesOnce'
    <2>1. \A j \in Instances : ClosingIn(history, j) =
             (IF inst[j].status \in ClosedStatus THEN {Len(history[j])} ELSE {})
      BY ClosesOnce DEF HInv
    <2>2. \A j \in Instances : ClosingIn(history', j) =
             (IF inst'[j].status \in ClosedStatus THEN {Len(history'[j])} ELSE {})
      BY <1>1, <1>5, <1>6, <1>7, <2>1 DEF ClosingIn
    <2> QED
      BY <2>2, ClosesOnce
  <1> QED
    BY <1>8, <1>9, <1>10

LEMMA QuietHInv ==
    ASSUME HInv, UNCHANGED <<inst, history, record>>
    PROVE  NoHistoryYet' /\ AppliedOnce' /\ HistoryClosesOnce'
  <1>1. NoHistoryYet' /\ HistoryClosesOnce'
    BY DEF HInv, NoHistoryYet, HistoryClosesOnce
  <1>2. \A r : Effects(r)' = Effects(r)
    BY DEF Effects
  <1>3. AppliedOnce'
    BY <1>2 DEF HInv, AppliedOnce
  <1> QED
    BY <1>1, <1>3

LEMMA StepHInv == IInv /\ HInv /\ [Next]_vars => HInv'
  <1> SUFFICES ASSUME IInv, HInv, [Next]_vars PROVE HInv'
    OBVIOUS
  <1> DEFINE Kept == NoHistoryYet' /\ AppliedOnce' /\ HistoryClosesOnce'
  <1>1. ASSUME UNCHANGED <<inst, task, esc, rounds, history, record>> PROVE Kept
    BY <1>1, QuietHInv
  <1>2. ASSUME NEW s \in Sessions, CommitStart(s) PROVE Kept
    BY <1>2, CommitStartArrives, StartHInv
  <1>3. ASSUME NEW s \in Sessions, DecideAndWait(s) PROVE Kept
    BY <1>3, DecideAndWaitWaits, WaitHInv
  <1>4. ASSUME NEW s \in Sessions, RejectNode(s) \/ CommitWithdraw(s) PROVE Kept
    BY <1>4, RejectNodeCloses, CommitWithdrawCloses, CloseHInv
  <1>5. ASSUME NEW s \in Sessions, ApproveNode(s) PROVE Kept
    BY <1>5, ApproveNodeArrives, PassHInv
  <1>6. ASSUME NEW w \in Workers, Escalate(w) PROVE Kept
    BY <1>6, EscalateEscalates, EscalateHInv
  <1>7. ASSUME NEW w \in Workers, DropEscalation(w) PROVE Kept
    <2>1. UNCHANGED <<inst, history, record>>
      BY <1>7 DEF DropEscalation
    <2> QED
      BY <2>1, QuietHInv
  <1> HIDE DEF Kept
  <1>8. Kept
    BY <1>1, <1>2, <1>3, <1>4, <1>5, <1>6, <1>7, StepKinds
  <1>9. IdsHeld'
    BY StepIds DEF HInv
  <1> QED
    BY <1>8, <1>9 DEF HInv, Kept

THEOREM HistoryInvariance == Spec => [](IInv /\ HInv)
  <1>1. Init => IInv /\ HInv
    BY InitIInv, InitHInv
  <1>2. (IInv /\ HInv) /\ [Next]_vars => (IInv /\ HInv)'
    BY StepIInv, StepHInv
  <1> QED
    BY <1>1, <1>2, PTL DEF Spec

(* A recorded request id has one effect in one history, and an id whose     *)
(* transaction was refused, aborted or chosen as a deadlock victim has none *)
(* (acquire_idempotency, store_idempotency_result).                         *)
THEOREM AppliedExactlyOnce == Spec => []RequestAppliedOnce
  <1>1. HInv => RequestAppliedOnce
    <2> SUFFICES ASSUME HInv, NEW r \in RequestIds
                 PROVE  Cardinality(Effects(r)) = (IF r \in record THEN 1 ELSE 0)
      BY DEF RequestAppliedOnce
    <2>1. CASE r \in record
      <3>1. PICK p : Effects(r) = {p}
        BY <2>1 DEF HInv, AppliedOnce
      <3> QED
        BY <2>1, <3>1, FS_Singleton
    <2>2. CASE r \notin record
      <3>1. Effects(r) = {}
        BY <2>2 DEF HInv, AppliedOnce
      <3> QED
        BY <2>2, <3>1, FS_EmptySet
    <2> QED
      BY <2>1, <2>2
  <1> QED
    BY <1>1, HistoryInvariance, PTL

(* Every closed instance has one closing event, the last of its history:    *)
(* rejection, withdrawal and completion exclude each other and what comes   *)
(* after them is refused (_handle_rejection, withdraw, _activate).          *)
THEOREM ClosedOnce == Spec => []HistoryClosesOnce
  <1>1. HInv => HistoryClosesOnce
    BY DEF HInv
  <1> QED
    BY <1>1, HistoryInvariance, PTL
=============================================================================
