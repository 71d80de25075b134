------------------------- MODULE ApplicationProofs -------------------------
(***************************************************************************)
(* Training (text4), workflows (text8/b), summaries (text5), ledgers (text10) *)
(* and consents (text6/b) as applications of Services: their instances over *)
(* its variables, what their constants may be, and the proofs that their   *)
(* invariants hold initially and under every step. A name X_Y is of the    *)
(* proof about application X. Services extends this module, and            *)
(* ServicesProofs concludes from it.                                       *)
(*                                                                         *)
(* SeatsA. Whoever holds a seat has one of the numbers 1 .. Capacity of    *)
(* their own, those who wait have places of their own, and while anybody   *)
(* waits the house is full: a seat that falls free is given away by the    *)
(* step that frees it, as often as there are seats and somebody waits.     *)
(* SeatsB. A row that a request has loaded does not come to wait again, so *)
(* what it writes over is never a place in the queue.                      *)
(* WorkflowB. In a valid definition no node reaches itself, so the walk    *)
(* through the conditions stops; what one decision or deadline does to the *)
(* tasks of an activity keeps WorkflowB_ActivityInv; and every step leaves *)
(* the instance bound to a published version, with nothing pending before  *)
(* its last activity.                                                      *)
(* AggregateA. Open transactions share no minute and no day, so a transaction *)
(* that has recomputed its days commits sums of all the rows there will be. *)
(* AggregateB. A day that is not marked stale was written from all its rows, *)
(* or its transaction has yet to write it.                                 *)
(* LedgerA. The sums of the budget are those of its entries and encumbrances *)
(* before and after every voucher of a file, and so for the file.          *)
(* LedgerB. What a transaction has locked is open, and it posts when it has *)
(* locked the periods of all its vouchers.                                 *)
(* ConsentB. An event that is appended under the lock of its stream finds all *)
(* the earlier ones there, so it continues their versions and alternates.  *)
(***************************************************************************)
EXTENDS Integers, Sequences, FiniteSets, FiniteSetTheorems, SequenceTheorems,
        WellFoundedInduction, TLAPS

CONSTANTS
    SeatsAConfig, SeatsBConfig, ProgressBConfig, VersionsBConfig, WorkflowBConfig,
    AggregateAConfig, AggregateBConfig, LedgerAConfig, LedgerBConfig, ConsentBConfig

VARIABLES s1, s2, s3, s4, s5, s6, s7

SeatsA == INSTANCE SeatsA WITH
    time <- s1, row <- s2, result <- s3, certificate <- s4,
    Learners <- SeatsAConfig.Learners, Diligent <- SeatsAConfig.Diligent,
    Capacity <- SeatsAConfig.Capacity, Steps <- SeatsAConfig.Steps,
    Prerequisites <- SeatsAConfig.Prerequisites, Hold <- SeatsAConfig.Hold,
    Deadline <- SeatsAConfig.Deadline, MaxTime <- SeatsAConfig.MaxTime

SeatsB == INSTANCE SeatsB WITH
    now <- s1, rows <- s2, loaded <- s3, revived <- s4,
    Learners <- SeatsBConfig.Learners, Capacity <- SeatsBConfig.Capacity,
    Hold <- SeatsBConfig.Hold, Deadline <- SeatsBConfig.Deadline,
    MaxTime <- SeatsBConfig.MaxTime, MaxRows <- SeatsBConfig.MaxRows

ProgressB == INSTANCE ProgressB WITH
    enrollment <- s1, result <- s2, certificate <- s3, request <- s4,
    crossed <- s5,
    Steps <- ProgressBConfig.Steps,
    Prerequisites <- ProgressBConfig.Prerequisites,
    Requests <- ProgressBConfig.Requests

VersionsB == INSTANCE VersionsB WITH
    db <- s1, held <- s2, overtaken <- s3,
    Payloads <- VersionsBConfig.Payloads,
    MaxSteps <- VersionsBConfig.MaxSteps,
    MaxVersions <- VersionsBConfig.MaxVersions

WorkflowB == INSTANCE WorkflowB WITH
    versions <- s1, current <- s2, instance <- s3, activities <- s4,
    withdrawing <- s5,
    Definitions <- WorkflowBConfig.Definitions,
    MaxVersions <- WorkflowBConfig.MaxVersions

AggregateA == INSTANCE AggregateA WITH
    raw <- s1, daily <- s2, weekly <- s3, retained <- s4, request <- s5,
    rebuild <- s6, history <- s7,
    Days <- AggregateAConfig.Days, Day <- AggregateAConfig.Day,
    Requests <- AggregateAConfig.Requests, Batches <- AggregateAConfig.Batches

AggregateB == INSTANCE AggregateB WITH
    raw <- s1, daily <- s2, weekly <- s3, cutoff <- s4, request <- s5,
    history <- s6,
    Days <- AggregateBConfig.Days, Day <- AggregateBConfig.Day,
    Midnight <- AggregateBConfig.Midnight,
    Requests <- AggregateBConfig.Requests, Batches <- AggregateBConfig.Batches

LedgerA == INSTANCE LedgerA WITH
    open <- s1, entries <- s2, budget <- s3, encumbrances <- s4, closing <- s5,
    Year <- LedgerAConfig.Year, Keys <- LedgerAConfig.Keys,
    Amounts <- LedgerAConfig.Amounts,
    BudgetAmount <- LedgerAConfig.BudgetAmount,
    MaxEntries <- LedgerAConfig.MaxEntries,
    MaxEncumbrances <- LedgerAConfig.MaxEncumbrances,
    MaxBatch <- LedgerAConfig.MaxBatch

LedgerB == INSTANCE LedgerB WITH
    open <- s1, entries <- s2, posting <- s3, budget <- s4, requests <- s5,
    closing <- s6,
    Periods <- LedgerBConfig.Periods, Keys <- LedgerBConfig.Keys,
    Clients <- LedgerBConfig.Clients, Amounts <- LedgerBConfig.Amounts,
    BudgetAmount <- LedgerBConfig.BudgetAmount,
    MaxEntries <- LedgerBConfig.MaxEntries,
    MaxRequests <- LedgerBConfig.MaxRequests,
    MaxBatch <- LedgerBConfig.MaxBatch

ConsentB == INSTANCE ConsentB WITH
    clock <- s1, erased <- s2, events <- s3, state <- s4, exports <- s5,
    request <- s6,
    Subjects <- ConsentBConfig.Subjects, EventIds <- ConsentBConfig.EventIds,
    Expiries <- ConsentBConfig.Expiries, Requests <- ConsentBConfig.Requests,
    MaxTime <- ConsentBConfig.MaxTime, MaxBatch <- ConsentBConfig.MaxBatch

ASSUME SeatsAAssumption ==
    /\ IsFiniteSet(SeatsAConfig.Learners)
    /\ SeatsAConfig.Capacity \in Nat /\ SeatsAConfig.Hold \in Nat
ASSUME SeatsBAssumption == SeatsBConfig.Capacity \in Nat
ASSUME ProgressBAssumption == ProgressBConfig.Steps # {}

-----------------------------------------------------------------------------
(* Least and greatest numbers, and induction *)

\* A set of naturals has a least element.
LEMMA LeastNatural ==
    ASSUME NEW T, T \subseteq Nat, T # {}
    PROVE  \E n \in T : \A m \in T : n <= m
  <1> DEFINE R == OpToRel(<, Nat)
  <1>1. IsWellFoundedOn(R, Nat)
    BY NatLessThanWellFounded, Zenon
  <1>2. \A x, y \in Nat : <<x, y>> \in R <=> x < y
    BY Zenon DEF OpToRel
  <1> HIDE DEF R
  <1>3. PICK n \in T : \A m \in T : ~ (<<m, n>> \in R)
    BY <1>1, WFMin
  <1>4. n \in Nat /\ \A m \in T : m \in Nat /\ ~ (m < n)
    BY <1>2, <1>3, Zenon
  <1> QED
    BY <1>4
\* Induction, for a set: a set with 0 and every next number has all naturals.
LEMMA NaturalsFrom ==
    ASSUME NEW T, 0 \in T, \A n \in Nat : n \in T => n + 1 \in T
    PROVE  Nat \subseteq T
  <1> SUFFICES ASSUME Nat \ T # {} PROVE FALSE
    OBVIOUS
  <1>1. PICK n \in Nat \ T : \A m \in Nat \ T : n <= m
    BY LeastNatural
  <1> QED
    BY <1>1, n # 0, n - 1 \in Nat, n - 1 \in T

\* A set of naturals with an upper bound has a greatest element.
LEMMA GreatestNatural ==
    ASSUME NEW S, S \subseteq Nat, S # {}, NEW b \in Nat, \A x \in S : x <= b
    PROVE  \E m \in S : \A x \in S : x <= m
  <1> DEFINE T == {k \in Nat : \A x \in S : x <= k}
  <1>1. T \subseteq Nat /\ b \in T
    OBVIOUS
  <1>2. PICK k \in T : \A m \in T : k <= m
    BY <1>1, LeastNatural
  <1>3. k \in Nat /\ \A x \in S : x <= k
    OBVIOUS
  <1>4. k \in S
    <2> SUFFICES ASSUME k \notin S PROVE FALSE
      OBVIOUS
    <2>1. \A x \in S : x \in Nat /\ x < k
      BY <1>3
    <2>2. k - 1 \in Nat
      <3>1. PICK x \in S : x \in Nat /\ x < k
        BY <2>1
      <3> QED
        BY <1>3, <3>1
    <2>4. \A x \in S : x <= k - 1
      BY <1>3, <2>1, <2>2
    <2>3. k - 1 \in T
      BY <2>2, <2>4
    <2> QED
      BY <1>2, <1>3, <2>3
  <1> QED
    BY <1>3, <1>4

\* Finitely many naturals have an upper bound.
LEMMA NaturalsBounded ==
    ASSUME NEW n \in Nat, NEW f, \A i \in 1 .. n : f[i] \in Nat
    PROVE  \E b \in Nat : \A i \in 1 .. n : f[i] <= b
  <1> DEFINE T == {k \in Nat : k <= n => \E b \in Nat : \A i \in 1 .. k : f[i] <= b}
  <1>1. 0 \in T
    OBVIOUS
  <1>2. ASSUME NEW k \in Nat, k \in T
        PROVE  k + 1 \in T
    <2> SUFFICES ASSUME k + 1 <= n
                 PROVE  \E b \in Nat : \A i \in 1 .. k + 1 : f[i] <= b
      OBVIOUS
    <2>1. PICK b \in Nat : \A i \in 1 .. k : f[i] <= b
      BY <1>2
    <2>2. k + 1 \in 1 .. n /\ \A i \in 1 .. k : i \in 1 .. n
      OBVIOUS
    <2>3. f[k + 1] \in Nat /\ \A i \in 1 .. k : f[i] \in Nat
      BY <2>2
    <2> DEFINE c == b + f[k + 1]
    <2>4. c \in Nat /\ b <= c /\ f[k + 1] <= c
      BY <2>3
    <2> HIDE DEF c
    <2>5. ASSUME NEW i \in 1 .. k + 1
          PROVE  f[i] <= c
      <3>1. CASE i = k + 1
        BY <2>4, <3>1
      <3>2. CASE i # k + 1
        <4>1. i \in 1 .. k
          BY <3>2
        <4> QED
          BY <2>1, <2>3, <2>4, <4>1
      <3> QED
        BY <3>1, <3>2
    <2> QED
      BY <2>4, <2>5
  <1> HIDE DEF T
  <1>3. n \in T
    BY <1>1, <1>2, NaturalsFrom
  <1> QED
    BY <1>3 DEF T

\* The elements of a sequence, and one that is appended
LEMMA DomainsFinite ==
    ASSUME NEW T, NEW s \in Seq(T)
    PROVE  /\ DOMAIN s = 1 .. Len(s) /\ Len(s) \in Nat /\ IsFiniteSet(DOMAIN s)
           /\ \A S \in SUBSET DOMAIN s : IsFiniteSet(S)
           /\ \A i \in DOMAIN s : s[i] \in T
  BY FS_Interval, FS_Subset

LEMMA Appended ==
    ASSUME NEW T, NEW s \in Seq(T), NEW x \in T, NEW t, t = Append(s, x)
    PROVE  /\ t \in Seq(T) /\ Len(t) = Len(s) + 1
           /\ DOMAIN t = DOMAIN s \cup {Len(s) + 1} /\ Len(s) + 1 \notin DOMAIN s
           /\ t[Len(s) + 1] = x /\ \A i \in DOMAIN s : t[i] = s[i]
           /\ DOMAIN s = 1 .. Len(s) /\ Len(s) \in Nat
  OBVIOUS

-----------------------------------------------------------------------------
(* Sums over finite sets *)

\* The element that a sum takes from a set first
FirstOf(s) == CHOOSE x \in s : TRUE
RestOf(s) == s \ {FirstOf(s)}

\* g is the function that a sum of w over S is computed with.
Sums(g, S, w) ==
    g = [s \in SUBSET S |-> IF s = {} THEN 0 ELSE w[FirstOf(s)] + g[RestOf(s)]]

\* The sum of w over S
SumOf(S, w) == (CHOOSE g : Sums(g, S, w))[S]

LEMMA SumsAt ==
    ASSUME NEW S, NEW w, NEW g, Sums(g, S, w), NEW s \in SUBSET S
    PROVE  /\ s = {} => g[s] = 0
           /\ s # {} => g[s] = w[FirstOf(s)] + g[RestOf(s)]
  BY DEF Sums

LEMMA FirstRest ==
    ASSUME NEW s, s # {}
    PROVE  FirstOf(s) \in s /\ RestOf(s) \subseteq s /\ FirstOf(s) \notin RestOf(s) /\ s = RestOf(s) \cup {FirstOf(s)}
  BY DEF FirstOf, RestOf

LEMMA RestCounts ==
    ASSUME NEW s, IsFiniteSet(s), s # {}
    PROVE  IsFiniteSet(RestOf(s)) /\ Cardinality(RestOf(s)) \in Nat
           /\ Cardinality(s) = Cardinality(RestOf(s)) + 1
  <1>1. FirstOf(s) \in s
    BY FirstRest
  <1>2. IsFiniteSet(RestOf(s)) /\ Cardinality(RestOf(s)) = Cardinality(s) - 1
    BY <1>1, FS_RemoveElement DEF RestOf
  <1>3. Cardinality(RestOf(s)) \in Nat /\ Cardinality(s) \in Nat
    BY <1>2, FS_CardinalityType
  <1> QED
    BY <1>2, <1>3

\* What is so of the empty set, and of a set if of its rest, is so of all.
LEMMA SumInduction ==
    ASSUME NEW S, IsFiniteSet(S), NEW P,
           {} \in P, \A s \in SUBSET S : s # {} /\ RestOf(s) \in P => s \in P
    PROVE  SUBSET S \subseteq P
  <1> DEFINE T == {n \in Nat : \A s \in SUBSET S : Cardinality(s) = n => s \in P}
  <1>1. \A s \in SUBSET S : IsFiniteSet(s) /\ Cardinality(s) \in Nat
    BY FS_Subset, FS_CardinalityType
  <1>2. 0 \in T
    BY <1>1, FS_EmptySet
  <1>3. ASSUME NEW n \in Nat, n \in T
        PROVE  n + 1 \in T
    <2> SUFFICES ASSUME NEW s \in SUBSET S, Cardinality(s) = n + 1
                 PROVE  s \in P
      OBVIOUS
    <2>1. s # {}
      BY FS_EmptySet
    <2>2. Cardinality(RestOf(s)) = n /\ RestOf(s) \in SUBSET S
      BY <1>1, <2>1, RestCounts, FirstRest
    <2>3. RestOf(s) \in P
      BY <1>3, <2>2
    <2> QED
      BY <2>1, <2>3
  <1> HIDE DEF T
  <1>4. Nat \subseteq T
    BY <1>2, <1>3, NaturalsFrom
  <1> QED
    BY <1>1, <1>4 DEF T

LEMMA SumsExist ==
    ASSUME NEW S, IsFiniteSet(S), NEW w
    PROVE  \E g : Sums(g, S, w)
  <1> DEFINE Upto(g, n) ==
        g = [s \in SUBSET S |-> IF s = {} \/ Cardinality(s) > n THEN 0
                                ELSE w[FirstOf(s)] + g[RestOf(s)]]
      T == {n \in Nat : \E g : Upto(g, n)}
  <1>1. \A s \in SUBSET S : IsFiniteSet(s) /\ Cardinality(s) \in Nat
    BY FS_Subset, FS_CardinalityType
  <1>2. 0 \in T
    <2> DEFINE g == [s \in SUBSET S |-> 0]
    <2>1. \A s \in SUBSET S : s = {} \/ Cardinality(s) > 0
      BY <1>1, FS_EmptySet
    <2>2. Upto(g, 0)
      BY <2>1
    <2> QED
      BY <2>2
  <1>3. ASSUME NEW n \in Nat, n \in T
        PROVE  n + 1 \in T
    <2>1. PICK g : Upto(g, n)
      BY <1>3
    <2> DEFINE h == [s \in SUBSET S |-> IF s = {} \/ Cardinality(s) > n + 1 THEN 0
                                        ELSE w[FirstOf(s)] + g[RestOf(s)]]
    <2>2. ASSUME NEW s \in SUBSET S, s # {}, ~ (Cardinality(s) > n + 1)
          PROVE  h[RestOf(s)] = g[RestOf(s)]
      <3>1. /\ RestOf(s) \in SUBSET S /\ Cardinality(RestOf(s)) \in Nat
            /\ Cardinality(s) = Cardinality(RestOf(s)) + 1
        BY <1>1, <2>2, RestCounts, FirstRest
      <3>2. ~ (Cardinality(RestOf(s)) > n)
        BY <2>2, <3>1
      <3> QED
        BY <2>1, <3>1, <3>2
    <2> DEFINE k == [s \in SUBSET S |-> IF s = {} \/ Cardinality(s) > n + 1 THEN 0
                                        ELSE w[FirstOf(s)] + h[RestOf(s)]]
    <2>3. ASSUME NEW s \in SUBSET S
          PROVE  h[s] = k[s]
      BY <2>2, <2>3
    <2>4. h = k
      BY <2>3
    <2>5. Upto(h, n + 1)
      BY <2>4
    <2> HIDE DEF h
    <2> QED
      BY <2>5
  <1>4. Nat \subseteq T
    <2> HIDE DEF T
    <2> QED
      BY <1>2, <1>3, NaturalsFrom
  <1>5. Cardinality(S) \in Nat
    BY FS_CardinalityType
  <1>6. PICK g : Upto(g, Cardinality(S))
    BY <1>4, <1>5
  <1>7. \A s \in SUBSET S : ~ (Cardinality(s) > Cardinality(S))
    BY <1>1, <1>5, FS_Subset
  <1> QED
    BY <1>6, <1>7 DEF Sums

\* Sums over the same elements with the same weights are the same.
LEMMA SumsAgree ==
    ASSUME NEW S, NEW R, NEW w, NEW v, NEW g, NEW h, Sums(g, S, w), Sums(h, R, v),
           NEW T, IsFiniteSet(T), T \subseteq S, T \subseteq R, \A x \in T : w[x] = v[x]
    PROVE  g[T] = h[T]
  <1> DEFINE P == {s \in SUBSET T : g[s] = h[s]}
  <1>1. {} \in P
    BY SumsAt
  <1>2. ASSUME NEW s \in SUBSET T, s # {}, RestOf(s) \in P
        PROVE  s \in P
    <2>1. FirstOf(s) \in T
      BY <1>2, FirstRest
    <2>2. g[s] = w[FirstOf(s)] + g[RestOf(s)] /\ h[s] = v[FirstOf(s)] + h[RestOf(s)]
      BY <1>2, SumsAt
    <2> QED
      BY <1>2, <2>1, <2>2
  <1> HIDE DEF P
  <1>3. SUBSET T \subseteq P
    BY <1>1, <1>2, SumInduction
  <1> QED
    BY <1>3 DEF P

LEMMA SumsType ==
    ASSUME NEW S, IsFiniteSet(S), NEW w, \A x \in S : w[x] \in Int, NEW g, Sums(g, S, w),
           NEW T \in SUBSET S
    PROVE  g[T] \in Int
  <1> DEFINE P == {s \in SUBSET S : g[s] \in Int}
  <1>1. {} \in P
    <2>1. {} \in SUBSET S
      OBVIOUS
    <2>2. g[{}] = 0
      BY <2>1, SumsAt
    <2> QED
      BY <2>1, <2>2
  <1>2. ASSUME NEW s \in SUBSET S, s # {}, RestOf(s) \in P
        PROVE  s \in P
    <2>1. FirstOf(s) \in S
      BY <1>2, FirstRest
    <2>2. g[s] = w[FirstOf(s)] + g[RestOf(s)]
      BY <1>2, SumsAt
    <2> QED
      BY <1>2, <2>1, <2>2
  <1> HIDE DEF P
  <1>3. SUBSET S \subseteq P
    BY <1>1, <1>2, SumInduction
  <1> QED
    BY <1>3 DEF P

\* It does not matter which element is taken first.
LEMMA SumsAny ==
    ASSUME NEW S, IsFiniteSet(S), NEW w, \A x \in S : w[x] \in Int, NEW g, Sums(g, S, w),
           NEW T \in SUBSET S, NEW y \in T
    PROVE  g[T] = w[y] + g[T \ {y}]
  <1> DEFINE P == {s \in SUBSET S : \A x \in s : g[s] = w[x] + g[s \ {x}]}
      N == {n \in Nat : \A s \in SUBSET S : Cardinality(s) = n => s \in P}
  <1>1. \A s \in SUBSET S : IsFiniteSet(s) /\ Cardinality(s) \in Nat
    BY FS_Subset, FS_CardinalityType
  <1>2. 0 \in N
    BY <1>1, FS_EmptySet
  <1>3. ASSUME NEW n \in Nat, n \in N
        PROVE  n + 1 \in N
    <2> SUFFICES ASSUME NEW s \in SUBSET S, Cardinality(s) = n + 1, NEW x \in s
                 PROVE  g[s] = w[x] + g[s \ {x}]
      BY DEF P
    <2> DEFINE c == FirstOf(s)
    <2>1. /\ c \in s /\ RestOf(s) = s \ {c} /\ RestOf(s) \in SUBSET S
          /\ g[s] = w[c] + g[s \ {c}]
      BY FirstRest, SumsAt DEF RestOf
    <2> HIDE DEF c
    <2>2. CASE c = x
      BY <2>1, <2>2
    <2>3. CASE c # x
      <3> DEFINE u == s \ {c}
                 v == s \ {x}
                 rest == u \ {x}
      <3>1. /\ u \in SUBSET S /\ v \in SUBSET S /\ rest \in SUBSET S
            /\ x \in u /\ c \in v /\ rest = v \ {c}
        BY <2>1, <2>3
      <3>2. Cardinality(u) = Cardinality(s) - 1 /\ Cardinality(v) = Cardinality(s) - 1
        BY <1>1, <2>1, FS_RemoveElement
      <3>3. Cardinality(u) = n /\ Cardinality(v) = n
        BY <3>2
      <3>4. g[s] = w[c] + g[u]
        BY <2>1
      <3>5. u \in P /\ v \in P
        BY <1>3, <3>1, <3>3
      <3>6. g[u] = w[x] + g[rest]
        BY <3>1, <3>5
      <3>7. g[v] = w[c] + g[rest]
        BY <3>1, <3>5
      <3>8. g[rest] \in Int
        BY <3>1, SumsType
      <3>9. w[x] \in Int /\ w[c] \in Int
        BY <2>1
      <3>10. g[s] = w[x] + g[v]
        <4> HIDE DEF u, v, rest
        <4> QED
          BY <3>4, <3>6, <3>7, <3>8, <3>9
      <3> QED
        BY <3>10
    <2> QED
      BY <2>2, <2>3
  <1> HIDE DEF N
  <1>4. Nat \subseteq N
    BY <1>2, <1>3, NaturalsFrom
  <1>5. T \in P
    BY <1>1, <1>4 DEF N
  <1> QED
    BY <1>5

LEMMA SumIs ==
    ASSUME NEW S, IsFiniteSet(S), NEW w, NEW g, Sums(g, S, w)
    PROVE  SumOf(S, w) = g[S]
  <1>1. Sums(CHOOSE f : Sums(f, S, w), S, w)
    BY SumsExist
  <1> QED
    BY <1>1, SumsAgree DEF SumOf

LEMMA SumOfNone == \A w : SumOf({}, w) = 0
  <1> TAKE w
  <1>1. IsFiniteSet({})
    BY FS_EmptySet
  <1>2. PICK g : Sums(g, {}, w)
    BY <1>1, SumsExist
  <1> QED
    BY <1>1, <1>2, SumIs, SumsAt

LEMMA SumType ==
    ASSUME NEW S, IsFiniteSet(S), NEW w, \A x \in S : w[x] \in Int
    PROVE  SumOf(S, w) \in Int
  <1>1. PICK g : Sums(g, S, w)
    BY SumsExist
  <1> QED
    BY <1>1, SumIs, SumsType

LEMMA SumSame ==
    ASSUME NEW S, IsFiniteSet(S), NEW w, NEW v, \A x \in S : w[x] = v[x]
    PROVE  SumOf(S, w) = SumOf(S, v)
  <1>1. PICK g : Sums(g, S, w)
    BY SumsExist
  <1>2. PICK h : Sums(h, S, v)
    BY SumsExist
  <1> QED
    BY <1>1, <1>2, SumIs, SumsAgree

\* R is S, weighed with v, and one element more; it is weighed with w.
Adds(R, w, S, v, y) ==
    /\ IsFiniteSet(S) /\ y \notin S /\ R = S \cup {y} /\ w[y] \in Int
    /\ \A x \in S : v[x] = w[x] /\ w[x] \in Int

LEMMA SumWith ==
    ASSUME NEW R, NEW w, NEW S, NEW v, NEW y, Adds(R, w, S, v, y)
    PROVE  SumOf(R, w) = SumOf(S, v) + w[y]
  <1> USE DEF Adds
  <1>1. IsFiniteSet(R) /\ y \in R /\ R \ {y} = S /\ S \subseteq R /\ \A x \in R : w[x] \in Int
    BY FS_AddElement
  <1>2. PICK g : Sums(g, R, w)
    BY <1>1, SumsExist
  <1>3. PICK h : Sums(h, S, v)
    BY SumsExist
  <1>4. SumOf(R, w) = g[R] /\ SumOf(S, v) = h[S]
    BY <1>1, <1>2, <1>3, SumIs
  <1>5. g[R] = w[y] + g[S]
    BY <1>1, <1>2, SumsAny
  <1>6. g[S] = h[S]
    BY <1>1, <1>2, <1>3, SumsAgree
  <1>7. g[S] \in Int
    BY <1>1, <1>2, SumsType
  <1> QED
    BY <1>4, <1>5, <1>6, <1>7

-----------------------------------------------------------------------------
(* Training (text4): seats and certificates of text4/a *)

LEMMA SeatsA_Counts == \A S : SeatsA!Cardinality(S) = Cardinality(S)
  BY DEF SeatsA!Cardinality, Cardinality

SeatsA_Statuses == {"none", "ENROLLED", "CONFIRMED", "WAITLISTED", "CANCELLED", "EXPIRED"}
SeatsA_Enrollments == [status : SeatsA_Statuses, seat : Nat, position : Nat, until : Nat]

\* Holders have seats, and those who wait have places of their own.
SeatsA_Own(rows) ==
    /\ rows \in [SeatsAConfig.Learners -> SeatsA_Enrollments]
    /\ \A l \in SeatsAConfig.Learners : rows[l].seat \in 1 .. SeatsAConfig.Capacity <=> l \in SeatsA!Holding(rows)
    /\ \A l, m \in SeatsA!Holding(rows) : rows[l].seat = rows[m].seat => l = m
    /\ \A l, m \in SeatsA!Waiting(rows) : rows[l].position = rows[m].position => l = m

SeatsA_Dense(rows) == SeatsA!Positions(rows) = 1 .. Cardinality(SeatsA!Waiting(rows))

\* SeatsSound of any rows
SeatsA_Good(rows) ==
    /\ SeatsA_Own(rows)
    /\ SeatsA_Dense(rows)
    /\ SeatsA!Waiting(rows) # {} => Cardinality(SeatsA!Holding(rows)) = SeatsAConfig.Capacity

SeatsA_Keeps(rows, later) ==
    \A l \in SeatsAConfig.Learners : rows[l].status = "CONFIRMED" => later[l].status = "CONFIRMED"

SeatsA_IInv ==
    /\ s1 \in Nat
    /\ SeatsA_Good(s2)
    /\ s3 = [l \in SeatsAConfig.Learners |->
                    [passed |-> s3[l].passed, judged |-> s3[l].judged]]
    /\ s4 = [l \in SeatsAConfig.Learners |-> s4[l]]
    /\ SeatsA!CertificateSound

LEMMA SeatsA_Few ==
    ASSUME NEW rows
    PROVE  /\ SeatsA!Holding(rows) \subseteq SeatsAConfig.Learners /\ SeatsA!Waiting(rows) \subseteq SeatsAConfig.Learners
           /\ SeatsA!Holding(rows) \cap SeatsA!Waiting(rows) = {}
           /\ IsFiniteSet(SeatsA!Holding(rows)) /\ Cardinality(SeatsA!Holding(rows)) \in Nat
           /\ IsFiniteSet(SeatsA!Waiting(rows)) /\ Cardinality(SeatsA!Waiting(rows)) \in Nat
  <1>1. /\ SeatsA!Holding(rows) \in SUBSET SeatsAConfig.Learners /\ SeatsA!Waiting(rows) \in SUBSET SeatsAConfig.Learners
        /\ SeatsA!Holding(rows) \cap SeatsA!Waiting(rows) = {}
    BY DEF SeatsA!Holding, SeatsA!Waiting
  <1>2. IsFiniteSet(SeatsA!Holding(rows)) /\ IsFiniteSet(SeatsA!Waiting(rows))
    BY <1>1, FS_Subset, SeatsAAssumption
  <1> QED
    BY <1>1, <1>2, FS_CardinalityType

LEMMA SeatsA_Seats == IsFiniteSet(1 .. SeatsAConfig.Capacity) /\ Cardinality(1 .. SeatsAConfig.Capacity) = SeatsAConfig.Capacity
  <1>1. ASSUME NEW c \in Nat PROVE IsFiniteSet(1 .. c) /\ Cardinality(1 .. c) = c
    BY FS_Interval
  <1> QED
    BY <1>1, SeatsAAssumption

LEMMA SeatsA_SmallHouse ==
    ASSUME NEW rows, SeatsA_Own(rows)
    PROVE  Cardinality(SeatsA!Holding(rows)) <= SeatsAConfig.Capacity
  <1> SUFFICES ASSUME SeatsAConfig.Capacity < Cardinality(SeatsA!Holding(rows)) PROVE FALSE
    BY SeatsA_Few, SeatsAAssumption
  <1> DEFINE f == [l \in SeatsA!Holding(rows) |-> rows[l].seat]
  <1>1. \A l \in SeatsA!Holding(rows) : rows[l].seat \in 1 .. SeatsAConfig.Capacity
    BY SeatsA_Few DEF SeatsA_Own
  <1>2. f \in [SeatsA!Holding(rows) -> 1 .. SeatsAConfig.Capacity]
    BY <1>1
  <1>3. \E x, y \in SeatsA!Holding(rows) : x # y /\ f[x] = f[y]
    <2>1. /\ IsFiniteSet(SeatsA!Holding(rows)) /\ IsFiniteSet(1 .. SeatsAConfig.Capacity)
          /\ Cardinality(1 .. SeatsAConfig.Capacity) < Cardinality(SeatsA!Holding(rows))
      BY SeatsA_Few, SeatsA_Seats
    <2> HIDE DEF f
    <2> QED
      BY <1>2, <2>1, FS_PigeonHole, Zenon
  <1> QED
    BY <1>3 DEF SeatsA_Own

LEMMA SeatsA_FreeSeatIsFree ==
    ASSUME NEW rows, SeatsA_Own(rows),
           Cardinality(SeatsA!Holding(rows)) < SeatsAConfig.Capacity
    PROVE  /\ SeatsA!FreeSeat(rows) \in 1 .. SeatsAConfig.Capacity
           /\ \A l \in SeatsA!Holding(rows) : rows[l].seat # SeatsA!FreeSeat(rows)
  <1> DEFINE taken == {rows[l].seat : l \in SeatsA!Holding(rows)}
             free == (1 .. SeatsAConfig.Capacity) \ taken
  <1>1. free # {}
    <2> SUFFICES ASSUME free = {} PROVE FALSE
      OBVIOUS
    <2> DEFINE f == [n \in 1 .. SeatsAConfig.Capacity |-> CHOOSE l \in SeatsA!Holding(rows) : rows[l].seat = n]
    <2>1. \A n \in 1 .. SeatsAConfig.Capacity : \E l \in SeatsA!Holding(rows) : rows[l].seat = n
      OBVIOUS
    <2>2. \A n \in 1 .. SeatsAConfig.Capacity : f[n] \in SeatsA!Holding(rows) /\ rows[f[n]].seat = n
      BY <2>1
    <2>3. f \in [1 .. SeatsAConfig.Capacity -> SeatsA!Holding(rows)]
      BY <2>2
    <2> HIDE DEF f
    <2>4. \E x, y \in 1 .. SeatsAConfig.Capacity : x # y /\ f[x] = f[y]
      <3>1. /\ IsFiniteSet(SeatsA!Holding(rows)) /\ IsFiniteSet(1 .. SeatsAConfig.Capacity)
            /\ Cardinality(SeatsA!Holding(rows)) < Cardinality(1 .. SeatsAConfig.Capacity)
        BY SeatsA_Few, SeatsA_Seats
      <3> QED
        <4> DEFINE S == 1 .. SeatsAConfig.Capacity
                   H == SeatsA!Holding(rows)
        <4>1. f \in [S -> H] /\ IsFiniteSet(H) /\ IsFiniteSet(S) /\ Cardinality(H) < Cardinality(S)
          BY <2>3, <3>1
        <4> HIDE DEF S, H
        <4>2. \E x, y \in S : x # y /\ f[x] = f[y]
          BY <4>1, FS_PigeonHole
        <4> QED
          BY <4>2 DEF S
    <2> QED
      BY <2>2, <2>4
  <1>2. free \subseteq Nat
    BY SeatsAAssumption
  <1>3. SeatsA!FreeSeat(rows) = SeatsA!Min(free)
    BY DEF SeatsA!FreeSeat
  <1> HIDE DEF free
  <1>4. PICK n \in free : \A m \in free : n <= m
    BY <1>1, <1>2, LeastNatural
  <1>5. SeatsA!Min(free) \in free
    BY <1>4 DEF SeatsA!Min
  <1> QED
    BY <1>3, <1>5 DEF free

SeatsA_Change(rows, l, r) == [rows EXCEPT ![l] = r]

LEMMA SeatsA_OneRow ==
    ASSUME NEW rows, SeatsA_Own(rows), NEW l \in SeatsAConfig.Learners,
           NEW r \in SeatsA_Enrollments,
           r.seat \in 1 .. SeatsAConfig.Capacity <=> r.status \in {"ENROLLED", "CONFIRMED"},
           r.status \in {"ENROLLED", "CONFIRMED"} =>
               \A m \in SeatsA!Holding(rows) : m # l => rows[m].seat # r.seat,
           r.status = "WAITLISTED" =>
               \A m \in SeatsA!Waiting(rows) : m # l => rows[m].position # r.position
    PROVE  LET later == SeatsA_Change(rows, l, r) IN
           /\ SeatsA_Own(later)
           /\ later[l] = r /\ \A m \in SeatsAConfig.Learners : m # l => later[m] = rows[m]
           /\ SeatsA!Holding(later) = IF r.status \in {"ENROLLED", "CONFIRMED"}
                               THEN SeatsA!Holding(rows) \cup {l} ELSE SeatsA!Holding(rows) \ {l}
           /\ SeatsA!Waiting(later) = IF r.status = "WAITLISTED"
                               THEN SeatsA!Waiting(rows) \cup {l} ELSE SeatsA!Waiting(rows) \ {l}
  <1> DEFINE later == SeatsA_Change(rows, l, r)
  <1>1. rows \in [SeatsAConfig.Learners -> SeatsA_Enrollments]
    BY DEF SeatsA_Own
  <1> HIDE DEF SeatsA_Enrollments
  <1>2. /\ later \in [SeatsAConfig.Learners -> SeatsA_Enrollments]
        /\ later[l] = r /\ \A m \in SeatsAConfig.Learners : m # l => later[m] = rows[m]
    BY <1>1 DEF SeatsA_Change
  <1> HIDE DEF later
  <1>3. /\ SeatsA!Holding(later) = IF r.status \in {"ENROLLED", "CONFIRMED"}
                            THEN SeatsA!Holding(rows) \cup {l} ELSE SeatsA!Holding(rows) \ {l}
        /\ SeatsA!Waiting(later) = IF r.status = "WAITLISTED"
                            THEN SeatsA!Waiting(rows) \cup {l} ELSE SeatsA!Waiting(rows) \ {l}
    BY <1>2 DEF SeatsA!Holding, SeatsA!Waiting
  <1>4. \A m \in SeatsAConfig.Learners : later[m].seat \in 1 .. SeatsAConfig.Capacity <=> m \in SeatsA!Holding(later)
    BY <1>2, <1>3, SeatsA_Few DEF SeatsA_Own
  <1>5. \A k, m \in SeatsA!Holding(later) : later[k].seat = later[m].seat => k = m
    BY <1>2, <1>3, SeatsA_Few DEF SeatsA_Own
  <1>6. \A k, m \in SeatsA!Waiting(later) : later[k].position = later[m].position => k = m
    BY <1>2, <1>3, SeatsA_Few DEF SeatsA_Own
  <1>7. SeatsA_Own(later)
    BY <1>2, <1>4, <1>5, <1>6 DEF SeatsA_Own
  <1> QED
    BY <1>2, <1>3, <1>7 DEF later

LEMMA SeatsA_GetsSeat ==
    ASSUME NEW rows, SeatsA_Own(rows), NEW l \in SeatsAConfig.Learners,
           NEW r \in SeatsA_Enrollments,
           r.status \in {"ENROLLED", "CONFIRMED"}, r.seat \in 1 .. SeatsAConfig.Capacity,
           \A m \in SeatsA!Holding(rows) : m # l => rows[m].seat # r.seat
    PROVE  LET later == SeatsA_Change(rows, l, r) IN
           /\ SeatsA_Own(later)
           /\ later[l] = r /\ \A m \in SeatsAConfig.Learners : m # l => later[m] = rows[m]
           /\ SeatsA!Holding(later) = SeatsA!Holding(rows) \cup {l}
           /\ SeatsA!Waiting(later) = SeatsA!Waiting(rows) \ {l}
  <1> DEFINE later == SeatsA_Change(rows, l, r)
  <1>1. /\ r.status # "WAITLISTED"
        /\ r.seat \in 1 .. SeatsAConfig.Capacity <=> r.status \in {"ENROLLED", "CONFIRMED"}
        /\ r.status \in {"ENROLLED", "CONFIRMED"} =>
               \A m \in SeatsA!Holding(rows) : m # l => rows[m].seat # r.seat
        /\ r.status = "WAITLISTED" =>
               \A m \in SeatsA!Waiting(rows) : m # l => rows[m].position # r.position
    OBVIOUS
  <1>2. /\ SeatsA_Own(later)
        /\ later[l] = r /\ \A m \in SeatsAConfig.Learners : m # l => later[m] = rows[m]
        /\ SeatsA!Holding(later) = IF r.status \in {"ENROLLED", "CONFIRMED"}
                            THEN SeatsA!Holding(rows) \cup {l} ELSE SeatsA!Holding(rows) \ {l}
        /\ SeatsA!Waiting(later) = IF r.status = "WAITLISTED"
                            THEN SeatsA!Waiting(rows) \cup {l} ELSE SeatsA!Waiting(rows) \ {l}
    BY <1>1, SeatsA_OneRow
  <1> QED
    BY <1>1, <1>2

LEMMA SeatsA_GetsNoSeat ==
    ASSUME NEW rows, SeatsA_Own(rows), NEW l \in SeatsAConfig.Learners,
           NEW r \in SeatsA_Enrollments,
           r.status \in {"WAITLISTED", "CANCELLED"}, r.seat = 0,
           r.status = "WAITLISTED" =>
               \A m \in SeatsA!Waiting(rows) : m # l => rows[m].position # r.position
    PROVE  LET later == SeatsA_Change(rows, l, r) IN
           /\ SeatsA_Own(later)
           /\ later[l] = r /\ \A m \in SeatsAConfig.Learners : m # l => later[m] = rows[m]
           /\ SeatsA!Holding(later) = SeatsA!Holding(rows) \ {l}
           /\ SeatsA!Waiting(later) = IF r.status = "WAITLISTED"
                               THEN SeatsA!Waiting(rows) \cup {l} ELSE SeatsA!Waiting(rows) \ {l}
  <1> DEFINE later == SeatsA_Change(rows, l, r)
  <1>1. ~ (r.status \in {"ENROLLED", "CONFIRMED"}) /\ ~ (r.seat \in 1 .. SeatsAConfig.Capacity)
    OBVIOUS
  <1>2. /\ r.seat \in 1 .. SeatsAConfig.Capacity <=> r.status \in {"ENROLLED", "CONFIRMED"}
        /\ r.status \in {"ENROLLED", "CONFIRMED"} =>
               \A m \in SeatsA!Holding(rows) : m # l => rows[m].seat # r.seat
    BY <1>1
  <1>3. /\ SeatsA_Own(later)
        /\ later[l] = r /\ \A m \in SeatsAConfig.Learners : m # l => later[m] = rows[m]
        /\ SeatsA!Holding(later) = IF r.status \in {"ENROLLED", "CONFIRMED"}
                            THEN SeatsA!Holding(rows) \cup {l} ELSE SeatsA!Holding(rows) \ {l}
        /\ SeatsA!Waiting(later) = IF r.status = "WAITLISTED"
                            THEN SeatsA!Waiting(rows) \cup {l} ELSE SeatsA!Waiting(rows) \ {l}
    BY <1>2, SeatsA_OneRow
  <1> QED
    BY <1>1, <1>3

LEMMA SeatsA_NewRows ==
    ASSUME NEW n \in Nat, NEW t \in Nat, NEW status \in SeatsA_Statuses
    PROVE  /\ SeatsA!Seated(n, t) = [status |-> "ENROLLED", seat |-> n, position |-> 0,
                              until |-> t + SeatsAConfig.Hold]
           /\ SeatsA!Queued(n) = [status |-> "WAITLISTED", seat |-> 0, position |-> n, until |-> 0]
           /\ SeatsA!Ended(status) = [status |-> status, seat |-> 0, position |-> 0, until |-> 0]
           /\ SeatsA!Seated(n, t) \in SeatsA_Enrollments /\ SeatsA!Queued(n) \in SeatsA_Enrollments
           /\ SeatsA!Ended(status) \in SeatsA_Enrollments
           /\ ~ (0 \in 1 .. SeatsAConfig.Capacity)
  <1>1. SeatsA!Seated(n, t) = [status |-> "ENROLLED", seat |-> n, position |-> 0,
                        until |-> t + SeatsAConfig.Hold]
    <2> DEFINE r1 == [status |-> "ENROLLED", seat |-> 0, position |-> 0, until |-> 0]
               r2 == [status |-> "ENROLLED", seat |-> n, position |-> 0, until |-> 0]
    <2>1. r1 = [SeatsA!NoRow EXCEPT !.status = "ENROLLED"]
      BY DEF SeatsA!NoRow
    <2>2. r2 = [r1 EXCEPT !.seat = n]
      OBVIOUS
    <2>3. SeatsA!Seated(n, t) = [[[SeatsA!NoRow EXCEPT !.status = "ENROLLED"] EXCEPT !.seat = n]
                              EXCEPT !.until = t + SeatsAConfig.Hold]
      BY DEF SeatsA!Seated
    <2>4. [r2 EXCEPT !.until = t + SeatsAConfig.Hold]
              = [status |-> "ENROLLED", seat |-> n, position |-> 0, until |-> t + SeatsAConfig.Hold]
      OBVIOUS
    <2> HIDE DEF r1, r2
    <2> QED
      BY <2>1, <2>2, <2>3, <2>4
  <1>2. SeatsA!Queued(n) = [status |-> "WAITLISTED", seat |-> 0, position |-> n, until |-> 0]
    <2> DEFINE r1 == [status |-> "WAITLISTED", seat |-> 0, position |-> 0, until |-> 0]
    <2>1. r1 = [SeatsA!NoRow EXCEPT !.status = "WAITLISTED"]
      BY DEF SeatsA!NoRow
    <2>2. SeatsA!Queued(n) = [[SeatsA!NoRow EXCEPT !.status = "WAITLISTED"] EXCEPT !.position = n]
      BY DEF SeatsA!Queued
    <2>3. [r1 EXCEPT !.position = n]
              = [status |-> "WAITLISTED", seat |-> 0, position |-> n, until |-> 0]
      OBVIOUS
    <2> HIDE DEF r1
    <2> QED
      BY <2>1, <2>2, <2>3
  <1>3. SeatsA!Ended(status) = [status |-> status, seat |-> 0, position |-> 0, until |-> 0]
    BY DEF SeatsA!Ended, SeatsA!NoRow
  <1>4. t + SeatsAConfig.Hold \in Nat
    BY SeatsAAssumption
  <1> QED
    BY <1>1, <1>2, <1>3, <1>4 DEF SeatsA_Enrollments, SeatsA_Statuses

LEMMA SeatsA_PlacesAreNumbers ==
    ASSUME NEW rows, SeatsA_Own(rows)
    PROVE  SeatsA!Positions(rows) \subseteq Nat
  BY SeatsA_Few DEF SeatsA_Own, SeatsA!Positions, SeatsA_Enrollments

LEMMA SeatsA_PromoteOneGood ==
    ASSUME NEW rows, SeatsA_Own(rows), NEW t \in Nat
    PROVE  LET later == SeatsA!PromoteOne(rows, t) IN
           /\ SeatsA_Own(later) /\ SeatsA_Keeps(rows, later)
           /\ SeatsA!Waiting(later) \subseteq SeatsA!Waiting(rows)
           /\ \/ later = rows /\ (SeatsA!Waiting(rows) = {} \/ Cardinality(SeatsA!Holding(rows)) >= SeatsAConfig.Capacity)
              \/ Cardinality(SeatsA!Holding(later)) = Cardinality(SeatsA!Holding(rows)) + 1
  <1> DEFINE later == SeatsA!PromoteOne(rows, t)
  <1>1. CASE SeatsA!Waiting(rows) = {} \/ Cardinality(SeatsA!Holding(rows)) >= SeatsAConfig.Capacity
    BY <1>1, SeatsA_Counts DEF SeatsA!PromoteOne, SeatsA_Keeps
  <1>2. CASE SeatsA!Waiting(rows) # {} /\ ~ (Cardinality(SeatsA!Holding(rows)) >= SeatsAConfig.Capacity)
    <2> DEFINE first == CHOOSE l \in SeatsA!Waiting(rows) : rows[l].position = SeatsA!Min(SeatsA!Positions(rows))
               r == SeatsA!Seated(SeatsA!FreeSeat(rows), t)
    <2>1. first \in SeatsA!Waiting(rows)
      <3>1. SeatsA!Positions(rows) # {}
        BY <1>2 DEF SeatsA!Positions
      <3>2. PICK p \in SeatsA!Positions(rows) : \A q \in SeatsA!Positions(rows) : p <= q
        BY <3>1, SeatsA_PlacesAreNumbers, LeastNatural
      <3>3. SeatsA!Min(SeatsA!Positions(rows)) \in SeatsA!Positions(rows)
        BY <3>2 DEF SeatsA!Min
      <3>4. \E l \in SeatsA!Waiting(rows) : rows[l].position = SeatsA!Min(SeatsA!Positions(rows))
        BY <3>3 DEF SeatsA!Positions
      <3> QED
        BY <3>4
    <2>2. later = SeatsA_Change(rows, first, r)
      BY <1>2, SeatsA_Counts DEF SeatsA!PromoteOne, SeatsA_Change
    <2>3. Cardinality(SeatsA!Holding(rows)) < SeatsAConfig.Capacity
      BY <1>2, SeatsA_Few, SeatsAAssumption
    <2>4. /\ SeatsA!FreeSeat(rows) \in 1 .. SeatsAConfig.Capacity
          /\ \A l \in SeatsA!Holding(rows) : rows[l].seat # SeatsA!FreeSeat(rows)
      BY <2>3, SeatsA_FreeSeatIsFree
    <2>5. r \in SeatsA_Enrollments /\ r.status = "ENROLLED" /\ r.seat = SeatsA!FreeSeat(rows)
      <3>1. SeatsA!FreeSeat(rows) \in Nat /\ "none" \in SeatsA_Statuses
        BY <2>4, SeatsAAssumption DEF SeatsA_Statuses
      <3>2. /\ r \in SeatsA_Enrollments
            /\ r = [status |-> "ENROLLED", seat |-> SeatsA!FreeSeat(rows), position |-> 0,
                    until |-> t + SeatsAConfig.Hold]
        BY <3>1, SeatsA_NewRows
      <3> QED
        BY <3>2
    <2> HIDE DEF first, r, later
    <2>6. first \in SeatsAConfig.Learners /\ first \notin SeatsA!Holding(rows)
      BY <2>1, SeatsA_Few
    <2>7. /\ SeatsA_Own(later)
          /\ later[first] = r /\ \A m \in SeatsAConfig.Learners : m # first => later[m] = rows[m]
          /\ SeatsA!Holding(later) = SeatsA!Holding(rows) \cup {first}
          /\ SeatsA!Waiting(later) = SeatsA!Waiting(rows) \ {first}
      <3>1. /\ r.status \in {"ENROLLED", "CONFIRMED"} /\ r.seat \in 1 .. SeatsAConfig.Capacity
            /\ \A m \in SeatsA!Holding(rows) : m # first => rows[m].seat # r.seat
        BY <2>4, <2>5
      <3> QED
        BY <2>2, <2>5, <2>6, <3>1, SeatsA_GetsSeat
    <2>8. Cardinality(SeatsA!Holding(later)) = Cardinality(SeatsA!Holding(rows)) + 1
      BY <2>6, <2>7, SeatsA_Few, FS_AddElement
    <2>9. SeatsA_Keeps(rows, later)
      BY <2>1, <2>7 DEF SeatsA_Keeps, SeatsA!Waiting
    <2> QED
      BY <2>7, <2>8, <2>9 DEF later
  <1> QED
    BY <1>1, <1>2

\* g is what k seats in a row, given to the first that waits, do to the rows.
SeatsA_Promotes(g, rows, t, k) ==
    g = [n \in 0 .. k |-> IF n = 0 THEN rows ELSE SeatsA!PromoteOne(g[n - 1], t)]

LEMMA SeatsA_PromotionsExist ==
    ASSUME NEW rows, NEW t, NEW k \in Nat
    PROVE  \E g : SeatsA_Promotes(g, rows, t, k)
  <1> DEFINE T == {m \in Nat : \E g :
                       g = [n \in 0 .. m |-> IF n = 0 THEN rows ELSE SeatsA!PromoteOne(g[n - 1], t)]}
  <1>1. 0 \in T
    <2> DEFINE g == [n \in 0 .. 0 |-> rows]
    <2>1. g = [n \in 0 .. 0 |-> IF n = 0 THEN rows ELSE SeatsA!PromoteOne(g[n - 1], t)]
      OBVIOUS
    <2> QED
      BY <2>1
  <1>2. ASSUME NEW m \in Nat, m \in T
        PROVE  m + 1 \in T
    <2>1. PICK g : g = [n \in 0 .. m |-> IF n = 0 THEN rows ELSE SeatsA!PromoteOne(g[n - 1], t)]
      BY <1>2
    <2> DEFINE h == [n \in 0 .. m + 1 |-> IF n = m + 1 THEN SeatsA!PromoteOne(g[m], t) ELSE g[n]]
    <2>2. ASSUME NEW n \in 0 .. m + 1
          PROVE  h[n] = IF n = 0 THEN rows ELSE SeatsA!PromoteOne(h[n - 1], t)
      <3>1. CASE n = m + 1
        BY <3>1
      <3>2. CASE n # m + 1
        <4>1. n \in 0 .. m /\ h[n] = g[n]
          BY <3>2
        <4>2. g[n] = IF n = 0 THEN rows ELSE SeatsA!PromoteOne(g[n - 1], t)
          BY <2>1, <4>1
        <4>3. n # 0 => h[n - 1] = g[n - 1]
          BY <4>1
        <4> QED
          BY <4>1, <4>2, <4>3
      <3> QED
        BY <3>1, <3>2
    <2>3. h = [n \in 0 .. m + 1 |-> IF n = 0 THEN rows ELSE SeatsA!PromoteOne(h[n - 1], t)]
      <3> DEFINE f == [n \in 0 .. m + 1 |-> IF n = 0 THEN rows ELSE SeatsA!PromoteOne(h[n - 1], t)]
      <3>1. \A n \in 0 .. m + 1 : h[n] = f[n]
        BY <2>2
      <3> QED
        BY <3>1
    <2> HIDE DEF h
    <2>4. \E f : f = [n \in 0 .. m + 1 |-> IF n = 0 THEN rows ELSE SeatsA!PromoteOne(f[n - 1], t)]
      BY <2>3
    <2> QED
      BY <2>4
  <1> HIDE DEF T
  <1>3. Nat \subseteq T
    BY <1>1, <1>2, NaturalsFrom
  <1>4. \E g : g = [n \in 0 .. k |-> IF n = 0 THEN rows ELSE SeatsA!PromoteOne(g[n - 1], t)]
    BY <1>3 DEF T
  <1> QED
    BY <1>4 DEF SeatsA_Promotes

LEMMA SeatsA_GrantedGood ==
    ASSUME NEW rows, SeatsA_Own(rows), NEW t \in Nat, NEW seats \in Nat,
           SeatsA!Waiting(rows) # {} => Cardinality(SeatsA!Holding(rows)) + seats >= SeatsAConfig.Capacity
    PROVE  LET later == SeatsA!Granted(rows, t, seats) IN
           /\ SeatsA_Own(later) /\ SeatsA_Keeps(rows, later)
           /\ SeatsA!Waiting(later) # {} => Cardinality(SeatsA!Holding(later)) = SeatsAConfig.Capacity
  <1> DEFINE g == CHOOSE f : SeatsA_Promotes(f, rows, t, seats)
             After(n) ==
                 /\ SeatsA_Own(g[n]) /\ SeatsA_Keeps(rows, g[n])
                 /\ SeatsA!Waiting(g[n]) # {} =>
                        /\ SeatsA!Waiting(rows) # {}
                        /\ \/ Cardinality(SeatsA!Holding(g[n])) >= Cardinality(SeatsA!Holding(rows)) + n
                           \/ Cardinality(SeatsA!Holding(g[n])) >= SeatsAConfig.Capacity
             T == {n \in Nat : n <= seats => After(n)}
  <1>1. g = [n \in 0 .. seats |-> IF n = 0 THEN rows ELSE SeatsA!PromoteOne(g[n - 1], t)]
    <2>1. \E f : SeatsA_Promotes(f, rows, t, seats)
      BY SeatsA_PromotionsExist
    <2> QED
      BY <2>1 DEF SeatsA_Promotes
  <1>2. SeatsA!Granted(rows, t, seats) = g[seats]
    BY DEF SeatsA!Granted, SeatsA_Promotes
  <1> HIDE DEF g
  <1>3. g[0] = rows /\ \A n \in 0 .. seats : n # 0 => g[n] = SeatsA!PromoteOne(g[n - 1], t)
    BY <1>1
  <1>4. 0 \in T
    BY <1>3, SeatsA_Few DEF SeatsA_Keeps
  <1>5. ASSUME NEW n \in Nat, n \in T
        PROVE  n + 1 \in T
    <2> SUFFICES ASSUME n + 1 <= seats
                 PROVE  After(n + 1)
      OBVIOUS
    <2>1. After(n) /\ g[n + 1] = SeatsA!PromoteOne(g[n], t)
      BY <1>3, <1>5
    <2>2. /\ SeatsA_Own(g[n + 1]) /\ SeatsA_Keeps(g[n], g[n + 1])
          /\ SeatsA!Waiting(g[n + 1]) \subseteq SeatsA!Waiting(g[n])
          /\ \/ /\ g[n + 1] = g[n]
                /\ SeatsA!Waiting(g[n]) = {} \/ Cardinality(SeatsA!Holding(g[n])) >= SeatsAConfig.Capacity
             \/ Cardinality(SeatsA!Holding(g[n + 1])) = Cardinality(SeatsA!Holding(g[n])) + 1
      BY <2>1, SeatsA_PromoteOneGood
    <2>3. SeatsA_Keeps(rows, g[n + 1])
      BY <2>1, <2>2 DEF SeatsA_Keeps
    <2>4. /\ Cardinality(SeatsA!Holding(g[n])) \in Nat /\ Cardinality(SeatsA!Holding(g[n + 1])) \in Nat
          /\ Cardinality(SeatsA!Holding(rows)) \in Nat /\ SeatsAConfig.Capacity \in Nat
      BY SeatsA_Few, SeatsAAssumption
    <2>5. ASSUME SeatsA!Waiting(g[n + 1]) # {}
          PROVE  /\ SeatsA!Waiting(rows) # {}
                 /\ \/ Cardinality(SeatsA!Holding(g[n + 1])) >= Cardinality(SeatsA!Holding(rows)) + (n + 1)
                    \/ Cardinality(SeatsA!Holding(g[n + 1])) >= SeatsAConfig.Capacity
      <3>1. SeatsA!Waiting(g[n]) # {} /\ SeatsA!Waiting(rows) # {}
        BY <2>1, <2>2, <2>5
      <3>2. \/ Cardinality(SeatsA!Holding(g[n])) >= Cardinality(SeatsA!Holding(rows)) + n
            \/ Cardinality(SeatsA!Holding(g[n])) >= SeatsAConfig.Capacity
        BY <2>1, <3>1
      <3> QED
        BY <2>2, <2>4, <3>1, <3>2
    <2> QED
      BY <2>2, <2>3, <2>5
  <1>6. seats \in T
    <2> HIDE DEF T
    <2> QED
      BY <1>4, <1>5, NaturalsFrom
  <1>7. After(seats)
    BY <1>6
  <1>8. SeatsA!Waiting(g[seats]) # {} => Cardinality(SeatsA!Holding(g[seats])) = SeatsAConfig.Capacity
    <2>1. /\ Cardinality(SeatsA!Holding(g[seats])) \in Nat /\ Cardinality(SeatsA!Holding(rows)) \in Nat
          /\ SeatsAConfig.Capacity \in Nat
      BY SeatsA_Few, SeatsAAssumption
    <2>2. Cardinality(SeatsA!Holding(g[seats])) <= SeatsAConfig.Capacity
      BY <1>7, SeatsA_SmallHouse
    <2>3. SeatsA!Waiting(g[seats]) # {} => Cardinality(SeatsA!Holding(g[seats])) >= SeatsAConfig.Capacity
      BY <1>7, <2>1
    <2> QED
      BY <2>1, <2>2, <2>3
  <1> QED
    BY <1>2, <1>7, <1>8

LEMMA SeatsA_RanksAreDense ==
    ASSUME NEW rows, SeatsA_Own(rows), NEW rank,
           rank = [l \in SeatsA!Waiting(rows) |->
                      Cardinality({p \in SeatsA!Positions(rows) : p <= rows[l].position})]
    PROVE  /\ \A l \in SeatsA!Waiting(rows) : rank[l] \in 1 .. Cardinality(SeatsA!Waiting(rows))
           /\ \A l, m \in SeatsA!Waiting(rows) : rank[l] = rank[m] => l = m
           /\ \A k \in 1 .. Cardinality(SeatsA!Waiting(rows)) : \E l \in SeatsA!Waiting(rows) : rank[l] = k
  <1> DEFINE W == SeatsA!Waiting(rows)
             P == SeatsA!Positions(rows)
             n == Cardinality(W)
             below(l) == {p \in P : p <= rows[l].position}
             f == [l \in W |-> rows[l].position]
  <1>1. /\ IsFiniteSet(W) /\ n \in Nat
        /\ \A l, m \in W : rows[l].position = rows[m].position => l = m
    BY SeatsA_Few DEF SeatsA_Own
  <1>2. /\ P \subseteq Nat
        /\ \A l \in W : rows[l].position \in P
        /\ \A p \in P : \E l \in W : rows[l].position = p
    BY SeatsA_PlacesAreNumbers DEF SeatsA!Positions
  <1>3. \A l \in W : rank[l] = Cardinality(below(l))
    OBVIOUS
  <1> HIDE DEF W, P
  <1>4. IsFiniteSet(P) /\ Cardinality(P) = n
    <2>1. f \in Bijection(W, P)
      BY <1>1, <1>2 DEF Bijection, Injection, IsInjective, Surjection
    <2>2. ExistsBijection(W, P)
      BY <2>1 DEF ExistsBijection
    <2> QED
      BY <1>1, <2>2, FS_Bijection
  <1>a. \A l \in W : rows[l].position \in Nat
    BY <1>2
  <1>b. /\ \A l \in W : below(l) \in SUBSET P
        /\ \A l \in W, p \in P : p \in below(l) <=> p <= rows[l].position
    OBVIOUS
  <1>c. n \in Nat
    BY <1>1
  <1> HIDE DEF f, n, below
  <1>5. ASSUME NEW l \in W
        PROVE  IsFiniteSet(below(l)) /\ rank[l] \in 1 .. n
    <2>1. below(l) \in SUBSET P /\ below(l) # {}
      BY <1>2, <1>a, <1>b
    <2>2. IsFiniteSet(below(l)) /\ Cardinality(below(l)) <= n
      BY <1>4, <2>1, FS_Subset
    <2>3. Cardinality(below(l)) \in Nat /\ Cardinality(below(l)) # 0
      BY <2>1, <2>2, FS_CardinalityType, FS_EmptySet
    <2> DEFINE c == Cardinality(below(l))
    <2>4. c \in Nat /\ c # 0 /\ c <= n /\ rank[l] = c
      BY <1>3, <2>2, <2>3
    <2> HIDE DEF c
    <2>5. rank[l] \in 1 .. n
      BY <1>c, <2>4
    <2> QED
      BY <2>2, <2>5
  <1>6. ASSUME NEW l \in W, NEW m \in W, rank[l] = rank[m],
               rows[l].position <= rows[m].position
        PROVE  l = m
    <2>1. rows[l].position \in Nat /\ rows[m].position \in Nat
      BY <1>a
    <2>2. below(l) \in SUBSET below(m)
      <3> SUFFICES ASSUME NEW p \in below(l) PROVE p \in below(m)
        OBVIOUS
      <3>1. p \in P /\ p \in Nat /\ p <= rows[l].position
        BY <1>2, <1>b
      <3> QED
        BY <1>6, <1>b, <2>1, <3>1
    <2>3. IsFiniteSet(below(m)) /\ Cardinality(below(m)) = Cardinality(below(l))
      BY <1>3, <1>5, <1>6
    <2>4. below(m) = below(l)
      BY <2>2, <2>3, FS_Subset
    <2>5. rows[m].position \in below(m)
      BY <1>2, <1>b, <2>1
    <2>6. rows[m].position <= rows[l].position
      BY <1>2, <1>b, <2>4, <2>5
    <2> QED
      BY <1>1, <1>6, <2>1, <2>6
  <1>7. \A l, m \in W : rank[l] = rank[m] => l = m
    <2>1. \A l, m \in W : \/ rows[l].position <= rows[m].position
                          \/ rows[m].position <= rows[l].position
      BY <1>a
    <2> QED
      BY <1>6, <2>1
  <1>8. \A k \in 1 .. n : \E l \in W : rank[l] = k
    <2>1. rank = [l \in W |-> rank[l]] /\ \A l \in W : rank[l] \in 1 .. n
      BY <1>5 DEF W
    <2>2. rank \in Injection(W, 1 .. n)
      BY <1>7, <2>1 DEF Injection, IsInjective
    <2>3. IsFiniteSet(1 .. n) /\ Cardinality(1 .. n) = n
      BY <1>c, FS_Interval
    <2>4. rank \in Surjection(W, 1 .. n)
      <3>1. Cardinality(W) = Cardinality(1 .. n)
        BY <2>3 DEF n
      <3> QED
        BY <2>2, <2>3, <3>1, FS_Injection, Zenon
    <2> QED
      BY <2>4 DEF Surjection
  <1> QED
    BY <1>5, <1>7, <1>8 DEF W, n

LEMMA SeatsA_CompactGood ==
    ASSUME NEW rows, SeatsA_Own(rows)
    PROVE  LET later == SeatsA!Compact(rows) IN
           /\ SeatsA_Own(later) /\ SeatsA_Dense(later) /\ SeatsA_Keeps(rows, later)
           /\ SeatsA!Holding(later) = SeatsA!Holding(rows) /\ SeatsA!Waiting(later) = SeatsA!Waiting(rows)
  <1> DEFINE later == SeatsA!Compact(rows)
             W == SeatsA!Waiting(rows)
             n == Cardinality(W)
             rank == [l \in W |->
                         Cardinality({p \in SeatsA!Positions(rows) : p <= rows[l].position})]
  <1>1. \A l \in SeatsAConfig.Learners : later[l] = IF l \in W THEN SeatsA!Queued(rank[l]) ELSE rows[l]
    BY SeatsA_Counts DEF SeatsA!Compact
  <1>2. later = [l \in SeatsAConfig.Learners |-> later[l]]
    BY SeatsA_Counts DEF SeatsA!Compact
  <1>3. /\ \A l \in W : rank[l] \in 1 .. n
        /\ \A l, m \in W : rank[l] = rank[m] => l = m
        /\ \A k \in 1 .. n : \E l \in W : rank[l] = k
    BY SeatsA_RanksAreDense
  <1> HIDE DEF later, rank
  <1>4. n \in Nat /\ W \subseteq SeatsAConfig.Learners /\ W \cap SeatsA!Holding(rows) = {}
    BY SeatsA_Few
  <1>5. ASSUME NEW l \in W
        PROVE  /\ later[l] \in SeatsA_Enrollments /\ later[l].status = "WAITLISTED"
               /\ later[l].seat = 0 /\ later[l].position = rank[l]
    <2>1. rank[l] \in Nat /\ 0 \in Nat /\ "none" \in SeatsA_Statuses
      BY <1>3, <1>4 DEF SeatsA_Statuses
    <2>2. /\ later[l] = [status |-> "WAITLISTED", seat |-> 0, position |-> rank[l],
                         until |-> 0]
          /\ later[l] \in SeatsA_Enrollments
      BY <1>1, <1>4, <2>1, SeatsA_NewRows
    <2> QED
      BY <2>2
  <1>6. \A l \in SeatsAConfig.Learners : l \notin W => later[l] = rows[l]
    BY <1>1
  <1>7. SeatsA!Holding(later) = SeatsA!Holding(rows) /\ SeatsA!Waiting(later) = W
    BY <1>4, <1>5, <1>6 DEF SeatsA!Holding, SeatsA!Waiting
  <1>8. ~ (0 \in 1 .. SeatsAConfig.Capacity)
    OBVIOUS
  <1>9. later \in [SeatsAConfig.Learners -> SeatsA_Enrollments]
    <2>1. \A l \in SeatsAConfig.Learners : later[l] \in SeatsA_Enrollments
      BY <1>5, <1>6 DEF SeatsA_Own
    <2> QED
      BY <1>2, <2>1
  <1>10. SeatsA_Own(later)
    <2>1. \A l \in SeatsAConfig.Learners : later[l].seat \in 1 .. SeatsAConfig.Capacity <=> l \in SeatsA!Holding(later)
      BY <1>4, <1>5, <1>6, <1>7, <1>8 DEF SeatsA_Own
    <2>2. \A l, m \in SeatsA!Holding(later) : later[l].seat = later[m].seat => l = m
      BY <1>4, <1>6, <1>7, SeatsA_Few DEF SeatsA_Own
    <2>3. \A l, m \in SeatsA!Waiting(later) : later[l].position = later[m].position => l = m
      BY <1>3, <1>5, <1>7
    <2> QED
      BY <1>9, <2>1, <2>2, <2>3 DEF SeatsA_Own
  <1>11. SeatsA_Dense(later)
    BY <1>3, <1>5, <1>7 DEF SeatsA_Dense, SeatsA!Positions
  <1>12. SeatsA_Keeps(rows, later)
    BY <1>6 DEF SeatsA_Keeps, SeatsA!Waiting
  <1> QED
    BY <1>7, <1>10, <1>11, <1>12 DEF later

LEMMA SeatsA_PromoteGood ==
    ASSUME NEW rows, SeatsA_Own(rows), SeatsA_Dense(rows), NEW t \in Nat,
           NEW seats \in Nat,
           SeatsA!Waiting(rows) # {} => Cardinality(SeatsA!Holding(rows)) + seats >= SeatsAConfig.Capacity
    PROVE  SeatsA_Good(SeatsA!Promote(rows, t, seats)) /\ SeatsA_Keeps(rows, SeatsA!Promote(rows, t, seats))
  <1> DEFINE later == SeatsA!Granted(rows, t, seats)
  <1>1. /\ SeatsA_Own(later) /\ SeatsA_Keeps(rows, later)
        /\ SeatsA!Waiting(later) # {} => Cardinality(SeatsA!Holding(later)) = SeatsAConfig.Capacity
    BY SeatsA_GrantedGood
  <1>2. SeatsA!Promote(rows, t, seats) = IF later = rows THEN rows ELSE SeatsA!Compact(later)
    BY DEF SeatsA!Promote
  <1> HIDE DEF later
  <1>3. /\ SeatsA_Own(SeatsA!Compact(later)) /\ SeatsA_Dense(SeatsA!Compact(later)) /\ SeatsA_Keeps(later, SeatsA!Compact(later))
        /\ SeatsA!Holding(SeatsA!Compact(later)) = SeatsA!Holding(later) /\ SeatsA!Waiting(SeatsA!Compact(later)) = SeatsA!Waiting(later)
    BY <1>1, SeatsA_CompactGood
  <1>4. SeatsA_Good(SeatsA!Compact(later)) /\ SeatsA_Keeps(rows, SeatsA!Compact(later))
    BY <1>1, <1>3 DEF SeatsA_Good, SeatsA_Keeps
  <1>5. later = rows => SeatsA_Good(rows) /\ SeatsA_Keeps(rows, rows)
    BY <1>1 DEF SeatsA_Good, SeatsA_Keeps
  <1> QED
    BY <1>2, <1>4, <1>5

\* Holders that leave make room for as many as they were.
LEMMA SeatsA_LeftGood ==
    ASSUME NEW rows, SeatsA_Good(rows), NEW due, due \subseteq SeatsA!Holding(rows),
           NEW t \in Nat,
           NEW status \in {"EXPIRED", "CANCELLED"}, NEW left,
           left = [l \in SeatsAConfig.Learners |-> IF l \in due THEN SeatsA!Ended(status) ELSE rows[l]]
    PROVE  /\ SeatsA_Good(SeatsA!Promote(left, t, Cardinality(due)))
           /\ SeatsA_Keeps(left, SeatsA!Promote(left, t, Cardinality(due)))
  <1>1. due \subseteq SeatsAConfig.Learners /\ due \in SUBSET SeatsA!Holding(rows)
    BY SeatsA_Few
  <1>2. IsFiniteSet(due) /\ Cardinality(due) \in Nat
    BY <1>1, SeatsA_Few, FS_Subset, FS_CardinalityType
  <1>3. /\ SeatsA!Ended(status) = [status |-> status, seat |-> 0, position |-> 0, until |-> 0]
        /\ SeatsA!Ended(status) \in SeatsA_Enrollments
    BY 0 \in Nat, status \in SeatsA_Statuses, SeatsA_NewRows DEF SeatsA_Statuses
  <1>4. /\ \A l \in due : left[l] = SeatsA!Ended(status)
        /\ \A l \in SeatsAConfig.Learners : l \notin due => left[l] = rows[l]
    BY <1>1
  <1>5. left \in [SeatsAConfig.Learners -> SeatsA_Enrollments]
    <2>1. \A l \in SeatsAConfig.Learners : left[l] \in SeatsA_Enrollments
      BY <1>3, <1>4 DEF SeatsA_Good, SeatsA_Own
    <2> QED
      BY <2>1
  <1>6. \A l \in due : left[l].status = status /\ left[l].seat = 0
    BY <1>3, <1>4
  <1>7. SeatsA!Holding(left) = SeatsA!Holding(rows) \ due /\ SeatsA!Waiting(left) = SeatsA!Waiting(rows)
    <2>1. \A l \in due : l \notin SeatsA!Waiting(rows)
      BY SeatsA_Few
    <2> QED
      BY <1>1, <1>4, <1>6, <2>1 DEF SeatsA!Holding, SeatsA!Waiting
  <1>8. SeatsA_Own(left)
    <2>1. ~ (0 \in 1 .. SeatsAConfig.Capacity)
      OBVIOUS
    <2>2. \A l \in SeatsAConfig.Learners : left[l].seat \in 1 .. SeatsAConfig.Capacity <=> l \in SeatsA!Holding(left)
      BY <1>4, <1>6, <1>7, <2>1 DEF SeatsA_Good, SeatsA_Own
    <2>3. \A l, m \in SeatsA!Holding(left) : left[l].seat = left[m].seat => l = m
      BY <1>4, <1>7, SeatsA_Few DEF SeatsA_Good, SeatsA_Own
    <2>4. \A l \in SeatsA!Waiting(left) : left[l] = rows[l]
      BY <1>1, <1>4, <1>7, SeatsA_Few
    <2>5. \A l, m \in SeatsA!Waiting(left) : left[l].position = left[m].position => l = m
      BY <1>7, <2>4 DEF SeatsA_Good, SeatsA_Own
    <2> QED
      BY <1>5, <2>2, <2>3, <2>5 DEF SeatsA_Own
  <1>9. SeatsA_Dense(left)
    <2>1. \A l \in SeatsA!Waiting(left) : left[l] = rows[l]
      BY <1>1, <1>4, <1>7, SeatsA_Few
    <2>2. SeatsA!Positions(left) = SeatsA!Positions(rows)
      BY <1>7, <2>1 DEF SeatsA!Positions
    <2> QED
      BY <1>7, <2>2 DEF SeatsA_Dense, SeatsA_Good
  <1>10. Cardinality(SeatsA!Holding(left)) + Cardinality(due) = Cardinality(SeatsA!Holding(rows))
    <2>1. SeatsA!Holding(rows) \cap due = due
      BY <1>1
    <2>2. Cardinality(SeatsA!Holding(left)) = Cardinality(SeatsA!Holding(rows)) - Cardinality(due)
      BY <1>7, <2>1, SeatsA_Few, FS_Difference
    <2> QED
      BY <1>2, <2>2, SeatsA_Few
  <1>11. SeatsA!Waiting(left) # {} => Cardinality(SeatsA!Holding(left)) + Cardinality(due) >= SeatsAConfig.Capacity
    BY <1>7, <1>10, SeatsAAssumption DEF SeatsA_Good
  <1> QED
    BY <1>2, <1>8, <1>9, <1>11, SeatsA_PromoteGood

LEMMA SeatsA_SettledGood ==
    ASSUME NEW rows, SeatsA_Good(rows), NEW t \in Nat
    PROVE  SeatsA_Good(SeatsA!Settled(rows, t)) /\ SeatsA_Keeps(rows, SeatsA!Settled(rows, t))
  <1> DEFINE due == SeatsA!Due(rows, t)
             left == [l \in SeatsAConfig.Learners |-> IF l \in due THEN SeatsA!Ended("EXPIRED") ELSE rows[l]]
  <1>1. due \subseteq SeatsA!Holding(rows) /\ \A l \in due : rows[l].status # "CONFIRMED"
    BY DEF SeatsA!Due, SeatsA!Holding
  <1>2. SeatsA!Settled(rows, t) = SeatsA!Promote(left, t, Cardinality(due))
    BY SeatsA_Counts DEF SeatsA!Settled
  <1> HIDE DEF due
  <1>3. SeatsA_Keeps(rows, left)
    BY <1>1 DEF SeatsA_Keeps
  <1>4. SeatsA_Good(SeatsA!Promote(left, t, Cardinality(due))) /\ SeatsA_Keeps(left, SeatsA!Promote(left, t, Cardinality(due)))
    BY <1>1, SeatsA_LeftGood
  <1> HIDE DEF left
  <1> QED
    BY <1>2, <1>3, <1>4 DEF SeatsA_Keeps

\* A step that keeps confirmed seats and no result
LEMMA SeatsA_MovesOn ==
    ASSUME SeatsA_IInv, SeatsA_Good(s2'), SeatsA_Keeps(s2, s2'), UNCHANGED <<s1, s3, s4>>
    PROVE  SeatsA_IInv'
  <1>1. SeatsA!CertificateSound'
    BY DEF SeatsA_IInv, SeatsA!CertificateSound, SeatsA_Keeps
  <1> QED
    BY <1>1 DEF SeatsA_IInv

LEMMA SeatsA_ReadIsTime == ASSUME SeatsA_IInv, NEW t \in SeatsA!Read PROVE t \in Nat
  BY DEF SeatsA_IInv, SeatsA!Read

LEMMA SeatsA_EnrollStep ==
    ASSUME SeatsA_IInv, NEW l \in SeatsAConfig.Learners, NEW t \in SeatsA!Read,
           SeatsA!Enroll(l, t)
    PROVE  SeatsA_IInv'
  <1> DEFINE rows == SeatsA!Settled(s2, t)
             r == IF Cardinality(SeatsA!Holding(rows)) < SeatsAConfig.Capacity
                  THEN SeatsA!Seated(SeatsA!FreeSeat(rows), t) ELSE SeatsA!Queued(SeatsA!Next_Position(rows))
             later == SeatsA_Change(rows, l, r)
  <1>1. /\ UNCHANGED <<s1, s3, s4>>
        /\ \/ s2' = rows
           \/ /\ rows[l].status \in {"none", "CANCELLED", "EXPIRED"}
              /\ s2' = later
    BY SeatsA_Counts DEF SeatsA!Enroll, SeatsA_Change
  <1>2. SeatsA_Good(rows) /\ SeatsA_Keeps(s2, rows) /\ t \in Nat
    BY SeatsA_ReadIsTime, SeatsA_SettledGood DEF SeatsA_IInv
  <1>3. CASE s2' = rows
    BY <1>1, <1>2, <1>3, SeatsA_MovesOn
  <1> HIDE DEF rows
  <1>4. CASE rows[l].status \in {"none", "CANCELLED", "EXPIRED"} /\ s2' = later
    <2> DEFINE n == Cardinality(SeatsA!Waiting(rows))
    <2>1. l \notin SeatsA!Holding(rows) /\ l \notin SeatsA!Waiting(rows) /\ n \in Nat
      BY <1>4, SeatsA_Few DEF SeatsA!Holding, SeatsA!Waiting
    <2>2. SeatsA!Positions(rows) = 1 .. n
      BY <1>2 DEF SeatsA_Good, SeatsA_Dense
    <2>3. ~ (0 \in 1 .. SeatsAConfig.Capacity) /\ 0 \in Nat /\ "none" \in SeatsA_Statuses
      BY DEF SeatsA_Statuses
    <2>4. CASE Cardinality(SeatsA!Holding(rows)) < SeatsAConfig.Capacity
      <3> DEFINE s == SeatsA!FreeSeat(rows)
      <3>1. s \in 1 .. SeatsAConfig.Capacity /\ \A m \in SeatsA!Holding(rows) : rows[m].seat # s
        BY <1>2, <2>4, SeatsA_FreeSeatIsFree DEF SeatsA_Good
      <3>2. s \in Nat /\ r = SeatsA!Seated(s, t)
        BY <2>4, <3>1, SeatsAAssumption
      <3> HIDE DEF s, r
      <3>3. /\ r = [status |-> "ENROLLED", seat |-> s, position |-> 0, until |-> t + SeatsAConfig.Hold]
            /\ r \in SeatsA_Enrollments
        BY <1>2, <2>3, <3>2, SeatsA_NewRows
      <3>4. r.status = "ENROLLED" /\ r.seat = s
        BY <3>3
      <3>5. /\ SeatsA_Own(later)
            /\ later[l] = r /\ \A m \in SeatsAConfig.Learners : m # l => later[m] = rows[m]
            /\ SeatsA!Waiting(later) = SeatsA!Waiting(rows) \ {l}
        <4>1. /\ r.status \in {"ENROLLED", "CONFIRMED"} /\ r.seat \in 1 .. SeatsAConfig.Capacity
              /\ \A m \in SeatsA!Holding(rows) : m # l => rows[m].seat # r.seat
          BY <3>1, <3>4
        <4>2. SeatsA_Own(rows)
          BY <1>2 DEF SeatsA_Good
        <4> QED
          BY <3>3, <4>1, <4>2, SeatsA_GetsSeat
      <3>6. SeatsA!Waiting(rows) = {}
        BY <1>2, <2>4, SeatsA_Few, SeatsAAssumption DEF SeatsA_Good
      <3>7. SeatsA_Dense(later)
        <4>1. SeatsA!Waiting(later) = {} /\ SeatsA!Positions(later) = {}
          BY <3>5, <3>6 DEF SeatsA!Positions
        <4>2. Cardinality({}) = 0 /\ 1 .. 0 = {}
          BY FS_EmptySet
        <4> QED
          BY <4>1, <4>2 DEF SeatsA_Dense
      <3>8. SeatsA_Keeps(s2, later)
        BY <1>2, <1>4, <3>5 DEF SeatsA_Keeps
      <3>9. SeatsA_Good(later)
        BY <3>5, <3>6, <3>7 DEF SeatsA_Good
      <3> QED
        BY <1>1, <1>4, <3>8, <3>9, SeatsA_MovesOn
    <2>5. CASE ~ (Cardinality(SeatsA!Holding(rows)) < SeatsAConfig.Capacity)
      <3> DEFINE p == SeatsA!Next_Position(rows)
      <3>1. p = n + 1
        <4>1. SeatsA!Positions(rows) \cup {0} = 0 .. n
          BY <2>1, <2>2
        <4>2. SeatsA!Max(0 .. n) = n
          <5>1. n \in 0 .. n /\ \A y \in 0 .. n : n >= y
            BY <2>1
          <5> HIDE DEF n
          <5>2. SeatsA!Max(0 .. n) \in 0 .. n /\ \A y \in 0 .. n : SeatsA!Max(0 .. n) >= y
            BY <5>1 DEF SeatsA!Max
          <5> QED
            BY <2>1, <5>1, <5>2
        <4>3. p = 1 + SeatsA!Max(SeatsA!Positions(rows) \cup {0})
          BY DEF SeatsA!Next_Position
        <4> HIDE DEF p, r, n
        <4>4. SeatsA!Max(SeatsA!Positions(rows) \cup {0}) = n
          BY <4>1, <4>2
        <4> QED
          BY <2>1, <4>3, <4>4
      <3>2. r = SeatsA!Queued(p)
        BY <2>5
      <3> HIDE DEF p, r, n
      <3>3. /\ r = [status |-> "WAITLISTED", seat |-> 0, position |-> p, until |-> 0]
            /\ r \in SeatsA_Enrollments
        BY <1>2, <2>1, <2>3, <3>1, <3>2, SeatsA_NewRows
      <3>4. r.status = "WAITLISTED" /\ r.seat = 0 /\ r.position = n + 1
        BY <3>1, <3>3
      <3>5. \A m \in SeatsA!Waiting(rows) : rows[m].position # n + 1
        BY <2>1, <2>2 DEF SeatsA!Positions
      <3>6. /\ SeatsA_Own(later)
            /\ later[l] = r /\ \A m \in SeatsAConfig.Learners : m # l => later[m] = rows[m]
            /\ SeatsA!Holding(later) = SeatsA!Holding(rows) \ {l}
            /\ SeatsA!Waiting(later) = SeatsA!Waiting(rows) \cup {l}
        <4>1. r.status \in {"WAITLISTED", "CANCELLED"} /\ r.seat = 0
          BY <3>4
        <4>2. r.status = "WAITLISTED" =>
                  \A m \in SeatsA!Waiting(rows) : m # l => rows[m].position # r.position
          BY <3>4, <3>5
        <4>3. SeatsA_Own(rows) /\ r \in SeatsA_Enrollments
          BY <1>2, <3>3 DEF SeatsA_Good
        <4> QED
          BY <3>4, <4>1, <4>2, <4>3, SeatsA_GetsNoSeat
      <3>7. Cardinality(SeatsA!Waiting(later)) = n + 1 /\ SeatsA!Holding(later) = SeatsA!Holding(rows)
        <4>1. IsFiniteSet(SeatsA!Waiting(rows)) /\ l \notin SeatsA!Waiting(rows) /\ l \notin SeatsA!Holding(rows)
          BY <2>1, SeatsA_Few
        <4>2. Cardinality(SeatsA!Waiting(rows) \cup {l}) = Cardinality(SeatsA!Waiting(rows)) + 1
          BY <4>1, FS_AddElement
        <4> HIDE DEF later
        <4> QED
          BY <3>6, <4>1, <4>2 DEF n
      <3>8. SeatsA!Positions(later) = SeatsA!Positions(rows) \cup {n + 1}
        <4>1. /\ later[l].position = n + 1
              /\ \A m \in SeatsA!Waiting(rows) : later[m] = rows[m]
          BY <2>1, <3>4, <3>6, SeatsA_Few
        <4> HIDE DEF later
        <4> QED
          BY <3>6, <4>1 DEF SeatsA!Positions
      <3>9. SeatsA_Dense(later)
        <4>1. (1 .. n) \cup {n + 1} = 1 .. (n + 1)
          BY <2>1
        <4> HIDE DEF later
        <4> QED
          BY <2>2, <3>7, <3>8, <4>1 DEF SeatsA_Dense
      <3>10. Cardinality(SeatsA!Holding(rows)) = SeatsAConfig.Capacity
        BY <1>2, <2>5, SeatsA_SmallHouse, SeatsA_Few, SeatsAAssumption DEF SeatsA_Good
      <3>11. SeatsA_Keeps(s2, later)
        BY <1>2, <1>4, <3>6 DEF SeatsA_Keeps
      <3>12. SeatsA_Good(later)
        BY <3>6, <3>7, <3>9, <3>10 DEF SeatsA_Good
      <3> QED
        BY <1>1, <1>4, <3>11, <3>12, SeatsA_MovesOn
    <2> QED
      BY <2>4, <2>5
  <1> QED
    BY <1>1, <1>3, <1>4

LEMMA SeatsA_ConfirmStep ==
    ASSUME SeatsA_IInv, NEW l \in SeatsAConfig.Learners, NEW t \in SeatsA!Read,
           SeatsA!Confirm(l, t)
    PROVE  SeatsA_IInv'
  <1> DEFINE rows == SeatsA!Settled(s2, t)
             r == [status |-> "CONFIRMED", seat |-> rows[l].seat,
                   position |-> rows[l].position, until |-> 0]
             later == SeatsA_Change(rows, l, r)
  <1>1. /\ UNCHANGED <<s1, s3, s4>>
        /\ rows[l].status \in {"ENROLLED", "CONFIRMED"}
        /\ s2' = [rows EXCEPT ![l].status = "CONFIRMED", ![l].until = 0]
    BY DEF SeatsA!Confirm
  <1>2. SeatsA_Good(rows) /\ SeatsA_Keeps(s2, rows)
    BY SeatsA_ReadIsTime, SeatsA_SettledGood DEF SeatsA_IInv
  <1> HIDE DEF rows
  <1>3. rows \in [SeatsAConfig.Learners -> SeatsA_Enrollments] /\ rows[l] \in SeatsA_Enrollments /\ l \in SeatsA!Holding(rows)
    BY <1>1, <1>2 DEF SeatsA_Good, SeatsA_Own, SeatsA!Holding
  <1>4. s2' = later
    <2> DEFINE half == [rows[l] EXCEPT !.status = "CONFIRMED"]
               mid == [rows EXCEPT ![l] = half]
    <2>1. mid[l] = half /\ [mid EXCEPT ![l] = r] = later
      BY <1>3 DEF SeatsA_Change
    <2>2. [half EXCEPT !.until = 0] = r
      <3>1. half = [status |-> "CONFIRMED", seat |-> rows[l].seat,
                    position |-> rows[l].position, until |-> rows[l].until]
        BY <1>3 DEF SeatsA_Enrollments
      <3> HIDE DEF half
      <3> QED
        BY <3>1
    <2>3. s2' = [mid EXCEPT ![l].until = 0]
      BY <1>1
    <2> HIDE DEF half, mid, r, later
    <2> QED
      BY <2>1, <2>2, <2>3
  <1>5. r \in SeatsA_Enrollments /\ r.status = "CONFIRMED" /\ r.seat = rows[l].seat
    BY <1>3 DEF SeatsA_Enrollments, SeatsA_Statuses
  <1> HIDE DEF r
  <1>6. /\ r.seat \in 1 .. SeatsAConfig.Capacity
        /\ \A m \in SeatsA!Holding(rows) : m # l => rows[m].seat # r.seat
    BY <1>2, <1>3, <1>5 DEF SeatsA_Good, SeatsA_Own
  <1>7. /\ SeatsA_Own(later)
        /\ later[l] = r /\ \A m \in SeatsAConfig.Learners : m # l => later[m] = rows[m]
        /\ SeatsA!Holding(later) = SeatsA!Holding(rows) \cup {l}
        /\ SeatsA!Waiting(later) = SeatsA!Waiting(rows) \ {l}
    <2>1. SeatsA_Own(rows) /\ r.status \in {"ENROLLED", "CONFIRMED"}
      BY <1>2, <1>5 DEF SeatsA_Good
    <2> QED
      BY <1>5, <1>6, <2>1, SeatsA_GetsSeat
  <1>8. SeatsA!Holding(later) = SeatsA!Holding(rows) /\ SeatsA!Waiting(later) = SeatsA!Waiting(rows)
    BY <1>3, <1>7, SeatsA_Few
  <1>9. SeatsA!Positions(later) = SeatsA!Positions(rows)
    <2>1. \A m \in SeatsA!Waiting(rows) : later[m] = rows[m]
      BY <1>3, <1>7, SeatsA_Few
    <2> QED
      BY <1>8, <2>1 DEF SeatsA!Positions
  <1>10. SeatsA_Good(later)
    BY <1>2, <1>7, <1>8, <1>9 DEF SeatsA_Good, SeatsA_Dense
  <1>11. SeatsA_Keeps(s2, later)
    BY <1>2, <1>5, <1>7 DEF SeatsA_Keeps
  <1> QED
    BY <1>1, <1>4, <1>10, <1>11, SeatsA_MovesOn

LEMMA SeatsA_CancelStep ==
    ASSUME SeatsA_IInv, NEW l \in SeatsAConfig.Learners, NEW t \in SeatsA!Read,
           SeatsA!Cancel(l, t)
    PROVE  SeatsA_IInv'
  <1> DEFINE r == SeatsA!Ended("CANCELLED")
             left == SeatsA_Change(s2, l, r)
  <1>1. /\ s2[l].status \in {"ENROLLED", "CONFIRMED", "WAITLISTED"}
        /\ s2' = IF l \in SeatsA!Holding(s2) THEN SeatsA!Promote(left, t, 1) ELSE SeatsA!Compact(left)
        /\ s4' = [s4 EXCEPT ![l] = SeatsA!Revoked(@)]
        /\ s1' = s1 /\ s3' = s3
    BY DEF SeatsA!Cancel, SeatsA_Change
  <1>2. t \in Nat /\ SeatsA_Good(s2) /\ s2 \in [SeatsAConfig.Learners -> SeatsA_Enrollments]
    BY SeatsA_ReadIsTime DEF SeatsA_IInv, SeatsA_Good, SeatsA_Own
  <1>3. /\ r = [status |-> "CANCELLED", seat |-> 0, position |-> 0, until |-> 0]
        /\ r \in SeatsA_Enrollments
    BY 0 \in Nat, "CANCELLED" \in SeatsA_Statuses, SeatsA_NewRows DEF SeatsA_Statuses
  <1>4. r.status = "CANCELLED" /\ r.seat = 0
    BY <1>3
  <1> HIDE DEF r
  <1>5. SeatsA_Good(s2') /\ SeatsA_Keeps(left, s2')
    <2>1. CASE l \in SeatsA!Holding(s2)
      <3>1. left = [m \in SeatsAConfig.Learners |-> IF m \in {l} THEN SeatsA!Ended("CANCELLED") ELSE s2[m]]
        BY <1>2 DEF r, SeatsA_Change
      <3>2. Cardinality({l}) = 1
        BY FS_Singleton
      <3> HIDE DEF left
      <3>3. {l} \subseteq SeatsA!Holding(s2)
        BY <2>1
      <3>4. SeatsA_Good(SeatsA!Promote(left, t, Cardinality({l}))) /\ SeatsA_Keeps(left, SeatsA!Promote(left, t, Cardinality({l})))
        BY <1>2, <3>1, <3>3, SeatsA_LeftGood
      <3> QED
        BY <1>1, <2>1, <3>2, <3>4
    <2>2. CASE l \notin SeatsA!Holding(s2)
      <3>1. ~ (0 \in 1 .. SeatsAConfig.Capacity)
        OBVIOUS
      <3>2. /\ SeatsA_Own(left)
            /\ SeatsA!Holding(left) = SeatsA!Holding(s2) \ {l} /\ SeatsA!Waiting(left) = SeatsA!Waiting(s2) \ {l}
        <4>1. SeatsA_Own(s2) /\ r.status \in {"WAITLISTED", "CANCELLED"} /\ r.status # "WAITLISTED"
          BY <1>2, <1>4 DEF SeatsA_Good
        <4> QED
          BY <1>3, <1>4, <4>1, SeatsA_GetsNoSeat
      <3> HIDE DEF left
      <3>3. /\ SeatsA_Own(SeatsA!Compact(left)) /\ SeatsA_Dense(SeatsA!Compact(left)) /\ SeatsA_Keeps(left, SeatsA!Compact(left))
            /\ SeatsA!Holding(SeatsA!Compact(left)) = SeatsA!Holding(left) /\ SeatsA!Waiting(SeatsA!Compact(left)) = SeatsA!Waiting(left)
        BY <3>2, SeatsA_CompactGood
      <3>4. SeatsA!Holding(left) = SeatsA!Holding(s2) /\ SeatsA!Waiting(left) \subseteq SeatsA!Waiting(s2)
        BY <2>2, <3>2
      <3>5. SeatsA_Good(SeatsA!Compact(left))
        BY <1>2, <3>3, <3>4 DEF SeatsA_Good
      <3> QED
        BY <1>1, <2>2, <3>3, <3>5
    <2> QED
      BY <2>1, <2>2
  <1>6. \A m \in SeatsAConfig.Learners : m # l /\ s2[m].status = "CONFIRMED" => s2'[m].status = "CONFIRMED"
    <2>1. \A m \in SeatsAConfig.Learners : m # l => left[m] = s2[m]
      BY <1>2 DEF SeatsA_Change
    <2> HIDE DEF left
    <2> QED
      BY <1>5, <2>1 DEF SeatsA_Keeps
  <1>7. /\ s4'[l] # "VALID"
        /\ \A m \in SeatsAConfig.Learners : m # l => s4'[m] = s4[m]
        /\ s4' = [m \in SeatsAConfig.Learners |-> s4'[m]]
    BY <1>1 DEF SeatsA_IInv, SeatsA!Revoked
  <1>8. SeatsA!CertificateSound'
    BY <1>1, <1>6, <1>7 DEF SeatsA_IInv, SeatsA!CertificateSound
  <1> QED
    BY <1>1, <1>5, <1>7, <1>8 DEF SeatsA_IInv

\* A result of a confirmed seat
LEMMA SeatsA_JudgedStep ==
    ASSUME SeatsA_IInv, NEW l \in SeatsAConfig.Diligent, NEW passed, NEW judged,
           s2[l].status = "CONFIRMED",
           s3' = [s3 EXCEPT ![l] = [passed |-> passed, judged |-> judged]],
           s4' = [s4 EXCEPT ![l] = SeatsA!Reconciled(@, passed)],
           UNCHANGED <<s1, s2>>
    PROVE  SeatsA_IInv'
  <1>1. s3' = [m \in SeatsAConfig.Learners |-> IF m = l THEN [passed |-> passed, judged |-> judged]
                                      ELSE s3[m]]
    BY DEF SeatsA_IInv
  <1>2. s4' = [m \in SeatsAConfig.Learners |-> IF m = l THEN SeatsA!Reconciled(s4[m], passed)
                                           ELSE s4[m]]
    BY DEF SeatsA_IInv
  <1>3. s3' = [m \in SeatsAConfig.Learners |-> [passed |-> s3'[m].passed,
                                       judged |-> s3'[m].judged]]
    BY <1>1 DEF SeatsA_IInv
  <1>4. s4' = [m \in SeatsAConfig.Learners |-> s4'[m]]
    BY <1>2
  <1>5. ASSUME NEW m \in SeatsAConfig.Learners, s4'[m] = "VALID"
        PROVE  s2[m].status = "CONFIRMED" /\ SeatsAConfig.Steps \subseteq s3'[m].passed
    <2>1. CASE m = l
      <3>1. SeatsA!Reconciled(s4[m], passed) = "VALID"
        BY <1>2, <1>5, <2>1
      <3>2. SeatsAConfig.Steps \subseteq passed
        BY <3>1 DEF SeatsA!Reconciled, SeatsA!Revoked
      <3> QED
        BY <1>1, <2>1, <3>2
    <2>2. CASE m # l
      BY <1>1, <1>2, <1>5, <2>2 DEF SeatsA_IInv, SeatsA!CertificateSound
    <2> QED
      BY <2>1, <2>2
  <1>6. SeatsA!CertificateSound'
    BY <1>5 DEF SeatsA!CertificateSound
  <1> QED
    BY <1>3, <1>4, <1>6 DEF SeatsA_IInv

LEMMA SeatsA_SubmitStep ==
    ASSUME SeatsA_IInv, NEW l \in SeatsAConfig.Diligent, NEW s \in SeatsAConfig.Steps,
           NEW b \in BOOLEAN,
           SeatsA!SubmitResult(l, s, b)
    PROVE  SeatsA_IInv'
  <1> DEFINE passed == IF b /\ s \notin s3[l].judged
                       THEN s3[l].passed \cup {s} ELSE s3[l].passed
             judged == s3[l].judged
  <1>1. /\ s2[l].status = "CONFIRMED"
        /\ s3' = [s3 EXCEPT ![l].passed = passed]
        /\ s4' = [s4 EXCEPT ![l] = SeatsA!Reconciled(@, passed)]
        /\ UNCHANGED <<s1, s2>>
    BY DEF SeatsA!SubmitResult
  <1> HIDE DEF passed
  <1>2. s3' = [s3 EXCEPT ![l] = [passed |-> passed, judged |-> judged]]
    <2>1. s3 = [m \in SeatsAConfig.Learners |-> [passed |-> s3[m].passed,
                                        judged |-> s3[m].judged]]
      BY DEF SeatsA_IInv
    <2>2. s3' = [m \in SeatsAConfig.Learners |-> IF m = l THEN [s3[l] EXCEPT !.passed = passed]
                                        ELSE s3[m]]
      BY <1>1, <2>1
    <2>3. l \in SeatsAConfig.Learners =>
              [s3[l] EXCEPT !.passed = passed] = [passed |-> passed, judged |-> judged]
      BY <2>1
    <2> QED
      BY <2>1, <2>2, <2>3
  <1> HIDE DEF judged
  <1> QED
    BY <1>1, <1>2, SeatsA_JudgedStep

LEMMA SeatsA_CorrectStep ==
    ASSUME SeatsA_IInv, NEW l \in SeatsAConfig.Diligent, NEW s \in SeatsAConfig.Steps,
           NEW b \in BOOLEAN,
           SeatsA!CorrectResult(l, s, b)
    PROVE  SeatsA_IInv'
  <1> DEFINE passed == IF b THEN s3[l].passed \cup {s} ELSE s3[l].passed \ {s}
             judged == s3[l].judged \cup {s}
  <1>1. /\ s2[l].status = "CONFIRMED"
        /\ s3' = [s3 EXCEPT ![l] = [passed |-> passed, judged |-> judged]]
        /\ s4' = [s4 EXCEPT ![l] = SeatsA!Reconciled(@, passed)]
        /\ UNCHANGED <<s1, s2>>
    BY DEF SeatsA!CorrectResult
  <1> HIDE DEF passed, judged
  <1> QED
    BY <1>1, SeatsA_JudgedStep

LEMMA SeatsA_InitInv == SeatsA!Init => SeatsA_IInv
  <1> SUFFICES ASSUME SeatsA!Init PROVE SeatsA_IInv
    OBVIOUS
  <1>1. SeatsA!NoRow \in SeatsA_Enrollments /\ SeatsA!NoRow.status = "none" /\ SeatsA!NoRow.seat = 0
    BY DEF SeatsA!NoRow, SeatsA_Enrollments, SeatsA_Statuses
  <1>2. s2 = [l \in SeatsAConfig.Learners |-> SeatsA!NoRow]
    BY DEF SeatsA!Init
  <1> HIDE DEF SeatsA!NoRow, SeatsA_Enrollments
  <1>3. SeatsA!Holding(s2) = {} /\ SeatsA!Waiting(s2) = {} /\ SeatsA!Positions(s2) = {}
    BY <1>1, <1>2 DEF SeatsA!Holding, SeatsA!Waiting, SeatsA!Positions
  <1>4. SeatsA_Own(s2)
    BY <1>1, <1>2, <1>3 DEF SeatsA_Own
  <1>5. Cardinality({}) = 0 /\ 1 .. 0 = {}
    BY FS_EmptySet
  <1>6. SeatsA_Good(s2)
    BY <1>3, <1>4, <1>5 DEF SeatsA_Good, SeatsA_Dense
  <1>7. SeatsA!CertificateSound
    BY DEF SeatsA!Init, SeatsA!CertificateSound
  <1> QED
    BY <1>6, <1>7 DEF SeatsA!Init, SeatsA_IInv

LEMMA SeatsA_NextPreserves == SeatsA_IInv /\ [SeatsA!Next]_(SeatsA!vars) => SeatsA_IInv'
  <1> SUFFICES ASSUME SeatsA_IInv, [SeatsA!Next]_(SeatsA!vars) PROVE SeatsA_IInv'
    OBVIOUS
  <1>1. CASE UNCHANGED SeatsA!vars
    BY <1>1 DEF SeatsA!vars, SeatsA_IInv, SeatsA!CertificateSound
  <1>2. ASSUME NEW t \in SeatsA!Read, SeatsA!ExpireHolds(t)
        PROVE  SeatsA_IInv'
    <2>1. SeatsA_Good(s2') /\ SeatsA_Keeps(s2, s2')
      BY <1>2, SeatsA_ReadIsTime, SeatsA_SettledGood DEF SeatsA!ExpireHolds, SeatsA_IInv
    <2> QED
      BY <1>2, <2>1, SeatsA_MovesOn DEF SeatsA!ExpireHolds
  <1>3. CASE SeatsA!Tick
    <2>1. s1' \in Nat /\ UNCHANGED <<s2, s3, s4>>
      BY <1>3 DEF SeatsA!Tick, SeatsA_IInv
    <2>2. SeatsA!CertificateSound'
      BY <2>1 DEF SeatsA_IInv, SeatsA!CertificateSound
    <2> QED
      BY <2>1, <2>2 DEF SeatsA_IInv
  <1> QED
    BY <1>1, <1>2, <1>3, SeatsA_EnrollStep, SeatsA_ConfirmStep, SeatsA_CancelStep,
       SeatsA_SubmitStep, SeatsA_CorrectStep DEF SeatsA!Next

LEMMA SeatsA_Sound == SeatsA_IInv => SeatsA!SeatsSound /\ SeatsA!CertificateSound
  BY SeatsA_Counts
     DEF SeatsA_IInv, SeatsA_Good, SeatsA_Own, SeatsA_Dense, SeatsA!SeatsSound

-----------------------------------------------------------------------------
(* Training (text4): seats of text4/b *)

LEMMA SeatsB_Counts == \A S : SeatsB!Cardinality(S) = Cardinality(S)
  BY DEF SeatsB!Cardinality, Cardinality

SeatsB_Statuses == SeatsB!Active \cup {"expired", "cancelled"}
SeatsB_Rows == [learner : SeatsBConfig.Learners, status : SeatsB_Statuses, position : Nat, granted : Nat]

\* SeatsSound of any rows
SeatsB_Good(rs, ended) ==
    /\ rs \in Seq(SeatsB_Rows)
    /\ Cardinality(SeatsB!Holding(rs) \ ended) <= SeatsBConfig.Capacity
    /\ \A i, j \in SeatsB!With(rs, SeatsB!Active) : rs[i].learner = rs[j].learner => i = j
    /\ \A i, j \in SeatsB!With(rs, {"waitlisted"}) :
           rs[i].position = rs[j].position => i = j

\* No row changes its learner, and none starts to wait again.
SeatsB_Follows(rs, later) ==
    /\ Len(later) = Len(rs)
    /\ \A i \in 1 .. Len(rs) :
           /\ later[i].learner = rs[i].learner
           /\ rs[i].status # "waitlisted" => later[i].status # "waitlisted"

\* A request has loaded a row of its learner, and one that it did not see
\* waiting does not wait.
SeatsB_Bound(rs, load) ==
    \A l \in SeatsBConfig.Learners : load[l] # SeatsB!Nothing =>
        /\ load[l].id \in 1 .. Len(rs)
        /\ rs[load[l].id].learner = l
        /\ load[l].seen # "waitlisted" => rs[load[l].id].status # "waitlisted"

SeatsB_IInv ==
    /\ s1 \in Nat
    /\ SeatsB_Good(s2, s4)
    /\ s3 = [l \in SeatsBConfig.Learners |-> [id |-> s3[l].id, seen |-> s3[l].seen,
                                     settled |-> s3[l].settled]]
    /\ SeatsB_Bound(s2, s3)

LEMMA SeatsB_Domains ==
    ASSUME NEW rs \in Seq(SeatsB_Rows)
    PROVE  /\ Len(rs) \in Nat /\ DOMAIN rs = 1 .. Len(rs)
           /\ \A i \in 1 .. Len(rs) : rs[i] \in SeatsB_Rows
  <1> HIDE DEF SeatsB_Rows
  <1> QED
    OBVIOUS

LEMMA SeatsB_FewHold ==
    ASSUME NEW rs \in Seq(SeatsB_Rows)
    PROVE  IsFiniteSet(SeatsB!Holding(rs)) /\ Cardinality(SeatsB!Holding(rs)) \in Nat
  <1>1. Len(rs) \in Nat /\ DOMAIN rs = 1 .. Len(rs)
    BY SeatsB_Domains
  <1>2. IsFiniteSet(1 .. Len(rs))
    BY <1>1, FS_Interval
  <1>3. SeatsB!Holding(rs) \in SUBSET (1 .. Len(rs))
    BY <1>1 DEF SeatsB!Holding, SeatsB!With
  <1> QED
    BY <1>2, <1>3, FS_Subset, FS_CardinalityType

\* Rows that end give up a seat or a place and change nothing else.
LEMMA SeatsB_Fewer ==
    ASSUME NEW rs, NEW ended, SeatsB_Good(rs, ended), NEW later \in Seq(SeatsB_Rows),
           Len(later) = Len(rs),
           \A i \in 1 .. Len(rs) :
               \/ later[i] = rs[i]
               \/ /\ later[i].learner = rs[i].learner
                  /\ later[i].status \in {"expired", "cancelled"}
    PROVE  /\ SeatsB_Good(later, ended) /\ SeatsB_Follows(rs, later)
           /\ SeatsB!With(later, SeatsB!Active) \subseteq SeatsB!With(rs, SeatsB!Active)
  <1>1. /\ Len(rs) \in Nat /\ DOMAIN rs = 1 .. Len(rs)
        /\ DOMAIN later = 1 .. Len(rs) /\ rs \in Seq(SeatsB_Rows)
    BY SeatsB_Domains DEF SeatsB_Good
  <1>2. \A i \in 1 .. Len(rs) :
            /\ later[i].learner = rs[i].learner
            /\ later[i].status \in SeatsB!Active => later[i] = rs[i]
    BY DEF SeatsB!Active
  <1>3. SeatsB!Holding(later) \ ended \in SUBSET (SeatsB!Holding(rs) \ ended)
    BY <1>1, <1>2 DEF SeatsB!Holding, SeatsB!With, SeatsB!Active
  <1>4. IsFiniteSet(SeatsB!Holding(rs) \ ended) /\ IsFiniteSet(SeatsB!Holding(later) \ ended)
    BY <1>1, <1>3, SeatsB_FewHold, FS_Subset, FS_Difference
  <1>5. Cardinality(SeatsB!Holding(later) \ ended) <= SeatsBConfig.Capacity
    BY <1>3, <1>4, FS_Subset, FS_CardinalityType, SeatsBAssumption DEF SeatsB_Good
  <1>6. \A i, j \in SeatsB!With(later, SeatsB!Active) : later[i].learner = later[j].learner => i = j
    BY <1>1, <1>2 DEF SeatsB_Good, SeatsB!With
  <1>7. \A i, j \in SeatsB!With(later, {"waitlisted"}) :
            later[i].position = later[j].position => i = j
    BY <1>1, <1>2 DEF SeatsB_Good, SeatsB!With, SeatsB!Active
  <1>8. SeatsB_Follows(rs, later)
    BY <1>2 DEF SeatsB_Follows
  <1>9. SeatsB!With(later, SeatsB!Active) \subseteq SeatsB!With(rs, SeatsB!Active)
    BY <1>1, <1>2 DEF SeatsB!With
  <1> QED
    BY <1>5, <1>6, <1>7, <1>8, <1>9 DEF SeatsB_Good

LEMMA SeatsB_ExpiredGood ==
    ASSUME NEW rs, NEW ended, SeatsB_Good(rs, ended), NEW unseen
    PROVE  /\ SeatsB_Good(SeatsB!Expired(rs, unseen), ended) /\ SeatsB_Follows(rs, SeatsB!Expired(rs, unseen))
           /\ SeatsB!With(SeatsB!Expired(rs, unseen), SeatsB!Active) \subseteq SeatsB!With(rs, SeatsB!Active)
  <1> DEFINE row(i) == IF i \in SeatsB!Due(rs, unseen) THEN [rs[i] EXCEPT !.status = "expired"]
                       ELSE rs[i]
  <1>1. /\ Len(rs) \in Nat /\ DOMAIN rs = 1 .. Len(rs)
        /\ \A i \in 1 .. Len(rs) : rs[i] \in SeatsB_Rows
    BY SeatsB_Domains DEF SeatsB_Good
  <1>2. ASSUME NEW i \in 1 .. Len(rs)
        PROVE  /\ row(i) \in SeatsB_Rows
               /\ \/ row(i) = rs[i]
                  \/ row(i).learner = rs[i].learner /\ row(i).status = "expired"
    BY <1>1 DEF SeatsB_Rows, SeatsB_Statuses
  <1>3. SeatsB!Expired(rs, unseen) = [i \in 1 .. Len(rs) |-> row(i)]
    BY <1>1 DEF SeatsB!Expired
  <1> HIDE DEF row, SeatsB_Rows
  <1>4. /\ SeatsB!Expired(rs, unseen) \in Seq(SeatsB_Rows)
        /\ Len(SeatsB!Expired(rs, unseen)) = Len(rs)
        /\ \A i \in 1 .. Len(rs) : SeatsB!Expired(rs, unseen)[i] = row(i)
    BY <1>1, <1>2, <1>3
  <1> HIDE DEF SeatsB!Expired
  <1> QED
    BY <1>2, <1>4, SeatsB_Fewer

\* The head of the queue
LEMMA SeatsB_FirstWaits ==
    ASSUME NEW rs \in Seq(SeatsB_Rows), SeatsB!With(rs, {"waitlisted"}) # {}
    PROVE  \E i \in SeatsB!With(rs, {"waitlisted"}) :
               i = CHOOSE j \in SeatsB!With(rs, {"waitlisted"}) : rs[j].position = SeatsB!Min(SeatsB!Positions(rs))
  <1>0. \A i \in SeatsB!With(rs, {"waitlisted"}) : rs[i] \in SeatsB_Rows
    BY SeatsB_Domains DEF SeatsB!With
  <1>1. SeatsB!Positions(rs) \subseteq Nat /\ SeatsB!Positions(rs) # {}
    BY <1>0 DEF SeatsB!Positions, SeatsB_Rows
  <1>2. PICK p \in SeatsB!Positions(rs) : \A q \in SeatsB!Positions(rs) : p <= q
    BY <1>1, LeastNatural
  <1>3. SeatsB!Min(SeatsB!Positions(rs)) \in SeatsB!Positions(rs)
    BY <1>2 DEF SeatsB!Min
  <1>4. \E j \in SeatsB!With(rs, {"waitlisted"}) : rs[j].position = SeatsB!Min(SeatsB!Positions(rs))
    BY <1>3 DEF SeatsB!Positions
  <1> QED
    BY <1>4

LEMMA SeatsB_GrantGood ==
    ASSUME NEW rs, NEW ended, SeatsB_Good(rs, ended), s1 \in Nat
    PROVE  SeatsB_Good(SeatsB!Grant(rs), ended) /\ SeatsB_Follows(rs, SeatsB!Grant(rs))
  <1>1. /\ Len(rs) \in Nat /\ DOMAIN rs = 1 .. Len(rs) /\ rs \in Seq(SeatsB_Rows)
        /\ \A i \in 1 .. Len(rs) : rs[i] \in SeatsB_Rows
    BY SeatsB_Domains DEF SeatsB_Good
  <1>2. CASE Cardinality(SeatsB!Holding(rs)) >= SeatsBConfig.Capacity \/ SeatsB!With(rs, {"waitlisted"}) = {}
    BY <1>1, <1>2, SeatsB_Counts DEF SeatsB!Grant, SeatsB_Follows
  <1>3. CASE /\ ~ (Cardinality(SeatsB!Holding(rs)) >= SeatsBConfig.Capacity)
             /\ SeatsB!With(rs, {"waitlisted"}) # {}
    <2>1. PICK first \in SeatsB!With(rs, {"waitlisted"}) :
              first = CHOOSE j \in SeatsB!With(rs, {"waitlisted"}) :
                          rs[j].position = SeatsB!Min(SeatsB!Positions(rs))
      BY <1>1, <1>3, SeatsB_FirstWaits
    <2> DEFINE row == SeatsB!Row(rs[first].learner, "pending", 0, s1)
               later == [rs EXCEPT ![first] = row]
    <2>2. SeatsB!Grant(rs) = later
      BY <1>3, <2>1, SeatsB_Counts DEF SeatsB!Grant, SeatsB!GrantFirst
    <2>3. first \in 1 .. Len(rs) /\ rs[first].status = "waitlisted"
      BY <1>1 DEF SeatsB!With
    <2>4. row \in SeatsB_Rows /\ row.status = "pending" /\ row.learner = rs[first].learner
      BY <1>1, <2>3 DEF SeatsB!Row, SeatsB_Rows, SeatsB_Statuses, SeatsB!Active
    <2> HIDE DEF row, SeatsB_Rows
    <2>5. /\ later \in Seq(SeatsB_Rows) /\ Len(later) = Len(rs) /\ DOMAIN later = 1 .. Len(rs)
          /\ later[first] = row
          /\ \A i \in 1 .. Len(rs) : i # first => later[i] = rs[i]
      BY <1>1, <2>3, <2>4
    <2> HIDE DEF later
    <2>6. Cardinality(SeatsB!Holding(later) \ ended) <= SeatsBConfig.Capacity
      <3>1. SeatsB!Holding(later) = SeatsB!Holding(rs) \cup {first}
        BY <1>1, <2>3, <2>4, <2>5 DEF SeatsB!Holding, SeatsB!With
      <3>2. IsFiniteSet(SeatsB!Holding(rs)) /\ Cardinality(SeatsB!Holding(rs)) \in Nat
        BY <1>1, SeatsB_FewHold
      <3>3. /\ IsFiniteSet(SeatsB!Holding(later))
            /\ Cardinality(SeatsB!Holding(later)) <= Cardinality(SeatsB!Holding(rs)) + 1
        BY <3>1, <3>2, FS_AddElement
      <3>4. /\ SeatsB!Holding(later) \ ended \in SUBSET SeatsB!Holding(later)
            /\ Cardinality(SeatsB!Holding(later)) \in Nat
        BY <3>3, FS_CardinalityType
      <3>5. /\ Cardinality(SeatsB!Holding(later) \ ended) <= Cardinality(SeatsB!Holding(later))
            /\ Cardinality(SeatsB!Holding(later) \ ended) \in Nat
        BY <3>3, <3>4, FS_Subset, FS_CardinalityType
      <3> QED
        BY <1>3, <3>2, <3>3, <3>4, <3>5, SeatsBAssumption
    <2>7. /\ \A i, j \in SeatsB!With(later, SeatsB!Active) : later[i].learner = later[j].learner => i = j
          /\ \A i, j \in SeatsB!With(later, {"waitlisted"}) :
                 later[i].position = later[j].position => i = j
      <3>1. \A i \in 1 .. Len(rs) : later[i].learner = rs[i].learner
        BY <2>4, <2>5
      <3>2. SeatsB!With(later, SeatsB!Active) = SeatsB!With(rs, SeatsB!Active)
        BY <1>1, <2>3, <2>4, <2>5 DEF SeatsB!With, SeatsB!Active
      <3>3. \A i \in SeatsB!With(later, {"waitlisted"}) :
                i \in SeatsB!With(rs, {"waitlisted"}) /\ later[i] = rs[i]
        BY <1>1, <2>4, <2>5 DEF SeatsB!With
      <3> QED
        BY <1>1, <3>1, <3>2, <3>3 DEF SeatsB_Good, SeatsB!With
    <2>8. SeatsB_Follows(rs, later)
      BY <2>4, <2>5 DEF SeatsB_Follows
    <2> QED
      BY <2>2, <2>5, <2>6, <2>7, <2>8 DEF SeatsB_Good
  <1> QED
    BY <1>2, <1>3

LEMMA SeatsB_PromotionsExist ==
    ASSUME NEW rs, NEW k \in Nat
    PROVE  \E g : g = [n \in 0 .. k |-> IF n = 0 THEN rs ELSE SeatsB!Grant(g[n - 1])]
  <1> DEFINE T == {m \in Nat : \E g :
                       g = [n \in 0 .. m |-> IF n = 0 THEN rs ELSE SeatsB!Grant(g[n - 1])]}
  <1>1. 0 \in T
    <2> DEFINE g == [n \in 0 .. 0 |-> rs]
    <2>1. g = [n \in 0 .. 0 |-> IF n = 0 THEN rs ELSE SeatsB!Grant(g[n - 1])]
      OBVIOUS
    <2> QED
      BY <2>1
  <1>2. ASSUME NEW m \in Nat, m \in T
        PROVE  m + 1 \in T
    <2>1. PICK g : g = [n \in 0 .. m |-> IF n = 0 THEN rs ELSE SeatsB!Grant(g[n - 1])]
      BY <1>2
    <2> DEFINE h == [n \in 0 .. m + 1 |-> IF n = m + 1 THEN SeatsB!Grant(g[m]) ELSE g[n]]
    <2>2. ASSUME NEW n \in 0 .. m + 1
          PROVE  h[n] = IF n = 0 THEN rs ELSE SeatsB!Grant(h[n - 1])
      <3>1. CASE n = m + 1
        BY <3>1
      <3>2. CASE n # m + 1
        <4>1. n \in 0 .. m /\ h[n] = g[n]
          BY <3>2
        <4>2. g[n] = IF n = 0 THEN rs ELSE SeatsB!Grant(g[n - 1])
          BY <2>1, <4>1
        <4>3. n # 0 => h[n - 1] = g[n - 1]
          BY <4>1
        <4> QED
          BY <4>1, <4>2, <4>3
      <3> QED
        BY <3>1, <3>2
    <2>3. h = [n \in 0 .. m + 1 |-> IF n = 0 THEN rs ELSE SeatsB!Grant(h[n - 1])]
      <3> DEFINE f == [n \in 0 .. m + 1 |-> IF n = 0 THEN rs ELSE SeatsB!Grant(h[n - 1])]
      <3>1. \A n \in 0 .. m + 1 : h[n] = f[n]
        BY <2>2
      <3> QED
        BY <3>1
    <2> HIDE DEF h
    <2>4. \E f : f = [n \in 0 .. m + 1 |-> IF n = 0 THEN rs ELSE SeatsB!Grant(f[n - 1])]
      BY <2>3
    <2> QED
      BY <2>4
  <1> HIDE DEF T
  <1>3. Nat \subseteq T
    BY <1>1, <1>2, NaturalsFrom
  <1> QED
    BY <1>3 DEF T

LEMMA SeatsB_PromotedGood ==
    ASSUME NEW rs, NEW ended, SeatsB_Good(rs, ended), s1 \in Nat
    PROVE  SeatsB_Good(SeatsB!Promoted(rs), ended) /\ SeatsB_Follows(rs, SeatsB!Promoted(rs))
  <1> DEFINE g == CHOOSE f : f = [n \in 0 .. Len(rs) |->
                                      IF n = 0 THEN rs ELSE SeatsB!Grant(f[n - 1])]
             T == {n \in Nat : n <= Len(rs) => SeatsB_Good(g[n], ended) /\ SeatsB_Follows(rs, g[n])}
  <1>1. Len(rs) \in Nat
    BY SeatsB_Domains DEF SeatsB_Good
  <1>2. g = [n \in 0 .. Len(rs) |-> IF n = 0 THEN rs ELSE SeatsB!Grant(g[n - 1])]
    BY <1>1, SeatsB_PromotionsExist
  <1>3. SeatsB!Promoted(rs) = g[Len(rs)]
    BY DEF SeatsB!Promoted
  <1> HIDE DEF g
  <1>4. g[0] = rs /\ \A n \in 0 .. Len(rs) : n # 0 => g[n] = SeatsB!Grant(g[n - 1])
    BY <1>1, <1>2
  <1>5. 0 \in T
    BY <1>1, <1>4 DEF SeatsB_Follows
  <1>6. ASSUME NEW n \in Nat, n \in T
        PROVE  n + 1 \in T
    <2> SUFFICES ASSUME n + 1 <= Len(rs)
                 PROVE  SeatsB_Good(g[n + 1], ended) /\ SeatsB_Follows(rs, g[n + 1])
      OBVIOUS
    <2>1. SeatsB_Good(g[n], ended) /\ SeatsB_Follows(rs, g[n]) /\ g[n + 1] = SeatsB!Grant(g[n])
      BY <1>1, <1>4, <1>6
    <2>2. SeatsB_Good(g[n + 1], ended) /\ SeatsB_Follows(g[n], g[n + 1])
      BY <2>1, SeatsB_GrantGood
    <2> QED
      BY <2>1, <2>2 DEF SeatsB_Follows
  <1> HIDE DEF T
  <1>7. Len(rs) \in T
    BY <1>1, <1>5, <1>6, NaturalsFrom
  <1> QED
    BY <1>1, <1>3, <1>7 DEF T

LEMMA SeatsB_SettledGood ==
    ASSUME NEW rs, NEW ended, SeatsB_Good(rs, ended), NEW unseen, s1 \in Nat
    PROVE  SeatsB_Good(SeatsB!Settled(rs, unseen), ended) /\ SeatsB_Follows(rs, SeatsB!Settled(rs, unseen))
  <1> DEFINE later == SeatsB!Expired(rs, unseen)
  <1>1. SeatsB_Good(later, ended) /\ SeatsB_Follows(rs, later)
    BY SeatsB_ExpiredGood
  <1> HIDE DEF later
  <1>2. SeatsB_Good(SeatsB!Promoted(later), ended) /\ SeatsB_Follows(later, SeatsB!Promoted(later))
    BY <1>1, SeatsB_PromotedGood
  <1>3. SeatsB_Follows(rs, SeatsB!Promoted(later)) /\ SeatsB_Follows(rs, rs)
    BY <1>1, <1>2 DEF SeatsB_Follows
  <1> QED
    BY <1>2, <1>3 DEF SeatsB!Settled, later

LEMMA SeatsB_AppendGood ==
    ASSUME NEW rs, NEW ended, SeatsB_Good(rs, ended), NEW row \in SeatsB_Rows,
           \A i \in SeatsB!With(rs, SeatsB!Active) : rs[i].learner # row.learner,
           \/ row.status = "pending" /\ Cardinality(SeatsB!Holding(rs)) < SeatsBConfig.Capacity
           \/ row.status = "waitlisted" /\ \A p \in SeatsB!Positions(rs) : p < row.position
    PROVE  SeatsB_Good(Append(rs, row), ended)
  <1> DEFINE more == Append(rs, row)
             n == Len(rs) + 1
  <1>1. /\ Len(rs) \in Nat /\ DOMAIN rs = 1 .. Len(rs) /\ rs \in Seq(SeatsB_Rows)
        /\ \A i \in 1 .. Len(rs) : rs[i] \in SeatsB_Rows
    BY SeatsB_Domains DEF SeatsB_Good
  <1>2. row.position \in Nat /\ \A i \in 1 .. Len(rs) : rs[i].position \in Nat
    BY <1>1 DEF SeatsB_Rows
  <1> HIDE DEF SeatsB_Rows
  <1>3. /\ more \in Seq(SeatsB_Rows) /\ Len(more) = n /\ DOMAIN more = 1 .. n
        /\ \A i \in 1 .. Len(rs) : more[i] = rs[i]
        /\ more[n] = row
        /\ \A i \in 1 .. n : i = n \/ i \in 1 .. Len(rs)
    BY <1>1
  <1> HIDE DEF more
  <1>4. \A states : SeatsB!With(more, states) \subseteq SeatsB!With(rs, states) \cup {n}
    BY <1>1, <1>3 DEF SeatsB!With
  <1>5. \A states : n \in SeatsB!With(more, states) => row.status \in states
    BY <1>3 DEF SeatsB!With
  <1>6. \A states : \A i \in SeatsB!With(more, states) :
            i # n => i \in SeatsB!With(rs, states) /\ more[i] = rs[i]
    BY <1>1, <1>3, <1>4 DEF SeatsB!With
  <1>7. Cardinality(SeatsB!Holding(more) \ ended) <= SeatsBConfig.Capacity
    <2>1. CASE row.status = "pending" /\ Cardinality(SeatsB!Holding(rs)) < SeatsBConfig.Capacity
      <3>1. IsFiniteSet(SeatsB!Holding(rs)) /\ Cardinality(SeatsB!Holding(rs)) \in Nat
        BY <1>1, SeatsB_FewHold
      <3>2. /\ IsFiniteSet(SeatsB!Holding(rs) \cup {n})
            /\ Cardinality(SeatsB!Holding(rs) \cup {n}) <= Cardinality(SeatsB!Holding(rs)) + 1
        <4>1. Cardinality(SeatsB!Holding(rs) \cup {n}) =
                  IF n \in SeatsB!Holding(rs) THEN Cardinality(SeatsB!Holding(rs))
                  ELSE Cardinality(SeatsB!Holding(rs)) + 1
          BY <3>1, FS_AddElement
        <4>2. IsFiniteSet(SeatsB!Holding(rs) \cup {n})
          BY <3>1, FS_AddElement
        <4> QED
          BY <3>1, <4>1, <4>2
      <3>3. SeatsB!Holding(more) \ ended \in SUBSET (SeatsB!Holding(rs) \cup {n})
        BY <1>4 DEF SeatsB!Holding
      <3>4. /\ Cardinality(SeatsB!Holding(more) \ ended) <= Cardinality(SeatsB!Holding(rs) \cup {n})
            /\ Cardinality(SeatsB!Holding(more) \ ended) \in Nat
            /\ Cardinality(SeatsB!Holding(rs) \cup {n}) \in Nat
        BY <3>2, <3>3, FS_Subset, FS_CardinalityType
      <3> QED
        BY <2>1, <3>1, <3>2, <3>4, SeatsBAssumption
    <2>2. CASE row.status = "waitlisted"
      <3>1. SeatsB!Holding(more) \ ended \in SUBSET (SeatsB!Holding(rs) \ ended)
        BY <2>2, <1>4, <1>5 DEF SeatsB!Holding
      <3>2. IsFiniteSet(SeatsB!Holding(rs) \ ended)
        BY <1>1, SeatsB_FewHold, FS_Difference
      <3>3. /\ Cardinality(SeatsB!Holding(more) \ ended) <= Cardinality(SeatsB!Holding(rs) \ ended)
            /\ Cardinality(SeatsB!Holding(more) \ ended) \in Nat
            /\ Cardinality(SeatsB!Holding(rs) \ ended) \in Nat
        BY <3>1, <3>2, FS_Subset, FS_CardinalityType
      <3> QED
        BY <3>3, SeatsBAssumption DEF SeatsB_Good
    <2> QED
      BY <2>1, <2>2
  <1>8. ASSUME NEW i \in SeatsB!With(more, SeatsB!Active),
               NEW j \in SeatsB!With(more, SeatsB!Active),
               more[i].learner = more[j].learner
        PROVE  i = j
    BY <1>3, <1>6, <1>8 DEF SeatsB_Good
  <1>9. ASSUME NEW i \in SeatsB!With(more, {"waitlisted"}),
               NEW j \in SeatsB!With(more, {"waitlisted"}),
               more[i].position = more[j].position
        PROVE  i = j
    <2>1. \A k \in SeatsB!With(rs, {"waitlisted"}) :
              k \in 1 .. Len(rs) /\ rs[k].position \in SeatsB!Positions(rs)
      BY <1>1 DEF SeatsB!With, SeatsB!Positions
    <2>2. n \in SeatsB!With(more, {"waitlisted"}) => \A p \in SeatsB!Positions(rs) : p < row.position
      BY <1>5
    <2> QED
      BY <1>2, <1>3, <1>6, <1>9, <2>1, <2>2 DEF SeatsB_Good
  <1> QED
    BY <1>3, <1>7, <1>8, <1>9 DEF SeatsB_Good, more

LEMMA SeatsB_LastPosition ==
    ASSUME NEW rs \in Seq(SeatsB_Rows)
    PROVE  /\ SeatsB!Max(SeatsB!Positions(rs) \cup {0}) \in Nat
           /\ \A p \in SeatsB!Positions(rs) : p \in Nat /\ p <= SeatsB!Max(SeatsB!Positions(rs) \cup {0})
  <1> DEFINE S == SeatsB!Positions(rs) \cup {0}
             f == [i \in 1 .. Len(rs) |-> rs[i].position]
  <1>1. /\ Len(rs) \in Nat /\ DOMAIN rs = 1 .. Len(rs)
        /\ \A i \in 1 .. Len(rs) : rs[i] \in SeatsB_Rows
    BY SeatsB_Domains
  <1>2. \A i \in 1 .. Len(rs) : f[i] \in Nat /\ f[i] = rs[i].position
    BY <1>1 DEF SeatsB_Rows
  <1>3. \A p \in S : p = 0 \/ \E i \in 1 .. Len(rs) : p = f[i]
    BY <1>1, <1>2 DEF SeatsB!Positions, SeatsB!With
  <1> HIDE DEF f
  <1>4. PICK b \in Nat : \A i \in 1 .. Len(rs) : f[i] <= b
    BY <1>1, <1>2, NaturalsBounded
  <1>5. S \subseteq Nat /\ 0 \in S /\ \A x \in S : x <= b
    BY <1>2, <1>3, <1>4
  <1> HIDE DEF S
  <1>6. PICK m \in S : \A x \in S : x <= m
    BY <1>5, GreatestNatural
  <1>7. m \in Nat /\ \A x \in S : m >= x
    BY <1>5, <1>6
  <1>8. SeatsB!Max(S) \in S /\ \A x \in S : SeatsB!Max(S) >= x
    BY <1>6, <1>7 DEF SeatsB!Max
  <1>9. SeatsB!Max(S) \in Nat /\ \A x \in S : x \in Nat /\ x <= SeatsB!Max(S)
    BY <1>5, <1>8
  <1> QED
    BY <1>9 DEF S

LEMMA SeatsB_BoundKept ==
    ASSUME NEW rs, NEW later, NEW load, SeatsB_Bound(rs, load), SeatsB_Follows(rs, later)
    PROVE  SeatsB_Bound(later, load)
  BY DEF SeatsB_Bound, SeatsB_Follows

LEMMA SeatsB_InitInv == SeatsB!Init => SeatsB_IInv
  <1> SUFFICES ASSUME SeatsB!Init PROVE SeatsB_IInv
    OBVIOUS
  <1>1. s2 = <<>> /\ s2 \in Seq(SeatsB_Rows) /\ DOMAIN s2 = {}
    BY DEF SeatsB!Init
  <1>2. SeatsB!Holding(s2) \ s4 = {}
    BY <1>1 DEF SeatsB!Holding, SeatsB!With
  <1>3. SeatsB_Good(s2, s4)
    <2>1. Cardinality(SeatsB!Holding(s2) \ s4) <= SeatsBConfig.Capacity
      BY <1>2, FS_EmptySet, SeatsBAssumption
    <2> QED
      BY <1>1, <2>1 DEF SeatsB_Good, SeatsB!With
  <1>4. SeatsB_Bound(s2, s3)
    BY DEF SeatsB!Init, SeatsB_Bound
  <1> QED
    BY <1>3, <1>4 DEF SeatsB!Init, SeatsB_IInv, SeatsB!Nothing

LEMMA SeatsB_EnrollStep ==
    ASSUME SeatsB_IInv, NEW l \in SeatsBConfig.Learners, SeatsB!Enroll(l)
    PROVE  SeatsB_IInv'
  <1> DEFINE rs == SeatsB!Expired(s2, {})
             row == IF Cardinality(SeatsB!Holding(rs)) < SeatsBConfig.Capacity
                    THEN SeatsB!Row(l, "pending", 0, s1)
                    ELSE SeatsB!Row(l, "waitlisted", 1 + SeatsB!Max(SeatsB!Positions(rs) \cup {0}), 0)
             more == Append(rs, row)
  <1>1. /\ s2' = SeatsB!Promoted(more)
        /\ SeatsB!ActiveOf(s2, l) = {}
        /\ UNCHANGED <<s1, s3, s4>>
    BY SeatsB_Counts DEF SeatsB!Enroll
  <1>2. /\ SeatsB_Good(rs, s4) /\ SeatsB_Follows(s2, rs)
        /\ SeatsB!With(rs, SeatsB!Active) \subseteq SeatsB!With(s2, SeatsB!Active)
    BY SeatsB_ExpiredGood DEF SeatsB_IInv
  <1> HIDE DEF rs
  <1>3. /\ rs \in Seq(SeatsB_Rows) /\ Len(rs) \in Nat /\ DOMAIN rs = 1 .. Len(rs)
        /\ s2 \in Seq(SeatsB_Rows) /\ Len(s2) \in Nat /\ DOMAIN s2 = 1 .. Len(s2)
    BY <1>2, SeatsB_Domains DEF SeatsB_Good, SeatsB_IInv
  <1>4. \A i \in SeatsB!With(rs, SeatsB!Active) : rs[i].learner # l
    BY <1>1, <1>2, <1>3 DEF SeatsB!ActiveOf, SeatsB_Follows, SeatsB!With
  <1>5. /\ SeatsB!Max(SeatsB!Positions(rs) \cup {0}) \in Nat
        /\ \A p \in SeatsB!Positions(rs) : p \in Nat /\ p <= SeatsB!Max(SeatsB!Positions(rs) \cup {0})
    BY <1>3, SeatsB_LastPosition
  <1>6. /\ row \in SeatsB_Rows /\ row.learner = l
        /\ \/ row.status = "pending" /\ Cardinality(SeatsB!Holding(rs)) < SeatsBConfig.Capacity
           \/ row.status = "waitlisted" /\ \A p \in SeatsB!Positions(rs) : p < row.position
    <2>1. s1 \in Nat
      BY DEF SeatsB_IInv
    <2>2. CASE Cardinality(SeatsB!Holding(rs)) < SeatsBConfig.Capacity
      BY <2>1, <2>2 DEF SeatsB!Row, SeatsB_Rows, SeatsB_Statuses, SeatsB!Active
    <2>3. CASE ~ (Cardinality(SeatsB!Holding(rs)) < SeatsBConfig.Capacity)
      <3> DEFINE last == SeatsB!Max(SeatsB!Positions(rs) \cup {0})
      <3>1. last \in Nat /\ \A p \in SeatsB!Positions(rs) : p \in Nat /\ p <= last
        BY <1>5
      <3>2. row = SeatsB!Row(l, "waitlisted", 1 + last, 0)
        BY <2>3
      <3> HIDE DEF last, row
      <3> QED
        BY <3>1, <3>2 DEF SeatsB!Row, SeatsB_Rows, SeatsB_Statuses, SeatsB!Active
    <2> QED
      BY <2>2, <2>3
  <1> HIDE DEF row
  <1>7. SeatsB_Good(more, s4)
    BY <1>2, <1>4, <1>6, SeatsB_AppendGood
  <1>8. /\ Len(more) = Len(rs) + 1
        /\ \A i \in 1 .. Len(rs) : more[i] = rs[i]
    BY <1>3, <1>6
  <1> HIDE DEF more
  <1>9. SeatsB_Good(SeatsB!Promoted(more), s4) /\ SeatsB_Follows(more, SeatsB!Promoted(more))
    BY <1>7, SeatsB_PromotedGood DEF SeatsB_IInv
  <1>10. SeatsB_Bound(rs, s3)
    BY <1>2, SeatsB_BoundKept DEF SeatsB_IInv
  <1>11. SeatsB_Bound(more, s3)
    BY <1>3, <1>8, <1>10 DEF SeatsB_Bound
  <1>12. SeatsB_Bound(SeatsB!Promoted(more), s3)
    BY <1>9, <1>11, SeatsB_BoundKept
  <1> QED
    BY <1>1, <1>9, <1>12 DEF SeatsB_IInv

\* A step that moves the rows on and ends requests or lets them wait
LEMMA SeatsB_MovesOn ==
    ASSUME SeatsB_IInv, SeatsB_Good(s2', s4'), SeatsB_Follows(s2, s2'), s1' = s1,
           \/ s3' = s3
           \/ \E l \in SeatsBConfig.Learners : s3' = [s3 EXCEPT ![l] = SeatsB!Nothing]
    PROVE  SeatsB_IInv'
  <1>1. SeatsB_Bound(s2', s3)
    BY SeatsB_BoundKept DEF SeatsB_IInv
  <1>2. CASE s3' = s3
    BY <1>1, <1>2 DEF SeatsB_IInv
  <1>3. ASSUME NEW l \in SeatsBConfig.Learners, s3' = [s3 EXCEPT ![l] = SeatsB!Nothing]
        PROVE  SeatsB_IInv'
    <2>1. /\ s3' = [m \in SeatsBConfig.Learners |-> IF m = l THEN SeatsB!Nothing ELSE s3[m]]
      BY <1>3 DEF SeatsB_IInv
    <2>2. SeatsB_Bound(s2', s3')
      BY <1>1, <2>1 DEF SeatsB_Bound
    <2>3. s3' = [m \in SeatsBConfig.Learners |-> [id |-> s3'[m].id, seen |-> s3'[m].seen,
                                         settled |-> s3'[m].settled]]
      BY <2>1 DEF SeatsB!Nothing, SeatsB_IInv
    <2> QED
      BY <2>2, <2>3 DEF SeatsB_IInv
  <1> QED
    BY <1>2, <1>3

LEMMA SeatsB_SameFollows ==
    ASSUME NEW rs, NEW ended, SeatsB_Good(rs, ended)
    PROVE  SeatsB_Follows(rs, rs)
  BY DEF SeatsB_Follows

LEMMA SeatsB_LoadStep ==
    ASSUME SeatsB_IInv, NEW l \in SeatsBConfig.Learners, NEW i \in DOMAIN s2,
           SeatsB!Load(l, i)
    PROVE  SeatsB_IInv'
  <1>1. /\ s3' = [m \in SeatsBConfig.Learners |-> IF m = l
                          THEN [id |-> i, seen |-> s2[i].status, settled |-> FALSE]
                          ELSE s3[m]]
        /\ s2[i].learner = l /\ UNCHANGED <<s1, s2, s4>>
    BY DEF SeatsB!Load, SeatsB_IInv
  <1>2. i \in 1 .. Len(s2)
    BY SeatsB_Domains DEF SeatsB_IInv, SeatsB_Good
  <1>3. SeatsB_Bound(s2, s3')
    BY <1>1, <1>2 DEF SeatsB_Bound, SeatsB_IInv
  <1>4. s3' = [m \in SeatsBConfig.Learners |-> [id |-> s3'[m].id, seen |-> s3'[m].seen,
                                       settled |-> s3'[m].settled]]
    BY <1>1 DEF SeatsB_IInv
  <1> QED
    BY <1>1, <1>3, <1>4 DEF SeatsB_IInv

LEMMA SeatsB_Settling ==
    ASSUME NEW i, NEW s, NEW a, NEW b
    PROVE  [[id |-> i, seen |-> s, settled |-> a] EXCEPT !.settled = b]
               = [id |-> i, seen |-> s, settled |-> b]
  OBVIOUS

LEMMA SeatsB_SettleFirstStep ==
    ASSUME SeatsB_IInv, NEW l \in SeatsBConfig.Learners, SeatsB!SettleFirst(l)
    PROVE  SeatsB_IInv'
  <1> DEFINE rs == SeatsB!Settled(s2, SeatsB!Unseen(l))
             seen == SeatsB!Seen(l, rs)
  <1>1. /\ s2' = rs /\ s3[l] # SeatsB!Nothing
        /\ s3' = [s3 EXCEPT ![l].seen = seen, ![l].settled = TRUE]
        /\ UNCHANGED <<s1, s4>>
    BY DEF SeatsB!SettleFirst
  <1>2. SeatsB_Good(rs, s4) /\ SeatsB_Follows(s2, rs)
    BY SeatsB_SettledGood DEF SeatsB_IInv
  <1> HIDE DEF rs
  <1>3. seen = IF rs[s3[l].id] = s2[s3[l].id] THEN s3[l].seen
               ELSE rs[s3[l].id].status
    BY DEF SeatsB!Seen
  <1> HIDE DEF seen
  <1>4. s3' = [m \in SeatsBConfig.Learners |-> IF m = l
                       THEN [id |-> s3[l].id, seen |-> seen, settled |-> TRUE]
                       ELSE s3[m]]
    <2> DEFINE once == [id |-> s3[l].id, seen |-> seen, settled |-> s3[l].settled]
               twice == [id |-> s3[l].id, seen |-> seen, settled |-> TRUE]
               half == [s3 EXCEPT ![l] = once]
    <2>1. /\ s3 = [m \in SeatsBConfig.Learners |-> s3[m]]
          /\ once = [s3[l] EXCEPT !.seen = seen]
      BY DEF SeatsB_IInv
    <2>2. [once EXCEPT !.settled = TRUE] = twice
      BY SeatsB_Settling, Zenon
    <2>3. half[l] = once /\ [half EXCEPT ![l] = twice]
              = [m \in SeatsBConfig.Learners |-> IF m = l THEN twice ELSE s3[m]]
      BY <2>1
    <2>4. s3' = [half EXCEPT ![l].settled = TRUE]
      <3> HIDE DEF once
      <3> QED
        BY <1>1, <2>1
    <2> HIDE DEF once, twice, half
    <2>5. s3' = [m \in SeatsBConfig.Learners |-> IF m = l THEN twice ELSE s3[m]]
      BY <2>2, <2>3, <2>4
    <2> QED
      BY <2>5 DEF twice
  <1>5. SeatsB_Bound(rs, s3)
    BY <1>2, SeatsB_BoundKept DEF SeatsB_IInv
  <1>6. SeatsB_Bound(rs, s3')
    <2>1. ASSUME NEW m \in SeatsBConfig.Learners, s3'[m] # SeatsB!Nothing
          PROVE  /\ s3'[m].id \in 1 .. Len(rs)
                 /\ rs[s3'[m].id].learner = m
                 /\ s3'[m].seen # "waitlisted" => rs[s3'[m].id].status # "waitlisted"
      <3>1. CASE m = l
        BY <1>1, <1>3, <1>4, <1>5, <3>1 DEF SeatsB_Bound
      <3>2. CASE m # l
        BY <1>4, <1>5, <2>1, <3>2 DEF SeatsB_Bound
      <3> QED
        BY <3>1, <3>2
    <2> QED
      BY <2>1 DEF SeatsB_Bound
  <1>7. s3' = [m \in SeatsBConfig.Learners |-> [id |-> s3'[m].id, seen |-> s3'[m].seen,
                                       settled |-> s3'[m].settled]]
    BY <1>4 DEF SeatsB_IInv
  <1> QED
    BY <1>1, <1>2, <1>6, <1>7 DEF SeatsB_IInv

LEMMA SeatsB_ConfirmStep ==
    ASSUME SeatsB_IInv, NEW l \in SeatsBConfig.Learners, SeatsB!Confirm(l)
    PROVE  SeatsB_IInv'
  <1> DEFINE i == s3[l].id
             row == [s2[i] EXCEPT !.status = "confirmed"]
             later == [s2 EXCEPT ![i] = row]
  <1>1. /\ s3' = [s3 EXCEPT ![l] = SeatsB!Nothing] /\ s1' = s1
        /\ s3[l] # SeatsB!Nothing
    BY DEF SeatsB!Confirm, SeatsB!Done, SeatsB!Ready
  <1>2. CASE s3[l].seen = "pending" /\ SeatsB!ActiveOf(s2, l) \subseteq {i}
    <2>1. /\ s2' = later
          /\ s4' = IF i \in SeatsB!With(s2, SeatsB!Active) THEN s4 ELSE s4 \cup {i}
      BY <1>2 DEF SeatsB!Confirm
    <2>2. /\ Len(s2) \in Nat /\ DOMAIN s2 = 1 .. Len(s2) /\ s2 \in Seq(SeatsB_Rows)
          /\ \A j \in 1 .. Len(s2) : s2[j] \in SeatsB_Rows
      BY SeatsB_Domains DEF SeatsB_Good, SeatsB_IInv
    <2>3. i \in 1 .. Len(s2) /\ s2[i].learner = l /\ s2[i].status # "waitlisted"
      BY <1>1, <1>2 DEF SeatsB_IInv, SeatsB_Bound
    <2>4. row \in SeatsB_Rows /\ row.status = "confirmed" /\ row.learner = l
      BY <2>2, <2>3 DEF SeatsB_Rows, SeatsB_Statuses, SeatsB!Active
    <2>5. s2[i].status \in SeatsB!Active => s2[i].status \in {"pending", "confirmed"}
      BY <2>3 DEF SeatsB!Active
    <2> HIDE DEF row, SeatsB_Rows
    <2>6. /\ later \in Seq(SeatsB_Rows) /\ Len(later) = Len(s2) /\ DOMAIN later = 1 .. Len(s2)
          /\ later[i] = row
          /\ \A j \in 1 .. Len(s2) : j # i => later[j] = s2[j]
      BY <2>2, <2>3, <2>4
    <2> HIDE DEF later, i
    <2>7. Cardinality(SeatsB!Holding(later) \ s4') <= SeatsBConfig.Capacity
      <3>1. SeatsB!Holding(later) \ s4' \in SUBSET (SeatsB!Holding(s2) \ s4)
        BY <2>1, <2>2, <2>3, <2>4, <2>5, <2>6 DEF SeatsB!Holding, SeatsB!With
      <3>2. IsFiniteSet(SeatsB!Holding(s2) \ s4)
        BY <2>2, SeatsB_FewHold, FS_Difference
      <3>3. /\ Cardinality(SeatsB!Holding(later) \ s4') <= Cardinality(SeatsB!Holding(s2) \ s4)
            /\ Cardinality(SeatsB!Holding(later) \ s4') \in Nat
            /\ Cardinality(SeatsB!Holding(s2) \ s4) \in Nat
        BY <3>1, <3>2, FS_Subset, FS_CardinalityType
      <3> QED
        BY <3>3, SeatsBAssumption DEF SeatsB_Good, SeatsB_IInv
    <2>8. ASSUME NEW j \in SeatsB!With(later, SeatsB!Active),
                 NEW k \in SeatsB!With(later, SeatsB!Active),
                 later[j].learner = later[k].learner
          PROVE  j = k
      <3>1. \A n \in SeatsB!With(later, SeatsB!Active) : n = i \/ n \in SeatsB!With(s2, SeatsB!Active)
        BY <2>2, <2>6 DEF SeatsB!With
      <3>2. \A n \in SeatsB!With(s2, SeatsB!Active) : s2[n].learner = l => n = i
        BY <1>2 DEF SeatsB!ActiveOf
      <3>3. \A n \in SeatsB!With(later, SeatsB!Active) : later[n].learner = s2[n].learner
        BY <2>3, <2>4, <2>6 DEF SeatsB!With
      <3> QED
        BY <2>3, <2>8, <3>1, <3>2, <3>3 DEF SeatsB_Good, SeatsB_IInv
    <2>9. \A j \in SeatsB!With(later, {"waitlisted"}) :
              j \in SeatsB!With(s2, {"waitlisted"}) /\ later[j] = s2[j]
      BY <2>2, <2>4, <2>6 DEF SeatsB!With
    <2>10. SeatsB_Good(later, s4')
      BY <2>6, <2>7, <2>8, <2>9 DEF SeatsB_Good, SeatsB_IInv
    <2>11. SeatsB_Follows(s2, later)
      BY <2>3, <2>4, <2>6 DEF SeatsB_Follows
    <2> QED
      BY <1>1, <2>1, <2>10, <2>11, SeatsB_MovesOn
  <1>3. CASE ~ (s3[l].seen = "pending" /\ SeatsB!ActiveOf(s2, l) \subseteq {i})
    <2>1. UNCHANGED <<s2, s4>>
      BY <1>3 DEF SeatsB!Confirm
    <2>2. SeatsB_Good(s2', s4') /\ SeatsB_Follows(s2, s2')
      BY <2>1, SeatsB_SameFollows DEF SeatsB_IInv
    <2> QED
      BY <1>1, <2>2, SeatsB_MovesOn
  <1> QED
    BY <1>2, <1>3

LEMMA SeatsB_CancelStep ==
    ASSUME SeatsB_IInv, NEW l \in SeatsBConfig.Learners, SeatsB!Cancel(l)
    PROVE  SeatsB_IInv'
  <1> DEFINE i == s3[l].id
             row == [s2[i] EXCEPT !.status = "cancelled", !.position = 0]
             later == [s2 EXCEPT ![i] = row]
             end == [s2 EXCEPT ![i].status = "cancelled", ![i].position = 0]
  <1>1. /\ s3' = [s3 EXCEPT ![l] = SeatsB!Nothing] /\ s1' = s1 /\ s4' = s4
        /\ s3[l] # SeatsB!Nothing
        /\ s2' \in {s2, end, SeatsB!Promoted(end)}
    BY DEF SeatsB!Cancel, SeatsB!Done, SeatsB!Ready
  <1>2. /\ Len(s2) \in Nat /\ DOMAIN s2 = 1 .. Len(s2) /\ s2 \in Seq(SeatsB_Rows)
        /\ \A j \in 1 .. Len(s2) : s2[j] \in SeatsB_Rows
    BY SeatsB_Domains DEF SeatsB_Good, SeatsB_IInv
  <1>3. i \in 1 .. Len(s2)
    BY <1>1 DEF SeatsB_IInv, SeatsB_Bound
  <1>4. row \in SeatsB_Rows /\ row.status = "cancelled" /\ row.learner = s2[i].learner
    BY <1>2, <1>3 DEF SeatsB_Rows, SeatsB_Statuses
  <1>5. end = later
    <2> DEFINE half == [s2[i] EXCEPT !.status = "cancelled"]
               mid == [s2 EXCEPT ![i] = half]
    <2>1. mid[i] = half /\ [mid EXCEPT ![i] = row] = later
      BY <1>2, <1>3
    <2>2. [half EXCEPT !.position = 0] = row
      BY <1>2, <1>3 DEF SeatsB_Rows
    <2>3. end = [mid EXCEPT ![i].position = 0]
      OBVIOUS
    <2> HIDE DEF half, mid, row, later, end
    <2> QED
      BY <2>1, <2>2, <2>3
  <1> HIDE DEF row, SeatsB_Rows, end
  <1>6. /\ later \in Seq(SeatsB_Rows) /\ Len(later) = Len(s2)
        /\ later[i] = row
        /\ \A j \in 1 .. Len(s2) : j # i => later[j] = s2[j]
    BY <1>2, <1>3, <1>4
  <1> HIDE DEF later, i
  <1>7. SeatsB_Good(later, s4) /\ SeatsB_Follows(s2, later)
    BY <1>4, <1>6, SeatsB_Fewer DEF SeatsB_IInv
  <1>8. SeatsB_Good(SeatsB!Promoted(later), s4) /\ SeatsB_Follows(later, SeatsB!Promoted(later))
    BY <1>7, SeatsB_PromotedGood DEF SeatsB_IInv
  <1>9. SeatsB_Follows(s2, SeatsB!Promoted(later)) /\ SeatsB_Follows(s2, s2)
    BY <1>7, <1>8 DEF SeatsB_Follows
  <1>10. SeatsB_Good(s2', s4') /\ SeatsB_Follows(s2, s2')
    BY <1>1, <1>5, <1>7, <1>8, <1>9 DEF SeatsB_IInv
  <1> QED
    BY <1>1, <1>10, SeatsB_MovesOn

LEMMA SeatsB_NextPreserves == SeatsB_IInv /\ [SeatsB!Next]_(SeatsB!vars) => SeatsB_IInv'
  <1> SUFFICES ASSUME SeatsB_IInv, [SeatsB!Next]_(SeatsB!vars) PROVE SeatsB_IInv'
    OBVIOUS
  <1>1. CASE UNCHANGED SeatsB!vars
    BY <1>1 DEF SeatsB!vars, SeatsB_IInv
  <1>2. CASE SeatsB!SweepExpired
    <2>1. SeatsB_Good(s2', s4') /\ SeatsB_Follows(s2, s2')
      BY <1>2, SeatsB_SettledGood DEF SeatsB!SweepExpired, SeatsB_IInv
    <2> QED
      BY <1>2, <2>1, SeatsB_MovesOn DEF SeatsB!SweepExpired
  <1>3. CASE SeatsB!Tick
    BY <1>3 DEF SeatsB!Tick, SeatsB_IInv
  <1> QED
    BY <1>1, <1>2, <1>3, SeatsB_EnrollStep, SeatsB_LoadStep, SeatsB_SettleFirstStep,
       SeatsB_ConfirmStep, SeatsB_CancelStep DEF SeatsB!Next

LEMMA SeatsB_Sound == SeatsB_IInv => SeatsB!SeatsSound
  BY SeatsB_Counts DEF SeatsB_IInv, SeatsB_Good, SeatsB!SeatsSound

-----------------------------------------------------------------------------
(* Training (text4): certificates of text4/b *)

ProgressB_IInv == s2 = [i \in ProgressBConfig.Steps |-> s2[i]] /\ ProgressB!CertificateSound

LEMMA ProgressB_InitInv == ProgressB!Init => ProgressB_IInv
  BY ProgressBAssumption
     DEF ProgressB!Init, ProgressB_IInv, ProgressB!CertificateSound, ProgressB!complete

LEMMA ProgressB_SubmitStep ==
    ASSUME ProgressB_IInv, NEW i \in ProgressBConfig.Steps, ProgressB!submit(i)
    PROVE  ProgressB_IInv'
  <1>1. /\ s2' = [j \in ProgressBConfig.Steps |-> IF j = i THEN "submitted" ELSE s2[j]]
        /\ s2[i] = "none"
    BY DEF ProgressB!submit, ProgressB_IInv
  <1>2. ~ ProgressB!complete(s2) /\ ~ ProgressB!complete(s2')
    BY <1>1 DEF ProgressB!complete
  <1> QED
    BY <1>1, <1>2 DEF ProgressB!submit, ProgressB_IInv, ProgressB!CertificateSound

\* An evaluation that has not crossed another writes what it reconciled.
LEMMA ProgressB_CommitStep ==
    ASSUME ProgressB_IInv, NEW r \in ProgressBConfig.Requests, ProgressB!Commit(r)
    PROVE  ProgressB_IInv'
  <1> DEFINE q == s4[r]
             new == ProgressB!Reconciled(q.certificate, q.results)
  <1>1. CASE q.certificate = "none" /\ new = "valid" /\ s3 # "none"
    BY <1>1 DEF ProgressB!Commit, ProgressB_IInv, ProgressB!CertificateSound
  <1>2. CASE ~ (q.certificate = "none" /\ new = "valid" /\ s3 # "none")
    <2>1. /\ s2' = [s2 EXCEPT ![q.step] = q.status]
          /\ s3' = IF new = q.certificate THEN s3 ELSE new
          /\ ~ s5' => /\ ~ s5
                      /\ s2' = q.results
                      /\ s3 = q.certificate
      BY <1>2 DEF ProgressB!Commit
    <2>2. s2' = [i \in ProgressBConfig.Steps |-> s2'[i]]
      BY <2>1 DEF ProgressB_IInv
    <2>3. ASSUME ~ s5'
          PROVE  s3' = "valid" <=> ProgressB!complete(s2')
      BY <2>1, <2>3 DEF ProgressB!Reconciled
    <2> QED
      BY <2>2, <2>3 DEF ProgressB_IInv, ProgressB!CertificateSound
  <1> QED
    BY <1>1, <1>2

LEMMA ProgressB_NextPreserves == ProgressB_IInv /\ [ProgressB!Next]_(ProgressB!vars) => ProgressB_IInv'
  <1> SUFFICES ASSUME ProgressB_IInv, [ProgressB!Next]_(ProgressB!vars) PROVE ProgressB_IInv'
    OBVIOUS
  <1>1. CASE UNCHANGED <<s2, s3, s5>>
    BY <1>1 DEF ProgressB_IInv, ProgressB!CertificateSound
  <1>2. CASE \E i \in ProgressBConfig.Steps : ProgressB!submit(i)
    BY <1>2, ProgressB_SubmitStep
  <1>3. CASE \E r \in ProgressBConfig.Requests : ProgressB!Commit(r)
    BY <1>3, ProgressB_CommitStep
  <1> QED
    BY <1>1, <1>2, <1>3
       DEF ProgressB!Next, ProgressB!vars, ProgressB!evaluate_submission,
           ProgressB!Flush, ProgressB!cancel

-----------------------------------------------------------------------------
(* Training (text4): versions of text4/b *)

LEMMA VersionsB_Counts == \A S : VersionsB!Cardinality(S) = Cardinality(S)
  BY DEF VersionsB!Cardinality, Cardinality

VersionsB_Lists == VersionsBConfig.Payloads \cup {<<>>}
VersionsB_Rows == [status : {"draft", "published"}, steps : VersionsB_Lists, frozen : VersionsB_Lists]

\* A state of the tables that a request may have read
VersionsB_Tables(s) ==
    /\ s = [versions |-> s.versions, current |-> s.current]
    /\ s.versions \in Seq(VersionsB_Rows)
    /\ s.current \in 0 .. Len(s.versions)

VersionsB_OneDraft(rows) ==
    \A v, w \in DOMAIN rows : rows[v].status = "draft" /\ rows[w].status = "draft" => v = w

\* Versions are only added, and what was published stays it.
VersionsB_Before(rows, later) ==
    /\ Len(rows) <= Len(later)
    /\ \A v \in DOMAIN rows : rows[v].status = "published" => later[v].status = "published"

VersionsB_Taken(row) ==
    row.status = "published" => VersionsB!validate_steps(row.steps) /\ row.steps = row.frozen

VersionsB_IInv ==
    /\ VersionsB_Tables(s1)
    /\ \A s \in s2 : VersionsB_Tables(s) /\ VersionsB_Before(s.versions, s1.versions)
    /\ VersionsB_OneDraft(s1.versions)
    /\ s1.current # 0 => s1.versions[s1.current].status = "published"
    /\ \A v \in DOMAIN s1.versions \ s3 : VersionsB_Taken(s1.versions[v])

LEMMA VersionsB_Domains ==
    ASSUME NEW rows \in Seq(VersionsB_Rows)
    PROVE  /\ Len(rows) \in Nat /\ DOMAIN rows = 1 .. Len(rows)
           /\ \A v \in DOMAIN rows : rows[v] \in VersionsB_Rows
  <1> HIDE DEF VersionsB_Rows
  <1> QED
    OBVIOUS

LEMMA VersionsB_Past ==
    ASSUME VersionsB_IInv, NEW s \in VersionsB!Requests
    PROVE  VersionsB_Tables(s) /\ VersionsB_Before(s.versions, s1.versions)
  <1>1. Len(s1.versions) \in Nat
    BY VersionsB_Domains DEF VersionsB_IInv, VersionsB_Tables
  <1> QED
    BY <1>1 DEF VersionsB_IInv, VersionsB!Requests, VersionsB_Before

LEMMA VersionsB_Sound == VersionsB_IInv => VersionsB!VersionsSound
  <1> SUFFICES ASSUME VersionsB_IInv PROVE VersionsB!VersionsSound
    OBVIOUS
  <1> DEFINE drafts == {v \in DOMAIN s1.versions : s1.versions[v].status = "draft"}
  <1>1. Cardinality(drafts) <= 1
    <2>1. CASE drafts = {}
      BY <2>1, FS_EmptySet
    <2>2. CASE drafts # {}
      <3>1. PICK v \in drafts : TRUE
        BY <2>2
      <3>2. drafts = {v}
        BY <3>1 DEF VersionsB_IInv, VersionsB_OneDraft
      <3> HIDE DEF drafts
      <3> QED
        BY <3>2, FS_Singleton
    <2> QED
      BY <2>1, <2>2
  <1> QED
    BY <1>1, VersionsB_Counts DEF VersionsB_IInv, VersionsB!VersionsSound, VersionsB_Taken

LEMMA VersionsB_InitInv == VersionsB!Init => VersionsB_IInv
  <1> SUFFICES ASSUME VersionsB!Init PROVE VersionsB_IInv
    OBVIOUS
  <1> DEFINE row == VersionsB!Version(<<>>)
  <1>1. row \in VersionsB_Rows /\ row.status = "draft"
    BY DEF VersionsB!Version, VersionsB_Rows, VersionsB_Lists
  <1>4. s1.versions = <<row>>
    BY DEF VersionsB!Init
  <1> HIDE DEF row, VersionsB_Rows
  <1>2. /\ s1.versions = <<row>> /\ s1.versions \in Seq(VersionsB_Rows) /\ Len(s1.versions) = 1
        /\ DOMAIN s1.versions = {1} /\ s1.versions[1] = row
    BY <1>1, <1>4
  <1>3. s1 = [versions |-> s1.versions, current |-> 0] /\ s1.current = 0 /\ s2 = {}
    BY DEF VersionsB!Init
  <1> QED
    BY <1>1, <1>2, <1>3
       DEF VersionsB_IInv, VersionsB_Tables, VersionsB_OneDraft, VersionsB_Taken

\* A request that commits leaves the invariant, if its tables d are as they should.
LEMMA VersionsB_CommitStep ==
    ASSUME VersionsB_IInv, NEW s \in VersionsB!Requests, NEW v, NEW d,
           VersionsB!Commits(s, v, d),
           VersionsB_Tables(d), VersionsB_Before(s1.versions, d.versions),
           VersionsB_OneDraft(d.versions),
           d.current # 0 => d.versions[d.current].status = "published",
           \A w \in DOMAIN d.versions \ s3 :
               \/ VersionsB_Taken(d.versions[w])
               \/ w = v /\ v \in DOMAIN s.versions /\ s.versions[v] # s1.versions[v]
    PROVE  VersionsB_IInv'
  <1>1. s1' = d /\ s2' \subseteq s2 \cup {s}
    BY DEF VersionsB!Commits
  <1>2. \A w \in DOMAIN d.versions \ s3' : VersionsB_Taken(d.versions[w])
    BY DEF VersionsB!Commits
  <1>3. ASSUME NEW t \in s2'
        PROVE  VersionsB_Tables(t) /\ VersionsB_Before(t.versions, d.versions)
    <2>1. t \in VersionsB!Requests
      BY <1>1 DEF VersionsB!Requests
    <2>2. VersionsB_Tables(t) /\ VersionsB_Before(t.versions, s1.versions)
      BY <2>1, VersionsB_Past
    <2>3. /\ Len(t.versions) \in Nat /\ DOMAIN t.versions = 1 .. Len(t.versions)
          /\ Len(s1.versions) \in Nat /\ DOMAIN s1.versions = 1 .. Len(s1.versions)
          /\ Len(d.versions) \in Nat
      BY <2>2, VersionsB_Domains DEF VersionsB_IInv, VersionsB_Tables
    <2> QED
      BY <2>2, <2>3 DEF VersionsB_Before
  <1> QED
    BY <1>1, <1>2, <1>3 DEF VersionsB_IInv

LEMMA VersionsB_CreateStep ==
    ASSUME VersionsB_IInv, NEW s \in VersionsB!Requests,
           NEW base \in {s.current} \cup DOMAIN s.versions,
           VersionsB!create_draft(s, base)
    PROVE  VersionsB_IInv'
  <1> DEFINE n == Len(s1.versions) + 1
             row == VersionsB!Version(IF base = 0 THEN <<>> ELSE s1.versions[base].steps)
             d == [s1 EXCEPT !.versions = Append(@, row)]
  <1>1. /\ VersionsB_Tables(s) /\ VersionsB_Before(s.versions, s1.versions)
        /\ VersionsB_Tables(s1)
    BY VersionsB_Past DEF VersionsB_IInv
  <1>2. /\ Len(s.versions) \in Nat /\ DOMAIN s.versions = 1 .. Len(s.versions)
        /\ \A v \in DOMAIN s.versions : s.versions[v] \in VersionsB_Rows
        /\ Len(s1.versions) \in Nat /\ DOMAIN s1.versions = 1 .. Len(s1.versions)
        /\ \A v \in DOMAIN s1.versions : s1.versions[v] \in VersionsB_Rows
    BY <1>1, VersionsB_Domains DEF VersionsB_Tables
  <1>3. /\ Len(s1.versions) < Len(s.versions) + 1
        /\ \A v \in DOMAIN s.versions : s.versions[v].status # "draft"
    BY DEF VersionsB!create_draft
  <1>4. Len(s.versions) = Len(s1.versions)
    BY <1>1, <1>2, <1>3 DEF VersionsB_Before
  <1>5. VersionsB!Commits(s, n, d)
    BY <1>4 DEF VersionsB!create_draft
  <1>6. \A v \in DOMAIN s.versions : s.versions[v].status = "published"
    BY <1>2, <1>3 DEF VersionsB_Rows
  <1>7. \A v \in DOMAIN s1.versions : s1.versions[v].status = "published"
    BY <1>1, <1>2, <1>4, <1>6 DEF VersionsB_Before
  <1>8. base = 0 \/ base \in DOMAIN s1.versions
    BY <1>1, <1>2, <1>4 DEF VersionsB_Tables
  <1>9. row \in VersionsB_Rows /\ row.status = "draft"
    BY <1>2, <1>8 DEF VersionsB!Version, VersionsB_Rows, VersionsB_Lists
  <1> HIDE DEF row
  <1>10. /\ d = [versions |-> d.versions, current |-> d.current]
         /\ d.versions = Append(s1.versions, row) /\ d.current = s1.current
    <2>1. s1 = [versions |-> s1.versions, current |-> s1.current]
      BY <1>1 DEF VersionsB_Tables
    <2> QED
      BY <2>1
  <1> HIDE DEF d, VersionsB_Rows
  <1>11. /\ d.versions \in Seq(VersionsB_Rows) /\ Len(d.versions) = n
         /\ DOMAIN d.versions = 1 .. n
         /\ \A v \in DOMAIN s1.versions : d.versions[v] = s1.versions[v]
         /\ d.versions[n] = row
    BY <1>1, <1>2, <1>9, <1>10 DEF VersionsB_Tables
  <1>12. VersionsB_Tables(d)
    BY <1>1, <1>2, <1>10, <1>11 DEF VersionsB_Tables
  <1>13. VersionsB_Before(s1.versions, d.versions)
    BY <1>2, <1>11 DEF VersionsB_Before
  <1>14. VersionsB_OneDraft(d.versions)
    <2>1. \A v \in DOMAIN d.versions : v \in DOMAIN s1.versions \/ v = n
      BY <1>2, <1>11
    <2> QED
      BY <2>1, <1>7, <1>11 DEF VersionsB_OneDraft
  <1>15. d.current # 0 => d.versions[d.current].status = "published"
    BY <1>1, <1>2, <1>7, <1>10, <1>11 DEF VersionsB_Tables
  <1>16. \A w \in DOMAIN d.versions \ s3 : VersionsB_Taken(d.versions[w])
    <2>1. \A w \in DOMAIN d.versions : w \in DOMAIN s1.versions \/ w = n
      BY <1>2, <1>11
    <2>2. \A w \in DOMAIN s1.versions \ s3 : VersionsB_Taken(s1.versions[w])
      BY DEF VersionsB_IInv
    <2>3. VersionsB_Taken(row)
      BY <1>9 DEF VersionsB_Taken
    <2> QED
      BY <2>1, <2>2, <2>3, <1>11
  <1> QED
    BY <1>5, <1>12, <1>13, <1>14, <1>15, <1>16, VersionsB_CommitStep

\* What a request changes in one version, its status at most to published
LEMMA VersionsB_RowStep ==
    ASSUME VersionsB_IInv, NEW v \in DOMAIN s1.versions, NEW row \in VersionsB_Rows,
           row.status \in {"published", s1.versions[v].status},
           NEW rows, rows = [s1.versions EXCEPT ![v] = row]
    PROVE  /\ rows \in Seq(VersionsB_Rows) /\ Len(rows) = Len(s1.versions)
           /\ DOMAIN rows = DOMAIN s1.versions
           /\ rows[v] = row
           /\ \A w \in DOMAIN rows : w # v => rows[w] = s1.versions[w]
           /\ VersionsB_Before(s1.versions, rows)
           /\ VersionsB_OneDraft(rows)
  <1> HIDE DEF VersionsB_Rows
  <1>1. /\ s1.versions \in Seq(VersionsB_Rows) /\ Len(s1.versions) \in Nat
        /\ DOMAIN s1.versions = 1 .. Len(s1.versions)
    BY VersionsB_Domains DEF VersionsB_IInv, VersionsB_Tables
  <1>2. /\ rows \in Seq(VersionsB_Rows) /\ Len(rows) = Len(s1.versions)
        /\ DOMAIN rows = DOMAIN s1.versions
        /\ rows[v] = row
        /\ \A w \in DOMAIN rows : w # v => rows[w] = s1.versions[w]
    BY <1>1
  <1>3. VersionsB_Before(s1.versions, rows)
    BY <1>1, <1>2 DEF VersionsB_Before
  <1>4. \A w \in DOMAIN rows : rows[w].status = "draft" => s1.versions[w].status = "draft"
    BY <1>2
  <1>5. VersionsB_OneDraft(rows)
    BY <1>2, <1>4 DEF VersionsB_IInv, VersionsB_OneDraft
  <1> QED
    BY <1>2, <1>3, <1>5

\* A version that a request has read is there.
LEMMA VersionsB_Known ==
    ASSUME VersionsB_IInv, NEW s \in VersionsB!Requests, NEW v \in DOMAIN s.versions
    PROVE  /\ v \in DOMAIN s1.versions /\ v \in Nat \ {0}
           /\ s1.versions[v] \in VersionsB_Rows /\ s.versions[v] \in VersionsB_Rows
           /\ s1 = [versions |-> s1.versions, current |-> s1.current]
           /\ s1.current \in 0 .. Len(s1.versions) /\ v \in 0 .. Len(s1.versions)
           /\ s.versions[v].status = "published" => s1.versions[v].status = "published"
  <1>1. /\ VersionsB_Tables(s) /\ VersionsB_Before(s.versions, s1.versions) /\ VersionsB_Tables(s1)
    BY VersionsB_Past DEF VersionsB_IInv
  <1>2. /\ Len(s.versions) \in Nat /\ DOMAIN s.versions = 1 .. Len(s.versions)
        /\ \A w \in DOMAIN s.versions : s.versions[w] \in VersionsB_Rows
        /\ Len(s1.versions) \in Nat /\ DOMAIN s1.versions = 1 .. Len(s1.versions)
        /\ \A w \in DOMAIN s1.versions : s1.versions[w] \in VersionsB_Rows
    BY <1>1, VersionsB_Domains DEF VersionsB_Tables
  <1> HIDE DEF VersionsB_Rows
  <1>3. v \in DOMAIN s1.versions /\ v \in Nat \ {0} /\ v \in 0 .. Len(s1.versions)
    BY <1>1, <1>2 DEF VersionsB_Before
  <1> QED
    BY <1>1, <1>2, <1>3 DEF VersionsB_Before, VersionsB_Tables

LEMMA VersionsB_ReplaceStep ==
    ASSUME VersionsB_IInv, NEW s \in VersionsB!Requests, NEW v \in DOMAIN s.versions,
           NEW steps \in VersionsBConfig.Payloads, VersionsB!replace_steps(s, v, steps)
    PROVE  VersionsB_IInv'
  <1> DEFINE row == [s1.versions[v] EXCEPT !.steps = steps]
             rows == [s1.versions EXCEPT ![v] = row]
             d == [versions |-> rows, current |-> s1.current]
  <1>1. s.versions[v].status = "draft" /\ VersionsB!Commits(s, v, d)
    BY VersionsB_Known DEF VersionsB!replace_steps
  <1>2. row \in VersionsB_Rows /\ row.status = s1.versions[v].status
    BY VersionsB_Known DEF VersionsB_Rows, VersionsB_Lists
  <1> HIDE DEF row
  <1>3. /\ rows \in Seq(VersionsB_Rows) /\ Len(rows) = Len(s1.versions)
        /\ DOMAIN rows = DOMAIN s1.versions
        /\ rows[v] = row
        /\ \A w \in DOMAIN rows : w # v => rows[w] = s1.versions[w]
        /\ VersionsB_Before(s1.versions, rows)
        /\ VersionsB_OneDraft(rows)
    BY <1>2, VersionsB_Known, VersionsB_RowStep
  <1> HIDE DEF rows
  <1>4. VersionsB_Tables(d)
    BY <1>3, VersionsB_Known DEF VersionsB_Tables
  <1>5. d.current # 0 => d.versions[d.current].status = "published"
    <2>1. s1.current # 0 => /\ s1.current \in DOMAIN s1.versions
                            /\ s1.versions[s1.current].status = "published"
      BY VersionsB_Known, VersionsB_Domains DEF VersionsB_IInv, VersionsB_Tables
    <2> QED
      BY <2>1, <1>2, <1>3
  <1>6. ASSUME NEW w \in DOMAIN rows \ s3
        PROVE  \/ VersionsB_Taken(rows[w])
               \/ w = v /\ v \in DOMAIN s.versions /\ s.versions[v] # s1.versions[v]
    <2>1. CASE w = v
      BY <2>1, <1>1, <1>2, <1>3 DEF VersionsB_Taken
    <2>2. CASE w # v
      BY <2>2, <1>3 DEF VersionsB_IInv
    <2> QED
      BY <2>1, <2>2
  <1> QED
    BY <1>1, <1>3, <1>4, <1>5, <1>6, VersionsB_CommitStep

LEMMA VersionsB_PublishStep ==
    ASSUME VersionsB_IInv, NEW s \in VersionsB!Requests, NEW v \in DOMAIN s.versions,
           VersionsB!publish_version(s, v)
    PROVE  VersionsB_IInv'
  <1> DEFINE row == [s1.versions[v] EXCEPT !.status = "published",
                                           !.frozen = s.versions[v].steps]
             rows == [s1.versions EXCEPT ![v] = row]
             d == [versions |-> rows,
                   current |-> IF s.current = v THEN s1.current ELSE v]
  <1>1. VersionsB!Commits(s, v, d) /\ VersionsB!validate_steps(s.versions[v].steps)
    <2>1. [s1 EXCEPT !.versions[v].status = "published",
                     !.versions[v].frozen = s.versions[v].steps]
              = [versions |-> rows, current |-> s1.current]
      <3> DEFINE one == [s1 EXCEPT !.versions[v].status = "published"]
                 half == [s1.versions[v] EXCEPT !.status = "published"]
      <3>1. one = [versions |-> [s1.versions EXCEPT ![v] = half], current |-> s1.current]
        BY VersionsB_Known
      <3>2. one.versions[v] = half /\ one.versions = [s1.versions EXCEPT ![v] = half]
        BY <3>1, VersionsB_Known
      <3>3. [one EXCEPT !.versions[v].frozen = s.versions[v].steps]
                = [versions |-> rows, current |-> s1.current]
        <4> DEFINE mid == [s1.versions EXCEPT ![v] = half]
        <4>1. [half EXCEPT !.frozen = s.versions[v].steps] = row
          BY VersionsB_Known DEF VersionsB_Rows
        <4>2. [mid EXCEPT ![v] = row] = rows
          BY VersionsB_Known
        <4> HIDE DEF half, row, rows
        <4>3. mid[v] = half
          BY VersionsB_Known
        <4> HIDE DEF mid
        <4>4. one = [versions |-> mid, current |-> s1.current]
          BY <3>1 DEF mid
        <4> HIDE DEF one
        <4> QED
          BY <4>1, <4>2, <4>3, <4>4
      <3> QED
        BY <3>3
    <2>2. VersionsB!Points(s, [versions |-> rows, current |-> s1.current], v) = d
      BY DEF VersionsB!Points
    <2> QED
      BY <2>1, <2>2 DEF VersionsB!publish_version
  <1>2. /\ row \in VersionsB_Rows /\ row.status = "published"
        /\ row.steps = s1.versions[v].steps /\ row.frozen = s.versions[v].steps
    BY VersionsB_Known DEF VersionsB_Rows
  <1> HIDE DEF row
  <1>3. /\ rows \in Seq(VersionsB_Rows) /\ Len(rows) = Len(s1.versions)
        /\ DOMAIN rows = DOMAIN s1.versions
        /\ rows[v] = row
        /\ \A w \in DOMAIN rows : w # v => rows[w] = s1.versions[w]
        /\ VersionsB_Before(s1.versions, rows)
        /\ VersionsB_OneDraft(rows)
    BY <1>2, VersionsB_Known, VersionsB_RowStep
  <1> HIDE DEF rows
  <1>4. VersionsB_Tables(d)
    BY <1>3, VersionsB_Known DEF VersionsB_Tables
  <1>5. d.current # 0 => d.versions[d.current].status = "published"
    <2>1. s1.current # 0 => /\ s1.current \in DOMAIN s1.versions
                            /\ s1.versions[s1.current].status = "published"
      BY VersionsB_Known, VersionsB_Domains DEF VersionsB_IInv, VersionsB_Tables
    <2> QED
      BY <2>1, <1>2, <1>3
  <1>6. ASSUME NEW w \in DOMAIN rows \ s3
        PROVE  \/ VersionsB_Taken(rows[w])
               \/ w = v /\ v \in DOMAIN s.versions /\ s.versions[v] # s1.versions[v]
    <2>1. CASE w = v
      BY <2>1, <1>1, <1>2, <1>3 DEF VersionsB_Taken
    <2>2. CASE w # v
      BY <2>2, <1>3 DEF VersionsB_IInv
    <2> QED
      BY <2>1, <2>2
  <1> QED
    BY <1>1, <1>3, <1>4, <1>5, <1>6, VersionsB_CommitStep

LEMMA VersionsB_RollbackStep ==
    ASSUME VersionsB_IInv, NEW s \in VersionsB!Requests, NEW v \in DOMAIN s.versions,
           VersionsB!rollback(s, v)
    PROVE  VersionsB_IInv'
  <1> DEFINE d == VersionsB!Points(s, s1, v)
  <1>1. VersionsB!Commits(s, v, d) /\ s1.versions[v].status = "published"
    BY VersionsB_Known DEF VersionsB!rollback
  <1>2. /\ d = [versions |-> s1.versions, current |-> d.current]
        /\ d.current \in {s1.current, v}
    BY VersionsB_Known DEF VersionsB!Points
  <1> HIDE DEF d
  <1>3. VersionsB_Tables(d)
    BY <1>2, VersionsB_Known DEF VersionsB_Tables, VersionsB_IInv
  <1>4. VersionsB_Before(s1.versions, d.versions)
    BY <1>2, VersionsB_Domains DEF VersionsB_Before, VersionsB_IInv, VersionsB_Tables
  <1>5. /\ VersionsB_OneDraft(d.versions)
        /\ d.current # 0 => d.versions[d.current].status = "published"
        /\ \A w \in DOMAIN d.versions \ s3 : VersionsB_Taken(d.versions[w])
    BY <1>1, <1>2 DEF VersionsB_IInv
  <1> QED
    BY <1>1, <1>3, <1>4, <1>5, VersionsB_CommitStep

LEMMA VersionsB_NextPreserves == VersionsB_IInv /\ [VersionsB!Next]_(VersionsB!vars) => VersionsB_IInv'
  <1> SUFFICES ASSUME VersionsB_IInv, [VersionsB!Next]_(VersionsB!vars) PROVE VersionsB_IInv'
    OBVIOUS
  <1>1. CASE UNCHANGED VersionsB!vars
    BY <1>1 DEF VersionsB!vars, VersionsB_IInv
  <1>2. CASE VersionsB!Begin
    <2>1. VersionsB_Before(s1.versions, s1.versions)
      BY VersionsB_Domains DEF VersionsB_IInv, VersionsB_Tables, VersionsB_Before
    <2> QED
      BY <1>2, <2>1 DEF VersionsB!Begin, VersionsB_IInv
  <1> QED
    BY <1>1, <1>2, VersionsB_CreateStep, VersionsB_ReplaceStep, VersionsB_PublishStep,
       VersionsB_RollbackStep DEF VersionsB!Next

-----------------------------------------------------------------------------
(* Workflows (text8/b) *)

LEMMA WorkflowB_Counts == \A S : WorkflowB!Cardinality(S) = Cardinality(S)
  BY DEF WorkflowB!Cardinality, Cardinality


\* What the schemas of the API let through (schemas.py:43-82)
WorkflowB_ApprovalNode(node) ==
    /\ node.approvers # {}
    /\ \E r \in node.reject : node.reject = {r}
WorkflowB_ConditionNode(node) == DOMAIN node.to \subseteq Nat
WorkflowB_EndNode(node) == node.outcome \in {"approved", "rejected"}
WorkflowB_Shaped(d) ==
    /\ IsFiniteSet(DOMAIN d.nodes)
    /\ \A n \in DOMAIN d.nodes :
           \/ d.nodes[n].type = "approval" /\ WorkflowB_ApprovalNode(d.nodes[n])
           \/ d.nodes[n].type = "condition" /\ WorkflowB_ConditionNode(d.nodes[n])
           \/ d.nodes[n].type = "end" /\ WorkflowB_EndNode(d.nodes[n])
WorkflowB_Parameters == \A d \in WorkflowBConfig.Definitions : WorkflowB_Shaped(d)

ASSUME WorkflowBAssumption == WorkflowB_Parameters

WorkflowB_TaskStatus == {"pending", "approved", "rejected", "closed", "withdrawn", "timeout_closed"}
WorkflowB_ActivityStatus == {"pending", "completed", "rejected", "withdrawn", "timeout_resolved"}
WorkflowB_AllUsers == UNION {UNION {d.nodes[n].approvers \cup d.nodes[n].to : n \in {m \in DOMAIN d.nodes :
                d.nodes[m].type = "approval"}} : d \in WorkflowBConfig.Definitions}
WorkflowB_Activity == [node : UNION {DOMAIN d.nodes : d \in WorkflowBConfig.Definitions}, status : WorkflowB_ActivityStatus,
             escalated : BOOLEAN, deadline : BOOLEAN,
             tasks : UNION {[S -> WorkflowB_TaskStatus] : S \in SUBSET WorkflowB_AllUsers}]

\* The versions, and which of them is current
WorkflowB_VersionsInv ==
    /\ s1 \in Seq([of : WorkflowBConfig.Definitions, published : BOOLEAN])
    /\ \A v \in DOMAIN s1 : s1[v].published => WorkflowB!Valid(s1[v].of)
    /\ s2 # 0 => s2 \in DOMAIN s1 /\ s1[s2].published

\* An instance that was started is bound to a published version.
WorkflowB_InstanceInv ==
    /\ s3 \in [version : Nat, status : {"none", "running", "approved", "rejected",
                                              "withdrawn"},
                     node : {"none"} \cup UNION {DOMAIN d.nodes : d \in WorkflowBConfig.Definitions}]
    /\ s4 \in Seq(WorkflowB_Activity)
    /\ s3.status = "none" => s4 = <<>>
    /\ s3.status # "none" =>
           s3.version \in DOMAIN s1 /\ s1[s3.version].published
    /\ s5 = "running" => s4 # <<>>

\* What the tasks of an activity of definition d say of how it went
WorkflowB_ActivityInv(d, a) ==
    /\ a.node \in DOMAIN d.nodes /\ d.nodes[a.node].type = "approval"
    /\ a.status # "pending" => WorkflowB!Pending(a) = {}
    /\ a.status = "pending" =>
           /\ WorkflowB!Pending(a) # {}
           /\ \A u \in DOMAIN a.tasks : a.tasks[u] \in {"pending", "approved", "timeout_closed"}
           /\ a.deadline => DOMAIN a.tasks = d.nodes[a.node].approvers
    /\ a.status = "completed" =>
           /\ \E u \in DOMAIN a.tasks : a.tasks[u] = "approved"
           /\ d.nodes[a.node].mode = "all" =>
                  \A u \in DOMAIN a.tasks : a.tasks[u] \in {"approved", "timeout_closed"}
    /\ (\E u \in DOMAIN a.tasks : a.tasks[u] = "timeout_closed") => a.escalated

WorkflowB_PlaceInv ==
    /\ \A i \in DOMAIN s4 : WorkflowB_ActivityInv(WorkflowB!D, s4[i])
    /\ \A i \in DOMAIN s4 : s4[i].status = "pending" =>
           i = Len(s4) /\ s3.status = "running"
    /\ s3.status = "running" => WorkflowB!Live /\ WorkflowB!Now.node = s3.node

WorkflowB_IInv == WorkflowB_VersionsInv /\ WorkflowB_InstanceInv /\ WorkflowB_PlaceInv
-----------------------------------------------------------------------------
(* Valid definitions: nothing is reached from itself, so every set of nodes *)
(* has one that refers to none of the set.                                  *)

WorkflowB_Ids(d) == DOMAIN d.nodes
WorkflowB_RefsOf(d, n) == WorkflowB!Refs(d.nodes[n])

LEMMA WorkflowB_RefsStay ==
    ASSUME NEW d, WorkflowB!Valid(d), NEW n \in WorkflowB_Ids(d)
    PROVE  WorkflowB_RefsOf(d, n) \subseteq WorkflowB_Ids(d) /\ n \notin WorkflowB!Reach(d, WorkflowB_RefsOf(d, n))
  BY DEF WorkflowB!Valid, WorkflowB_Ids, WorkflowB_RefsOf

LEMMA WorkflowB_ReachFacts ==
    ASSUME NEW d, WorkflowB!Valid(d), NEW S \in SUBSET WorkflowB_Ids(d)
    PROVE  /\ S \subseteq WorkflowB!Reach(d, S) /\ WorkflowB!Reach(d, S) \subseteq WorkflowB_Ids(d)
           /\ \A n \in WorkflowB!Reach(d, S) : WorkflowB_RefsOf(d, n) \subseteq WorkflowB!Reach(d, S)
           /\ \A n \in WorkflowB!Reach(d, S) : WorkflowB!Reach(d, WorkflowB_RefsOf(d, n)) \subseteq WorkflowB!Reach(d, S)
  <1>1. S \subseteq WorkflowB!Reach(d, S) /\ WorkflowB!Reach(d, S) \subseteq WorkflowB_Ids(d)
    BY DEF WorkflowB!Reach, WorkflowB_Ids
  <1>2. ASSUME NEW n \in WorkflowB!Reach(d, S), NEW m \in WorkflowB_RefsOf(d, n) PROVE m \in WorkflowB!Reach(d, S)
    <2>1. n \in WorkflowB_Ids(d) /\ m \in WorkflowB_Ids(d)
      BY <1>1, <1>2, WorkflowB_RefsStay
    <2>2. ASSUME NEW T \in SUBSET WorkflowB_Ids(d), S \subseteq T,
                 \A k \in T : WorkflowB!Refs(d.nodes[k]) \subseteq T
          PROVE  m \in T
      <3>1. n \in T
        BY <2>2 DEF WorkflowB!Reach, WorkflowB_Ids
      <3> QED
        BY <2>2, <3>1 DEF WorkflowB_RefsOf
    <2> QED
      BY <2>1, <2>2 DEF WorkflowB!Reach, WorkflowB_Ids
  <1>3. ASSUME NEW n \in WorkflowB!Reach(d, S) PROVE WorkflowB!Reach(d, WorkflowB_RefsOf(d, n)) \subseteq WorkflowB!Reach(d, S)
    <2>1. WorkflowB_RefsOf(d, n) \subseteq WorkflowB!Reach(d, S)
      BY <1>2
    <2> DEFINE R == WorkflowB!Reach(d, S)
    <2>2. R \in SUBSET WorkflowB_Ids(d) /\ WorkflowB_RefsOf(d, n) \subseteq R
          /\ \A k \in R : WorkflowB!Refs(d.nodes[k]) \subseteq R
      BY <1>1, <1>2, <2>1 DEF WorkflowB_RefsOf
    <2> HIDE DEF R
    <2>3. WorkflowB!Reach(d, WorkflowB_RefsOf(d, n)) \subseteq R
      BY <2>2 DEF WorkflowB!Reach, WorkflowB_Ids
    <2> QED
      BY <2>3 DEF R
  <1> QED
    BY <1>1, <1>2, <1>3

LEMMA WorkflowB_LeastNumber ==
    ASSUME NEW S \in SUBSET Nat, S # {}
    PROVE  \E b \in S : \A c \in S : b <= c
  <1> DEFINE R == {pair \in Nat \X Nat : pair[1] < pair[2]}
  <1>1. IsWellFoundedOn(R, Nat)
    <2>1. R = OpToRel(<, Nat)
      BY DEF OpToRel
    <2> QED
      BY <2>1, NatLessThanWellFounded
  <1> HIDE DEF R
  <1>2. \E b \in S : \A c \in S : ~ (<<c, b>> \in R)
    BY <1>1, WFMin
  <1>3. \A b, c \in Nat : <<c, b>> \in R <=> c < b
    BY DEF R
  <1>4. PICK b \in S : \A c \in S : ~ (<<c, b>> \in R)
    BY <1>2
  <1>5. \A c \in S : c \in Nat /\ b \in Nat /\ ~ (c < b)
    BY <1>3, <1>4
  <1>6. \A c \in S : b <= c
    BY <1>5
  <1> QED
    BY <1>6

(* The node of S from which the fewest can be reached *)
LEMMA WorkflowB_LastNode ==
    ASSUME NEW d, WorkflowB!Valid(d), IsFiniteSet(WorkflowB_Ids(d)),
           NEW S \in SUBSET WorkflowB_Ids(d), S # {}
    PROVE  \E n \in S : WorkflowB_RefsOf(d, n) \cap S = {}
  <1> DEFINE After(n) == WorkflowB!Reach(d, WorkflowB_RefsOf(d, n))
             Sizes == {Cardinality(After(n)) : n \in S}
  <1>1. ASSUME NEW n \in S
        PROVE  After(n) \subseteq WorkflowB_Ids(d) /\ IsFiniteSet(After(n)) /\ Cardinality(After(n)) \in Nat
    <2>1. After(n) \subseteq WorkflowB_Ids(d)
      BY WorkflowB_RefsStay, WorkflowB_ReachFacts
    <2> QED
      BY <2>1, FS_Subset, FS_CardinalityType
  <1>2. Sizes \in SUBSET Nat /\ Sizes # {}
    BY <1>1
  <1>3. PICK b \in Sizes : \A c \in Sizes : b <= c
    <2> HIDE DEF Sizes
    <2> QED
      BY <1>2, WorkflowB_LeastNumber
  <1>4. PICK n \in S : b = Cardinality(After(n))
    BY <1>3
  <1>5. ASSUME NEW m \in WorkflowB_RefsOf(d, n) \cap S PROVE FALSE
    <2>1. m \in After(n) /\ After(m) \subseteq After(n) /\ m \notin After(m)
      BY WorkflowB_RefsStay, WorkflowB_ReachFacts
    <2>2. Cardinality(After(m)) < Cardinality(After(n))
      <3> HIDE DEF After
      <3>1. After(m) # After(n)
        BY <2>1
      <3> QED
        BY <1>1, <2>1, <3>1, FS_Subset
    <2>3. b <= Cardinality(After(m))
      BY <1>3
    <2>4. Cardinality(After(m)) \in Nat /\ b \in Nat
      BY <1>1, <1>2, <1>3
    <2> QED
      <3> HIDE DEF After
      <3> QED BY <1>4, <2>2, <2>3, <2>4
  <1> QED
    BY <1>4, <1>5
-----------------------------------------------------------------------------
(* _advance ends: the walk through the conditions, built from the nodes     *)
(* that end it, stops at a node that is none.                               *)

WorkflowB_Sound(d) == WorkflowB!Valid(d) /\ WorkflowB_Shaped(d)
WorkflowB_IsCondition(d, n) == d.nodes[n].type = "condition"

LEMMA WorkflowB_BranchIsRef ==
    ASSUME NEW d, WorkflowB_Sound(d), NEW n \in WorkflowB_Ids(d),
           WorkflowB_IsCondition(d, n)
    PROVE  WorkflowB!Branch(d.nodes[n]) \in WorkflowB_RefsOf(d, n) /\ WorkflowB!Branch(d.nodes[n]) \in WorkflowB_Ids(d)
  <1> DEFINE node == d.nodes[n]
             holding == {i \in DOMAIN node.to : node.when[i]}
             least == CHOOSE i \in holding : \A j \in holding : i <= j
  <1>1. WorkflowB_RefsOf(d, n) = {node.to[i] : i \in DOMAIN node.to} \cup {node.default}
    BY DEF WorkflowB_RefsOf, WorkflowB!Refs, WorkflowB_IsCondition
  <1>2. WorkflowB!Branch(node) = IF holding = {} THEN node.default ELSE node.to[least]
    BY DEF WorkflowB!Branch
  <1>3. holding # {} => least \in DOMAIN node.to
    <2>1. DOMAIN node.to \subseteq Nat
      BY DEF WorkflowB_Sound, WorkflowB_Shaped, WorkflowB_ConditionNode,
             WorkflowB_IsCondition, WorkflowB_Ids
    <2>2. holding \in SUBSET Nat
      BY <2>1
    <2> SUFFICES ASSUME holding # {} PROVE least \in DOMAIN node.to
      OBVIOUS
    <2>3. \E i \in holding : \A j \in holding : i <= j
      <3> HIDE DEF holding
      <3> QED
        BY <2>2, WorkflowB_LeastNumber
    <2>4. least \in holding
      BY <2>3
    <2> QED
      BY <2>4
  <1>4. WorkflowB!Branch(node) \in WorkflowB_RefsOf(d, n)
    BY <1>1, <1>2, <1>3
  <1> QED
    BY <1>4, WorkflowB_RefsStay DEF WorkflowB_Sound

LEMMA WorkflowB_LastOfSound ==
    ASSUME NEW d, WorkflowB_Sound(d), NEW S \in SUBSET WorkflowB_Ids(d), S # {}
    PROVE  \E n \in S : WorkflowB_RefsOf(d, n) \cap S = {}
  <1>1. WorkflowB!Valid(d) /\ IsFiniteSet(WorkflowB_Ids(d))
    BY DEF WorkflowB_Sound, WorkflowB_Shaped, WorkflowB_Ids
  <1> QED
    BY <1>1, WorkflowB_LastNode

WorkflowB_Walk(d, f, n) == IF WorkflowB_IsCondition(d, n) THEN f[WorkflowB!Branch(d.nodes[n])] ELSE n

(* f is the walk on the nodes of S, which it does not leave. *)
WorkflowB_Walks(d, f, S) ==
    /\ S \subseteq WorkflowB_Ids(d)
    /\ \A n \in S : WorkflowB_IsCondition(d, n) => WorkflowB!Branch(d.nodes[n]) \in S
    /\ \A n \in S : f[n] = WorkflowB_Walk(d, f, n)

LEMMA WorkflowB_WalksAgree ==
    ASSUME NEW d, WorkflowB_Sound(d), NEW f, NEW S, WorkflowB_Walks(d, f, S), NEW g,
           NEW T, WorkflowB_Walks(d, g, T)
    PROVE  \A n \in S \cap T : f[n] = g[n]
  <1> DEFINE B == {n \in S \cap T : f[n] # g[n]}
  <1> SUFFICES ASSUME B # {} PROVE FALSE
    OBVIOUS
  <1>1. B \in SUBSET WorkflowB_Ids(d)
    BY DEF WorkflowB_Walks
  <1>2. PICK n \in B : WorkflowB_RefsOf(d, n) \cap B = {}
    <2> HIDE DEF B
    <2> QED
      BY <1>1, WorkflowB_LastOfSound
  <1>3. n \in S /\ n \in T /\ f[n] # g[n] /\ n \in WorkflowB_Ids(d)
    BY <1>1, <1>2
  <1>4. f[n] = WorkflowB_Walk(d, f, n) /\ g[n] = WorkflowB_Walk(d, g, n)
    BY <1>3 DEF WorkflowB_Walks
  <1>5. CASE WorkflowB_IsCondition(d, n)
    <2> DEFINE m == WorkflowB!Branch(d.nodes[n])
    <2>1. m \in S /\ m \in T
      BY <1>3, <1>5 DEF WorkflowB_Walks
    <2>2. m \notin B
      BY <1>2, <1>3, <1>5, WorkflowB_BranchIsRef
    <2>3. f[m] = g[m]
      BY <2>1, <2>2
    <2> QED
      BY <1>3, <1>4, <1>5, <2>3 DEF WorkflowB_Walk
  <1>6. CASE ~WorkflowB_IsCondition(d, n)
    BY <1>3, <1>4, <1>6 DEF WorkflowB_Walk
  <1> QED
    BY <1>5, <1>6

LEMMA WorkflowB_WalkFromEvery ==
    ASSUME NEW d, WorkflowB_Sound(d), NEW n \in WorkflowB_Ids(d)
    PROVE  \E S, f : n \in S /\ WorkflowB_Walks(d, f, S)
  <1> DEFINE Has(m) == \E S, f : m \in S /\ WorkflowB_Walks(d, f, S)
             B == {m \in WorkflowB_Ids(d) : ~Has(m)}
  <1> SUFFICES ASSUME B # {} PROVE FALSE
    OBVIOUS
  <1>1. PICK m \in B : WorkflowB_RefsOf(d, m) \cap B = {}
    <2>1. B \in SUBSET WorkflowB_Ids(d)
      OBVIOUS
    <2> HIDE DEF B
    <2> QED
      BY <2>1, WorkflowB_LastOfSound
  <1>2. m \in WorkflowB_Ids(d) /\ ~Has(m)
    BY <1>1
  <1>3. CASE ~WorkflowB_IsCondition(d, m)
    <2> DEFINE S == {m}
               f == [x \in S |-> m]
    <2>1. WorkflowB_Walks(d, f, S)
      BY <1>2, <1>3 DEF WorkflowB_Walks, WorkflowB_Walk
    <2> QED
      BY <1>2, <2>1
  <1>4. CASE WorkflowB_IsCondition(d, m)
    <2> DEFINE j == WorkflowB!Branch(d.nodes[m])
    <2>1. j \in WorkflowB_RefsOf(d, m) /\ j \in WorkflowB_Ids(d)
      BY <1>2, <1>4, WorkflowB_BranchIsRef
    <2>2. Has(j)
      BY <1>1, <2>1
    <2>3. PICK S, f : j \in S /\ WorkflowB_Walks(d, f, S)
      BY <2>2
    <2>4. m \notin S
      BY <1>2, <2>3
    <2> DEFINE T == S \cup {m}
               g == [x \in T |-> IF x = m THEN f[j] ELSE f[x]]
    <2>5. g[m] = f[j] /\ \A x \in S : g[x] = f[x]
      BY <2>4
    <2>6. g[m] = WorkflowB_Walk(d, g, m)
      BY <1>4, <2>3, <2>5 DEF WorkflowB_Walk
    <2>7. ASSUME NEW x \in S PROVE g[x] = WorkflowB_Walk(d, g, x)
      <3> HIDE DEF g, T
      <3>1. g[x] = f[x] /\ f[x] = WorkflowB_Walk(d, f, x)
        BY <2>3, <2>5 DEF WorkflowB_Walks
      <3>2. WorkflowB_IsCondition(d, x) => WorkflowB!Branch(d.nodes[x]) \in S
        BY <2>3 DEF WorkflowB_Walks
      <3> QED
        BY <2>5, <3>1, <3>2 DEF WorkflowB_Walk
    <2> HIDE DEF g
    <2>8. WorkflowB_Walks(d, g, T)
      BY <1>2, <1>4, <2>3, <2>6, <2>7 DEF WorkflowB_Walks
    <2> QED
      BY <1>2, <2>8
  <1> QED
    BY <1>3, <1>4

(* So the function that Target defines by recursion is that walk. *)
LEMMA WorkflowB_TargetIsWalk ==
    ASSUME NEW d, WorkflowB_Sound(d)
    PROVE  \A n \in WorkflowB_Ids(d) :
               WorkflowB!Target(d, n) = IF WorkflowB_IsCondition(d, n) THEN WorkflowB!Target(d, WorkflowB!Branch(d.nodes[n])) ELSE n
  <1> DEFINE N == WorkflowB_Ids(d)
             Value(n, s) == \E S, f : n \in S /\ WorkflowB_Walks(d, f, S) /\ s = f[n]
             F == [n \in N |-> CHOOSE s : Value(n, s)]
  <1>1. ASSUME NEW n \in N, NEW S, NEW f, n \in S, WorkflowB_Walks(d, f, S)
        PROVE  F[n] = f[n]
    <2>1. Value(n, f[n])
      BY <1>1
    <2>2. Value(n, F[n])
      BY <2>1
    <2>3. PICK T, g : n \in T /\ WorkflowB_Walks(d, g, T) /\ F[n] = g[n]
      BY <2>2
    <2> QED
      BY <1>1, <2>3, WorkflowB_WalksAgree
  <1> HIDE DEF F
  <1>2. ASSUME NEW n \in N
        PROVE  F[n] = WorkflowB_Walk(d, F, n)
    <2>1. PICK S, f : n \in S /\ WorkflowB_Walks(d, f, S)
      BY WorkflowB_WalkFromEvery
    <2>2. F[n] = f[n] /\ f[n] = WorkflowB_Walk(d, f, n)
      BY <1>1, <2>1 DEF WorkflowB_Walks
    <2>3. CASE WorkflowB_IsCondition(d, n)
      <3> DEFINE m == WorkflowB!Branch(d.nodes[n])
      <3>1. m \in S /\ m \in N
        BY <2>1, <2>3 DEF WorkflowB_Walks
      <3>2. F[m] = f[m]
        BY <1>1, <2>1, <3>1
      <3> QED
        BY <2>2, <2>3, <3>2 DEF WorkflowB_Walk
    <2>4. CASE ~WorkflowB_IsCondition(d, n)
      BY <2>2, <2>4 DEF WorkflowB_Walk
    <2> QED
      BY <2>3, <2>4
  <1> DEFINE Step(h) == [n \in N |-> IF d.nodes[n].type = "condition"
                                     THEN h[WorkflowB!Branch(d.nodes[n])] ELSE n]
             G == CHOOSE h : h = Step(h)
  <1>3. F = Step(F)
    <2>1. F = [n \in N |-> F[n]]
      BY DEF F
    <2>2. \A n \in N : F[n] = Step(F)[n]
      BY <1>2 DEF WorkflowB_Walk, WorkflowB_IsCondition
    <2> QED
      BY <2>1, <2>2
  <1>4. G = Step(G)
    <2> HIDE DEF Step
    <2> QED
      BY <1>3
  <1>5. \A n : WorkflowB!Target(d, n) = G[n]
    BY DEF WorkflowB!Target, WorkflowB_Ids
  <1> HIDE DEF G
  <1> QED
    BY <1>4, <1>5 DEF WorkflowB_IsCondition

LEMMA WorkflowB_TargetStops ==
    ASSUME NEW d, WorkflowB_Sound(d), NEW n \in WorkflowB_Ids(d)
    PROVE  WorkflowB!Target(d, n) \in WorkflowB_Ids(d) /\ ~WorkflowB_IsCondition(d, WorkflowB!Target(d, n))
  <1> DEFINE Good(m) == WorkflowB!Target(d, m) \in WorkflowB_Ids(d) /\ ~WorkflowB_IsCondition(d, WorkflowB!Target(d, m))
             B == {m \in WorkflowB_Ids(d) : ~Good(m)}
  <1> SUFFICES ASSUME B # {} PROVE FALSE
    OBVIOUS
  <1>1. PICK m \in B : WorkflowB_RefsOf(d, m) \cap B = {}
    <2>1. B \in SUBSET WorkflowB_Ids(d)
      OBVIOUS
    <2> HIDE DEF B
    <2> QED
      BY <2>1, WorkflowB_LastOfSound
  <1>2. m \in WorkflowB_Ids(d) /\ ~Good(m)
    BY <1>1
  <1>3. WorkflowB_IsCondition(d, m)
    BY <1>2, WorkflowB_TargetIsWalk
  <1>4. WorkflowB!Target(d, m) = WorkflowB!Target(d, WorkflowB!Branch(d.nodes[m]))
    BY <1>2, <1>3, WorkflowB_TargetIsWalk
  <1>5. Good(WorkflowB!Branch(d.nodes[m]))
    BY <1>1, <1>2, <1>3, WorkflowB_BranchIsRef
  <1> QED
    BY <1>2, <1>4, <1>5
-----------------------------------------------------------------------------
(* What one step does to an activity *)

LEMMA WorkflowB_ActivityType ==
    ASSUME NEW a \in WorkflowB_Activity
    PROVE  /\ a = [node |-> a.node, status |-> a.status, escalated |-> a.escalated,
                   deadline |-> a.deadline, tasks |-> a.tasks]
           /\ a.node \in UNION {DOMAIN d.nodes : d \in WorkflowBConfig.Definitions}
           /\ a.status \in WorkflowB_ActivityStatus /\ a.escalated \in BOOLEAN /\ a.deadline \in BOOLEAN
           /\ a.tasks \in [DOMAIN a.tasks -> WorkflowB_TaskStatus] /\ DOMAIN a.tasks \subseteq WorkflowB_AllUsers
  <1>1. a.tasks \in UNION {[S -> WorkflowB_TaskStatus] : S \in SUBSET WorkflowB_AllUsers}
    BY DEF WorkflowB_Activity
  <1>2. PICK S \in SUBSET WorkflowB_AllUsers : a.tasks \in [S -> WorkflowB_TaskStatus]
    BY <1>1
  <1> QED
    BY <1>2 DEF WorkflowB_Activity

WorkflowB_TaskTables == UNION {[S -> WorkflowB_TaskStatus] : S \in SUBSET WorkflowB_AllUsers}

LEMMA WorkflowB_MakeTable ==
    ASSUME NEW S \in SUBSET WorkflowB_AllUsers, NEW tasks \in [S -> WorkflowB_TaskStatus]
    PROVE  tasks \in WorkflowB_TaskTables
  BY DEF WorkflowB_TaskTables

LEMMA WorkflowB_MakeActivity ==
    ASSUME NEW node \in UNION {DOMAIN d.nodes : d \in WorkflowBConfig.Definitions},
           NEW status \in WorkflowB_ActivityStatus,
           NEW escalated \in BOOLEAN, NEW deadline \in BOOLEAN, NEW tasks \in WorkflowB_TaskTables
    PROVE  [node |-> node, status |-> status, escalated |-> escalated,
            deadline |-> deadline, tasks |-> tasks] \in WorkflowB_Activity
  BY DEF WorkflowB_Activity, WorkflowB_TaskTables

WorkflowB_Ended(a, status, t) == [a EXCEPT !.status = status, !.tasks = WorkflowB!Closed(a, t)]

LEMMA WorkflowB_EndedFacts ==
    ASSUME NEW a \in WorkflowB_Activity, NEW status \in WorkflowB_ActivityStatus,
           NEW t \in WorkflowB_TaskStatus, NEW b,
           b = WorkflowB_Ended(a, status, t)
    PROVE  /\ b \in WorkflowB_Activity
           /\ b.node = a.node /\ b.status = status /\ b.escalated = a.escalated
           /\ b.deadline = a.deadline /\ DOMAIN b.tasks = DOMAIN a.tasks
           /\ \A u \in DOMAIN a.tasks :
                  b.tasks[u] = IF a.tasks[u] = "pending" THEN t ELSE a.tasks[u]
  <1> DEFINE tasks == WorkflowB!Closed(a, t)
  <1>1. tasks = [u \in DOMAIN a.tasks |-> IF a.tasks[u] = "pending" THEN t ELSE a.tasks[u]]
    BY DEF WorkflowB!Closed, WorkflowB!Pending
  <1>2. tasks \in [DOMAIN a.tasks -> WorkflowB_TaskStatus]
    BY <1>1, WorkflowB_ActivityType
  <1>3. WorkflowB_Ended(a, status, t) = [a EXCEPT !.status = status, !.tasks = tasks]
    BY DEF WorkflowB_Ended
  <1> HIDE DEF tasks
  <1>4. b = [node |-> a.node, status |-> status, escalated |-> a.escalated,
             deadline |-> a.deadline, tasks |-> tasks]
    BY <1>3, WorkflowB_ActivityType
  <1>5. b \in WorkflowB_Activity
    <2>1. tasks \in WorkflowB_TaskTables
      BY <1>2, WorkflowB_ActivityType, WorkflowB_MakeTable
    <2> QED
      BY <1>4, <2>1, WorkflowB_ActivityType, WorkflowB_MakeActivity
  <1> QED
    BY <1>1, <1>4, <1>5

(* An activity ends: what was pending gets status t. *)
LEMMA WorkflowB_Ends ==
    ASSUME NEW d, NEW a \in WorkflowB_Activity, WorkflowB_ActivityInv(d, a),
           a.status = "pending",
           NEW status \in WorkflowB_ActivityStatus \ {"pending", "completed"},
           NEW t \in WorkflowB_TaskStatus \ {"pending", "timeout_closed"}, NEW b, b = WorkflowB_Ended(a, status, t)
    PROVE  b \in WorkflowB_Activity /\ WorkflowB_ActivityInv(d, b) /\ b.status # "pending"
  <1>1. /\ b \in WorkflowB_Activity
        /\ b.node = a.node /\ b.status = status /\ b.escalated = a.escalated
        /\ b.deadline = a.deadline /\ DOMAIN b.tasks = DOMAIN a.tasks
        /\ \A u \in DOMAIN a.tasks :
               b.tasks[u] = IF a.tasks[u] = "pending" THEN t ELSE a.tasks[u]
    BY WorkflowB_EndedFacts
  <1>2. WorkflowB!Pending(b) = {}
    BY <1>1 DEF WorkflowB!Pending
  <1>3. b.status # "pending" /\ b.status # "completed"
    BY <1>1
  <1>4. (\E u \in DOMAIN b.tasks : b.tasks[u] = "timeout_closed") => b.escalated
    BY <1>1 DEF WorkflowB_ActivityInv
  <1>5. a.node \in DOMAIN d.nodes /\ d.nodes[a.node].type = "approval"
    BY DEF WorkflowB_ActivityInv
  <1> QED
    BY <1>1, <1>2, <1>3, <1>4, <1>5 DEF WorkflowB_ActivityInv

(* A task of a pending activity is approved. *)
WorkflowB_Approved(a, u) == [a EXCEPT !.tasks[u] = "approved"]

LEMMA WorkflowB_ApprovedFacts ==
    ASSUME NEW a \in WorkflowB_Activity, NEW u \in WorkflowB!Pending(a), NEW b,
           b = WorkflowB_Approved(a, u)
    PROVE  /\ b.node = a.node /\ b.status = a.status /\ b.escalated = a.escalated
           /\ b.deadline = a.deadline /\ b \in WorkflowB_Activity
           /\ DOMAIN b.tasks = DOMAIN a.tasks /\ u \in DOMAIN a.tasks
           /\ \A w \in DOMAIN a.tasks : b.tasks[w] = IF w = u THEN "approved" ELSE a.tasks[w]
  <1> DEFINE tasks == [a.tasks EXCEPT ![u] = "approved"]
  <1>1. u \in DOMAIN a.tasks
    BY DEF WorkflowB!Pending
  <1>2. b = [node |-> a.node, status |-> a.status, escalated |-> a.escalated,
             deadline |-> a.deadline, tasks |-> tasks]
    BY WorkflowB_ActivityType DEF WorkflowB_Approved
  <1>3. /\ tasks \in [DOMAIN a.tasks -> WorkflowB_TaskStatus]
        /\ \A w \in DOMAIN a.tasks : tasks[w] = IF w = u THEN "approved" ELSE a.tasks[w]
    BY <1>1, WorkflowB_ActivityType DEF WorkflowB_TaskStatus
  <1> HIDE DEF tasks
  <1>4. b \in WorkflowB_Activity
    <2>1. tasks \in WorkflowB_TaskTables
      BY <1>3, WorkflowB_ActivityType, WorkflowB_MakeTable
    <2> QED
      BY <1>2, <2>1, WorkflowB_ActivityType, WorkflowB_MakeActivity
  <1> QED
    BY <1>1, <1>2, <1>3, <1>4

LEMMA WorkflowB_StillPending ==
    ASSUME NEW d, NEW a \in WorkflowB_Activity, WorkflowB_ActivityInv(d, a),
           a.status = "pending",
           NEW u \in WorkflowB!Pending(a), WorkflowB!Pending(a) # {u}, NEW b, b = WorkflowB_Approved(a, u)
    PROVE  b \in WorkflowB_Activity /\ WorkflowB_ActivityInv(d, b) /\ b.status = "pending" /\ b.node = a.node
  <1>1. /\ b.node = a.node /\ b.status = a.status /\ b.escalated = a.escalated
        /\ b.deadline = a.deadline /\ b \in WorkflowB_Activity
        /\ DOMAIN b.tasks = DOMAIN a.tasks /\ u \in DOMAIN a.tasks
        /\ \A w \in DOMAIN a.tasks : b.tasks[w] = IF w = u THEN "approved" ELSE a.tasks[w]
    BY WorkflowB_ApprovedFacts
  <1>2. WorkflowB!Pending(b) # {}
    <2>1. PICK w \in WorkflowB!Pending(a) : w # u
      OBVIOUS
    <2> QED
      BY <1>1, <2>1 DEF WorkflowB!Pending
  <1>3. \A w \in DOMAIN b.tasks : b.tasks[w] \in {"pending", "approved", "timeout_closed"}
    BY <1>1 DEF WorkflowB_ActivityInv
  <1>4. (\E w \in DOMAIN b.tasks : b.tasks[w] = "timeout_closed") => b.escalated
    BY <1>1 DEF WorkflowB_ActivityInv
  <1>5. a.node \in DOMAIN d.nodes /\ d.nodes[a.node].type = "approval"
        /\ (a.deadline => DOMAIN a.tasks = d.nodes[a.node].approvers)
    BY DEF WorkflowB_ActivityInv
  <1> QED
    BY <1>1, <1>2, <1>3, <1>4, <1>5 DEF WorkflowB_ActivityInv

LEMMA WorkflowB_Completes ==
    ASSUME NEW d, NEW a \in WorkflowB_Activity, WorkflowB_ActivityInv(d, a),
           a.status = "pending",
           NEW u \in WorkflowB!Pending(a),
           d.nodes[a.node].mode = "any" \/ WorkflowB!Pending(a) = {u},
           NEW b, b = WorkflowB_Approved(a, u),
           NEW c, c = WorkflowB_Ended(b, "completed", "closed")
    PROVE  c \in WorkflowB_Activity /\ WorkflowB_ActivityInv(d, c) /\ c.status # "pending"
  <1>1. /\ b.node = a.node /\ b.status = a.status /\ b.escalated = a.escalated
        /\ b.deadline = a.deadline /\ b \in WorkflowB_Activity
        /\ DOMAIN b.tasks = DOMAIN a.tasks /\ u \in DOMAIN a.tasks
        /\ \A w \in DOMAIN a.tasks : b.tasks[w] = IF w = u THEN "approved" ELSE a.tasks[w]
    BY WorkflowB_ApprovedFacts
  <1>2. "completed" \in WorkflowB_ActivityStatus /\ "closed" \in WorkflowB_TaskStatus
    BY DEF WorkflowB_ActivityStatus, WorkflowB_TaskStatus
  <1>3. /\ c \in WorkflowB_Activity
        /\ c.node = b.node /\ c.status = "completed" /\ c.escalated = b.escalated
        /\ DOMAIN c.tasks = DOMAIN b.tasks
        /\ \A w \in DOMAIN b.tasks :
               c.tasks[w] = IF b.tasks[w] = "pending" THEN "closed" ELSE b.tasks[w]
    BY <1>1, <1>2, WorkflowB_EndedFacts
  <1>6. DOMAIN c.tasks = DOMAIN a.tasks
        /\ \A w \in DOMAIN a.tasks :
               c.tasks[w] = IF w = u THEN "approved"
                            ELSE IF a.tasks[w] = "pending" THEN "closed" ELSE a.tasks[w]
    BY <1>1, <1>3
  <1>7. WorkflowB!Pending(c) = {}
    BY <1>6 DEF WorkflowB!Pending
  <1>8. \E w \in DOMAIN c.tasks : c.tasks[w] = "approved"
    BY <1>1, <1>6
  <1>9. ASSUME d.nodes[c.node].mode = "all", NEW w \in DOMAIN c.tasks
        PROVE  c.tasks[w] \in {"approved", "timeout_closed"}
    <2>1. WorkflowB!Pending(a) = {u}
      BY <1>1, <1>3, <1>9
    <2>2. w # u => a.tasks[w] # "pending"
      BY <1>6, <2>1 DEF WorkflowB!Pending
    <2> QED
      BY <1>6, <2>2 DEF WorkflowB_ActivityInv
  <1>10. (\E w \in DOMAIN c.tasks : c.tasks[w] = "timeout_closed") => c.escalated
    BY <1>1, <1>3, <1>6 DEF WorkflowB_ActivityInv
  <1>11. a.node \in DOMAIN d.nodes /\ d.nodes[a.node].type = "approval"
    BY DEF WorkflowB_ActivityInv
  <1> QED
    BY <1>1, <1>3, <1>7, <1>8, <1>9, <1>10, <1>11 DEF WorkflowB_ActivityInv
WorkflowB_HandedOver(a, to) ==
    [a EXCEPT !.escalated = TRUE, !.deadline = FALSE,
        !.tasks = [u \in DOMAIN @ \cup to |->
            IF u \in DOMAIN @ THEN WorkflowB!Closed(a, "timeout_closed")[u] ELSE "pending"]]

(* An escalation closes what is pending and asks the targets, none of whom  *)
(* had a task.                                                              *)
LEMMA WorkflowB_HandsOver ==
    ASSUME NEW d \in WorkflowBConfig.Definitions, WorkflowB_Sound(d),
           NEW a \in WorkflowB_Activity, WorkflowB_ActivityInv(d, a),
           a.status = "pending", a.deadline, d.nodes[a.node].timeout = "escalate",
           NEW b, b = WorkflowB_HandedOver(a, d.nodes[a.node].to)
    PROVE  b \in WorkflowB_Activity /\ WorkflowB_ActivityInv(d, b) /\ b.status = "pending" /\ b.node = a.node
  <1> DEFINE to == d.nodes[a.node].to
             S == DOMAIN a.tasks \cup to
             old == WorkflowB!Closed(a, "timeout_closed")
             tasks == [u \in S |-> IF u \in DOMAIN a.tasks THEN old[u] ELSE "pending"]
  <1>1. a.node \in DOMAIN d.nodes /\ d.nodes[a.node].type = "approval"
        /\ DOMAIN a.tasks = d.nodes[a.node].approvers
        /\ \A u \in DOMAIN a.tasks : a.tasks[u] \in {"pending", "approved", "timeout_closed"}
    BY DEF WorkflowB_ActivityInv
  <1>2. d.nodes[a.node].approvers \cap to = {} /\ to # {}
    BY <1>1 DEF WorkflowB_Sound, WorkflowB!Valid
  <1>3. to \subseteq WorkflowB_AllUsers
    BY <1>1 DEF WorkflowB_AllUsers
  <1>4. old = [u \in DOMAIN a.tasks |->
                   IF a.tasks[u] = "pending" THEN "timeout_closed" ELSE a.tasks[u]]
    BY DEF WorkflowB!Closed, WorkflowB!Pending
  <1> HIDE DEF old
  <1>5. tasks \in [S -> WorkflowB_TaskStatus]
    BY <1>1, <1>4 DEF WorkflowB_TaskStatus
  <1>6. tasks \in WorkflowB_TaskTables
    BY <1>3, <1>5, WorkflowB_ActivityType, WorkflowB_MakeTable
  <1>7. \A u \in S : tasks[u] = IF u \in to THEN "pending"
                                ELSE IF a.tasks[u] = "pending" THEN "timeout_closed"
                                     ELSE a.tasks[u]
    BY <1>1, <1>2, <1>4
  <1>8. DOMAIN tasks = S
    OBVIOUS
  <1>9. b = [node |-> a.node, status |-> a.status, escalated |-> TRUE,
             deadline |-> FALSE, tasks |-> tasks]
    <2>1. b = [a EXCEPT !.escalated = TRUE, !.deadline = FALSE, !.tasks = tasks]
      BY DEF WorkflowB_HandedOver, old
    <2> HIDE DEF tasks, to, S
    <2> QED
      BY <2>1, WorkflowB_ActivityType
  <1> HIDE DEF tasks, to, S
  <1>10. b \in WorkflowB_Activity
    <2>1. a.node \in UNION {DOMAIN e.nodes : e \in WorkflowBConfig.Definitions} /\ a.status \in WorkflowB_ActivityStatus
      BY WorkflowB_ActivityType
    <2>2. \A deadline, escalated \in BOOLEAN :
              [node |-> a.node, status |-> a.status, escalated |-> escalated,
               deadline |-> deadline, tasks |-> tasks] \in WorkflowB_Activity
      BY <1>6, <2>1, WorkflowB_MakeActivity
    <2> QED
      BY <1>9, <2>2
  <1>11. b.tasks = tasks /\ b.node = a.node /\ b.status = a.status
         /\ b.escalated = TRUE /\ b.deadline = FALSE
    BY <1>9
  <1>12. WorkflowB!Pending(b) # {}
    BY <1>2, <1>7, <1>8, <1>11 DEF WorkflowB!Pending, S
  <1>13. \A u \in DOMAIN b.tasks : b.tasks[u] \in {"pending", "approved", "timeout_closed"}
    BY <1>1, <1>7, <1>8, <1>11 DEF S
  <1> QED
    BY <1>1, <1>10, <1>11, <1>12, <1>13 DEF WorkflowB_ActivityInv

(* A new activity has one pending task for each approver. *)
LEMMA WorkflowB_Enters ==
    ASSUME NEW d \in WorkflowBConfig.Definitions, WorkflowB_Shaped(d),
           NEW n \in WorkflowB_Ids(d), d.nodes[n].type = "approval",
           NEW b, b = WorkflowB!Entered(d, n)
    PROVE  b \in WorkflowB_Activity /\ WorkflowB_ActivityInv(d, b) /\ b.status = "pending" /\ b.node = n
  <1> DEFINE approvers == d.nodes[n].approvers
             tasks == [u \in approvers |-> "pending"]
  <1>1. approvers # {}
    BY DEF WorkflowB_Shaped, WorkflowB_ApprovalNode, WorkflowB_Ids
  <1>2. approvers \subseteq WorkflowB_AllUsers
    BY DEF WorkflowB_AllUsers, WorkflowB_Ids
  <1>3. tasks \in [approvers -> WorkflowB_TaskStatus]
    BY DEF WorkflowB_TaskStatus
  <1>4. tasks \in WorkflowB_TaskTables
    BY <1>2, <1>3, WorkflowB_MakeTable
  <1>5. b = [node |-> n, status |-> "pending", escalated |-> FALSE,
             deadline |-> d.nodes[n].timeout # "never", tasks |-> tasks]
    BY DEF WorkflowB!Entered
  <1>6. DOMAIN tasks = approvers /\ \A u \in approvers : tasks[u] = "pending"
    OBVIOUS
  <1> HIDE DEF tasks
  <1>7. n \in UNION {DOMAIN e.nodes : e \in WorkflowBConfig.Definitions}
    BY DEF WorkflowB_Ids
  <1>8. b \in WorkflowB_Activity
    BY <1>4, <1>5, <1>7, WorkflowB_MakeActivity DEF WorkflowB_ActivityStatus
  <1>9. b.tasks = tasks /\ b.node = n /\ b.status = "pending" /\ b.escalated = FALSE
    BY <1>5
  <1>10. WorkflowB!Pending(b) # {}
    BY <1>1, <1>6, <1>9 DEF WorkflowB!Pending
  <1> QED
    BY <1>6, <1>8, <1>9, <1>10 DEF WorkflowB_ActivityInv, WorkflowB_Ids

-----------------------------------------------------------------------------
(* What one step does to the instance *)

LEMMA WorkflowB_ElementOf ==
    ASSUME NEW S, NEW s \in Seq(S), NEW i \in DOMAIN s
    PROVE  s[i] \in S
  OBVIOUS

LEMMA WorkflowB_Bound ==
    ASSUME WorkflowB_Parameters, WorkflowB_VersionsInv, NEW v \in DOMAIN s1,
           s1[v].published
    PROVE  s1[v].of \in WorkflowBConfig.Definitions /\ WorkflowB_Sound(s1[v].of)
  <1> DEFINE WorkflowB_Row == [of : WorkflowBConfig.Definitions, published : BOOLEAN]
  <1>1. s1[v] \in WorkflowB_Row
    <2>1. s1 \in Seq(WorkflowB_Row)
      BY DEF WorkflowB_VersionsInv
    <2> HIDE DEF WorkflowB_Row
    <2> QED
      BY <2>1, WorkflowB_ElementOf
  <1> QED
    BY <1>1 DEF WorkflowB_VersionsInv, WorkflowB_Parameters, WorkflowB_Sound

(* The rows of a definition d whose activities are all over *)
WorkflowB_Over(d, acts) ==
    /\ acts \in Seq(WorkflowB_Activity)
    /\ \A i \in DOMAIN acts : WorkflowB_ActivityInv(d, acts[i]) /\ acts[i].status # "pending"

LEMMA WorkflowB_Appended ==
    ASSUME NEW S, NEW s \in Seq(S), NEW e \in S, NEW t, t = Append(s, e)
    PROVE  /\ t \in Seq(S) /\ Len(t) = Len(s) + 1 /\ DOMAIN t = DOMAIN s \cup {Len(t)}
           /\ Len(t) \in Nat \ {0} /\ Len(t) \notin DOMAIN s /\ t # <<>>
           /\ t[Len(t)] = e /\ \A i \in DOMAIN s : t[i] = s[i]
  <1>1. DOMAIN s = 1 .. Len(s) /\ Len(s) \in Nat
    OBVIOUS
  <1>2. t \in Seq(S) /\ Len(t) = Len(s) + 1
    OBVIOUS
  <1>3. DOMAIN t = 1 .. Len(t)
    BY <1>2
  <1>4. DOMAIN t = DOMAIN s \cup {Len(t)}
    BY <1>1, <1>2, <1>3
  <1>5. t[Len(t)] = e /\ \A i \in DOMAIN s : t[i] = s[i]
    BY <1>1, <1>2
  <1> QED
    BY <1>1, <1>2, <1>3, <1>4, <1>5

(* The instance stays bound to v; what it had is over, and it ends. *)
LEMMA WorkflowB_Stops ==
    ASSUME WorkflowB_VersionsInv, NEW v \in DOMAIN s1, s1[v].published, v \in Nat,
           NEW acts, WorkflowB_Over(s1[v].of, acts), UNCHANGED <<s1, s2>>,
           s4' = acts,
           NEW status \in {"approved", "rejected", "withdrawn"},
           NEW node \in {"none"} \cup UNION {DOMAIN d.nodes : d \in WorkflowBConfig.Definitions},
           s3' = [version |-> v, status |-> status, node |-> node],
           s5' = "running" => acts # <<>>
    PROVE  WorkflowB_IInv'
  <1>1. WorkflowB_VersionsInv'
    BY DEF WorkflowB_VersionsInv
  <1>2. s3'.version = v /\ s3'.status = status /\ status # "none" /\ status # "running"
    OBVIOUS
  <1>3. WorkflowB_InstanceInv'
    BY <1>2 DEF WorkflowB_InstanceInv, WorkflowB_Over
  <1>4. WorkflowB!D' = s1[v].of
    BY <1>2 DEF WorkflowB!D
  <1>5. WorkflowB_PlaceInv'
    BY <1>2, <1>4 DEF WorkflowB_PlaceInv, WorkflowB_Over
  <1> QED
    BY <1>1, <1>3, <1>5 DEF WorkflowB_IInv

(* The instance stays bound to v and waits at its last activity. *)
LEMMA WorkflowB_WaitsAt ==
    ASSUME WorkflowB_VersionsInv, NEW v \in DOMAIN s1, s1[v].published, v \in Nat,
           NEW acts \in Seq(WorkflowB_Activity), acts # <<>>,
           \A i \in DOMAIN acts : WorkflowB_ActivityInv(s1[v].of, acts[i]),
           \A i \in DOMAIN acts : acts[i].status = "pending" <=> i = Len(acts),
           UNCHANGED <<s1, s2>>,
           s4' = acts, s3'.node = acts[Len(acts)].node,
           s3' \in [version : {v}, status : {"running"},
                          node : UNION {DOMAIN d.nodes : d \in WorkflowBConfig.Definitions}]
    PROVE  WorkflowB_IInv'
  <1>1. WorkflowB_VersionsInv'
    BY DEF WorkflowB_VersionsInv
  <1>2. s3'.version = v /\ s3'.status = "running"
        /\ s3' \in [version : Nat, status : {"none", "running", "approved", "rejected",
                                                   "withdrawn"},
                          node : {"none"} \cup UNION {DOMAIN d.nodes : d \in WorkflowBConfig.Definitions}]
    <2> DEFINE Nodes == UNION {DOMAIN d.nodes : d \in WorkflowBConfig.Definitions}
    <2> HIDE DEF Nodes
    <2>1. s3' \in [version : {v}, status : {"running"}, node : Nodes]
      BY DEF Nodes
    <2>2. s3'.version = v /\ s3'.status = "running"
          /\ s3' \in [version : Nat, status : {"none", "running", "approved", "rejected",
                                                     "withdrawn"},
                            node : {"none"} \cup Nodes]
      BY <2>1
    <2> QED
      BY <2>2 DEF Nodes
  <1>3. WorkflowB_InstanceInv'
    BY <1>2 DEF WorkflowB_InstanceInv
  <1>4. WorkflowB!D' = s1[v].of
    BY <1>2 DEF WorkflowB!D
  <1>5. Len(acts) \in DOMAIN acts /\ Len(acts) \in Nat /\ Len(acts) > 0
    <2> HIDE DEF WorkflowB_Activity
    <2> QED
      OBVIOUS
  <1>6. WorkflowB!Live' /\ WorkflowB!Now'.node = s3'.node
    BY <1>2, <1>5 DEF WorkflowB!Live, WorkflowB!Now
  <1>7. WorkflowB_PlaceInv'
    BY <1>2, <1>4, <1>6 DEF WorkflowB_PlaceInv
  <1> QED
    BY <1>1, <1>3, <1>7 DEF WorkflowB_IInv
(* The instance goes on to node n: it ends, or a new activity is entered.   *)
LEMMA WorkflowB_GoesOn ==
    ASSUME WorkflowB_Parameters, WorkflowB_VersionsInv, NEW v \in DOMAIN s1,
           s1[v].published,
           NEW acts, WorkflowB_Over(s1[v].of, acts),
           NEW n \in WorkflowB_Ids(s1[v].of), WorkflowB!Advance(s1[v].of, v, acts, n),
           UNCHANGED <<s1, s2>>, s5' = "running" => acts # <<>>
    PROVE  WorkflowB_IInv'
  <1> DEFINE d == s1[v].of
             m == WorkflowB!Target(d, n)
  <1>1. d \in WorkflowBConfig.Definitions /\ WorkflowB_Sound(d) /\ v \in Nat
    <2>1. v \in Nat
      BY DEF WorkflowB_VersionsInv
    <2> QED
      BY <2>1, WorkflowB_Bound
  <1>2. m \in WorkflowB_Ids(d) /\ d.nodes[m].type # "condition"
    BY <1>1, WorkflowB_TargetStops DEF WorkflowB_IsCondition
  <1>3. m \in UNION {DOMAIN e.nodes : e \in WorkflowBConfig.Definitions}
    BY <1>1, <1>2 DEF WorkflowB_Ids
  <1> HIDE DEF m
  <1>4. CASE d.nodes[m].type = "end"
    <2>1. /\ s3' = [version |-> v, status |-> d.nodes[m].outcome, node |-> m]
          /\ s4' = acts
      BY <1>4 DEF WorkflowB!Advance, m
    <2>2. d.nodes[m].outcome \in {"approved", "rejected", "withdrawn"}
      BY <1>1, <1>2, <1>4
         DEF WorkflowB_Sound, WorkflowB_Shaped, WorkflowB_EndNode, WorkflowB_Ids
    <2> QED
      BY <1>1, <1>3, <2>1, <2>2, WorkflowB_Stops
  <1>5. CASE d.nodes[m].type # "end"
    <2> DEFINE b == WorkflowB!Entered(d, m)
               all == Append(acts, b)
    <2>1. /\ s3' = [version |-> v, status |-> "running", node |-> m]
          /\ s4' = all
      BY <1>5 DEF WorkflowB!Advance, m
    <2>2. d.nodes[m].type = "approval" /\ WorkflowB_Shaped(d)
      BY <1>1, <1>2, <1>5 DEF WorkflowB_Sound, WorkflowB_Shaped, WorkflowB_Ids
    <2>3. b \in WorkflowB_Activity /\ WorkflowB_ActivityInv(d, b) /\ b.status = "pending" /\ b.node = m
      BY <1>1, <1>2, <2>2, WorkflowB_Enters
    <2> HIDE DEF b
    <2>4. acts \in Seq(WorkflowB_Activity)
          /\ \A i \in DOMAIN acts : WorkflowB_ActivityInv(d, acts[i]) /\ acts[i].status # "pending"
      BY DEF WorkflowB_Over
    <2>5. /\ all \in Seq(WorkflowB_Activity) /\ DOMAIN all = DOMAIN acts \cup {Len(all)}
          /\ Len(all) \notin DOMAIN acts /\ all # <<>>
          /\ all[Len(all)] = b /\ \A i \in DOMAIN acts : all[i] = acts[i]
      <3>1. b \in WorkflowB_Activity /\ acts \in Seq(WorkflowB_Activity)
        BY <2>3, <2>4
      <3> QED
        BY <3>1, WorkflowB_Appended
    <2> HIDE DEF all
    <2>6. \A i \in DOMAIN all : WorkflowB_ActivityInv(d, all[i])
      BY <2>3, <2>4, <2>5
    <2>7. \A i \in DOMAIN all : all[i].status = "pending" <=> i = Len(all)
      BY <2>3, <2>4, <2>5
    <2>8. s3'.node = all[Len(all)].node
          /\ s3' \in [version : {v}, status : {"running"},
                            node : UNION {DOMAIN e.nodes : e \in WorkflowBConfig.Definitions}]
      BY <1>3, <2>1, <2>3, <2>5
    <2> QED
      BY <1>1, <2>1, <2>5, <2>6, <2>7, <2>8, WorkflowB_WaitsAt
  <1> QED
    BY <1>4, <1>5

LEMMA WorkflowB_Replaced ==
    ASSUME NEW S, NEW s \in Seq(S), s # <<>>, NEW e \in S, NEW t,
           t = [s EXCEPT ![Len(s)] = e]
    PROVE  /\ t \in Seq(S) /\ Len(t) = Len(s) /\ DOMAIN t = DOMAIN s /\ t # <<>>
           /\ Len(s) \in DOMAIN s /\ t[Len(s)] = e
           /\ \A i \in DOMAIN s : i # Len(s) => t[i] = s[i]
  <1>1. Len(s) \in DOMAIN s
    OBVIOUS
  <1>2. DOMAIN t = DOMAIN s /\ t[Len(s)] = e /\ \A i \in DOMAIN s : i # Len(s) => t[i] = s[i]
    BY <1>1
  <1>3. t \in Seq(S) /\ Len(t) = Len(s)
    BY <1>1
  <1> QED
    BY <1>1, <1>2, <1>3

(* Where the instance is bound *)
LEMMA WorkflowB_Started ==
    ASSUME WorkflowB_Parameters, WorkflowB_IInv, s3.status # "none"
    PROVE  /\ s3.version \in DOMAIN s1 /\ s3.version \in Nat
           /\ s1[s3.version].published
           /\ WorkflowB!D = s1[s3.version].of /\ WorkflowB!D \in WorkflowBConfig.Definitions /\ WorkflowB_Sound(WorkflowB!D)
           /\ s3 = [version |-> s3.version, status |-> s3.status,
                          node |-> s3.node]
           /\ s3.node \in {"none"} \cup UNION {DOMAIN d.nodes : d \in WorkflowBConfig.Definitions}
  <1>1. s3.version \in DOMAIN s1 /\ s1[s3.version].published
    BY DEF WorkflowB_IInv, WorkflowB_InstanceInv
  <1>2. WorkflowB!D \in WorkflowBConfig.Definitions /\ WorkflowB_Sound(WorkflowB!D)
    BY <1>1, WorkflowB_Bound DEF WorkflowB_IInv, WorkflowB!D
  <1> DEFINE Nodes == {"none"} \cup UNION {DOMAIN d.nodes : d \in WorkflowBConfig.Definitions}
  <1>3. s3 \in [version : Nat, status : {"none", "running", "approved", "rejected",
                                               "withdrawn"}, node : Nodes]
    BY DEF WorkflowB_IInv, WorkflowB_InstanceInv
  <1> HIDE DEF Nodes
  <1>4. /\ s3 = [version |-> s3.version, status |-> s3.status,
                       node |-> s3.node]
        /\ s3.node \in Nodes /\ s3.version \in Nat
    BY <1>3
  <1> QED
    BY <1>1, <1>2, <1>4 DEF WorkflowB!D, Nodes

LEMMA WorkflowB_Rows ==
    ASSUME WorkflowB_IInv, s4 # <<>>
    PROVE  /\ s4 \in Seq(WorkflowB_Activity) /\ Len(s4) \in DOMAIN s4
           /\ WorkflowB!Now \in WorkflowB_Activity /\ WorkflowB_ActivityInv(WorkflowB!D, WorkflowB!Now)
           /\ \A i \in DOMAIN s4 : WorkflowB_ActivityInv(WorkflowB!D, s4[i])
           /\ \A i \in DOMAIN s4 : i # Len(s4) => s4[i].status # "pending"
           /\ s3.status # "none"
  <1>1. s4 \in Seq(WorkflowB_Activity)
    BY DEF WorkflowB_IInv, WorkflowB_InstanceInv
  <1>2. Len(s4) \in DOMAIN s4
    BY <1>1, WorkflowB_Replaced
  <1>3. WorkflowB!Now \in WorkflowB_Activity
    BY <1>1, <1>2, WorkflowB_ElementOf DEF WorkflowB!Now
  <1> QED
    BY <1>1, <1>2, <1>3
       DEF WorkflowB!Now, WorkflowB_IInv, WorkflowB_PlaceInv, WorkflowB_InstanceInv

LEMMA WorkflowB_Current ==
    ASSUME WorkflowB_Parameters, WorkflowB_IInv, WorkflowB!Live
    PROVE  /\ s4 # <<>> /\ WorkflowB!Now.status = "pending" /\ s3.status = "running"
           /\ WorkflowB!Now.node = s3.node /\ WorkflowB!Now.node \in WorkflowB_Ids(WorkflowB!D)
           /\ WorkflowB!D.nodes[WorkflowB!Now.node].type = "approval" /\ WorkflowB!Config = WorkflowB!D.nodes[WorkflowB!Now.node]
  <1>1. s4 # <<>>
    BY DEF WorkflowB!Live
  <1>2. WorkflowB_ActivityInv(WorkflowB!D, WorkflowB!Now)
    BY <1>1, WorkflowB_Rows
  <1> QED
    BY <1>1, <1>2
       DEF WorkflowB!Live, WorkflowB_IInv, WorkflowB_PlaceInv, WorkflowB_ActivityInv,
           WorkflowB_Ids, WorkflowB!Config

(* The last activity becomes one that is over. *)
LEMMA WorkflowB_AllOver ==
    ASSUME WorkflowB_IInv, s4 # <<>>, NEW a \in WorkflowB_Activity,
           WorkflowB_ActivityInv(WorkflowB!D, a), a.status # "pending"
    PROVE  WorkflowB_Over(WorkflowB!D, WorkflowB!Set(a)) /\ WorkflowB!Set(a) # <<>>
  <1>1. s4 \in Seq(WorkflowB_Activity)
    BY WorkflowB_Rows
  <1> DEFINE acts == WorkflowB!Set(a)
  <1>2. acts = [s4 EXCEPT ![Len(s4)] = a]
    BY DEF WorkflowB!Set
  <1> HIDE DEF acts
  <1>3. /\ acts \in Seq(WorkflowB_Activity) /\ DOMAIN acts = DOMAIN s4 /\ acts # <<>>
        /\ acts[Len(s4)] = a
        /\ \A i \in DOMAIN s4 : i # Len(s4) => acts[i] = s4[i]
    BY <1>1, <1>2, WorkflowB_Replaced
  <1>4. \A i \in DOMAIN acts : WorkflowB_ActivityInv(WorkflowB!D, acts[i]) /\ acts[i].status # "pending"
    BY <1>3, WorkflowB_Rows
  <1>5. WorkflowB_Over(WorkflowB!D, acts)
    BY <1>3, <1>4 DEF WorkflowB_Over
  <1> QED
    BY <1>3, <1>5 DEF acts

(* The last activity stays pending. *)
LEMMA WorkflowB_StaysHere ==
    ASSUME WorkflowB_Parameters, WorkflowB_IInv, WorkflowB!Live,
           NEW a \in WorkflowB_Activity, WorkflowB_ActivityInv(WorkflowB!D, a),
           a.status = "pending",
           a.node = WorkflowB!Now.node, s4' = WorkflowB!Set(a), UNCHANGED <<s3, s1, s2>>
    PROVE  WorkflowB_IInv'
  <1>1. s4 \in Seq(WorkflowB_Activity) /\ s4 # <<>>
    BY WorkflowB_Rows, WorkflowB_Current
  <1> DEFINE acts == WorkflowB!Set(a)
  <1>2. acts = [s4 EXCEPT ![Len(s4)] = a]
    BY DEF WorkflowB!Set
  <1> HIDE DEF acts
  <1>3. /\ acts \in Seq(WorkflowB_Activity) /\ DOMAIN acts = DOMAIN s4 /\ acts # <<>>
        /\ Len(acts) = Len(s4) /\ acts[Len(s4)] = a
        /\ \A i \in DOMAIN s4 : i # Len(s4) => acts[i] = s4[i]
    BY <1>1, <1>2, WorkflowB_Replaced
  <1> DEFINE v == s3.version
  <1>4. /\ v \in DOMAIN s1 /\ v \in Nat /\ s1[v].published
        /\ WorkflowB!D = s1[v].of /\ WorkflowB!D \in WorkflowBConfig.Definitions /\ s3.status = "running"
        /\ s3 = [version |-> v, status |-> "running", node |-> s3.node]
        /\ s3.node = a.node /\ s3.node \in WorkflowB_Ids(WorkflowB!D)
    <2>1. s3.status = "running" /\ WorkflowB!Now.node = s3.node /\ WorkflowB!Now.node \in WorkflowB_Ids(WorkflowB!D)
      BY WorkflowB_Current
    <2> QED
      BY <2>1, WorkflowB_Started
  <1>5. s3.node \in UNION {DOMAIN d.nodes : d \in WorkflowBConfig.Definitions}
    BY <1>4 DEF WorkflowB_Ids
  <1>6. s3 \in [version : {v}, status : {"running"},
                      node : UNION {DOMAIN d.nodes : d \in WorkflowBConfig.Definitions}]
    BY <1>4, <1>5
  <1>7. \A i \in DOMAIN acts : WorkflowB_ActivityInv(WorkflowB!D, acts[i])
    BY <1>1, <1>3, WorkflowB_Rows
  <1>8. \A i \in DOMAIN acts : acts[i].status = "pending" <=> i = Len(acts)
    BY <1>1, <1>3, WorkflowB_Rows
  <1> HIDE DEF v
  <1>9. WorkflowB_VersionsInv /\ s4' = acts /\ s3' = s3
    BY DEF WorkflowB_IInv, acts
  <1> QED
    BY <1>3, <1>4, <1>6, <1>7, <1>8, <1>9, WorkflowB_WaitsAt
-----------------------------------------------------------------------------
(* One lemma per action *)

LEMMA WorkflowB_InitIInv == WorkflowB!Init => WorkflowB_IInv
  <1> SUFFICES ASSUME WorkflowB!Init PROVE WorkflowB_IInv
    OBVIOUS
  <1>1. WorkflowB_VersionsInv
    BY DEF WorkflowB!Init, WorkflowB_VersionsInv
  <1>2. WorkflowB_InstanceInv
    BY DEF WorkflowB!Init, WorkflowB_InstanceInv
  <1>3. WorkflowB_PlaceInv
    BY DEF WorkflowB!Init, WorkflowB_PlaceInv
  <1> QED
    BY <1>1, <1>2, <1>3 DEF WorkflowB_IInv

(* Versions are added and published; none that is bound changes. *)
LEMMA WorkflowB_VersionsGrow ==
    ASSUME WorkflowB_IInv, WorkflowB_VersionsInv', WorkflowB!UnchangedFlow,
           DOMAIN s1 \subseteq DOMAIN s1',
           \A v \in DOMAIN s1 :
               /\ s1'[v].of = s1[v].of
               /\ s1[v].published => s1'[v].published
    PROVE  WorkflowB_IInv'
  <1>1. WorkflowB_InstanceInv'
    BY DEF WorkflowB_IInv, WorkflowB_InstanceInv, WorkflowB!UnchangedFlow
  <1>2. WorkflowB_PlaceInv'
    <2>1. CASE s3.status = "none"
      <3>1. s4' = <<>> /\ s3'.status = "none"
        BY <2>1 DEF WorkflowB_IInv, WorkflowB_InstanceInv, WorkflowB!UnchangedFlow
      <3> QED
        BY <3>1 DEF WorkflowB_PlaceInv
    <2>2. CASE s3.status # "none"
      <3>1. s3.version \in DOMAIN s1
        BY <2>2 DEF WorkflowB_IInv, WorkflowB_InstanceInv
      <3>2. WorkflowB!D' = WorkflowB!D
        BY <3>1 DEF WorkflowB!D, WorkflowB!UnchangedFlow
      <3>3. WorkflowB!Now' = WorkflowB!Now /\ WorkflowB!Live' = WorkflowB!Live
        BY DEF WorkflowB!Now, WorkflowB!Live, WorkflowB!UnchangedFlow
      <3> QED
        BY <3>2, <3>3 DEF WorkflowB_PlaceInv, WorkflowB_IInv, WorkflowB!UnchangedFlow
    <2> QED
      BY <2>1, <2>2
  <1> QED
    BY <1>1, <1>2 DEF WorkflowB_IInv

WorkflowB_Row == [of : WorkflowBConfig.Definitions, published : BOOLEAN]

LEMMA WorkflowB_VersionRows ==
    ASSUME WorkflowB_VersionsInv
    PROVE  /\ s1 \in Seq(WorkflowB_Row)
           /\ \A v \in DOMAIN s1 : s1[v] \in WorkflowB_Row
           /\ DOMAIN s1 = 1 .. Len(s1) /\ Len(s1) \in Nat
  <1>1. s1 \in Seq(WorkflowB_Row)
    BY DEF WorkflowB_VersionsInv, WorkflowB_Row
  <1> QED
    BY <1>1, WorkflowB_ElementOf

LEMMA WorkflowB_MakeVersions ==
    ASSUME s1' \in Seq(WorkflowB_Row),
           \A v \in DOMAIN s1' : s1'[v].published => WorkflowB!Valid(s1'[v].of),
           s2' # 0 => s2' \in DOMAIN s1' /\ s1'[s2'].published
    PROVE  WorkflowB_VersionsInv'
  BY DEF WorkflowB_VersionsInv, WorkflowB_Row

LEMMA WorkflowB_CreateStep ==
    ASSUME WorkflowB_IInv, NEW d \in WorkflowBConfig.Definitions,
           NEW publish \in BOOLEAN, WorkflowB!CreateVersion(d, publish)
    PROVE  WorkflowB_IInv'
  <1> DEFINE row == [of |-> d, published |-> publish]
  <1>1. row \in WorkflowB_Row /\ row.of = d /\ row.published = publish
    BY DEF WorkflowB_Row
  <1>2. s1 \in Seq(WorkflowB_Row) /\ WorkflowB_VersionsInv /\ DOMAIN s1 = 1 .. Len(s1)
        /\ Len(s1) \in Nat
    BY WorkflowB_VersionRows DEF WorkflowB_IInv
  <1>3. /\ publish => WorkflowB!Valid(d)
        /\ s2' = IF publish THEN Len(s1) + 1 ELSE s2
        /\ WorkflowB!UnchangedFlow
    BY DEF WorkflowB!CreateVersion
  <1> HIDE DEF row
  <1>4. /\ s1' \in Seq(WorkflowB_Row) /\ Len(s1') = Len(s1) + 1
        /\ DOMAIN s1' = DOMAIN s1 \cup {Len(s1')}
        /\ s1'[Len(s1')] = row
        /\ \A v \in DOMAIN s1 : s1'[v] = s1[v]
    <2>1. s1' = Append(s1, row)
      BY DEF WorkflowB!CreateVersion, row
    <2>2. row \in WorkflowB_Row
      BY <1>1
    <2>3. s1 \in Seq(WorkflowB_Row)
      BY <1>2
    <2> QED
      BY <2>1, <2>2, <2>3, WorkflowB_Appended
  <1>5. ASSUME NEW v \in DOMAIN s1', s1'[v].published
        PROVE  WorkflowB!Valid(s1'[v].of)
    BY <1>1, <1>2, <1>3, <1>4, <1>5 DEF WorkflowB_VersionsInv
  <1>6. s2' # 0 => s2' \in DOMAIN s1' /\ s1'[s2'].published
    BY <1>1, <1>2, <1>3, <1>4 DEF WorkflowB_VersionsInv
  <1>7. WorkflowB_VersionsInv'
    BY <1>4, <1>5, <1>6, WorkflowB_MakeVersions
  <1> QED
    BY <1>3, <1>4, <1>7, WorkflowB_VersionsGrow

LEMMA WorkflowB_PublishStep ==
    ASSUME WorkflowB_IInv, NEW v \in DOMAIN s1, WorkflowB!Publish(v)
    PROVE  WorkflowB_IInv'
  <1>1. s1 \in Seq(WorkflowB_Row) /\ WorkflowB_VersionsInv /\ v \in Nat
        /\ \A w \in DOMAIN s1 : s1[w] \in WorkflowB_Row
    BY WorkflowB_VersionRows DEF WorkflowB_IInv
  <1>2. /\ s1' = [s1 EXCEPT ![v].published = TRUE] /\ WorkflowB!Valid(s1[v].of)
        /\ s2' = v /\ WorkflowB!UnchangedFlow
    BY DEF WorkflowB!Publish
  <1> DEFINE row == [s1[v] EXCEPT !.published = TRUE]
  <1>3. row \in WorkflowB_Row /\ row.of = s1[v].of /\ row.published = TRUE
    BY <1>1 DEF WorkflowB_Row
  <1>4. s1' = [s1 EXCEPT ![v] = row]
    BY <1>2
  <1> HIDE DEF row
  <1>5. /\ s1' \in Seq(WorkflowB_Row) /\ DOMAIN s1' = DOMAIN s1 /\ s1'[v] = row
        /\ \A w \in DOMAIN s1 : w # v => s1'[w] = s1[w]
    BY <1>1, <1>3, <1>4
  <1>6. ASSUME NEW w \in DOMAIN s1', s1'[w].published
        PROVE  WorkflowB!Valid(s1'[w].of)
    BY <1>1, <1>2, <1>3, <1>5, <1>6 DEF WorkflowB_VersionsInv
  <1>7. s2' # 0 => s2' \in DOMAIN s1' /\ s1'[s2'].published
    BY <1>2, <1>3, <1>5
  <1>8. WorkflowB_VersionsInv'
    BY <1>5, <1>6, <1>7, WorkflowB_MakeVersions
  <1>9. \A w \in DOMAIN s1 :
            /\ s1'[w].of = s1[w].of
            /\ s1[w].published => s1'[w].published
    BY <1>3, <1>5
  <1> QED
    BY <1>2, <1>5, <1>8, <1>9, WorkflowB_VersionsGrow

LEMMA WorkflowB_RollbackStep ==
    ASSUME WorkflowB_IInv, NEW v \in DOMAIN s1, WorkflowB!Rollback(v)
    PROVE  WorkflowB_IInv'
  <1>1. s1' = s1 /\ s2' = v /\ s1[v].published /\ WorkflowB!UnchangedFlow
    BY DEF WorkflowB!Rollback
  <1>2. WorkflowB_VersionsInv'
    BY <1>1 DEF WorkflowB_IInv, WorkflowB_VersionsInv
  <1> QED
    BY <1>1, <1>2, WorkflowB_VersionsGrow

LEMMA WorkflowB_StartStep ==
    ASSUME WorkflowB_Parameters, WorkflowB_IInv, NEW v \in DOMAIN s1, WorkflowB!Start(v)
    PROVE  WorkflowB_IInv'
  <1> DEFINE d == s1[v].of
  <1>1. /\ s3.status = "none" /\ s1[v].published
        /\ WorkflowB!Advance(d, v, <<>>, d.start) /\ UNCHANGED <<s1, s2, s5>>
    BY DEF WorkflowB!Start
  <1>2. WorkflowB_VersionsInv /\ s4 = <<>>
    BY <1>1 DEF WorkflowB_IInv, WorkflowB_InstanceInv
  <1>3. s5 # "running"
    BY <1>2 DEF WorkflowB_IInv, WorkflowB_InstanceInv
  <1>4. WorkflowB_Over(d, <<>>)
    BY DEF WorkflowB_Over
  <1>5. d.start \in WorkflowB_Ids(d)
    BY <1>1, <1>2, WorkflowB_Bound DEF WorkflowB_Sound, WorkflowB!Valid, WorkflowB_Ids
  <1> HIDE DEF d
  <1> DEFINE acts == <<>>
  <1>6. WorkflowB_Over(d, acts) /\ WorkflowB!Advance(d, v, acts, d.start)
    BY <1>1, <1>4
  <1> HIDE DEF acts
  <1>7. s5' = "running" => acts # <<>>
    BY <1>1, <1>3
  <1> QED
    BY <1>1, <1>2, <1>5, <1>6, <1>7, WorkflowB_GoesOn DEF d

(* The current activity ends and the instance goes on to node n. *)
LEMMA WorkflowB_Leaves ==
    ASSUME WorkflowB_Parameters, WorkflowB_IInv, WorkflowB!Live,
           NEW a \in WorkflowB_Activity, WorkflowB_ActivityInv(WorkflowB!D, a),
           a.status # "pending",
           NEW n \in WorkflowB_Ids(WorkflowB!D), WorkflowB!Goes(WorkflowB!Set(a), n), WorkflowB!UnchangedRest
    PROVE  WorkflowB_IInv'
  <1> DEFINE acts == WorkflowB!Set(a)
             v == s3.version
  <1>1. v \in DOMAIN s1 /\ s1[v].published /\ WorkflowB!D = s1[v].of
    BY WorkflowB_Current, WorkflowB_Started
  <1>2. WorkflowB_Over(WorkflowB!D, acts) /\ acts # <<>>
    BY WorkflowB_Current, WorkflowB_AllOver
  <1>3. WorkflowB!Advance(WorkflowB!D, v, acts, n)
    BY DEF WorkflowB!Goes
  <1>4. UNCHANGED <<s1, s2>> /\ WorkflowB_VersionsInv
    BY DEF WorkflowB!UnchangedRest, WorkflowB_IInv
  <1> HIDE DEF acts, v
  <1> QED
    BY <1>1, <1>2, <1>3, <1>4, WorkflowB_GoesOn

LEMMA WorkflowB_NextIsNode ==
    ASSUME WorkflowB_Parameters, WorkflowB_IInv, WorkflowB!Live
    PROVE  /\ WorkflowB!Config.next \in WorkflowB_Ids(WorkflowB!D)
           /\ WorkflowB!Config.reject # {"none"} => (CHOOSE n \in WorkflowB!Config.reject : TRUE) \in WorkflowB_Ids(WorkflowB!D)
  <1>1. WorkflowB!Config.next \in WorkflowB_RefsOf(WorkflowB!D, WorkflowB!Now.node)
        /\ WorkflowB!Config.reject \ {"none"} \subseteq WorkflowB_RefsOf(WorkflowB!D, WorkflowB!Now.node)
    BY WorkflowB_Current DEF WorkflowB_RefsOf, WorkflowB!Refs
  <1>2. WorkflowB_RefsOf(WorkflowB!D, WorkflowB!Now.node) \subseteq WorkflowB_Ids(WorkflowB!D)
    BY WorkflowB_Current, WorkflowB_Started, WorkflowB_RefsStay DEF WorkflowB_Sound
  <1>3. \E r \in WorkflowB!Config.reject : WorkflowB!Config.reject = {r}
    BY WorkflowB_Current, WorkflowB_Started
       DEF WorkflowB_Sound, WorkflowB_Shaped, WorkflowB_ApprovalNode, WorkflowB_Ids
  <1>4. WorkflowB!Config.reject # {"none"} => (CHOOSE n \in WorkflowB!Config.reject : TRUE) \in WorkflowB!Config.reject \ {"none"}
    BY <1>3
  <1> QED
    BY <1>1, <1>2, <1>4

LEMMA WorkflowB_RejectPathStep ==
    ASSUME WorkflowB_Parameters, WorkflowB_IInv, WorkflowB!Live, WorkflowB!RejectPath,
           WorkflowB!UnchangedRest
    PROVE  WorkflowB_IInv'
  <1> DEFINE a == WorkflowB_Ended(WorkflowB!Now, "rejected", "closed")
  <1>1. WorkflowB!Now \in WorkflowB_Activity /\ WorkflowB_ActivityInv(WorkflowB!D, WorkflowB!Now) /\ WorkflowB!Now.status = "pending" /\ s4 # <<>>
    BY WorkflowB_Current, WorkflowB_Rows
  <1>2. a \in WorkflowB_Activity /\ WorkflowB_ActivityInv(WorkflowB!D, a) /\ a.status # "pending"
    BY <1>1, WorkflowB_Ends DEF WorkflowB_ActivityStatus, WorkflowB_TaskStatus
  <1>3. IF WorkflowB!Config.reject = {"none"}
        THEN /\ s3' = [s3 EXCEPT !.status = "rejected"]
             /\ s4' = WorkflowB!Set(a)
        ELSE WorkflowB!Goes(WorkflowB!Set(a), CHOOSE n \in WorkflowB!Config.reject : TRUE)
    BY DEF WorkflowB!RejectPath, WorkflowB_Ended
  <1> HIDE DEF a
  <1>4. CASE WorkflowB!Config.reject = {"none"}
    <2> DEFINE v == s3.version
               acts == WorkflowB!Set(a)
    <2>1. WorkflowB_Over(WorkflowB!D, acts) /\ acts # <<>>
      BY <1>1, <1>2, WorkflowB_AllOver
    <2>2. /\ v \in DOMAIN s1 /\ v \in Nat /\ s1[v].published /\ WorkflowB!D = s1[v].of
          /\ s3.node \in {"none"} \cup UNION {DOMAIN d.nodes : d \in WorkflowBConfig.Definitions}
          /\ s3' = [version |-> v, status |-> "rejected", node |-> s3.node]
      BY <1>3, <1>4, WorkflowB_Current, WorkflowB_Started
    <2>3. UNCHANGED <<s1, s2>> /\ WorkflowB_VersionsInv /\ s4' = acts
      BY <1>3, <1>4 DEF WorkflowB!UnchangedRest, WorkflowB_IInv
    <2> HIDE DEF acts, v
    <2> QED
      BY <2>1, <2>2, <2>3, WorkflowB_Stops
  <1>5. CASE WorkflowB!Config.reject # {"none"}
    BY <1>2, <1>3, <1>5, WorkflowB_NextIsNode, WorkflowB_Leaves
  <1> QED
    BY <1>4, <1>5

LEMMA WorkflowB_ApproveStep ==
    ASSUME WorkflowB_Parameters, WorkflowB_IInv, NEW u, WorkflowB!Approve(u)
    PROVE  WorkflowB_IInv'
  <1> DEFINE b == WorkflowB_Approved(WorkflowB!Now, u)
             c == WorkflowB_Ended(b, "completed", "closed")
  <1>1. WorkflowB!Live /\ u \in WorkflowB!Pending(WorkflowB!Now) /\ WorkflowB!UnchangedRest
    BY DEF WorkflowB!Approve
  <1>2. IF WorkflowB!Passes(u) THEN WorkflowB!Goes(WorkflowB!Set(c), WorkflowB!Config.next)
                     ELSE s4' = WorkflowB!Set(b) /\ UNCHANGED s3
    BY DEF WorkflowB!Approve, WorkflowB_Approved, WorkflowB_Ended
  <1>3. /\ WorkflowB!Now \in WorkflowB_Activity /\ WorkflowB_ActivityInv(WorkflowB!D, WorkflowB!Now) /\ WorkflowB!Now.status = "pending" /\ s4 # <<>>
        /\ WorkflowB!Config = WorkflowB!D.nodes[WorkflowB!Now.node]
    BY <1>1, WorkflowB_Current, WorkflowB_Rows
  <1> HIDE DEF b, c
  <1>4. CASE WorkflowB!Passes(u)
    <2>1. WorkflowB!Config.mode = "any" \/ WorkflowB!Pending(WorkflowB!Now) = {u}
      BY <1>4 DEF WorkflowB!Passes
    <2>2. c \in WorkflowB_Activity /\ WorkflowB_ActivityInv(WorkflowB!D, c) /\ c.status # "pending"
      BY <1>1, <1>3, <2>1, WorkflowB_Completes DEF b, c
    <2> QED
      BY <1>1, <1>2, <1>4, <2>2, WorkflowB_NextIsNode, WorkflowB_Leaves
  <1>5. CASE ~WorkflowB!Passes(u)
    <2>1. WorkflowB!Pending(WorkflowB!Now) # {u}
      BY <1>5 DEF WorkflowB!Passes
    <2>2. b \in WorkflowB_Activity /\ WorkflowB_ActivityInv(WorkflowB!D, b) /\ b.status = "pending" /\ b.node = WorkflowB!Now.node
      BY <1>1, <1>3, <2>1, WorkflowB_StillPending DEF b
    <2>3. s4' = WorkflowB!Set(b) /\ UNCHANGED <<s3, s1, s2>>
      BY <1>1, <1>2, <1>5 DEF WorkflowB!UnchangedRest
    <2> QED
      BY <1>1, <2>2, <2>3, WorkflowB_StaysHere
  <1> QED
    BY <1>4, <1>5

LEMMA WorkflowB_BeginWithdrawStep ==
    ASSUME WorkflowB_IInv, WorkflowB!BeginWithdraw
    PROVE  WorkflowB_IInv'
  <1>1. UNCHANGED <<s1, s2, s3, s4>> /\ s5' = s3.status
    BY DEF WorkflowB!BeginWithdraw
  <1>2. s3.status = "running" => s4 # <<>>
    BY DEF WorkflowB_IInv, WorkflowB_PlaceInv, WorkflowB!Live
  <1>3. WorkflowB_VersionsInv'
    BY <1>1 DEF WorkflowB_IInv, WorkflowB_VersionsInv
  <1>4. WorkflowB_InstanceInv'
    BY <1>1, <1>2 DEF WorkflowB_IInv, WorkflowB_InstanceInv
  <1>5. WorkflowB_PlaceInv'
    BY <1>1
       DEF WorkflowB_IInv, WorkflowB_PlaceInv, WorkflowB!D, WorkflowB!Live, WorkflowB!Now
  <1> QED
    BY <1>3, <1>4, <1>5 DEF WorkflowB_IInv

LEMMA WorkflowB_RefuseWithdrawStep ==
    ASSUME WorkflowB_IInv, WorkflowB!RefuseWithdraw
    PROVE  WorkflowB_IInv'
  <1>1. UNCHANGED <<s1, s2, s3, s4>> /\ s5' = "none"
    BY DEF WorkflowB!RefuseWithdraw
  <1>2. WorkflowB_VersionsInv'
    BY <1>1 DEF WorkflowB_IInv, WorkflowB_VersionsInv
  <1>3. WorkflowB_InstanceInv'
    BY <1>1 DEF WorkflowB_IInv, WorkflowB_InstanceInv
  <1>4. WorkflowB_PlaceInv'
    BY <1>1
       DEF WorkflowB_IInv, WorkflowB_PlaceInv, WorkflowB!D, WorkflowB!Live, WorkflowB!Now
  <1> QED
    BY <1>2, <1>3, <1>4 DEF WorkflowB_IInv

LEMMA WorkflowB_WithdrawStep ==
    ASSUME WorkflowB_Parameters, WorkflowB_IInv, WorkflowB!Withdraw
    PROVE  WorkflowB_IInv'
  <1> DEFINE a == WorkflowB_Ended(WorkflowB!Now, "withdrawn", "withdrawn")
             v == s3.version
  <1>1. s4 # <<>>
    BY DEF WorkflowB!Withdraw, WorkflowB_IInv, WorkflowB_InstanceInv
  <1>2. /\ WorkflowB!Now \in WorkflowB_Activity /\ WorkflowB_ActivityInv(WorkflowB!D, WorkflowB!Now) /\ s4 \in Seq(WorkflowB_Activity)
        /\ s3.status # "none"
        /\ \A i \in DOMAIN s4 : WorkflowB_ActivityInv(WorkflowB!D, s4[i])
        /\ \A i \in DOMAIN s4 : i # Len(s4) => s4[i].status # "pending"
    BY <1>1, WorkflowB_Rows
  <1>3. /\ v \in DOMAIN s1 /\ v \in Nat /\ s1[v].published /\ WorkflowB!D = s1[v].of
        /\ s3.node \in {"none"} \cup UNION {DOMAIN d.nodes : d \in WorkflowBConfig.Definitions}
        /\ s3' = [version |-> v, status |-> "withdrawn", node |-> s3.node]
    BY <1>2, WorkflowB_Started DEF WorkflowB!Withdraw
  <1>4. /\ s4' = IF WorkflowB!Now.status # "pending" THEN s4 ELSE WorkflowB!Set(a)
        /\ s5' = "none" /\ UNCHANGED <<s1, s2>> /\ WorkflowB_VersionsInv
    BY DEF WorkflowB!Withdraw, WorkflowB_Ended, WorkflowB_IInv
  <1> HIDE DEF v
  <1>5. CASE WorkflowB!Now.status # "pending"
    <2>1. WorkflowB_Over(WorkflowB!D, s4)
      BY <1>2, <1>5 DEF WorkflowB_Over, WorkflowB!Now
    <2> QED
      BY <1>3, <1>4, <1>5, <2>1, WorkflowB_Stops
  <1>6. CASE WorkflowB!Now.status = "pending"
    <2>1. a \in WorkflowB_Activity /\ WorkflowB_ActivityInv(WorkflowB!D, a) /\ a.status # "pending"
      BY <1>2, <1>6, WorkflowB_Ends DEF WorkflowB_ActivityStatus, WorkflowB_TaskStatus
    <2> HIDE DEF a
    <2> DEFINE acts == WorkflowB!Set(a)
    <2>2. WorkflowB_Over(WorkflowB!D, acts)
      BY <1>1, <2>1, WorkflowB_AllOver
    <2>3. s4' = acts
      BY <1>4, <1>6
    <2> HIDE DEF acts
    <2> QED
      BY <1>3, <1>4, <2>2, <2>3, WorkflowB_Stops
  <1> QED
    BY <1>5, <1>6

LEMMA WorkflowB_EscalateStep ==
    ASSUME WorkflowB_Parameters, WorkflowB_IInv, WorkflowB!Escalate
    PROVE  WorkflowB_IInv'
  <1> DEFINE a == WorkflowB_HandedOver(WorkflowB!Now, WorkflowB!Config.to)
  <1>1. WorkflowB!Live /\ WorkflowB!Now.deadline /\ WorkflowB!Config.timeout = "escalate" /\ WorkflowB!UnchangedRest
    BY DEF WorkflowB!Escalate, WorkflowB!Due
  <1>2. s4' = WorkflowB!Set(a) /\ UNCHANGED s3
    BY DEF WorkflowB!Escalate, WorkflowB_HandedOver
  <1> HIDE DEF a
  <1>3. /\ WorkflowB!Now \in WorkflowB_Activity /\ WorkflowB_ActivityInv(WorkflowB!D, WorkflowB!Now) /\ WorkflowB!Now.status = "pending"
        /\ WorkflowB!Config = WorkflowB!D.nodes[WorkflowB!Now.node] /\ WorkflowB!D \in WorkflowBConfig.Definitions /\ WorkflowB_Sound(WorkflowB!D)
    BY <1>1, WorkflowB_Current, WorkflowB_Rows, WorkflowB_Started
  <1>4. a \in WorkflowB_Activity /\ WorkflowB_ActivityInv(WorkflowB!D, a) /\ a.status = "pending" /\ a.node = WorkflowB!Now.node
    BY <1>1, <1>3, WorkflowB_HandsOver DEF a
  <1>5. UNCHANGED <<s1, s2>>
    BY <1>1 DEF WorkflowB!UnchangedRest
  <1> QED
    BY <1>1, <1>2, <1>4, <1>5, WorkflowB_StaysHere

LEMMA WorkflowB_AutoApproveStep ==
    ASSUME WorkflowB_Parameters, WorkflowB_IInv, WorkflowB!AutoApprove
    PROVE  WorkflowB_IInv'
  <1> DEFINE a == WorkflowB_Ended(WorkflowB!Now, "timeout_resolved", "approved")
  <1>1. WorkflowB!Live /\ WorkflowB!UnchangedRest
    BY DEF WorkflowB!AutoApprove, WorkflowB!Due
  <1>2. WorkflowB!Goes(WorkflowB!Set(a), WorkflowB!Config.next)
    BY DEF WorkflowB!AutoApprove, WorkflowB_Ended
  <1>3. WorkflowB!Now \in WorkflowB_Activity /\ WorkflowB_ActivityInv(WorkflowB!D, WorkflowB!Now) /\ WorkflowB!Now.status = "pending"
    BY <1>1, WorkflowB_Current, WorkflowB_Rows
  <1>4. a \in WorkflowB_Activity /\ WorkflowB_ActivityInv(WorkflowB!D, a) /\ a.status # "pending"
    BY <1>3, WorkflowB_Ends DEF WorkflowB_ActivityStatus, WorkflowB_TaskStatus
  <1> HIDE DEF a
  <1> QED
    BY <1>1, <1>2, <1>4, WorkflowB_NextIsNode, WorkflowB_Leaves
-----------------------------------------------------------------------------
LEMMA WorkflowB_NextIInv ==
    ASSUME WorkflowB_Parameters, WorkflowB_IInv, [WorkflowB!Next]_(WorkflowB!vars)
    PROVE  WorkflowB_IInv'
  <1>1. ASSUME NEW d \in WorkflowBConfig.Definitions, NEW publish \in BOOLEAN,
               WorkflowB!CreateVersion(d, publish)
        PROVE  WorkflowB_IInv'
    BY <1>1, WorkflowB_CreateStep
  <1>2. ASSUME NEW v \in DOMAIN s1,
               WorkflowB!Publish(v) \/ WorkflowB!Rollback(v) \/ WorkflowB!Start(v)
        PROVE  WorkflowB_IInv'
    BY <1>2, WorkflowB_PublishStep, WorkflowB_RollbackStep, WorkflowB_StartStep
  <1>3. ASSUME NEW u, WorkflowB!Approve(u) \/ WorkflowB!Reject(u)
        PROVE  WorkflowB_IInv'
    BY <1>3, WorkflowB_ApproveStep, WorkflowB_RejectPathStep DEF WorkflowB!Reject
  <1>4. ASSUME WorkflowB!BeginWithdraw \/ WorkflowB!Withdraw \/ WorkflowB!RefuseWithdraw
        PROVE  WorkflowB_IInv'
    BY <1>4, WorkflowB_BeginWithdrawStep, WorkflowB_WithdrawStep,
       WorkflowB_RefuseWithdrawStep
  <1>5. ASSUME WorkflowB!Escalate \/ WorkflowB!AutoApprove \/ WorkflowB!AutoReject
        PROVE  WorkflowB_IInv'
    BY <1>5, WorkflowB_EscalateStep, WorkflowB_AutoApproveStep, WorkflowB_RejectPathStep
       DEF WorkflowB!AutoReject, WorkflowB!Due
  <1>6. ASSUME UNCHANGED WorkflowB!vars
        PROVE  WorkflowB_IInv'
    <2>1. UNCHANGED <<s1, s2, s3, s4, s5>>
      BY <1>6 DEF WorkflowB!vars
    <2>2. WorkflowB_VersionsInv'
      BY <2>1 DEF WorkflowB_IInv, WorkflowB_VersionsInv
    <2>3. WorkflowB_InstanceInv'
      BY <2>1 DEF WorkflowB_IInv, WorkflowB_InstanceInv
    <2>4. WorkflowB_PlaceInv'
      BY <2>1
         DEF WorkflowB_IInv, WorkflowB_PlaceInv, WorkflowB!D, WorkflowB!Live,
             WorkflowB!Now
    <2> QED
      BY <2>2, <2>3, <2>4 DEF WorkflowB_IInv
  <1> QED
    BY <1>1, <1>2, <1>3, <1>4, <1>5, <1>6 DEF WorkflowB!Next

LEMMA WorkflowB_SoundFromIInv ==
    ASSUME WorkflowB_Parameters, WorkflowB_IInv
    PROVE  WorkflowB!WorkflowSound
  <1>1. s2 # 0 => s1[s2].published
    BY DEF WorkflowB_IInv, WorkflowB_VersionsInv
  <1>2. ASSUME s3.status = "running"
        PROVE  WorkflowB!Live /\ WorkflowB!Now.node = s3.node /\ WorkflowB!Pending(WorkflowB!Now) # {}
    <2>1. WorkflowB!Live /\ WorkflowB!Now.node = s3.node
      BY <1>2 DEF WorkflowB_IInv, WorkflowB_PlaceInv
    <2>2. WorkflowB_ActivityInv(WorkflowB!D, WorkflowB!Now) /\ WorkflowB!Now.status = "pending"
      BY <2>1, WorkflowB_Current, WorkflowB_Rows
    <2> QED
      BY <2>1, <2>2 DEF WorkflowB_ActivityInv
  <1>3. ASSUME NEW i \in DOMAIN s4
        PROVE  LET a == s4[i]
                   Had(s) == {u \in DOMAIN a.tasks : a.tasks[u] = s}
               IN  /\ a.status # "pending" => WorkflowB!Pending(a) = {}
                   /\ a.status = "pending" =>
                          i = Len(s4) /\ s3.status = "running"
                   /\ a.status = "completed" =>
                          /\ Had("approved") # {}
                          /\ WorkflowB!D.nodes[a.node].mode = "all" =>
                                 Had("approved") \cup Had("timeout_closed") = DOMAIN a.tasks
                   /\ Had("timeout_closed") # {} => a.escalated
    <2> DEFINE a == s4[i]
               Had(s) == {u \in DOMAIN a.tasks : a.tasks[u] = s}
    <2>1. WorkflowB_ActivityInv(WorkflowB!D, a)
          /\ (a.status = "pending" => i = Len(s4) /\ s3.status = "running")
      BY <1>3 DEF WorkflowB_IInv, WorkflowB_PlaceInv
    <2> HIDE DEF a
    <2>2. a.status # "pending" => WorkflowB!Pending(a) = {}
      BY <2>1 DEF WorkflowB_ActivityInv
    <2>3. a.status = "completed" => Had("approved") # {}
      BY <2>1 DEF WorkflowB_ActivityInv
    <2>4. a.status = "completed" /\ WorkflowB!D.nodes[a.node].mode = "all" =>
              Had("approved") \cup Had("timeout_closed") = DOMAIN a.tasks
      BY <2>1 DEF WorkflowB_ActivityInv
    <2>5. Had("timeout_closed") # {} => a.escalated
      BY <2>1 DEF WorkflowB_ActivityInv
    <2> HIDE DEF Had
    <2>6. /\ a.status # "pending" => WorkflowB!Pending(a) = {}
          /\ a.status = "pending" => i = Len(s4) /\ s3.status = "running"
          /\ a.status = "completed" =>
                 /\ Had("approved") # {}
                 /\ WorkflowB!D.nodes[a.node].mode = "all" =>
                        Had("approved") \cup Had("timeout_closed") = DOMAIN a.tasks
          /\ Had("timeout_closed") # {} => a.escalated
      BY <2>1, <2>2, <2>3, <2>4, <2>5
    <2> QED
      BY <2>6 DEF a, Had
  <1> QED
    BY <1>1, <1>2, <1>3 DEF WorkflowB!WorkflowSound

-----------------------------------------------------------------------------
(* Summaries (text5): text5/a *)

\* What agents send: snapshots of minutes that have a local day
AggregateA_Snapshots == UNION {{batch[i] : i \in DOMAIN batch} : batch \in AggregateAConfig.Batches}
AggregateA_Parameters ==
    /\ AggregateAConfig.Days \subseteq Nat
    /\ AggregateAConfig.Batches \subseteq Seq(AggregateA_Snapshots)
    /\ \A row \in AggregateA_Snapshots : AggregateAConfig.Day[row[1]] \in AggregateAConfig.Days
ASSUME AggregateAAssumption == AggregateA_Parameters

AggregateA_Transactions == [phase : {"idle", "open"}, batch : Seq(AggregateA_Snapshots), new : SUBSET AggregateA_Snapshots,
                 done : SUBSET AggregateAConfig.Days, sums : SUBSET AggregateA_Snapshots]

AggregateA_TypeInv ==
    /\ s1 \in SUBSET AggregateA_Snapshots
    /\ s2 \in [AggregateAConfig.Days -> SUBSET AggregateA_Snapshots]
    /\ s4 \in Nat
    /\ s5 \in [AggregateAConfig.Requests -> AggregateA_Transactions]
    /\ s7 \in [accepted : SUBSET AggregateA_Snapshots, late : SUBSET AggregateAConfig.Days]

AggregateA_OnePerMinute(rows) == \A x, y \in rows : x[1] = y[1] => x = y

\* A transaction over the rows R when the snapshots A were accepted: it has
\* recomputed a day only after its last insert, and from no fewer rows than
\* there are now, since the lock of the day keeps others from adding some.
AggregateA_Good(q, R, A) ==
    /\ q.batch # <<>> => q.done = {}
    /\ AggregateA_OnePerMinute(R \cup q.new)
    /\ q.sums \subseteq A \cup q.new
    /\ \A d \in q.done : AggregateA!OnDay(R \cup q.new, d) \subseteq q.sums

\* What two open transactions have in hand is of different minutes and days.
AggregateA_Apart(p, q) ==
    /\ \A x \in p.new, y \in q.new : x[1] # y[1]
    /\ p.done \cap q.done = {}

AggregateA_RequestsInv ==
    /\ \A r \in AggregateAConfig.Requests : AggregateA_Good(s5[r], s1, s7.accepted)
    /\ \A r, s \in AggregateAConfig.Requests : r # s => AggregateA_Apart(s5[r], s5[s])

\* Rows that are left of a day that was cleaned came late.
AggregateA_RowsInv ==
    /\ s1 \subseteq s7.accepted /\ AggregateA_OnePerMinute(s1)
    /\ \A row \in s7.accepted : AggregateAConfig.Day[row[1]] >= s4 => row \in s1
    /\ \A row \in s1 : AggregateAConfig.Day[row[1]] >= s4 \/ AggregateAConfig.Day[row[1]] \in s7.late

AggregateA_SumsInv ==
    /\ \A d \in AggregateAConfig.Days : s2[d] = AggregateA!OnDay(s2[d], d)
    /\ \A d \in AggregateAConfig.Days \ s7.late :
           s2[d] = AggregateA!OnDay(s7.accepted, d) /\ AggregateA!OnDay(s3, d) = s2[d]

AggregateA_IInv == AggregateA_TypeInv /\ AggregateA_RequestsInv /\ AggregateA_RowsInv /\ AggregateA_SumsInv

LEMMA AggregateA_Sound == AggregateA_IInv => AggregateA!SummarySound
  BY DEF AggregateA_IInv, AggregateA_RowsInv, AggregateA_SumsInv,
         AggregateA_OnePerMinute, AggregateA!SummarySound, AggregateA!SameMinute

LEMMA AggregateA_IdleGood ==
    ASSUME NEW R, NEW A, AggregateA_OnePerMinute(R)
    PROVE  /\ AggregateA!Idle \in AggregateA_Transactions /\ AggregateA_Good(AggregateA!Idle, R, A)
           /\ \A q : AggregateA_Apart(AggregateA!Idle, q) /\ AggregateA_Apart(q, AggregateA!Idle)
  <1>1. /\ AggregateA!Idle.batch = <<>> /\ AggregateA!Idle.new = {} /\ AggregateA!Idle.done = {} /\ AggregateA!Idle.sums = {}
        /\ AggregateA!Idle.phase = "idle" /\ <<>> \in Seq(AggregateA_Snapshots)
    BY DEF AggregateA!Idle
  <1>2. AggregateA!Idle \in AggregateA_Transactions
    BY <1>1 DEF AggregateA!Idle, AggregateA_Transactions
  <1> HIDE DEF AggregateA!Idle
  <1>3. R \cup AggregateA!Idle.new = R
    BY <1>1
  <1> QED
    BY <1>1, <1>2, <1>3 DEF AggregateA_Good, AggregateA_Apart

\* What the steps of a transaction make of its record
AggregateA_Opening(batch) == [AggregateA!Idle EXCEPT !.phase = "open", !.batch = batch]
AggregateA_Inserting(p, rest, new) == [p EXCEPT !.batch = rest, !.new = new]
AggregateA_Recomputing(p, done, sums) == [p EXCEPT !.done = done, !.sums = sums]

LEMMA AggregateA_Opened ==
    ASSUME NEW batch \in Seq(AggregateA_Snapshots), NEW q, q = AggregateA_Opening(batch)
    PROVE  q \in AggregateA_Transactions /\ q.new = {} /\ q.done = {} /\ q.sums = {}
  <1>1. AggregateA!Idle \in AggregateA_Transactions /\ AggregateA!Idle.new = {} /\ AggregateA!Idle.done = {} /\ AggregateA!Idle.sums = {}
    BY DEF AggregateA!Idle, AggregateA_Transactions
  <1> HIDE DEF AggregateA!Idle
  <1> QED
    BY <1>1 DEF AggregateA_Transactions, AggregateA_Opening

LEMMA AggregateA_Inserted ==
    ASSUME NEW p \in AggregateA_Transactions, NEW rest \in Seq(AggregateA_Snapshots),
           NEW new \in SUBSET AggregateA_Snapshots,
           NEW q, q = AggregateA_Inserting(p, rest, new)
    PROVE  q \in AggregateA_Transactions /\ q.new = new /\ q.done = p.done /\ q.sums = p.sums
  BY DEF AggregateA_Transactions, AggregateA_Inserting

LEMMA AggregateA_Recomputed ==
    ASSUME NEW p \in AggregateA_Transactions, NEW done \in SUBSET AggregateAConfig.Days,
           NEW sums \in SUBSET AggregateA_Snapshots,
           NEW q, q = AggregateA_Recomputing(p, done, sums)
    PROVE  /\ q \in AggregateA_Transactions /\ q.batch = p.batch /\ q.new = p.new
           /\ q.done = done /\ q.sums = sums
  BY DEF AggregateA_Transactions, AggregateA_Recomputing

\* The transaction of one request changes, and nothing else that matters here.
LEMMA AggregateA_OtherTransaction ==
    ASSUME AggregateA_IInv, NEW r \in AggregateAConfig.Requests,
           NEW q \in AggregateA_Transactions,
           AggregateA_Good(q, s1, s7.accepted),
           \A s \in AggregateAConfig.Requests \ {r} : AggregateA_Apart(s5[s], q) /\ AggregateA_Apart(q, s5[s]),
           s5' = [s5 EXCEPT ![r] = q],
           UNCHANGED <<s1, s2, s3, s4, s7>>
    PROVE  AggregateA_IInv'
  <1>1. s5 \in [AggregateAConfig.Requests -> AggregateA_Transactions]
    BY DEF AggregateA_IInv, AggregateA_TypeInv
  <1>2. /\ s5' \in [AggregateAConfig.Requests -> AggregateA_Transactions]
        /\ s5'[r] = q /\ \A s \in AggregateAConfig.Requests \ {r} : s5'[s] = s5[s]
    BY <1>1
  <1>3. AggregateA_TypeInv'
    BY <1>2 DEF AggregateA_IInv, AggregateA_TypeInv
  <1>4. AggregateA_RequestsInv'
    <2>1. ASSUME NEW s \in AggregateAConfig.Requests
          PROVE  AggregateA_Good(s5'[s], s1, s7.accepted)
      BY <1>2 DEF AggregateA_IInv, AggregateA_RequestsInv
    <2>2. ASSUME NEW s \in AggregateAConfig.Requests,
                 NEW t \in AggregateAConfig.Requests, s # t
          PROVE  AggregateA_Apart(s5'[s], s5'[t])
      BY <1>2, <2>2 DEF AggregateA_IInv, AggregateA_RequestsInv
    <2> QED
      BY <2>1, <2>2 DEF AggregateA_RequestsInv
  <1>5. AggregateA_RowsInv' /\ AggregateA_SumsInv'
    BY DEF AggregateA_IInv, AggregateA_RowsInv, AggregateA_SumsInv, AggregateA!OnDay
  <1> QED
    BY <1>3, <1>4, <1>5 DEF AggregateA_IInv

LEMMA AggregateA_InitInv == AggregateA!Init => AggregateA_IInv
  <1> SUFFICES ASSUME AggregateA!Init PROVE AggregateA_IInv
    OBVIOUS
  <1>1. /\ s1 = {} /\ s2 = [d \in AggregateAConfig.Days |-> {}] /\ s3 = {} /\ s4 = 0
        /\ s5 = [r \in AggregateAConfig.Requests |-> AggregateA!Idle]
        /\ s7.accepted = {} /\ s7.late = {}
        /\ s7 \in [accepted : SUBSET AggregateA_Snapshots, late : SUBSET AggregateAConfig.Days]
    BY DEF AggregateA!Init
  <1>2. AggregateA_OnePerMinute(s1)
    BY <1>1 DEF AggregateA_OnePerMinute
  <1>3. /\ AggregateA!Idle \in AggregateA_Transactions /\ AggregateA_Good(AggregateA!Idle, s1, s7.accepted)
        /\ \A q : AggregateA_Apart(AggregateA!Idle, q) /\ AggregateA_Apart(q, AggregateA!Idle)
    BY <1>2, AggregateA_IdleGood
  <1>4. AggregateA_TypeInv
    BY <1>1, <1>3 DEF AggregateA_TypeInv
  <1>5. AggregateA_RequestsInv
    BY <1>1, <1>3 DEF AggregateA_RequestsInv
  <1>6. AggregateA_RowsInv /\ AggregateA_SumsInv
    BY <1>1, <1>2 DEF AggregateA_RowsInv, AggregateA_SumsInv, AggregateA!OnDay
  <1> QED
    BY <1>4, <1>5, <1>6 DEF AggregateA_IInv

LEMMA AggregateA_ToIdle ==
    ASSUME AggregateA_IInv, NEW r \in AggregateAConfig.Requests,
           s5' = [s5 EXCEPT ![r] = AggregateA!Idle],
           UNCHANGED <<s1, s2, s3, s4, s7>>
    PROVE  AggregateA_IInv'
  <1>1. AggregateA_OnePerMinute(s1)
    BY DEF AggregateA_IInv, AggregateA_RowsInv
  <1> QED
    BY <1>1, AggregateA_IdleGood, AggregateA_OtherTransaction

LEMMA AggregateA_BeginPreserves ==
    ASSUME AggregateA_IInv, NEW r \in AggregateAConfig.Requests,
           NEW batch \in AggregateAConfig.Batches, AggregateA!Begin(r, batch)
    PROVE  AggregateA_IInv'
  <1> DEFINE q == AggregateA_Opening(batch)
  <1>3. s5' = [s5 EXCEPT ![r] = q]
    BY DEF AggregateA!Begin, AggregateA_Opening
  <1>4. batch \in Seq(AggregateA_Snapshots)
    BY AggregateAAssumption DEF AggregateA_Parameters
  <1>5. q \in AggregateA_Transactions /\ q.new = {} /\ q.done = {} /\ q.sums = {}
    BY <1>4, AggregateA_Opened
  <1> HIDE DEF q
  <1>6. AggregateA_OnePerMinute(s1) /\ s1 \cup q.new = s1
    BY <1>5 DEF AggregateA_IInv, AggregateA_RowsInv
  <1>7. AggregateA_Good(q, s1, s7.accepted)
    BY <1>5, <1>6 DEF AggregateA_Good
  <1>8. \A s \in AggregateAConfig.Requests \ {r} : AggregateA_Apart(s5[s], q) /\ AggregateA_Apart(q, s5[s])
    BY <1>5 DEF AggregateA_Apart
  <1>9. UNCHANGED <<s1, s2, s3, s4, s7>>
    BY DEF AggregateA!Begin
  <1> QED
    BY <1>3, <1>5, <1>7, <1>8, <1>9, AggregateA_OtherTransaction

LEMMA AggregateA_InsertPreserves ==
    ASSUME AggregateA_IInv, NEW r \in AggregateAConfig.Requests, AggregateA!Insert(r)
    PROVE  AggregateA_IInv'
  <1> DEFINE p == s5[r]
             row == Head(p.batch)
             there == AggregateA!SameMinute(s1 \cup p.new, row)
             new == p.new \cup ({row} \ there)
             rest == Tail(p.batch)
             q == AggregateA_Inserting(p, rest, new)
  <1>1. /\ p \in AggregateA_Transactions /\ p.batch # <<>> /\ p.batch \in Seq(AggregateA_Snapshots)
        /\ p.new \subseteq AggregateA_Snapshots /\ p.done \subseteq AggregateAConfig.Days /\ p.sums \subseteq AggregateA_Snapshots
        /\ p.phase \in {"idle", "open"}
        /\ AggregateA_Good(p, s1, s7.accepted)
    BY DEF AggregateA!Insert, AggregateA_IInv, AggregateA_TypeInv,
           AggregateA_RequestsInv, AggregateA_Transactions
  <1>2. row \in AggregateA_Snapshots /\ rest \in Seq(AggregateA_Snapshots)
    BY <1>1
  <1>3. UNCHANGED <<s1, s2, s3, s4, s7>>
    BY DEF AggregateA!Insert
  <1>4. s5' = [s5 EXCEPT ![r] = IF there \subseteq {row} THEN q ELSE AggregateA!Idle]
    BY DEF AggregateA!Insert, AggregateA_Inserting
  <1>5. CASE ~ (there \subseteq {row})
    BY <1>3, <1>4, <1>5, AggregateA_ToIdle
  <1>6. CASE there \subseteq {row}
    <2>3. s5' = [s5 EXCEPT ![r] = q]
      BY <1>4, <1>6
    <2>4. \A s \in AggregateAConfig.Requests \ {r} : AggregateA!SameMinute(s5[s].new, row) = {}
      BY DEF AggregateA!Insert
    <2>5. \A s \in AggregateAConfig.Requests \ {r} : AggregateA_Apart(s5[s], p) /\ AggregateA_Apart(p, s5[s])
      BY DEF AggregateA_IInv, AggregateA_RequestsInv
    <2>6. new \in SUBSET AggregateA_Snapshots
      BY <1>1, <1>2
    <2>7. /\ q \in AggregateA_Transactions /\ q.done = p.done /\ q.sums = p.sums
          /\ q.new = p.new \cup ({row} \ there) /\ p.done = {}
      <3>1. p.done = {}
        BY <1>1 DEF AggregateA_Good
      <3>2. q.new = new /\ q \in AggregateA_Transactions /\ q.done = p.done /\ q.sums = p.sums
        <4> HIDE DEF p, row, there, new, rest
        <4> QED
          BY <1>1, <1>2, <2>6, AggregateA_Inserted
      <3> QED
        BY <3>1, <3>2
    <2> HIDE DEF q
    <2>8. AggregateA_OnePerMinute(s1 \cup q.new)
      BY <1>1, <1>6, <2>7
         DEF AggregateA_Good, AggregateA_OnePerMinute, AggregateA!SameMinute
    <2>9. AggregateA_Good(q, s1, s7.accepted)
      BY <1>1, <2>7, <2>8 DEF AggregateA_Good
    <2>10. \A s \in AggregateAConfig.Requests \ {r} : AggregateA_Apart(s5[s], q) /\ AggregateA_Apart(q, s5[s])
      BY <2>4, <2>5, <2>7 DEF AggregateA_Apart, AggregateA!SameMinute
    <2> QED
      BY <1>3, <2>3, <2>7, <2>9, <2>10, AggregateA_OtherTransaction
  <1> QED
    BY <1>5, <1>6

LEMMA AggregateA_RecomputePreserves ==
    ASSUME AggregateA_IInv, NEW r \in AggregateAConfig.Requests,
           NEW d \in AggregateAConfig.Days, AggregateA!RecomputeDailyTx(r, d)
    PROVE  AggregateA_IInv'
  <1> DEFINE p == s5[r]
             read == AggregateA!OnDay(s1 \cup p.new, d)
             done == p.done \cup {d}
             sums == p.sums \cup read
             q == AggregateA_Recomputing(p, done, sums)
  <1>1. /\ p \in AggregateA_Transactions /\ p.batch = <<>>
        /\ p.new \subseteq AggregateA_Snapshots /\ p.done \subseteq AggregateAConfig.Days /\ p.sums \subseteq AggregateA_Snapshots
        /\ s1 \subseteq AggregateA_Snapshots /\ s1 \subseteq s7.accepted
        /\ AggregateA_Good(p, s1, s7.accepted)
    BY DEF AggregateA!RecomputeDailyTx, AggregateA_IInv, AggregateA_TypeInv,
           AggregateA_RequestsInv, AggregateA_RowsInv, AggregateA_Transactions
  <1>2. /\ s5' = [s5 EXCEPT ![r] = q]
        /\ UNCHANGED <<s1, s2, s3, s4, s7>>
    BY DEF AggregateA!RecomputeDailyTx, AggregateA_Recomputing
  <1>3. done \in SUBSET AggregateAConfig.Days /\ sums \in SUBSET AggregateA_Snapshots
    BY <1>1 DEF AggregateA!OnDay
  <1>4. /\ q \in AggregateA_Transactions /\ q.batch = <<>> /\ q.new = p.new /\ q.done = p.done \cup {d}
        /\ q.sums = p.sums \cup read
    <2> HIDE DEF done, sums
    <2>1. /\ q \in AggregateA_Transactions /\ q.batch = p.batch /\ q.new = p.new
          /\ q.done = done /\ q.sums = sums
      BY <1>1, <1>3, AggregateA_Recomputed
    <2> QED
      BY <1>1, <2>1 DEF done, sums
  <1> HIDE DEF q
  <1>5. \A s \in AggregateAConfig.Requests : d \notin s5[s].done
    BY DEF AggregateA!RecomputeDailyTx, AggregateA!LockFree
  <1>6. \A s \in AggregateAConfig.Requests \ {r} : AggregateA_Apart(s5[s], p) /\ AggregateA_Apart(p, s5[s])
    BY DEF AggregateA_IInv, AggregateA_RequestsInv
  <1>7. AggregateA_Good(q, s1, s7.accepted)
    BY <1>1, <1>4 DEF AggregateA_Good, AggregateA!OnDay
  <1>8. \A s \in AggregateAConfig.Requests \ {r} : AggregateA_Apart(s5[s], q) /\ AggregateA_Apart(q, s5[s])
    BY <1>4, <1>5, <1>6 DEF AggregateA_Apart
  <1> QED
    BY <1>2, <1>4, <1>7, <1>8, AggregateA_OtherTransaction

LEMMA AggregateA_CommitPreserves ==
    ASSUME AggregateA_IInv, NEW r \in AggregateAConfig.Requests, AggregateA!Commit(r)
    PROVE  AggregateA_IInv'
  <1> DEFINE p == s5[r]
  <1>1. /\ p \in AggregateA_Transactions /\ p.new \subseteq AggregateA_Snapshots /\ p.done \subseteq AggregateAConfig.Days
        /\ p.sums \subseteq AggregateA_Snapshots /\ AggregateA_Good(p, s1, s7.accepted)
        /\ p.done = AggregateA!Affected(r)
        /\ s4 \in Nat /\ AggregateAConfig.Days \subseteq Nat
        /\ s7.accepted \subseteq AggregateA_Snapshots /\ s7.late \subseteq AggregateAConfig.Days
        /\ s1 \subseteq AggregateA_Snapshots /\ s5 \in [AggregateAConfig.Requests -> AggregateA_Transactions]
    BY AggregateAAssumption
       DEF AggregateA_Parameters, AggregateA!Commit, AggregateA_IInv, AggregateA_TypeInv,
           AggregateA_RequestsInv, AggregateA_Transactions
  <1>2. /\ s1' = s1 \cup p.new /\ s7'.accepted = s7.accepted \cup p.new
        /\ s7'.late = s7.late \cup {d \in p.done : d < s4}
        /\ s7' \in [accepted : SUBSET AggregateA_Snapshots, late : SUBSET AggregateAConfig.Days]
        /\ s4' = s4
    BY <1>1 DEF AggregateA!Commit
  <1>3. /\ s2' = [d \in AggregateAConfig.Days |-> IF d \in p.done THEN AggregateA!OnDay(p.sums, d) ELSE s2[d]]
        /\ s3' = IF p.done = {} THEN s3 ELSE AggregateA!Week(s2')
        /\ s5' = [s5 EXCEPT ![r] = AggregateA!Idle]
    BY DEF AggregateA!Commit
  <1>4. \A row \in p.new : AggregateAConfig.Day[row[1]] \in p.done /\ AggregateAConfig.Day[row[1]] \in Nat
    BY <1>1 DEF AggregateA!Affected
  <1>5. \A s \in AggregateAConfig.Requests \ {r} : AggregateA_Apart(s5[s], p) /\ AggregateA_Good(s5[s], s1, s7.accepted)
    BY DEF AggregateA_IInv, AggregateA_RequestsInv
  <1>6. /\ s1 \subseteq s7.accepted /\ AggregateA_OnePerMinute(s1)
        /\ \A row \in s7.accepted : AggregateAConfig.Day[row[1]] >= s4 => row \in s1
        /\ \A row \in s1 : AggregateAConfig.Day[row[1]] >= s4 \/ AggregateAConfig.Day[row[1]] \in s7.late
    BY DEF AggregateA_IInv, AggregateA_RowsInv
  <1>7. /\ s2 \in [AggregateAConfig.Days -> SUBSET AggregateA_Snapshots]
        /\ \A d \in AggregateAConfig.Days : s2[d] = AggregateA!OnDay(s2[d], d)
        /\ \A d \in AggregateAConfig.Days \ s7.late :
               s2[d] = AggregateA!OnDay(s7.accepted, d) /\ AggregateA!OnDay(s3, d) = s2[d]
    BY DEF AggregateA_IInv, AggregateA_SumsInv, AggregateA_TypeInv
  <1> HIDE DEF p
  <1>8. AggregateA_OnePerMinute(s1')
    BY <1>1, <1>2 DEF AggregateA_Good
  <1>9. /\ s5' \in [AggregateAConfig.Requests -> AggregateA_Transactions] /\ s5'[r] = AggregateA!Idle
        /\ \A s \in AggregateAConfig.Requests \ {r} : s5'[s] = s5[s]
        /\ AggregateA_Good(AggregateA!Idle, s1', s7'.accepted)
        /\ \A q : AggregateA_Apart(AggregateA!Idle, q) /\ AggregateA_Apart(q, AggregateA!Idle)
    BY <1>1, <1>3, <1>8, AggregateA_IdleGood
  <1>10. AggregateA_TypeInv'
    <2>1. s2' \in [AggregateAConfig.Days -> SUBSET AggregateA_Snapshots]
      BY <1>1, <1>3, <1>7 DEF AggregateA!OnDay
    <2> QED
      BY <1>1, <1>2, <1>9, <2>1 DEF AggregateA_TypeInv
  <1>11. AggregateA_RequestsInv'
    <2>1. ASSUME NEW s \in AggregateAConfig.Requests \ {r}
          PROVE  AggregateA_Good(s5[s], s1', s7'.accepted)
      <3>1. AggregateA_OnePerMinute(s1' \cup s5[s].new)
        <4>1. \A x, y \in s1 \cup s5[s].new : x[1] = y[1] => x = y
          BY <1>5 DEF AggregateA_Good, AggregateA_OnePerMinute
        <4>2. \A x, y \in s1 \cup p.new : x[1] = y[1] => x = y
          BY <1>2, <1>8 DEF AggregateA_OnePerMinute
        <4>3. \A x \in s5[s].new, y \in p.new : x[1] # y[1]
          BY <1>5 DEF AggregateA_Apart
        <4>4. s1' \cup s5[s].new = s1 \cup p.new \cup s5[s].new
          BY <1>2
        <4> QED
          BY <4>1, <4>2, <4>3, <4>4 DEF AggregateA_OnePerMinute
      <3>2. \A d \in s5[s].done : AggregateA!OnDay(s1' \cup s5[s].new, d) \subseteq s5[s].sums
        <4>1. s5[s].done \cap p.done = {}
          BY <1>5 DEF AggregateA_Apart
        <4>2. \A d \in s5[s].done : AggregateA!OnDay(s1 \cup s5[s].new, d) \subseteq s5[s].sums
          BY <1>5 DEF AggregateA_Good
        <4>3. ASSUME NEW d \in s5[s].done
              PROVE  AggregateA!OnDay(s1' \cup s5[s].new, d) = AggregateA!OnDay(s1 \cup s5[s].new, d)
          BY <1>2, <1>4, <4>1 DEF AggregateA!OnDay
        <4> QED
          BY <4>2, <4>3
      <3> QED
        BY <1>2, <1>5, <3>1, <3>2 DEF AggregateA_Good
    <2>2. ASSUME NEW s \in AggregateAConfig.Requests,
                 NEW t \in AggregateAConfig.Requests, s # t
          PROVE  AggregateA_Apart(s5'[s], s5'[t])
      BY <1>9, <2>2 DEF AggregateA_IInv, AggregateA_RequestsInv
    <2> QED
      BY <1>9, <2>1, <2>2 DEF AggregateA_RequestsInv
  <1>12. AggregateA_RowsInv'
    BY <1>1, <1>2, <1>4, <1>6, <1>8 DEF AggregateA_RowsInv
  <1>13. AggregateA_SumsInv'
    <2>1. ASSUME NEW d \in AggregateAConfig.Days
          PROVE  s2'[d] = AggregateA!OnDay(s2'[d], d)
      BY <1>3, <1>7 DEF AggregateA!OnDay
    <2>2. ASSUME NEW d \in AggregateAConfig.Days \ s7'.late
          PROVE  s2'[d] = AggregateA!OnDay(s7'.accepted, d)
      <3>1. d \notin s7.late
        BY <1>2
      <3>2. CASE d \in p.done
        <4>1. d >= s4
          <5>1. d \in Nat /\ s4 \in Nat /\ ~ (d < s4)
            BY <1>1, <1>2, <3>2
          <5> QED
            BY <5>1
        <4>2. AggregateA!OnDay(s7.accepted, d) \subseteq AggregateA!OnDay(s1, d)
          BY <1>6, <4>1 DEF AggregateA!OnDay
        <4>3. AggregateA!OnDay(p.sums, d) = AggregateA!OnDay(s7.accepted \cup p.new, d)
          BY <1>1, <1>6, <3>2, <4>2 DEF AggregateA_Good, AggregateA!OnDay
        <4> QED
          BY <1>2, <1>3, <3>2, <4>3
      <3>3. CASE d \notin p.done
        <4>1. AggregateA!OnDay(s7'.accepted, d) = AggregateA!OnDay(s7.accepted, d)
          BY <1>2, <1>4, <3>3 DEF AggregateA!OnDay
        <4> QED
          BY <1>3, <1>7, <3>1, <3>3, <4>1
      <3> QED
        BY <3>2, <3>3
    <2>3. ASSUME NEW d \in AggregateAConfig.Days \ s7'.late
          PROVE  AggregateA!OnDay(s3', d) = s2'[d]
      <3>1. CASE p.done = {}
        BY <1>2, <1>3, <1>7, <3>1
      <3>2. CASE p.done # {}
        <4>1. s3' = AggregateA!Week(s2')
          BY <1>3, <3>2
        <4> QED
          BY <2>1, <4>1 DEF AggregateA!Week, AggregateA!OnDay
      <3> QED
        BY <3>1, <3>2
    <2> QED
      BY <2>1, <2>2, <2>3 DEF AggregateA_SumsInv
  <1> QED
    BY <1>10, <1>11, <1>12, <1>13 DEF AggregateA_IInv

\* A day that still has rows and got none late is counted from all of them.
LEMMA AggregateA_RebuildDayPreserves ==
    ASSUME AggregateA_IInv, NEW d \in AggregateAConfig.Days, AggregateA!RebuildDay(d)
    PROVE  AggregateA_IInv'
  <1> DEFINE rows == AggregateA!OnDay(s1, d)
  <1>1. /\ s2' = [s2 EXCEPT ![d] = IF rows = {} THEN s2[d] ELSE rows]
        /\ UNCHANGED <<s1, s3, s4, s5, s7>>
    BY DEF AggregateA!RebuildDay
  <1>2. /\ s2 \in [AggregateAConfig.Days -> SUBSET AggregateA_Snapshots] /\ s1 \subseteq AggregateA_Snapshots
        /\ \A row \in AggregateA_Snapshots : AggregateAConfig.Day[row[1]] \in Nat /\ s4 \in Nat
    BY AggregateAAssumption DEF AggregateA_Parameters, AggregateA_IInv, AggregateA_TypeInv
  <1>3. /\ s2' \in [AggregateAConfig.Days -> SUBSET AggregateA_Snapshots]
        /\ s2'[d] = IF rows = {} THEN s2[d] ELSE rows
        /\ \A e \in AggregateAConfig.Days \ {d} : s2'[e] = s2[e]
    BY <1>1, <1>2 DEF AggregateA!OnDay
  <1>4. rows = AggregateA!OnDay(rows, d)
    BY DEF AggregateA!OnDay
  <1>5. d \notin s7.late /\ rows # {} => rows = s2[d]
    <2> SUFFICES ASSUME d \notin s7.late, rows # {} PROVE rows = s2[d]
      OBVIOUS
    <2>1. d \in Nat /\ s4 \in Nat /\ d >= s4
      BY <1>2 DEF AggregateA_IInv, AggregateA_RowsInv, AggregateA!OnDay
    <2>2. rows = AggregateA!OnDay(s7.accepted, d)
      BY <2>1 DEF AggregateA_IInv, AggregateA_RowsInv, AggregateA!OnDay
    <2> QED
      BY <2>2 DEF AggregateA_IInv, AggregateA_SumsInv
  <1>6. AggregateA_TypeInv' /\ AggregateA_RequestsInv' /\ AggregateA_RowsInv'
    BY <1>1, <1>3
       DEF AggregateA_IInv, AggregateA_TypeInv, AggregateA_RequestsInv,
           AggregateA_RowsInv
  <1> HIDE DEF rows
  <1>7. AggregateA_SumsInv'
    <2>1. ASSUME NEW e \in AggregateAConfig.Days
          PROVE  s2'[e] = AggregateA!OnDay(s2'[e], e)
      BY <1>3, <1>4 DEF AggregateA_IInv, AggregateA_SumsInv
    <2>2. ASSUME NEW e \in AggregateAConfig.Days \ s7.late
          PROVE  s2'[e] = s2[e]
      BY <1>3, <1>5
    <2> QED
      BY <1>1, <2>1, <2>2 DEF AggregateA_IInv, AggregateA_SumsInv, AggregateA!OnDay
  <1> QED
    BY <1>6, <1>7 DEF AggregateA_IInv

LEMMA AggregateA_RebuildWeekPreserves ==
    ASSUME AggregateA_IInv, AggregateA!RebuildWeek
    PROVE  AggregateA_IInv'
  <1>1. /\ s3' = s3 \/ s3' = AggregateA!Week(s2)
        /\ UNCHANGED <<s1, s2, s4, s5, s7>>
    BY DEF AggregateA!RebuildWeek
  <1>2. AggregateA_TypeInv' /\ AggregateA_RequestsInv' /\ AggregateA_RowsInv'
    BY <1>1
       DEF AggregateA_IInv, AggregateA_TypeInv, AggregateA_RequestsInv,
           AggregateA_RowsInv
  <1>3. ASSUME NEW d \in AggregateAConfig.Days
        PROVE  s2[d] = AggregateA!OnDay(s2[d], d) /\ AggregateA!OnDay(AggregateA!Week(s2), d) = s2[d]
    BY DEF AggregateA_IInv, AggregateA_SumsInv, AggregateA!Week, AggregateA!OnDay
  <1>4. AggregateA_SumsInv'
    <2>1. ASSUME NEW d \in AggregateAConfig.Days \ s7.late
          PROVE  AggregateA!OnDay(s3', d) = s2[d]
      BY <1>1, <1>3 DEF AggregateA_IInv, AggregateA_SumsInv
    <2> QED
      BY <1>1, <1>3, <2>1 DEF AggregateA_IInv, AggregateA_SumsInv
  <1> QED
    BY <1>2, <1>4 DEF AggregateA_IInv

LEMMA AggregateA_CleanupPreserves ==
    ASSUME AggregateA_IInv, NEW before \in AggregateAConfig.Days,
           AggregateA!Cleanup(before)
    PROVE  AggregateA_IInv'
  <1>1. /\ s1' = {row \in s1 : AggregateAConfig.Day[row[1]] >= before}
        /\ s4' = IF before > s4 THEN before ELSE s4
        /\ UNCHANGED <<s2, s3, s5, s7>>
    BY DEF AggregateA!Cleanup
  <1>2. /\ before \in Nat /\ s4 \in Nat /\ s1 \subseteq AggregateA_Snapshots
        /\ s7.accepted \subseteq AggregateA_Snapshots
        /\ \A row \in AggregateA_Snapshots : AggregateAConfig.Day[row[1]] \in Nat
    BY AggregateAAssumption DEF AggregateA_Parameters, AggregateA_IInv, AggregateA_TypeInv
  <1>3. s4' \in Nat /\ s4' >= s4 /\ s4' >= before /\ s1' \subseteq s1
    BY <1>1, <1>2
  <1>4. AggregateA_TypeInv'
    BY <1>1, <1>3 DEF AggregateA_IInv, AggregateA_TypeInv
  <1>5. AggregateA_RequestsInv'
    <2>1. ASSUME NEW q, AggregateA_Good(q, s1, s7.accepted)
          PROVE  AggregateA_Good(q, s1', s7.accepted)
      BY <1>3, <2>1 DEF AggregateA_Good, AggregateA_OnePerMinute, AggregateA!OnDay
    <2> QED
      BY <1>1, <2>1 DEF AggregateA_IInv, AggregateA_RequestsInv
  <1>6. AggregateA_RowsInv'
    <2>1. s1' \subseteq s7.accepted /\ AggregateA_OnePerMinute(s1')
      BY <1>3 DEF AggregateA_IInv, AggregateA_RowsInv, AggregateA_OnePerMinute
    <2>2. ASSUME NEW row \in s7.accepted, AggregateAConfig.Day[row[1]] >= s4'
          PROVE  row \in s1'
      <3>1. AggregateAConfig.Day[row[1]] \in Nat
        BY <1>2
      <3>2. AggregateAConfig.Day[row[1]] >= s4 /\ AggregateAConfig.Day[row[1]] >= before
        BY <1>2, <1>3, <2>2, <3>1
      <3> QED
        BY <1>1, <3>2 DEF AggregateA_IInv, AggregateA_RowsInv
    <2>3. ASSUME NEW row \in s1'
          PROVE  AggregateAConfig.Day[row[1]] >= s4' \/ AggregateAConfig.Day[row[1]] \in s7.late
      <3>1. row \in s1 /\ AggregateAConfig.Day[row[1]] >= before /\ AggregateAConfig.Day[row[1]] \in Nat
        BY <1>1, <1>2
      <3>2. AggregateAConfig.Day[row[1]] >= s4 \/ AggregateAConfig.Day[row[1]] \in s7.late
        BY <3>1 DEF AggregateA_IInv, AggregateA_RowsInv
      <3> QED
        BY <1>1, <1>2, <3>1, <3>2
    <2> QED
      BY <1>1, <2>1, <2>2, <2>3 DEF AggregateA_RowsInv
  <1>7. AggregateA_SumsInv'
    BY <1>1 DEF AggregateA_IInv, AggregateA_SumsInv, AggregateA!OnDay
  <1> QED
    BY <1>4, <1>5, <1>6, <1>7 DEF AggregateA_IInv

LEMMA AggregateA_NextPreserves == AggregateA_IInv /\ [AggregateA!Next]_(AggregateA!vars) => AggregateA_IInv'
  <1> SUFFICES ASSUME AggregateA_IInv, [AggregateA!Next]_(AggregateA!vars) PROVE AggregateA_IInv'
    OBVIOUS
  <1>1. ASSUME UNCHANGED <<s1, s2, s3, s4, s5, s7>>
        PROVE  AggregateA_IInv'
    BY <1>1
       DEF AggregateA_IInv, AggregateA_TypeInv, AggregateA_RequestsInv,
           AggregateA_RowsInv, AggregateA_SumsInv, AggregateA!OnDay
  <1>2. CASE UNCHANGED AggregateA!vars
    BY <1>1, <1>2 DEF AggregateA!vars
  <1>3. CASE \E r \in AggregateAConfig.Requests, batch \in AggregateAConfig.Batches : AggregateA!Begin(r, batch)
    BY <1>3, AggregateA_BeginPreserves
  <1>4. CASE \E r \in AggregateAConfig.Requests : AggregateA!Insert(r)
    BY <1>4, AggregateA_InsertPreserves
  <1>5. CASE \E r \in AggregateAConfig.Requests : AggregateA!Commit(r)
    BY <1>5, AggregateA_CommitPreserves
  <1>6. CASE \E r \in AggregateAConfig.Requests : AggregateA!Abort(r)
    BY <1>6, AggregateA_ToIdle DEF AggregateA!Abort
  <1>7. CASE \E r \in AggregateAConfig.Requests, d \in AggregateAConfig.Days : AggregateA!RecomputeDailyTx(r, d)
    BY <1>7, AggregateA_RecomputePreserves
  <1>8. CASE \E from \in AggregateAConfig.Days, to \in AggregateAConfig.Days : from <= to /\ AggregateA!Rebuild(from, to)
    BY <1>1, <1>8 DEF AggregateA!Rebuild
  <1>9. CASE \E d \in AggregateAConfig.Days : AggregateA!RebuildDay(d)
    BY <1>9, AggregateA_RebuildDayPreserves
  <1>10. CASE \E d \in AggregateAConfig.Days : AggregateA!Cleanup(d)
    BY <1>10, AggregateA_CleanupPreserves
  <1>11. CASE AggregateA!RebuildWeek
    BY <1>11, AggregateA_RebuildWeekPreserves
  <1>12. CASE AggregateA!AbortRebuild
    BY <1>1, <1>12 DEF AggregateA!AbortRebuild
  <1> QED
    BY <1>2, <1>3, <1>4, <1>5, <1>6, <1>7, <1>8, <1>9, <1>10, <1>11, <1>12
       DEF AggregateA!Next

-----------------------------------------------------------------------------
(* Summaries (text5): text5/b *)

\* What agents send: snapshots of minutes that have a day, which is not 0, the
\* number of the week among what a transaction has written
AggregateB_Snapshots == UNION {{batch[i] : i \in DOMAIN batch} : batch \in AggregateBConfig.Batches}
AggregateB_Parameters ==
    /\ AggregateBConfig.Days \subseteq Nat \ {0} /\ DOMAIN AggregateBConfig.Day \subseteq Nat
    /\ AggregateBConfig.Batches \subseteq Seq(AggregateB_Snapshots)
    /\ \A row \in AggregateB_Snapshots : row[1] \in DOMAIN AggregateBConfig.Day /\ AggregateBConfig.Day[row[1]] \in AggregateBConfig.Days
ASSUME AggregateBAssumption == AggregateB_Parameters

AggregateB_Written == AggregateBConfig.Days \cup {0}
AggregateB_Phases == {"idle", "insert", "days", "write", "week", "upsert"}
AggregateB_Transactions ==
    [phase : AggregateB_Phases, batch : Seq(AggregateB_Snapshots), new : SUBSET AggregateB_Snapshots, days : SUBSET Nat,
     day : Nat, read : SUBSET AggregateB_Snapshots, written : SUBSET AggregateB_Written,
     sums : SUBSET AggregateB_Snapshots, week : SUBSET AggregateB_Snapshots, stale : SUBSET AggregateB_Written]

AggregateB_TypeInv ==
    /\ s1 \in SUBSET AggregateB_Snapshots
    /\ s2 \in [AggregateBConfig.Days -> SUBSET AggregateB_Snapshots]
    /\ s3 \in SUBSET AggregateB_Snapshots
    /\ s4 \in Nat
    /\ s5 \in [AggregateBConfig.Requests -> AggregateB_Transactions]
    /\ s6 \in [accepted : SUBSET AggregateB_Snapshots, stale : SUBSET AggregateB_Written]

AggregateB_OnePerMinute(rows) == \A x, y \in rows : x[1] = y[1] => x = y
AggregateB_DaysOf(rows) == {AggregateBConfig.Day[row[1]] : row \in rows}
\* The daily summaries D as transaction q sees them
AggregateB_SeenBy(q, D) ==
    UNION {IF d \in q.written THEN AggregateB!OnDay(q.sums, d) ELSE D[d] : d \in AggregateBConfig.Days}

\* A transaction over the rows R when the snapshots A were accepted: it has read
\* or will read every day that it adds to, has written no day before its last
\* insert, and a day that is not marked stale was written from all its rows.
AggregateB_Good(q, R, A) ==
    /\ q.batch # <<>> => q.phase = "insert"
    /\ AggregateB_OnePerMinute(R \cup q.new)
    /\ q.phase # "insert" =>
           AggregateB_DaysOf(q.new) \subseteq q.written \cup q.days \cup
                                   (IF q.phase = "write" THEN {q.day} ELSE {})
    /\ q.phase = "insert" => q.written = {}
    /\ q.phase = "write" => q.day \in AggregateBConfig.Days
    /\ q.read \cup q.sums \subseteq A \cup q.new
    /\ \A d \in AggregateBConfig.Days \cap q.written : d \in q.stale \/ AggregateB!OnDay(A \cup q.new, d) \subseteq q.sums

\* Whoever has written a day and may commit has written the week; it is marked
\* stale unless it was made of the daily summaries D.
AggregateB_WeekGood(q, D) ==
    q.phase = "days" =>
        /\ q.written = {} \/ 0 \in q.written
        /\ 0 \in q.written => 0 \in q.stale \/ q.week = AggregateB_SeenBy(q, D)

\* What two open transactions have in hand is of different minutes and summaries.
AggregateB_Apart(p, q) ==
    /\ \A x \in p.new, y \in q.new : x[1] # y[1]
    /\ p.written \cap q.written = {}

AggregateB_RequestsInv ==
    /\ \A r \in AggregateBConfig.Requests : AggregateB_Good(s5[r], s1, s6.accepted)
    /\ \A r \in AggregateBConfig.Requests : AggregateB_WeekGood(s5[r], s2)
    /\ \A r, s \in AggregateBConfig.Requests : r # s => AggregateB_Apart(s5[r], s5[s])

AggregateB_RowsInv ==
    /\ s1 \subseteq s6.accepted /\ AggregateB_OnePerMinute(s1)
    /\ \A row \in s6.accepted : row[1] >= s4 => row \in s1
    /\ \A d \in AggregateBConfig.Days : s2[d] \subseteq s6.accepted

AggregateB_SumsInv ==
    /\ \A d \in AggregateBConfig.Days \ s6.stale : s2[d] = AggregateB!OnDay(s6.accepted, d)
    /\ 0 \notin s6.stale => s3 = UNION {s2[d] : d \in AggregateBConfig.Days}

AggregateB_IInv == AggregateB_TypeInv /\ AggregateB_RequestsInv /\ AggregateB_RowsInv /\ AggregateB_SumsInv

LEMMA AggregateB_Sound == AggregateB_IInv => AggregateB!SummarySound
  BY DEF AggregateB_IInv, AggregateB_RowsInv, AggregateB_SumsInv,
         AggregateB_OnePerMinute, AggregateB!SummarySound, AggregateB!SameMinute

LEMMA AggregateB_Fields ==
    ASSUME NEW q \in AggregateB_Transactions
    PROVE  /\ q.phase \in AggregateB_Phases /\ q.batch \in Seq(AggregateB_Snapshots) /\ q.new \in SUBSET AggregateB_Snapshots
           /\ q.days \in SUBSET Nat /\ q.day \in Nat /\ q.read \in SUBSET AggregateB_Snapshots
           /\ q.written \in SUBSET AggregateB_Written /\ q.sums \in SUBSET AggregateB_Snapshots
           /\ q.week \in SUBSET AggregateB_Snapshots /\ q.stale \in SUBSET AggregateB_Written
  BY DEF AggregateB_Transactions

\* What the steps of a transaction make of its record
AggregateB_Opening(batch) == [AggregateB!Idle EXCEPT !.phase = "insert", !.batch = batch]
AggregateB_Rebuilding(days) == [AggregateB!Idle EXCEPT !.phase = "days", !.days = days]
AggregateB_Inserting(p, rest, new, phase, days) ==
    [p EXCEPT !.batch = rest, !.new = new, !.phase = phase, !.days = days]
AggregateB_Reading(p, d, days, read) ==
    [p EXCEPT !.phase = "write", !.day = d, !.days = days, !.read = read]
AggregateB_Writing(p, written, sums, stale) ==
    [p EXCEPT !.phase = "week", !.written = written, !.sums = sums, !.read = {},
              !.stale = stale]
AggregateB_ReadingWeek(p, read) == [p EXCEPT !.phase = "upsert", !.read = read]
AggregateB_WritingWeek(p, written, stale) ==
    [p EXCEPT !.phase = "days", !.day = 0, !.written = written, !.read = {},
              !.stale = stale, !.week = p.read]

LEMMA AggregateB_IdleFields ==
    /\ AggregateB!Idle \in AggregateB_Transactions /\ AggregateB!Idle.phase = "idle" /\ AggregateB!Idle.batch = <<>>
    /\ AggregateB!Idle.new = {} /\ AggregateB!Idle.days = {} /\ AggregateB!Idle.read = {} /\ AggregateB!Idle.written = {}
    /\ AggregateB!Idle.sums = {}
  BY DEF AggregateB!Idle, AggregateB_Transactions, AggregateB_Phases, AggregateB_Written

LEMMA AggregateB_Opened ==
    ASSUME NEW batch \in Seq(AggregateB_Snapshots), NEW q, q = AggregateB_Opening(batch)
    PROVE  /\ q \in AggregateB_Transactions /\ q.phase = "insert" /\ q.new = {} /\ q.read = {}
           /\ q.written = {} /\ q.sums = {}
  <1> HIDE DEF AggregateB!Idle
  <1> QED
    BY AggregateB_IdleFields
       DEF AggregateB_Transactions, AggregateB_Opening, AggregateB_Phases

LEMMA AggregateB_Rebuilds ==
    ASSUME NEW days \in SUBSET Nat, NEW q, q = AggregateB_Rebuilding(days)
    PROVE  /\ q \in AggregateB_Transactions /\ q.phase = "days" /\ q.new = {} /\ q.read = {}
           /\ q.written = {} /\ q.sums = {} /\ q.batch = <<>>
  <1> HIDE DEF AggregateB!Idle
  <1> QED
    BY AggregateB_IdleFields
       DEF AggregateB_Transactions, AggregateB_Rebuilding, AggregateB_Phases

LEMMA AggregateB_Inserted ==
    ASSUME NEW p \in AggregateB_Transactions, NEW rest \in Seq(AggregateB_Snapshots),
           NEW new \in SUBSET AggregateB_Snapshots,
           NEW phase \in AggregateB_Phases, NEW days \in SUBSET Nat,
           NEW q, q = AggregateB_Inserting(p, rest, new, phase, days)
    PROVE  /\ q \in AggregateB_Transactions /\ q.batch = rest /\ q.new = new /\ q.phase = phase
           /\ q.days = days /\ q.written = p.written /\ q.sums = p.sums /\ q.read = p.read
  BY DEF AggregateB_Transactions, AggregateB_Inserting

LEMMA AggregateB_ReadsDay ==
    ASSUME NEW p \in AggregateB_Transactions, NEW d \in Nat, NEW days \in SUBSET Nat,
           NEW read \in SUBSET AggregateB_Snapshots, NEW q, q = AggregateB_Reading(p, d, days, read)
    PROVE  /\ q \in AggregateB_Transactions /\ q.phase = "write" /\ q.day = d /\ q.days = days
           /\ q.read = read /\ q.new = p.new /\ q.batch = p.batch /\ q.written = p.written
           /\ q.sums = p.sums /\ q.stale = p.stale
  BY DEF AggregateB_Transactions, AggregateB_Reading, AggregateB_Phases

LEMMA AggregateB_WritesDay ==
    ASSUME NEW p \in AggregateB_Transactions, NEW written \in SUBSET AggregateB_Written,
           NEW sums \in SUBSET AggregateB_Snapshots,
           NEW stale \in SUBSET AggregateB_Written,
           NEW q, q = AggregateB_Writing(p, written, sums, stale)
    PROVE  /\ q \in AggregateB_Transactions /\ q.phase = "week" /\ q.written = written /\ q.sums = sums
           /\ q.read = {} /\ q.stale = stale /\ q.new = p.new /\ q.batch = p.batch
           /\ q.days = p.days
  BY DEF AggregateB_Transactions, AggregateB_Writing, AggregateB_Phases

LEMMA AggregateB_ReadsWeek ==
    ASSUME NEW p \in AggregateB_Transactions, NEW read \in SUBSET AggregateB_Snapshots,
           NEW q, q = AggregateB_ReadingWeek(p, read)
    PROVE  /\ q \in AggregateB_Transactions /\ q.phase = "upsert" /\ q.read = read /\ q.new = p.new
           /\ q.batch = p.batch /\ q.written = p.written /\ q.sums = p.sums
           /\ q.stale = p.stale /\ q.days = p.days
  BY DEF AggregateB_Transactions, AggregateB_ReadingWeek, AggregateB_Phases

LEMMA AggregateB_WritesWeek ==
    ASSUME NEW p \in AggregateB_Transactions, NEW written \in SUBSET AggregateB_Written,
           NEW stale \in SUBSET AggregateB_Written,
           NEW q, q = AggregateB_WritingWeek(p, written, stale)
    PROVE  /\ q \in AggregateB_Transactions /\ q.phase = "days" /\ q.written = written /\ q.read = {}
           /\ q.stale = stale /\ q.week = p.read /\ q.new = p.new /\ q.batch = p.batch
           /\ q.sums = p.sums /\ q.days = p.days
  BY DEF AggregateB_Transactions, AggregateB_WritingWeek, AggregateB_Phases

LEMMA AggregateB_IdleGood ==
    ASSUME NEW R, NEW A, NEW D, AggregateB_OnePerMinute(R)
    PROVE  /\ AggregateB!Idle \in AggregateB_Transactions /\ AggregateB_Good(AggregateB!Idle, R, A) /\ AggregateB_WeekGood(AggregateB!Idle, D)
           /\ \A q : AggregateB_Apart(AggregateB!Idle, q) /\ AggregateB_Apart(q, AggregateB!Idle)
  <1> HIDE DEF AggregateB!Idle
  <1>1. R \cup AggregateB!Idle.new = R /\ AggregateB_DaysOf(AggregateB!Idle.new) = {}
    BY AggregateB_IdleFields DEF AggregateB_DaysOf
  <1> QED
    BY <1>1, AggregateB_IdleFields
       DEF AggregateB_Good, AggregateB_WeekGood, AggregateB_Apart

\* The transaction of one request changes, and nothing else that matters here.
LEMMA AggregateB_OtherTransaction ==
    ASSUME AggregateB_IInv, NEW r \in AggregateBConfig.Requests,
           NEW q \in AggregateB_Transactions,
           AggregateB_Good(q, s1, s6.accepted), AggregateB_WeekGood(q, s2),
           \A s \in AggregateBConfig.Requests \ {r} : AggregateB_Apart(s5[s], q) /\ AggregateB_Apart(q, s5[s]),
           s5' = [s5 EXCEPT ![r] = q],
           UNCHANGED <<s1, s2, s3, s4, s6>>
    PROVE  AggregateB_IInv'
  <1>1. s5 \in [AggregateBConfig.Requests -> AggregateB_Transactions]
    BY DEF AggregateB_IInv, AggregateB_TypeInv
  <1>2. /\ s5' \in [AggregateBConfig.Requests -> AggregateB_Transactions]
        /\ s5'[r] = q /\ \A s \in AggregateBConfig.Requests \ {r} : s5'[s] = s5[s]
    BY <1>1
  <1>3. AggregateB_TypeInv'
    BY <1>2 DEF AggregateB_IInv, AggregateB_TypeInv
  <1>4. AggregateB_RequestsInv'
    <2>1. ASSUME NEW s \in AggregateBConfig.Requests
          PROVE  AggregateB_Good(s5'[s], s1, s6.accepted) /\ AggregateB_WeekGood(s5'[s], s2)
      BY <1>2 DEF AggregateB_IInv, AggregateB_RequestsInv
    <2>2. ASSUME NEW s \in AggregateBConfig.Requests,
                 NEW t \in AggregateBConfig.Requests, s # t
          PROVE  AggregateB_Apart(s5'[s], s5'[t])
      BY <1>2, <2>2 DEF AggregateB_IInv, AggregateB_RequestsInv
    <2> QED
      BY <2>1, <2>2 DEF AggregateB_RequestsInv
  <1>5. AggregateB_RowsInv' /\ AggregateB_SumsInv'
    BY DEF AggregateB_IInv, AggregateB_RowsInv, AggregateB_SumsInv, AggregateB!OnDay
  <1> QED
    BY <1>3, <1>4, <1>5 DEF AggregateB_IInv

LEMMA AggregateB_InitInv == AggregateB!Init => AggregateB_IInv
  <1> SUFFICES ASSUME AggregateB!Init PROVE AggregateB_IInv
    OBVIOUS
  <1>1. /\ s1 = {} /\ s2 = [d \in AggregateBConfig.Days |-> {}] /\ s3 = {} /\ s4 = 0
        /\ s5 = [r \in AggregateBConfig.Requests |-> AggregateB!Idle]
        /\ s6.accepted = {} /\ s6.stale = {}
        /\ s6 \in [accepted : SUBSET AggregateB_Snapshots, stale : SUBSET AggregateB_Written]
    BY DEF AggregateB!Init
  <1>2. AggregateB_OnePerMinute(s1)
    BY <1>1 DEF AggregateB_OnePerMinute
  <1>3. /\ AggregateB!Idle \in AggregateB_Transactions /\ AggregateB_Good(AggregateB!Idle, s1, s6.accepted)
        /\ AggregateB_WeekGood(AggregateB!Idle, s2)
        /\ \A q : AggregateB_Apart(AggregateB!Idle, q) /\ AggregateB_Apart(q, AggregateB!Idle)
    BY <1>2, AggregateB_IdleGood
  <1>4. AggregateB_TypeInv
    BY <1>1, <1>3 DEF AggregateB_TypeInv
  <1>5. AggregateB_RequestsInv
    BY <1>1, <1>3 DEF AggregateB_RequestsInv
  <1>6. AggregateB_RowsInv /\ AggregateB_SumsInv
    BY <1>1, <1>2 DEF AggregateB_RowsInv, AggregateB_SumsInv, AggregateB!OnDay
  <1> QED
    BY <1>4, <1>5, <1>6 DEF AggregateB_IInv

LEMMA AggregateB_ToIdle ==
    ASSUME AggregateB_IInv, NEW r \in AggregateBConfig.Requests,
           s5' = [s5 EXCEPT ![r] = AggregateB!Idle],
           UNCHANGED <<s1, s2, s3, s4, s6>>
    PROVE  AggregateB_IInv'
  <1>1. AggregateB_OnePerMinute(s1)
    BY DEF AggregateB_IInv, AggregateB_RowsInv
  <1> QED
    BY <1>1, AggregateB_IdleGood, AggregateB_OtherTransaction

\* The transaction of a request, and the others
LEMMA AggregateB_Mine ==
    ASSUME AggregateB_IInv, NEW r \in AggregateBConfig.Requests
    PROVE  /\ s5[r] \in AggregateB_Transactions /\ AggregateB_Good(s5[r], s1, s6.accepted)
           /\ AggregateB_WeekGood(s5[r], s2)
           /\ \A s \in AggregateBConfig.Requests \ {r} : AggregateB_Apart(s5[s], s5[r]) /\ AggregateB_Apart(s5[r], s5[s])
           /\ s1 \subseteq s6.accepted /\ AggregateB_OnePerMinute(s1)
  BY DEF AggregateB_IInv, AggregateB_TypeInv, AggregateB_RequestsInv, AggregateB_RowsInv

\* A transaction that has added and written nothing
LEMMA AggregateB_Fresh ==
    ASSUME AggregateB_IInv, NEW r \in AggregateBConfig.Requests,
           NEW q \in AggregateB_Transactions, q.new = {}, q.written = {},
           q.read = {}, q.sums = {}, q.phase \in {"insert", "days"},
           q.batch # <<>> => q.phase = "insert",
           s5' = [s5 EXCEPT ![r] = q],
           UNCHANGED <<s1, s2, s3, s4, s6>>
    PROVE  AggregateB_IInv'
  <1>1. s1 \cup q.new = s1 /\ AggregateB_DaysOf(q.new) = {} /\ AggregateB_OnePerMinute(s1)
    BY AggregateB_Mine DEF AggregateB_DaysOf
  <1>2. AggregateB_Good(q, s1, s6.accepted)
    BY <1>1 DEF AggregateB_Good
  <1>3. AggregateB_WeekGood(q, s2)
    BY DEF AggregateB_WeekGood
  <1>4. \A s \in AggregateBConfig.Requests \ {r} : AggregateB_Apart(s5[s], q) /\ AggregateB_Apart(q, s5[s])
    BY DEF AggregateB_Apart
  <1> QED
    BY <1>2, <1>3, <1>4, AggregateB_OtherTransaction

LEMMA AggregateB_BeginPreserves ==
    ASSUME AggregateB_IInv, NEW r \in AggregateBConfig.Requests,
           NEW batch \in AggregateBConfig.Batches, AggregateB!Begin(r, batch)
    PROVE  AggregateB_IInv'
  <1> DEFINE q == AggregateB_Opening(batch)
  <1>1. /\ s5' = [s5 EXCEPT ![r] = q]
        /\ UNCHANGED <<s1, s2, s3, s4, s6>>
    BY DEF AggregateB!Begin, AggregateB_Opening
  <1>2. batch \in Seq(AggregateB_Snapshots)
    BY AggregateBAssumption DEF AggregateB_Parameters
  <1>3. /\ q \in AggregateB_Transactions /\ q.phase = "insert" /\ q.new = {} /\ q.read = {}
        /\ q.written = {} /\ q.sums = {}
    BY <1>2, AggregateB_Opened
  <1> HIDE DEF q
  <1> QED
    BY <1>1, <1>3, AggregateB_Fresh

LEMMA AggregateB_RebuildPreserves ==
    ASSUME AggregateB_IInv, NEW r \in AggregateBConfig.Requests,
           NEW from \in AggregateBConfig.Days, NEW to \in AggregateBConfig.Days,
           AggregateB!Rebuild(r, from, to)
    PROVE  AggregateB_IInv'
  <1> DEFINE days == {d \in from .. to : AggregateB!OnDay(s1, d) # {}}
             q == AggregateB_Rebuilding(days)
  <1>1. /\ s5' = [s5 EXCEPT ![r] = q]
        /\ UNCHANGED <<s1, s2, s3, s4, s6>>
    BY DEF AggregateB!Rebuild, AggregateB_Rebuilding
  <1>2. days \in SUBSET Nat
    BY AggregateBAssumption DEF AggregateB_Parameters
  <1> HIDE DEF days
  <1>3. /\ q \in AggregateB_Transactions /\ q.phase = "days" /\ q.new = {} /\ q.read = {}
        /\ q.written = {} /\ q.sums = {} /\ q.batch = <<>>
    BY <1>2, AggregateB_Rebuilds
  <1> HIDE DEF q
  <1> QED
    BY <1>1, <1>3, AggregateB_Fresh

LEMMA AggregateB_InsertPreserves ==
    ASSUME AggregateB_IInv, NEW r \in AggregateBConfig.Requests, AggregateB!Insert(r)
    PROVE  AggregateB_IInv'
  <1> DEFINE p == s5[r]
             row == Head(p.batch)
             there == AggregateB!SameMinute(s1 \cup p.new, row)
             rest == Tail(p.batch)
             new == p.new \cup ({row} \ there)
             phase == IF rest = <<>> THEN "days" ELSE "insert"
             days == AggregateB_DaysOf(new)
             q == AggregateB_Inserting(p, rest, new, phase, days)
  <1>1. /\ p \in AggregateB_Transactions /\ p.batch # <<>> /\ p.batch \in Seq(AggregateB_Snapshots)
        /\ p.new \in SUBSET AggregateB_Snapshots /\ AggregateB_Good(p, s1, s6.accepted)
        /\ p.phase = "insert" /\ p.written = {}
    BY AggregateB_Mine, AggregateB_Fields DEF AggregateB!Insert, AggregateB_Good
  <1>2. row \in AggregateB_Snapshots /\ rest \in Seq(AggregateB_Snapshots) /\ phase \in AggregateB_Phases
    BY <1>1 DEF AggregateB_Phases
  <1>3. UNCHANGED <<s1, s2, s3, s4, s6>>
    BY DEF AggregateB!Insert
  <1>4. s5' = [s5 EXCEPT ![r] = IF there \subseteq {row} THEN q ELSE AggregateB!Idle]
    BY DEF AggregateB!Insert, AggregateB_Inserting, AggregateB!Sees, AggregateB_DaysOf
  <1>5. CASE ~ (there \subseteq {row})
    BY <1>3, <1>4, <1>5, AggregateB_ToIdle
  <1>6. CASE there \subseteq {row}
    <2>1. s5' = [s5 EXCEPT ![r] = q]
      BY <1>4, <1>6
    <2>2. \A s \in AggregateBConfig.Requests \ {r} : AggregateB!SameMinute(s5[s].new, row) = {}
      BY DEF AggregateB!Insert
    <2>3. \A s \in AggregateBConfig.Requests \ {r} : AggregateB_Apart(s5[s], p) /\ AggregateB_Apart(p, s5[s])
      BY AggregateB_Mine
    <2>4. new \in SUBSET AggregateB_Snapshots /\ p.new \subseteq new
      BY <1>1, <1>2
    <2>5. days \in SUBSET Nat
      BY <2>4, AggregateBAssumption DEF AggregateB_DaysOf, AggregateB_Parameters
    <2>6. /\ q \in AggregateB_Transactions /\ q.batch = rest /\ q.new = new /\ q.phase = phase
          /\ q.days = days /\ q.written = p.written /\ q.sums = p.sums /\ q.read = p.read
      <3> HIDE DEF p, row, there, new, rest, phase, days
      <3> QED
        BY <1>1, <1>2, <2>4, <2>5, AggregateB_Inserted
    <2> HIDE DEF q
    <2>7. AggregateB_OnePerMinute(s1 \cup new)
      BY <1>1, <1>6 DEF AggregateB_Good, AggregateB_OnePerMinute, AggregateB!SameMinute
    <2>8. \A s \in AggregateBConfig.Requests \ {r} : AggregateB_Apart(s5[s], q) /\ AggregateB_Apart(q, s5[s])
      BY <2>2, <2>3, <2>6 DEF AggregateB_Apart, AggregateB!SameMinute
    <2>9. p.read \cup p.sums \subseteq s6.accepted \cup new
      BY <1>1, <2>4 DEF AggregateB_Good
    <2>10. (phase = "days" /\ rest = <<>>) \/ (phase = "insert" /\ rest # <<>>)
      OBVIOUS
    <2> HIDE DEF p, row, there, new, rest, phase
    <2>11. AggregateB_Good(q, s1, s6.accepted)
      BY <1>1, <2>6, <2>7, <2>9, <2>10 DEF AggregateB_Good
    <2>12. AggregateB_WeekGood(q, s2)
      BY <1>1, <2>6 DEF AggregateB_WeekGood
    <2> QED
      BY <1>3, <2>1, <2>6, <2>8, <2>11, <2>12, AggregateB_OtherTransaction
  <1> QED
    BY <1>5, <1>6

LEMMA AggregateB_ReadDayPreserves ==
    ASSUME AggregateB_IInv, NEW r \in AggregateBConfig.Requests,
           NEW d \in AggregateBConfig.Days, AggregateB!ReadDay(r, d)
    PROVE  AggregateB_IInv'
  <1> DEFINE p == s5[r]
             days == p.days \ {d}
             read == AggregateB!OnDay(AggregateB!Sees(r), d)
             q == AggregateB_Reading(p, d, days, read)
  <1>1. /\ p \in AggregateB_Transactions /\ p.phase = "days" /\ d \in p.days
        /\ AggregateB_Good(p, s1, s6.accepted) /\ p.days \in SUBSET Nat
        /\ p.new \in SUBSET AggregateB_Snapshots /\ s1 \in SUBSET AggregateB_Snapshots
        /\ s1 \subseteq s6.accepted
        /\ \A s \in AggregateBConfig.Requests \ {r} : AggregateB_Apart(s5[s], p) /\ AggregateB_Apart(p, s5[s])
    BY AggregateB_Mine, AggregateB_Fields
       DEF AggregateB!ReadDay, AggregateB_IInv, AggregateB_TypeInv
  <1>2. /\ s5' = [s5 EXCEPT ![r] = q]
        /\ UNCHANGED <<s1, s2, s3, s4, s6>>
    BY DEF AggregateB!ReadDay, AggregateB_Reading
  <1>3. /\ days \in SUBSET Nat /\ d \in Nat /\ read \in SUBSET AggregateB_Snapshots
        /\ read \subseteq s6.accepted \cup p.new
    BY <1>1, AggregateBAssumption
       DEF AggregateB_Parameters, AggregateB!OnDay, AggregateB!Sees
  <1>4. /\ q \in AggregateB_Transactions /\ q.phase = "write" /\ q.day = d /\ q.days = days
        /\ q.read = read /\ q.new = p.new /\ q.batch = p.batch /\ q.written = p.written
        /\ q.sums = p.sums /\ q.stale = p.stale
    <2> HIDE DEF days, read
    <2> QED
      BY <1>1, <1>3, AggregateB_ReadsDay
  <1> HIDE DEF q, read, p
  <1>5. AggregateB_Good(q, s1, s6.accepted)
    <2>1. AggregateB_DaysOf(q.new) \subseteq q.written \cup q.days \cup {q.day}
      BY <1>1, <1>4 DEF AggregateB_Good
    <2> QED
      BY <1>1, <1>3, <1>4, <2>1 DEF AggregateB_Good
  <1>6. AggregateB_WeekGood(q, s2)
    BY <1>4 DEF AggregateB_WeekGood
  <1>7. \A s \in AggregateBConfig.Requests \ {r} : AggregateB_Apart(s5[s], q) /\ AggregateB_Apart(q, s5[s])
    BY <1>1, <1>4 DEF AggregateB_Apart
  <1> QED
    BY <1>2, <1>4, <1>5, <1>6, <1>7, AggregateB_OtherTransaction

\* A day none of whose minutes is before the cutoff has all its snapshots in
\* the table.
LEMMA AggregateB_WriteDayPreserves ==
    ASSUME AggregateB_IInv, NEW r \in AggregateBConfig.Requests, AggregateB!WriteDay(r)
    PROVE  AggregateB_IInv'
  <1> DEFINE p == s5[r]
             d == p.day
             written == p.written \cup {d}
             sums == p.sums \cup p.read
             stale == IF AggregateB!Gone(d) \/ ~ (AggregateB!OnDay(AggregateB!Sees(r), d) \subseteq p.read)
                      THEN p.stale \cup {d} ELSE p.stale
             q == AggregateB_Writing(p, written, sums, stale)
  <1>1. /\ p \in AggregateB_Transactions /\ p.phase = "write" /\ d \in AggregateBConfig.Days
        /\ AggregateB_Good(p, s1, s6.accepted)
        /\ p.written \in SUBSET AggregateB_Written /\ p.sums \in SUBSET AggregateB_Snapshots
        /\ p.read \in SUBSET AggregateB_Snapshots /\ p.stale \in SUBSET AggregateB_Written
        /\ p.new \in SUBSET AggregateB_Snapshots
        /\ \A s \in AggregateBConfig.Requests \ {r} : AggregateB_Apart(s5[s], p) /\ AggregateB_Apart(p, s5[s])
    BY AggregateB_Mine, AggregateB_Fields DEF AggregateB!WriteDay, AggregateB_Good
  <1>2. /\ s5' = [s5 EXCEPT ![r] = q]
        /\ UNCHANGED <<s1, s2, s3, s4, s6>>
        /\ \A s \in AggregateBConfig.Requests \ {r} : d \notin s5[s].written
    BY DEF AggregateB!WriteDay, AggregateB_Writing
  <1>3. written \in SUBSET AggregateB_Written /\ sums \in SUBSET AggregateB_Snapshots /\ stale \in SUBSET AggregateB_Written
    BY <1>1 DEF AggregateB_Written
  <1>4. d \in stale \/ AggregateB!OnDay(s6.accepted \cup p.new, d) \subseteq p.read
    <2> SUFFICES ASSUME ~ AggregateB!Gone(d),
                        AggregateB!OnDay(AggregateB!Sees(r), d) \subseteq p.read
                 PROVE  AggregateB!OnDay(s6.accepted \cup p.new, d) \subseteq p.read
      OBVIOUS
    <2>1. ASSUME NEW row \in s6.accepted, AggregateBConfig.Day[row[1]] = d
          PROVE  row \in s1
      <3>1. row[1] \in DOMAIN AggregateBConfig.Day /\ row[1] \in Nat /\ s4 \in Nat
        BY AggregateBAssumption
           DEF AggregateB_Parameters, AggregateB_IInv, AggregateB_TypeInv
      <3>2. ~ (row[1] < s4)
        BY <2>1, <3>1 DEF AggregateB!Gone
      <3>3. row[1] >= s4
        BY <3>1, <3>2
      <3> QED
        BY <3>3 DEF AggregateB_IInv, AggregateB_RowsInv
    <2> QED
      BY <2>1 DEF AggregateB!OnDay, AggregateB!Sees
  <1>5. p.stale \subseteq stale
    OBVIOUS
  <1>6. /\ q \in AggregateB_Transactions /\ q.phase = "week" /\ q.written = written /\ q.sums = sums
        /\ q.read = {} /\ q.stale = stale /\ q.new = p.new /\ q.batch = p.batch
        /\ q.days = p.days
    <2> HIDE DEF written, sums, stale, p
    <2> QED
      BY <1>1, <1>3, AggregateB_WritesDay
  <1> HIDE DEF q, stale, p
  <1>7. AggregateB_Good(q, s1, s6.accepted)
    <2>1. AggregateB_DaysOf(q.new) \subseteq q.written \cup q.days
      BY <1>1, <1>6 DEF AggregateB_Good
    <2>2. ASSUME NEW e \in AggregateBConfig.Days \cap q.written
          PROVE  e \in q.stale \/ AggregateB!OnDay(s6.accepted \cup q.new, e) \subseteq q.sums
      <3>1. CASE e = d
        BY <1>4, <1>6, <3>1
      <3>2. CASE e \in p.written
        <4>1. e \in p.stale \/ AggregateB!OnDay(s6.accepted \cup p.new, e) \subseteq p.sums
          BY <1>1, <3>2 DEF AggregateB_Good
        <4> QED
          BY <1>5, <1>6, <4>1
      <3> QED
        BY <1>6, <3>1, <3>2
    <2>3. q.read \cup q.sums \subseteq s6.accepted \cup q.new
      BY <1>1, <1>6 DEF AggregateB_Good
    <2> QED
      BY <1>1, <1>6, <2>1, <2>2, <2>3 DEF AggregateB_Good
  <1>8. AggregateB_WeekGood(q, s2)
    BY <1>6 DEF AggregateB_WeekGood
  <1>9. \A s \in AggregateBConfig.Requests \ {r} : AggregateB_Apart(s5[s], q) /\ AggregateB_Apart(q, s5[s])
    BY <1>1, <1>2, <1>6 DEF AggregateB_Apart
  <1> QED
    BY <1>2, <1>6, <1>7, <1>8, <1>9, AggregateB_OtherTransaction

LEMMA AggregateB_SeenIs ==
    ASSUME AggregateB_IInv, NEW r \in AggregateBConfig.Requests
    PROVE  /\ AggregateB!Seen(r) = AggregateB_SeenBy(s5[r], s2)
           /\ AggregateB!Seen(r) \subseteq s6.accepted \cup s5[r].new
  <1>1. AggregateB!Seen(r) = AggregateB_SeenBy(s5[r], s2)
    BY DEF AggregateB!Seen, AggregateB_SeenBy
  <1>2. AggregateB_Good(s5[r], s1, s6.accepted)
    BY AggregateB_Mine
  <1>3. ASSUME NEW d \in AggregateBConfig.Days
        PROVE  /\ s2[d] \subseteq s6.accepted
               /\ AggregateB!OnDay(s5[r].sums, d) \subseteq s6.accepted \cup s5[r].new
    BY <1>2 DEF AggregateB_IInv, AggregateB_RowsInv, AggregateB_Good, AggregateB!OnDay
  <1>4. ASSUME NEW x \in AggregateB!Seen(r)
        PROVE  x \in s6.accepted \cup s5[r].new
    <2>1. PICK d \in AggregateBConfig.Days : x \in IF d \in s5[r].written
                                  THEN AggregateB!OnDay(s5[r].sums, d) ELSE s2[d]
      BY <1>4 DEF AggregateB!Seen
    <2> QED
      BY <1>3, <2>1
  <1> QED
    BY <1>1, <1>4

LEMMA AggregateB_ReadWeekPreserves ==
    ASSUME AggregateB_IInv, NEW r \in AggregateBConfig.Requests, AggregateB!ReadWeek(r)
    PROVE  AggregateB_IInv'
  <1> DEFINE p == s5[r]
             read == AggregateB!Seen(r)
             q == AggregateB_ReadingWeek(p, read)
  <1>1. /\ p \in AggregateB_Transactions /\ p.phase = "week" /\ AggregateB_Good(p, s1, s6.accepted)
        /\ p.new \in SUBSET AggregateB_Snapshots
        /\ \A s \in AggregateBConfig.Requests \ {r} : AggregateB_Apart(s5[s], p) /\ AggregateB_Apart(p, s5[s])
    BY AggregateB_Mine, AggregateB_Fields DEF AggregateB!ReadWeek
  <1>2. /\ s5' = [s5 EXCEPT ![r] = q]
        /\ UNCHANGED <<s1, s2, s3, s4, s6>>
    BY DEF AggregateB!ReadWeek, AggregateB_ReadingWeek
  <1>3. read \subseteq s6.accepted \cup p.new
    BY AggregateB_SeenIs
  <1>4. read \in SUBSET AggregateB_Snapshots
    BY <1>1, <1>3 DEF AggregateB_IInv, AggregateB_TypeInv
  <1> HIDE DEF p, read
  <1>5. /\ q \in AggregateB_Transactions /\ q.phase = "upsert" /\ q.read = read /\ q.new = p.new
        /\ q.batch = p.batch /\ q.written = p.written /\ q.sums = p.sums
        /\ q.stale = p.stale /\ q.days = p.days
    BY <1>1, <1>4, AggregateB_ReadsWeek
  <1> HIDE DEF q
  <1>6. AggregateB_Good(q, s1, s6.accepted)
    BY <1>1, <1>3, <1>5 DEF AggregateB_Good
  <1>7. AggregateB_WeekGood(q, s2)
    BY <1>5 DEF AggregateB_WeekGood
  <1>8. \A s \in AggregateBConfig.Requests \ {r} : AggregateB_Apart(s5[s], q) /\ AggregateB_Apart(q, s5[s])
    BY <1>1, <1>5 DEF AggregateB_Apart
  <1> QED
    BY <1>2, <1>5, <1>6, <1>7, <1>8, AggregateB_OtherTransaction

LEMMA AggregateB_WriteWeekPreserves ==
    ASSUME AggregateB_IInv, NEW r \in AggregateBConfig.Requests, AggregateB!WriteWeek(r)
    PROVE  AggregateB_IInv'
  <1> DEFINE p == s5[r]
             written == p.written \cup {0}
             stale == IF p.read = AggregateB!Seen(r) THEN p.stale \ {0} ELSE p.stale \cup {0}
             q == AggregateB_WritingWeek(p, written, stale)
  <1>1. /\ p \in AggregateB_Transactions /\ p.phase = "upsert" /\ AggregateB_Good(p, s1, s6.accepted)
        /\ p.written \in SUBSET AggregateB_Written /\ p.stale \in SUBSET AggregateB_Written
        /\ \A s \in AggregateBConfig.Requests \ {r} : AggregateB_Apart(s5[s], p) /\ AggregateB_Apart(p, s5[s])
    BY AggregateB_Mine, AggregateB_Fields DEF AggregateB!WriteWeek
  <1>2. /\ s5' = [s5 EXCEPT ![r] = q]
        /\ UNCHANGED <<s1, s2, s3, s4, s6>>
        /\ \A s \in AggregateBConfig.Requests \ {r} : 0 \notin s5[s].written
    BY DEF AggregateB!WriteWeek, AggregateB_WritingWeek
  <1>3. written \in SUBSET AggregateB_Written /\ stale \in SUBSET AggregateB_Written
    BY <1>1 DEF AggregateB_Written
  <1>4. p.stale \ {0} \subseteq stale
    OBVIOUS
  <1>5. 0 \in stale \/ p.read = AggregateB_SeenBy(p, s2)
    BY AggregateB_SeenIs
  <1>6. 0 \notin AggregateBConfig.Days
    BY AggregateBAssumption DEF AggregateB_Parameters
  <1>7. /\ q \in AggregateB_Transactions /\ q.phase = "days" /\ q.written = written /\ q.read = {}
        /\ q.stale = stale /\ q.week = p.read /\ q.new = p.new /\ q.batch = p.batch
        /\ q.sums = p.sums /\ q.days = p.days
    <2>1. q = AggregateB_WritingWeek(p, written, stale)
      OBVIOUS
    <2> HIDE DEF p, written, stale, q
    <2>2. p \in AggregateB_Transactions
      BY <1>1
    <2> QED
      BY <1>3, <2>1, <2>2, AggregateB_WritesWeek, SMT
  <1> HIDE DEF q, stale, p
  <1>8. AggregateB_Good(q, s1, s6.accepted)
    <2>1. p.batch = <<>> /\ AggregateB_DaysOf(q.new) \subseteq q.written \cup q.days
      BY <1>1, <1>7 DEF AggregateB_Good
    <2>2. ASSUME NEW d \in AggregateBConfig.Days \cap q.written
          PROVE  d \in q.stale \/ AggregateB!OnDay(s6.accepted \cup q.new, d) \subseteq q.sums
      <3>1. d \in p.written /\ d # 0
        BY <1>6, <1>7
      <3> QED
        BY <1>1, <1>4, <1>7, <3>1 DEF AggregateB_Good
    <2>3. q.read \cup q.sums \subseteq s6.accepted \cup q.new
      BY <1>1, <1>7 DEF AggregateB_Good
    <2> QED
      BY <1>1, <1>7, <2>1, <2>2, <2>3 DEF AggregateB_Good
  <1>9. AggregateB_SeenBy(q, s2) = AggregateB_SeenBy(p, s2)
    <2>1. \A d \in AggregateBConfig.Days : d \in q.written <=> d \in p.written
      BY <1>6, <1>7
    <2> QED
      BY <1>7, <2>1 DEF AggregateB_SeenBy
  <1>10. AggregateB_WeekGood(q, s2)
    BY <1>5, <1>7, <1>9 DEF AggregateB_WeekGood
  <1>11. \A s \in AggregateBConfig.Requests \ {r} : AggregateB_Apart(s5[s], q) /\ AggregateB_Apart(q, s5[s])
    BY <1>1, <1>2, <1>7 DEF AggregateB_Apart
  <1> QED
    BY <1>2, <1>7, <1>8, <1>10, <1>11, AggregateB_OtherTransaction

\* A commit adds rows of days that no other open transaction has written, and
\* has written the week if it has written anything.
LEMMA AggregateB_CommitPreserves ==
    ASSUME AggregateB_IInv, NEW r \in AggregateBConfig.Requests, AggregateB!Commit(r)
    PROVE  AggregateB_IInv'
  <1> DEFINE p == s5[r]
             R == s1 \cup p.new
             A == s6.accepted \cup p.new
  <1>1. /\ p \in AggregateB_Transactions /\ p.phase = "days" /\ p.days = {}
        /\ AggregateB_Good(p, s1, s6.accepted) /\ AggregateB_WeekGood(p, s2)
        /\ p.new \in SUBSET AggregateB_Snapshots /\ p.sums \in SUBSET AggregateB_Snapshots
        /\ p.week \in SUBSET AggregateB_Snapshots /\ p.written \in SUBSET AggregateB_Written
        /\ p.stale \in SUBSET AggregateB_Written
        /\ \A s \in AggregateBConfig.Requests \ {r} : AggregateB_Apart(s5[s], p) /\ AggregateB_Apart(p, s5[s])
        /\ s1 \subseteq s6.accepted
    BY AggregateB_Mine, AggregateB_Fields DEF AggregateB!Commit
  <1>2. /\ s1' = R /\ s4' = s4
        /\ s2' = [d \in AggregateBConfig.Days |-> IF d \in p.written THEN AggregateB!OnDay(p.sums, d) ELSE s2[d]]
        /\ s3' = IF 0 \in p.written THEN p.week ELSE s3
        /\ s6'.accepted = A
        /\ s6'.stale = (s6.stale \ p.written) \cup p.stale
        /\ s6' = [accepted |-> A, stale |-> (s6.stale \ p.written) \cup p.stale]
        /\ s5' = [s5 EXCEPT ![r] = AggregateB!Idle]
    BY DEF AggregateB!Commit
  <1>3. /\ s1 \in SUBSET AggregateB_Snapshots /\ s2 \in [AggregateBConfig.Days -> SUBSET AggregateB_Snapshots]
        /\ s3 \in SUBSET AggregateB_Snapshots /\ s4 \in Nat
        /\ s5 \in [AggregateBConfig.Requests -> AggregateB_Transactions]
        /\ s6.accepted \in SUBSET AggregateB_Snapshots /\ s6.stale \in SUBSET AggregateB_Written
    BY DEF AggregateB_IInv, AggregateB_TypeInv
  <1>4. AggregateB_DaysOf(p.new) \subseteq p.written
    BY <1>1 DEF AggregateB_Good
  <1>5. \A d \in AggregateBConfig.Days \ p.written : AggregateB!OnDay(A, d) = AggregateB!OnDay(s6.accepted, d)
    BY <1>4 DEF AggregateB!OnDay, AggregateB_DaysOf
  <1>6. p.written # {} => 0 \in p.written
    BY <1>1 DEF AggregateB_WeekGood
  <1>7. 0 \notin p.written => s2' = s2
    BY <1>2, <1>3, <1>6
  <1>8. UNION {s2'[d] : d \in AggregateBConfig.Days} = AggregateB_SeenBy(p, s2)
    BY <1>2 DEF AggregateB_SeenBy
  <1>9. AggregateB_OnePerMinute(R)
    BY <1>1 DEF AggregateB_Good
  <1>10. AggregateB!Idle \in AggregateB_Transactions /\ AggregateB_Good(AggregateB!Idle, R, A) /\ AggregateB_WeekGood(AggregateB!Idle, s2')
         /\ \A q : AggregateB_Apart(AggregateB!Idle, q) /\ AggregateB_Apart(q, AggregateB!Idle)
    BY <1>9, AggregateB_IdleGood
  <1>11. /\ s5' \in [AggregateBConfig.Requests -> AggregateB_Transactions] /\ s5'[r] = AggregateB!Idle
         /\ \A s \in AggregateBConfig.Requests \ {r} : s5'[s] = s5[s]
    BY <1>2, <1>3, <1>10
  <1>12. p.sums \subseteq A
    BY <1>1 DEF AggregateB_Good
  <1> HIDE DEF p, R, A
  <1>13. AggregateB_TypeInv'
    <2>1. R \in SUBSET AggregateB_Snapshots /\ A \in SUBSET AggregateB_Snapshots
      BY <1>1, <1>3 DEF R, A
    <2>2. s2' \in [AggregateBConfig.Days -> SUBSET AggregateB_Snapshots]
      BY <1>1, <1>2, <1>3 DEF AggregateB!OnDay
    <2>3. s3' \in SUBSET AggregateB_Snapshots
      BY <1>1, <1>2, <1>3
    <2>4. s6' \in [accepted : SUBSET AggregateB_Snapshots, stale : SUBSET AggregateB_Written]
      BY <1>1, <1>2, <1>3, <2>1
    <2> QED
      BY <1>2, <1>3, <1>11, <2>1, <2>2, <2>3, <2>4 DEF AggregateB_TypeInv
  <1>14. ASSUME NEW s \in AggregateBConfig.Requests \ {r}
         PROVE  AggregateB_Good(s5[s], R, A) /\ AggregateB_WeekGood(s5[s], s2')
    <2>1. /\ AggregateB_Good(s5[s], s1, s6.accepted) /\ AggregateB_WeekGood(s5[s], s2)
          /\ AggregateB_Apart(s5[s], p) /\ AggregateB_Apart(p, s5[s])
      BY <1>1, AggregateB_Mine
    <2>2. AggregateB_OnePerMinute(R \cup s5[s].new)
      BY <1>9, <2>1 DEF AggregateB_Good, AggregateB_Apart, AggregateB_OnePerMinute, R
    <2>3. s6.accepted \subseteq A
      BY DEF A
    <2>4. ASSUME NEW d \in AggregateBConfig.Days \cap s5[s].written
          PROVE  \/ d \in s5[s].stale
                 \/ AggregateB!OnDay(A \cup s5[s].new, d) \subseteq s5[s].sums
      <3>1. d \notin p.written
        BY <2>1 DEF AggregateB_Apart
      <3>2. AggregateB!OnDay(A \cup s5[s].new, d) = AggregateB!OnDay(s6.accepted \cup s5[s].new, d)
        BY <1>5, <3>1 DEF AggregateB!OnDay
      <3> QED
        BY <2>1, <3>2 DEF AggregateB_Good
    <2>5. AggregateB_Good(s5[s], R, A)
      BY <2>1, <2>2, <2>3, <2>4 DEF AggregateB_Good
    <2>6. AggregateB_WeekGood(s5[s], s2')
      BY <1>7, <2>1 DEF AggregateB_WeekGood, AggregateB_Apart
    <2> QED
      BY <2>5, <2>6
  <1>15. AggregateB_RequestsInv'
    <2>1. ASSUME NEW s \in AggregateBConfig.Requests
          PROVE  AggregateB_Good(s5'[s], R, A) /\ AggregateB_WeekGood(s5'[s], s2')
      BY <1>10, <1>11, <1>14
    <2>2. ASSUME NEW s \in AggregateBConfig.Requests,
                 NEW t \in AggregateBConfig.Requests, s # t
          PROVE  AggregateB_Apart(s5'[s], s5'[t])
      BY <1>10, <1>11, <2>2 DEF AggregateB_IInv, AggregateB_RequestsInv
    <2> QED
      BY <1>2, <2>1, <2>2 DEF AggregateB_RequestsInv
  <1>16. AggregateB_RowsInv'
    <2>1. \A d \in AggregateBConfig.Days : s2'[d] \subseteq A
      BY <1>2, <1>12 DEF AggregateB_IInv, AggregateB_RowsInv, AggregateB!OnDay, A
    <2>2. R \subseteq A /\ \A row \in A : row[1] >= s4 => row \in R
      BY DEF AggregateB_IInv, AggregateB_RowsInv, R, A
    <2> QED
      BY <1>2, <1>9, <2>1, <2>2 DEF AggregateB_RowsInv
  <1>17. AggregateB_SumsInv'
    <2>1. ASSUME NEW d \in AggregateBConfig.Days,
                 d \notin (s6.stale \ p.written) \cup p.stale
          PROVE  s2'[d] = AggregateB!OnDay(A, d)
      <3>1. CASE d \in p.written
        <4>1. AggregateB!OnDay(A, d) \subseteq p.sums
          BY <1>1, <2>1, <3>1 DEF AggregateB_Good, A
        <4> QED
          BY <1>2, <1>12, <3>1, <4>1 DEF AggregateB!OnDay
      <3>2. CASE d \notin p.written
        BY <1>2, <1>5, <2>1, <3>2 DEF AggregateB_IInv, AggregateB_SumsInv
      <3> QED
        BY <3>1, <3>2
    <2>2. ASSUME 0 \notin (s6.stale \ p.written) \cup p.stale
          PROVE  s3' = UNION {s2'[d] : d \in AggregateBConfig.Days}
      <3>1. CASE 0 \in p.written
        BY <1>1, <1>2, <1>8, <2>2, <3>1 DEF AggregateB_WeekGood
      <3>2. CASE 0 \notin p.written
        BY <1>2, <1>7, <2>2, <3>2 DEF AggregateB_IInv, AggregateB_SumsInv
      <3> QED
        BY <3>1, <3>2
    <2>3. ASSUME NEW d \in AggregateBConfig.Days
          PROVE  AggregateB!OnDay(s6.accepted, d)' = AggregateB!OnDay(A, d)
      BY <1>2 DEF AggregateB!OnDay
    <2> QED
      BY <1>2, <2>1, <2>2, <2>3 DEF AggregateB_SumsInv
  <1> QED
    BY <1>13, <1>15, <1>16, <1>17 DEF AggregateB_IInv

LEMMA AggregateB_CleanupPreserves ==
    ASSUME AggregateB_IInv, NEW before \in DOMAIN AggregateBConfig.Day,
           AggregateB!Cleanup(before)
    PROVE  AggregateB_IInv'
  <1>1. /\ s1' \subseteq s1 /\ \A row \in s1 : row[1] >= before => row \in s1'
        /\ s4' = IF before > s4 THEN before ELSE s4
        /\ UNCHANGED <<s2, s3, s5, s6>>
    BY DEF AggregateB!Cleanup
  <1>2. before \in Nat /\ s4 \in Nat
    BY AggregateBAssumption DEF AggregateB_Parameters, AggregateB_IInv, AggregateB_TypeInv
  <1>3. AggregateB_TypeInv'
    BY <1>1, <1>2 DEF AggregateB_IInv, AggregateB_TypeInv
  <1>4. AggregateB_RequestsInv'
    <2>1. ASSUME NEW s \in AggregateBConfig.Requests
          PROVE  AggregateB_Good(s5[s], s1', s6.accepted)
      <3>1. AggregateB_Good(s5[s], s1, s6.accepted)
        BY AggregateB_Mine
      <3>2. AggregateB_OnePerMinute(s1' \cup s5[s].new)
        BY <1>1, <3>1 DEF AggregateB_Good, AggregateB_OnePerMinute
      <3> QED
        BY <3>1, <3>2 DEF AggregateB_Good
    <2> QED
      BY <1>1, <2>1 DEF AggregateB_IInv, AggregateB_RequestsInv
  <1>5. AggregateB_RowsInv'
    <2>1. ASSUME NEW row \in s6.accepted, row[1] >= s4'
          PROVE  row \in s1'
      <3>1. row[1] \in Nat
        BY AggregateBAssumption
           DEF AggregateB_Parameters, AggregateB_IInv, AggregateB_TypeInv
      <3>2. row[1] >= s4 /\ row[1] >= before
        BY <1>1, <1>2, <2>1, <3>1
      <3> QED
        BY <1>1, <3>2 DEF AggregateB_IInv, AggregateB_RowsInv
    <2> QED
      BY <1>1, <2>1 DEF AggregateB_IInv, AggregateB_RowsInv, AggregateB_OnePerMinute
  <1>6. AggregateB_SumsInv'
    BY <1>1 DEF AggregateB_IInv, AggregateB_SumsInv, AggregateB!OnDay
  <1> QED
    BY <1>3, <1>4, <1>5, <1>6 DEF AggregateB_IInv

LEMMA AggregateB_NextPreserves == AggregateB_IInv /\ [AggregateB!Next]_(AggregateB!vars) => AggregateB_IInv'
  <1> SUFFICES ASSUME AggregateB_IInv, [AggregateB!Next]_(AggregateB!vars) PROVE AggregateB_IInv'
    OBVIOUS
  <1>1. ASSUME NEW r \in AggregateBConfig.Requests,
               NEW batch \in AggregateBConfig.Batches, AggregateB!Begin(r, batch)
        PROVE  AggregateB_IInv'
    BY <1>1, AggregateB_BeginPreserves
  <1>2. ASSUME NEW r \in AggregateBConfig.Requests, NEW from \in AggregateBConfig.Days,
               NEW to \in AggregateBConfig.Days, AggregateB!Rebuild(r, from, to)
        PROVE  AggregateB_IInv'
    BY <1>2, AggregateB_RebuildPreserves
  <1>3. ASSUME NEW r \in AggregateBConfig.Requests, NEW d \in AggregateBConfig.Days,
               AggregateB!ReadDay(r, d)
        PROVE  AggregateB_IInv'
    BY <1>3, AggregateB_ReadDayPreserves
  <1>4. ASSUME NEW r \in AggregateBConfig.Requests,
               AggregateB!Insert(r) \/ AggregateB!WriteDay(r)
        PROVE  AggregateB_IInv'
    BY <1>4, AggregateB_InsertPreserves, AggregateB_WriteDayPreserves
  <1>5. ASSUME NEW r \in AggregateBConfig.Requests,
               AggregateB!ReadWeek(r) \/ AggregateB!WriteWeek(r)
        PROVE  AggregateB_IInv'
    BY <1>5, AggregateB_ReadWeekPreserves, AggregateB_WriteWeekPreserves
  <1>6. ASSUME NEW r \in AggregateBConfig.Requests, AggregateB!Commit(r)
        PROVE  AggregateB_IInv'
    BY <1>6, AggregateB_CommitPreserves
  <1>7. ASSUME NEW r \in AggregateBConfig.Requests, AggregateB!Abort(r)
        PROVE  AggregateB_IInv'
    BY <1>7, AggregateB_ToIdle DEF AggregateB!Abort
  <1>8. ASSUME NEW before \in DOMAIN AggregateBConfig.Day, AggregateB!Cleanup(before)
        PROVE  AggregateB_IInv'
    BY <1>8, AggregateB_CleanupPreserves
  <1>9. CASE UNCHANGED AggregateB!vars
    BY <1>9
       DEF AggregateB!vars, AggregateB_IInv, AggregateB_TypeInv, AggregateB_RequestsInv,
           AggregateB_RowsInv, AggregateB_SumsInv, AggregateB!OnDay
  <1> QED
    BY <1>1, <1>2, <1>3, <1>4, <1>5, <1>6, <1>7, <1>8, <1>9 DEF AggregateB!Next

-----------------------------------------------------------------------------
(* Journals, budgets and periods (text10): text10/a *)

LedgerA_Parameters == LedgerAConfig.BudgetAmount \in Nat /\ LedgerAConfig.Amounts \subseteq Nat
ASSUME LedgerAAssumption == LedgerA_Parameters

LedgerA_Vouchers == [key : LedgerAConfig.Keys, period : LedgerA!Periods, delta : Int,
    encumbrance : Nat, reverses : Nat]
LedgerA_EntryRows == [payload : LedgerA_Vouchers, charged : Int]
LedgerA_EncumbranceRows == [amount : Nat, status : {"open", "liquidated", "cancelled"}]

LedgerA_OpenOnes(cs) == {e \in DOMAIN cs : cs[e].status = "open"}
LedgerA_AmountOf(cs) == [e \in DOMAIN cs |-> cs[e].amount]
LedgerA_ChargeOf(es) == [i \in DOMAIN es |-> es[i].charged]
LedgerA_OpenSum(cs) == SumOf(LedgerA_OpenOnes(cs), LedgerA_AmountOf(cs))
LedgerA_ChargeSum(es) == SumOf(DOMAIN es, LedgerA_ChargeOf(es))
LedgerA_Liquidating(es, e) == {i \in DOMAIN es : es[i].payload.encumbrance = e}

\* The entries, the budget and the encumbrances of books agree.
LedgerA_TypeInv(es, b, cs) ==
    /\ es \in Seq(LedgerA_EntryRows) /\ cs \in Seq(LedgerA_EncumbranceRows)
    /\ b \in [amount : Nat, encumbered : Int, actual : Int]
LedgerA_BudgetInv(es, b, cs) ==
    /\ b.encumbered = LedgerA_OpenSum(cs) /\ b.actual = LedgerA_ChargeSum(es)
    /\ b.actual >= 0 /\ LedgerA!Available(b) >= 0
LedgerA_EntriesInv(es) ==
    /\ \A i \in DOMAIN es : es[i].payload.reverses < i
    /\ \A i, j \in DOMAIN es : i # j =>
           /\ es[i].payload.key # es[j].payload.key
           /\ es[i].payload.reverses = es[j].payload.reverses => es[i].payload.reverses = 0
LedgerA_EncumbrancesInv(es, cs) ==
    /\ \A i \in DOMAIN es : es[i].payload.encumbrance <= Len(cs)
    /\ \A e \in DOMAIN cs :
           IF cs[e].status = "liquidated" THEN \E i \in DOMAIN es :
               LedgerA_Liquidating(es, e) = {i}
                                          ELSE LedgerA_Liquidating(es, e) = {}
LedgerA_Agree(es, b, cs) ==
    LedgerA_TypeInv(es, b, cs) /\ LedgerA_BudgetInv(es, b, cs) /\ LedgerA_EntriesInv(es)
        /\ LedgerA_EncumbrancesInv(es, cs)
LedgerA_PeriodsInv ==
    /\ s1 \in [LedgerA!Periods -> BOOLEAN] /\ s5 = [p \in LedgerA!Periods |-> s5[p]]
    /\ \A p \in LedgerA!Periods : ~s1[p] => LedgerA!Of(s2, p) = s5[p]

LedgerA_IInv == LedgerA_Agree(s2, s3, s4) /\ LedgerA_PeriodsInv

\* The sums of LedgerSound are sums.
LEMMA LedgerA_SumsAreSums ==
    ASSUME NEW es \in Seq(LedgerA_EntryRows), NEW cs \in Seq(LedgerA_EncumbranceRows)
    PROVE  /\ LedgerA!MapThenSumSet(LAMBDA e : cs[e].amount,
                {e \in DOMAIN cs : cs[e].status = "open"})
                = LedgerA_OpenSum(cs)
           /\ LedgerA!MapThenSumSet(LAMBDA i : es[i].charged, DOMAIN es) = LedgerA_ChargeSum(es)
  <1> DEFINE S == LedgerA_OpenOnes(cs)
             w == LedgerA_AmountOf(cs)
             F(g) == g = [s \in SUBSET S |-> IF s = {} THEN 0
                            ELSE cs[CHOOSE x \in s : TRUE].amount +
                                g[s \ {CHOOSE x \in s : TRUE}]]
             D == DOMAIN es
             v == LedgerA_ChargeOf(es)
             G(g) == g = [s \in SUBSET D |-> IF s = {} THEN 0
                            ELSE es[CHOOSE x \in s : TRUE].charged +
                                g[s \ {CHOOSE x \in s : TRUE}]]
  <1>1. LedgerA!MapThenSumSet(LAMBDA e : cs[e].amount,
          {e \in DOMAIN cs : cs[e].status = "open"})
          = (CHOOSE g : F(g))[S]
    BY DEF LedgerA!MapThenSumSet, LedgerA!MapThenFoldSet, LedgerA_OpenOnes
  <1>2. LedgerA!MapThenSumSet(LAMBDA i : es[i].charged, DOMAIN es) = (CHOOSE g : G(g))[D]
    BY DEF LedgerA!MapThenSumSet, LedgerA!MapThenFoldSet
  <1>3. IsFiniteSet(S) /\ IsFiniteSet(D)
    BY DomainsFinite DEF LedgerA_OpenOnes
  <1>4. ASSUME NEW g PROVE F(g) <=> Sums(g, S, w)
    <2>1. \A s \in SUBSET S : s # {} => w[FirstOf(s)] = cs[FirstOf(s)].amount
      BY FirstRest DEF LedgerA_OpenOnes, LedgerA_AmountOf
    <2> HIDE DEF S, w
    <2>2. Sums(g, S, w) <=> g = [s \in SUBSET S |-> IF s = {} THEN 0
                            ELSE cs[FirstOf(s)].amount + g[RestOf(s)]]
      BY <2>1 DEF Sums
    <2> QED
      BY <2>2 DEF FirstOf, RestOf
  <1>5. ASSUME NEW g PROVE G(g) <=> Sums(g, D, v)
    <2>1. \A s \in SUBSET D : s # {} => v[FirstOf(s)] = es[FirstOf(s)].charged
      BY FirstRest DEF LedgerA_ChargeOf
    <2> HIDE DEF D, v
    <2>2. Sums(g, D, v) <=> g = [s \in SUBSET D |-> IF s = {} THEN 0
                            ELSE es[FirstOf(s)].charged + g[RestOf(s)]]
      BY <2>1 DEF Sums
    <2> QED
      BY <2>2 DEF FirstOf, RestOf
  <1> DEFINE f == CHOOSE g : F(g)
             h == CHOOSE g : G(g)
  <1> HIDE DEF F, G
  <1>6. F(f) /\ G(h)
    BY <1>3, <1>4, <1>5, SumsExist
  <1> HIDE DEF f, h
  <1>7. f[S] = SumOf(S, w) /\ h[D] = SumOf(D, v)
    BY <1>3, <1>4, <1>5, <1>6, SumIs
  <1> QED
    BY <1>1, <1>2, <1>7 DEF LedgerA_OpenSum, LedgerA_ChargeSum, f, h

LEMMA LedgerA_Counts == \A S : LedgerA!Cardinality(S) = Cardinality(S)
  BY DEF LedgerA!Cardinality, Cardinality

LEMMA LedgerA_Sound == LedgerA_IInv => LedgerA!LedgerSound
  <1> SUFFICES ASSUME LedgerA_IInv PROVE LedgerA!LedgerSound
    OBVIOUS
  <1> USE DEF LedgerA_IInv, LedgerA_Agree
  <1>1. s2 \in Seq(LedgerA_EntryRows) /\ s4 \in Seq(LedgerA_EncumbranceRows)
    BY DEF LedgerA_TypeInv
  <1>2. /\ s3.encumbered = LedgerA!MapThenSumSet(LAMBDA e : s4[e].amount,
             {e \in DOMAIN s4 : s4[e].status = "open"})
        /\ s3.actual = LedgerA!MapThenSumSet(LAMBDA i : s2[i].charged, DOMAIN s2)
    BY <1>1, LedgerA_SumsAreSums DEF LedgerA_BudgetInv
  <1>3. ASSUME NEW i \in DOMAIN s2
        PROVE  s2[i].payload.reverses \in {0} \cup 1 .. i - 1
    <2>1. i \in Nat /\ i >= 1 /\ s2[i] \in LedgerA_EntryRows
      BY <1>1
    <2>2. s2[i].payload.reverses \in Nat
      BY <2>1 DEF LedgerA_EntryRows, LedgerA_Vouchers
    <2>3. s2[i].payload.reverses < i
      BY DEF LedgerA_EntriesInv
    <2> QED
      BY <2>1, <2>2, <2>3
  <1>4. ASSUME NEW e \in DOMAIN s4
        PROVE  Cardinality({i \in DOMAIN s2 : s2[i].payload.encumbrance = e}) =
                   (IF s4[e].status = "liquidated" THEN 1 ELSE 0)
    BY FS_Singleton, FS_EmptySet DEF LedgerA_EncumbrancesInv, LedgerA_Liquidating
  <1> QED
    BY <1>2, <1>3, <1>4, LedgerA_Counts DEF LedgerA!LedgerSound, LedgerA_BudgetInv,
       LedgerA_EntriesInv, LedgerA_PeriodsInv

\* What the rows of entries say when one is added
LEMMA LedgerA_EntryAdded ==
    ASSUME NEW es \in Seq(LedgerA_EntryRows), NEW row \in LedgerA_EntryRows, NEW fs,
           fs = Append(es, row)
    PROVE  LedgerA_ChargeSum(fs) = LedgerA_ChargeSum(es) + row.charged
  <1> DEFINE n == Len(es) + 1
  <1>1. /\ fs \in Seq(LedgerA_EntryRows) /\ DOMAIN fs = DOMAIN es \cup {n} /\ n \notin DOMAIN es
        /\ fs[n] = row /\ \A i \in DOMAIN es : fs[i] = es[i]
    BY Appended
  <1>2. IsFiniteSet(DOMAIN es) /\ \A i \in DOMAIN es : es[i] \in LedgerA_EntryRows
    BY DomainsFinite
  <1> HIDE DEF n
  <1>3. \A i \in DOMAIN es : LedgerA_ChargeOf(fs)[i] = LedgerA_ChargeOf(es)[i]
          /\ LedgerA_ChargeOf(es)[i] \in Int
    BY <1>1, <1>2 DEF LedgerA_ChargeOf, LedgerA_EntryRows
  <1>4. LedgerA_ChargeOf(fs)[n] = row.charged /\ row.charged \in Int
    BY <1>1 DEF LedgerA_ChargeOf, LedgerA_EntryRows
  <1>5. \A i \in DOMAIN es : LedgerA_ChargeOf(fs)[i] \in Int
    BY <1>3
  <1>6. SumOf(DOMAIN fs, LedgerA_ChargeOf(fs)) = SumOf(DOMAIN es, LedgerA_ChargeOf(es)) +
          LedgerA_ChargeOf(fs)[n]
    <2>1. Adds(DOMAIN fs, LedgerA_ChargeOf(fs), DOMAIN es, LedgerA_ChargeOf(es), n)
      BY <1>1, <1>2, <1>3, <1>4, <1>5 DEF Adds
    <2> QED
      BY <2>1, SumWith
  <1> QED
    BY <1>1, <1>4, <1>6 DEF LedgerA_ChargeSum

\* An encumbrance that is open no longer, and one that is added
LEMMA LedgerA_EncumbranceEnded ==
    ASSUME NEW cs \in Seq(LedgerA_EncumbranceRows), NEW ds \in Seq(LedgerA_EncumbranceRows),
           NEW e \in LedgerA_OpenOnes(cs), DOMAIN ds = DOMAIN cs, ds[e].status # "open",
           \A c \in DOMAIN cs \ {e} : ds[c] = cs[c]
    PROVE  LedgerA_OpenSum(cs) = LedgerA_OpenSum(ds) + cs[e].amount
  <1>1. LedgerA_OpenOnes(cs) = LedgerA_OpenOnes(ds) \cup {e} /\ e \notin LedgerA_OpenOnes(ds)
          /\ e \in DOMAIN cs
    BY DEF LedgerA_OpenOnes
  <1>2. IsFiniteSet(LedgerA_OpenOnes(ds)) /\ \A c \in DOMAIN cs :
          cs[c] \in LedgerA_EncumbranceRows
    BY DomainsFinite DEF LedgerA_OpenOnes
  <1>3. \A c \in LedgerA_OpenOnes(ds) : LedgerA_AmountOf(ds)[c] = LedgerA_AmountOf(cs)[c]
          /\ LedgerA_AmountOf(cs)[c] \in Int
    BY <1>1, <1>2 DEF LedgerA_OpenOnes, LedgerA_AmountOf, LedgerA_EncumbranceRows
  <1>4. LedgerA_AmountOf(cs)[e] = cs[e].amount /\ cs[e].amount \in Int
    BY <1>1, <1>2 DEF LedgerA_AmountOf, LedgerA_EncumbranceRows
  <1>5. SumOf(LedgerA_OpenOnes(cs), LedgerA_AmountOf(cs)) = SumOf(LedgerA_OpenOnes(ds),
          LedgerA_AmountOf(ds)) + LedgerA_AmountOf(cs)[e]
    <2>1. Adds(LedgerA_OpenOnes(cs), LedgerA_AmountOf(cs), LedgerA_OpenOnes(ds),
            LedgerA_AmountOf(ds), e)
      BY <1>1, <1>2, <1>3, <1>4 DEF Adds
    <2> QED
      BY <2>1, SumWith
  <1> QED
    BY <1>1, <1>4, <1>5 DEF LedgerA_OpenSum

LEMMA LedgerA_EncumbranceAdded ==
    ASSUME NEW cs \in Seq(LedgerA_EncumbranceRows), NEW row \in LedgerA_EncumbranceRows,
           row.status = "open",
           NEW ds, ds = Append(cs, row)
    PROVE  LedgerA_OpenSum(ds) = LedgerA_OpenSum(cs) + row.amount
  <1> DEFINE n == Len(cs) + 1
  <1>1. /\ ds \in Seq(LedgerA_EncumbranceRows) /\ DOMAIN ds = DOMAIN cs \cup {n}
             /\ n \notin DOMAIN cs
        /\ ds[n] = row /\ \A i \in DOMAIN cs : ds[i] = cs[i]
    BY Appended
  <1> HIDE DEF n
  <1>2. LedgerA_OpenOnes(ds) = LedgerA_OpenOnes(cs) \cup {n} /\ n \notin LedgerA_OpenOnes(cs)
    BY <1>1 DEF LedgerA_OpenOnes
  <1>3. IsFiniteSet(LedgerA_OpenOnes(cs)) /\ \A c \in DOMAIN cs :
          cs[c] \in LedgerA_EncumbranceRows
    BY DomainsFinite DEF LedgerA_OpenOnes
  <1>4. \A c \in LedgerA_OpenOnes(cs) : LedgerA_AmountOf(cs)[c] = LedgerA_AmountOf(ds)[c]
          /\ LedgerA_AmountOf(ds)[c] \in Int
    BY <1>1, <1>3 DEF LedgerA_OpenOnes, LedgerA_AmountOf, LedgerA_EncumbranceRows
  <1>5. LedgerA_AmountOf(ds)[n] = row.amount /\ row.amount \in Int
    BY <1>1 DEF LedgerA_AmountOf, LedgerA_EncumbranceRows
  <1>6. SumOf(LedgerA_OpenOnes(ds), LedgerA_AmountOf(ds)) = SumOf(LedgerA_OpenOnes(cs),
          LedgerA_AmountOf(cs)) + LedgerA_AmountOf(ds)[n]
    <2>1. Adds(LedgerA_OpenOnes(ds), LedgerA_AmountOf(ds), LedgerA_OpenOnes(cs),
            LedgerA_AmountOf(cs), n)
      BY <1>2, <1>3, <1>4, <1>5 DEF Adds
    <2> QED
      BY <2>1, SumWith
  <1> QED
    BY <1>2, <1>5, <1>6 DEF LedgerA_OpenSum

\* Books in the form of one record, as Posted takes them
LedgerA_AgreeAll(bs) == LedgerA_Agree(bs.entries, bs.budget, bs.encumbrances)
LedgerA_Follows(bs, later) ==
    /\ Len(later.encumbrances) = Len(bs.encumbrances) /\ Len(later.entries) >= Len(bs.entries)
    /\ \A p \in LedgerA!Periods : ~s1[p] =>
         LedgerA!Of(later.entries, p) = LedgerA!Of(bs.entries, p)

LEMMA LedgerA_PostedAgrees ==
    ASSUME NEW bs, LedgerA_AgreeAll(bs), NEW v \in LedgerA_Vouchers,
           v.encumbrance <= Len(bs.encumbrances), v.reverses <= Len(bs.entries),
           LedgerA!Accepts(bs, v), NEW later, later = LedgerA!Posted(bs, v)
    PROVE  LedgerA_AgreeAll(later) /\ LedgerA_Follows(bs, later)
  <1>1. CASE LedgerA!Replays(bs, v)
    <2>1. later = bs
      BY <1>1 DEF LedgerA!Posted
    <2>2. Len(bs.entries) \in Nat
      BY DEF LedgerA_AgreeAll, LedgerA_Agree, LedgerA_TypeInv
    <2> QED
      BY <2>1, <2>2 DEF LedgerA_Follows
  <1>2. CASE ~ LedgerA!Replays(bs, v)
    <2> DEFINE es == bs.entries
               b == bs.budget
               cs == bs.encumbrances
               row == [payload |-> v, charged |-> LedgerA!Effect(b, v)]
               fs == later.entries
               d == later.budget
               ds == later.encumbrances
               n == Len(es) + 1
               freed == LedgerA!Released(bs, v.encumbrance)
    <2>1. /\ es \in Seq(LedgerA_EntryRows) /\ cs \in Seq(LedgerA_EncumbranceRows)
          /\ b \in [amount : Nat, encumbered : Int, actual : Int]
          /\ LedgerA_BudgetInv(es, b, cs) /\ LedgerA_EntriesInv(es)
               /\ LedgerA_EncumbrancesInv(es, cs)
      BY DEF LedgerA_AgreeAll, LedgerA_Agree, LedgerA_TypeInv
    <2>2. /\ fs = Append(es, row) /\ d = LedgerA!Charged(bs, v)
          /\ ds = [e \in DOMAIN cs |-> IF e = v.encumbrance
                      THEN [cs[e] EXCEPT !.status = "liquidated"] ELSE cs[e]]
      BY <1>2 DEF LedgerA!Posted
    <2>3. /\ \A i \in DOMAIN es : es[i].payload.key # v.key
          /\ \A i \in DOMAIN es : v.reverses # 0 => es[i].payload.reverses # v.reverses
          /\ s1[v.period] /\ LedgerA!Liquidates(bs, v) /\ d.actual >= 0
               /\ LedgerA!Available(d) >= 0
      BY <1>2, <2>2 DEF LedgerA!Accepts
    <2>4. /\ v.key \in LedgerAConfig.Keys /\ v.period \in LedgerA!Periods /\ v.delta \in Int
          /\ v.encumbrance \in Nat /\ v.reverses \in Nat
      BY DEF LedgerA_Vouchers
    <2>5. row \in LedgerA_EntryRows /\ row.payload = v /\ row.charged = LedgerA!Effect(b, v)
            /\ LedgerA!Effect(b, v) \in Int
      BY <2>4 DEF LedgerA_EntryRows, LedgerA!Effect
    <2>6. /\ DOMAIN cs = 1 .. Len(cs) /\ Len(cs) \in Nat
          /\ v.encumbrance # 0 => v.encumbrance \in DOMAIN cs
      BY <2>1, <2>4
    <2>7. /\ ds \in Seq(LedgerA_EncumbranceRows) /\ DOMAIN ds = DOMAIN cs /\ Len(ds) = Len(cs)
          /\ \A e \in DOMAIN cs \ {v.encumbrance} : ds[e] = cs[e]
          /\ v.encumbrance # 0 => ds[v.encumbrance].status = "liquidated"
      <3>1. DOMAIN cs = 1 .. Len(cs) /\ Len(cs) \in Nat
        BY <2>1
      <3>2. \A e \in DOMAIN cs : cs[e] \in LedgerA_EncumbranceRows
        BY <2>1
      <3>3. \A e \in DOMAIN cs :
              [cs[e] EXCEPT !.status = "liquidated"] \in LedgerA_EncumbranceRows
        BY <3>2 DEF LedgerA_EncumbranceRows
      <3>4. ds \in [1 .. Len(cs) -> LedgerA_EncumbranceRows]
        BY <2>2, <3>1, <3>2, <3>3
      <3>5. ds \in Seq(LedgerA_EncumbranceRows) /\ Len(ds) = Len(cs)
        BY <3>1, <3>4
      <3>6. v.encumbrance # 0 => ds[v.encumbrance].status = "liquidated"
        BY <2>2, <2>4, <2>1, <3>1, <3>2 DEF LedgerA_EncumbranceRows
      <3> QED
        BY <2>2, <3>1, <3>4, <3>5, <3>6
    <2>8. /\ d.amount = b.amount /\ d.actual = b.actual + LedgerA!Effect(b, v)
          /\ d.encumbered = b.encumbered - freed
          /\ d = [amount |-> d.amount, encumbered |-> d.encumbered, actual |-> d.actual]
      BY <2>1, <2>2 DEF LedgerA!Charged
    <2>9. /\ fs \in Seq(LedgerA_EntryRows) /\ DOMAIN fs = DOMAIN es \cup {n}
               /\ n \notin DOMAIN es
          /\ fs[n] = row /\ \A i \in DOMAIN es : fs[i] = es[i]
          /\ Len(fs) = Len(es) + 1 /\ Len(es) \in Nat /\ DOMAIN es = 1 .. Len(es)
      BY <2>1, <2>2, <2>5, Appended
    <2>10. LedgerA_ChargeSum(fs) = LedgerA_ChargeSum(es) + LedgerA!Effect(b, v)
      <3>0. es \in Seq(LedgerA_EntryRows) /\ row \in LedgerA_EntryRows /\ fs = Append(es, row)
        BY <2>1, <2>2, <2>5
      <3> HIDE DEF row, es, fs
      <3>1. LedgerA_ChargeSum(fs) = LedgerA_ChargeSum(es) + row.charged
        BY <3>0, LedgerA_EntryAdded
      <3> QED
        BY <2>5, <3>1
    <2>11. freed \in Nat /\ LedgerA_OpenSum(ds) = LedgerA_OpenSum(cs) - freed
             /\ b.encumbered \in Int
      <3>1. CASE v.encumbrance = 0
        <4>1. LedgerA_OpenOnes(ds) = LedgerA_OpenOnes(cs)
                /\ LedgerA_AmountOf(ds) = LedgerA_AmountOf(cs)
          BY <2>6, <2>7, <3>1 DEF LedgerA_OpenOnes, LedgerA_AmountOf
        <4>2. LedgerA_OpenSum(ds) = LedgerA_OpenSum(cs)
          BY <4>1 DEF LedgerA_OpenSum
        <4> QED
          BY <2>1, <3>1, <4>2 DEF LedgerA!Released, LedgerA_BudgetInv
      <3>2. CASE v.encumbrance # 0
        <4>1. v.encumbrance \in LedgerA_OpenOnes(cs) /\ freed = cs[v.encumbrance].amount
          BY <2>3, <2>6, <3>2 DEF LedgerA!Liquidates, LedgerA_OpenOnes, LedgerA!Released
        <4>2. LedgerA_OpenSum(cs) = LedgerA_OpenSum(ds) + freed
          BY <2>1, <2>7, <3>2, <4>1, LedgerA_EncumbranceEnded
        <4>3. freed \in Nat
          <5>1. v.encumbrance \in DOMAIN cs /\ \A e \in DOMAIN cs :
                  cs[e] \in LedgerA_EncumbranceRows
            BY <2>1, <4>1, DomainsFinite DEF LedgerA_OpenOnes
          <5> QED
            BY <4>1, <5>1 DEF LedgerA_EncumbranceRows
        <4>4. IsFiniteSet(LedgerA_OpenOnes(ds)) /\ \A e \in LedgerA_OpenOnes(ds) :
                LedgerA_AmountOf(ds)[e] \in Int
          <5> HIDE DEF ds
          <5>1. IsFiniteSet(LedgerA_OpenOnes(ds)) /\ \A e \in DOMAIN ds :
                  ds[e] \in LedgerA_EncumbranceRows
            BY <2>7, DomainsFinite DEF LedgerA_OpenOnes
          <5> QED
            BY <5>1 DEF LedgerA_OpenOnes, LedgerA_AmountOf, LedgerA_EncumbranceRows
        <4>5. LedgerA_OpenSum(ds) \in Int
          BY <4>4, SumType DEF LedgerA_OpenSum
        <4> QED
          BY <2>1, <4>2, <4>3, <4>5
      <3> QED
        BY <3>1, <3>2
    <2>12. v.encumbrance # 0 => cs[v.encumbrance].status = "open"
      BY <2>3 DEF LedgerA!Liquidates
    <2> HIDE DEF row, fs, d, ds, n, freed, es, b, cs
    <2>13. LedgerA_TypeInv(fs, d, ds) /\ LedgerA_BudgetInv(fs, d, ds)
      BY <2>1, <2>3, <2>5, <2>7, <2>8, <2>9, <2>10, <2>11 DEF LedgerA_TypeInv, LedgerA_BudgetInv
    <2>14. n \in Nat /\ n = Len(es) + 1 /\ v.reverses <= Len(es) /\ v.encumbrance <= Len(cs)
      BY <2>9 DEF n, es, cs
    <2>15. LedgerA_EntriesInv(fs)
      <3>1. ASSUME NEW i \in DOMAIN fs PROVE fs[i].payload.reverses < i
        <4>1. CASE i = n
          BY <2>4, <2>5, <2>9, <2>14, <4>1
        <4>2. CASE i # n
          BY <2>1, <2>9, <4>2 DEF LedgerA_EntriesInv
        <4> QED
          BY <4>1, <4>2
      <3>2. ASSUME NEW i \in DOMAIN fs, NEW j \in DOMAIN fs, i # j
            PROVE  /\ fs[i].payload.key # fs[j].payload.key
                   /\ fs[i].payload.reverses = fs[j].payload.reverses =>
                        fs[i].payload.reverses = 0
        <4>1. CASE i = n
          <5>1. j \in DOMAIN es /\ fs[j] = es[j] /\ fs[i].payload = v
            BY <2>5, <2>9, <3>2, <4>1
          <5> QED
            BY <2>3, <5>1
        <4>2. CASE j = n
          <5>1. i \in DOMAIN es /\ fs[i] = es[i] /\ fs[j].payload = v
            BY <2>5, <2>9, <3>2, <4>2
          <5> QED
            BY <2>3, <5>1
        <4>3. CASE i # n /\ j # n
          BY <2>1, <2>9, <3>2, <4>3 DEF LedgerA_EntriesInv
        <4> QED
          BY <4>1, <4>2, <4>3
      <3> QED
        BY <3>1, <3>2 DEF LedgerA_EntriesInv
    <2>16. LedgerA_EncumbrancesInv(fs, ds)
      <3>1. \A i \in DOMAIN fs : fs[i].payload.encumbrance <= Len(ds)
        BY <2>1, <2>5, <2>7, <2>9, <2>14 DEF LedgerA_EncumbrancesInv
      <3>2. ASSUME NEW e \in DOMAIN ds
            PROVE  IF ds[e].status = "liquidated" THEN \E i \in DOMAIN fs :
                   LedgerA_Liquidating(fs, e) = {i}
                                                  ELSE LedgerA_Liquidating(fs, e) = {}
        <4>1. CASE e = v.encumbrance
          <5>1. e # 0 /\ e \in DOMAIN cs
            BY <2>6, <2>7
          <5>2. ds[e].status = "liquidated" /\ cs[e].status = "open"
            BY <2>7, <2>12, <4>1, <5>1
          <5>3. LedgerA_Liquidating(es, e) = {}
            BY <2>1, <5>1, <5>2 DEF LedgerA_EncumbrancesInv
          <5>4. LedgerA_Liquidating(fs, e) = {n}
            BY <2>5, <2>9, <4>1, <5>3 DEF LedgerA_Liquidating
          <5> QED
            BY <2>9, <5>2, <5>4
        <4>2. CASE e # v.encumbrance
          <5>1. ds[e] = cs[e] /\ LedgerA_Liquidating(fs, e) = LedgerA_Liquidating(es, e)
                  /\ e \in DOMAIN cs
            BY <2>5, <2>7, <2>9, <4>2 DEF LedgerA_Liquidating
          <5> QED
            BY <2>1, <2>9, <5>1 DEF LedgerA_EncumbrancesInv
        <4> QED
          BY <4>1, <4>2
      <3> QED
        BY <3>1, <3>2 DEF LedgerA_EncumbrancesInv
    <2>17. \A p \in LedgerA!Periods : ~s1[p] => LedgerA!Of(fs, p) = LedgerA!Of(es, p)
      BY <2>3, <2>5, <2>9 DEF LedgerA!Of
    <2>18. LedgerA_AgreeAll(later)
      BY <2>13, <2>15, <2>16 DEF LedgerA_AgreeAll, LedgerA_Agree, fs, d, ds
    <2> QED
      BY <2>7, <2>9, <2>17, <2>18 DEF LedgerA_Follows, fs, ds, es, cs
  <1> QED
    BY <1>1, <1>2

\* g is what the first vouchers of a batch, one after the other, make of books.
LedgerA_Runs(g, books, batch) ==
    g = [n \in 0 .. Len(batch) |-> IF n = 0 THEN books ELSE LedgerA!Posted(g[n - 1], batch[n])]

LEMMA LedgerA_RunExists ==
    ASSUME NEW books, NEW batch, NEW k \in Nat, Len(batch) = k
    PROVE  \E g : LedgerA_Runs(g, books, batch)
  <1> DEFINE Upto(g, m) ==
          g = [n \in 0 .. m |-> IF n = 0 THEN books ELSE LedgerA!Posted(g[n - 1], batch[n])]
      T == {m \in Nat : \E g : Upto(g, m)}
  <1>1. 0 \in T
    <2> DEFINE g == [n \in 0 .. 0 |-> books]
    <2>1. Upto(g, 0)
      OBVIOUS
    <2> QED
      BY <2>1
  <1>2. ASSUME NEW m \in Nat, m \in T
        PROVE  m + 1 \in T
    <2>1. PICK g : Upto(g, m)
      BY <1>2
    <2> DEFINE h == [n \in 0 .. m + 1 |-> IF n = m +
          1 THEN LedgerA!Posted(g[m], batch[m + 1]) ELSE g[n]]
               f == [n \in 0 .. m + 1 |->
                   IF n = 0 THEN books ELSE LedgerA!Posted(h[n - 1], batch[n])]
    <2>2. ASSUME NEW n \in 0 .. m + 1
          PROVE  h[n] = f[n]
      <3>1. CASE n = m + 1
        BY <3>1
      <3>2. CASE n # m + 1
        <4>1. n \in 0 .. m /\ h[n] = g[n]
          BY <3>2
        <4>2. g[n] = IF n = 0 THEN books ELSE LedgerA!Posted(g[n - 1], batch[n])
          BY <2>1, <4>1
        <4>3. n # 0 => h[n - 1] = g[n - 1]
          BY <4>1
        <4> QED
          BY <4>1, <4>2, <4>3
      <3> QED
        BY <3>1, <3>2
    <2>3. h = f
      BY <2>2
    <2>4. Upto(h, m + 1)
      BY <2>3
    <2> HIDE DEF h
    <2> QED
      BY <2>4
  <1>3. Nat \subseteq T
    <2> HIDE DEF T
    <2> QED
      BY <1>1, <1>2, NaturalsFrom
  <1> QED
    BY <1>3 DEF LedgerA_Runs

\* What post_journal may be asked: of the encumbrances and entries there are
LedgerA_Asked(v) ==
    v \in LedgerA_Vouchers /\ v.encumbrance <= Len(s4) /\ v.reverses <= Len(s2)

LEMMA LedgerA_PostKeeps ==
    ASSUME LedgerA_IInv, NEW batch, NEW k \in Nat, Len(batch) = k, DOMAIN batch = 1 .. k,
           \A n \in DOMAIN batch : LedgerA_Asked(batch[n]), LedgerA!Post(batch)
    PROVE  LedgerA_IInv'
  <1> DEFINE g == CHOOSE f : LedgerA_Runs(f, LedgerA!Books, batch)
             last == g[k]
             T == {n \in Nat : n <= k => LedgerA_AgreeAll(g[n])
                 /\ LedgerA_Follows(LedgerA!Books, g[n])}
  <1>1. LedgerA_Runs(g, LedgerA!Books, batch)
    BY LedgerA_RunExists
  <1>2. /\ \A n \in DOMAIN batch : LedgerA!Accepts(g[n - 1], batch[n])
        /\ s2' = last.entries /\ s3' = last.budget
        /\ s4' = last.encumbrances /\ UNCHANGED <<s1, s5>>
    BY DEF LedgerA!Post, LedgerA_Runs
  <1> HIDE DEF g
  <1>3. g[0] = LedgerA!Books /\ \A n \in 1 .. k : g[n] = LedgerA!Posted(g[n - 1], batch[n])
    BY <1>1 DEF LedgerA_Runs
  <1>4. /\ LedgerA!Books.entries = s2 /\ LedgerA!Books.budget = s3
        /\ LedgerA!Books.encumbrances = s4
    BY DEF LedgerA!Books
  <1>5. Len(s2) \in Nat /\ Len(s4) \in Nat
    BY DEF LedgerA_IInv, LedgerA_Agree, LedgerA_TypeInv
  <1>6. 0 \in T
    BY <1>3, <1>4, <1>5 DEF LedgerA_IInv, LedgerA_AgreeAll, LedgerA_Follows
  <1>7. ASSUME NEW n \in Nat, n \in T
        PROVE  n + 1 \in T
    <2> SUFFICES ASSUME n + 1 <= k
                 PROVE  LedgerA_AgreeAll(g[n + 1]) /\ LedgerA_Follows(LedgerA!Books, g[n + 1])
      OBVIOUS
    <2> DEFINE bs == g[n]
               v == batch[n + 1]
               later == g[n + 1]
    <2>1. LedgerA_AgreeAll(bs) /\ LedgerA_Follows(LedgerA!Books, bs)
            /\ later = LedgerA!Posted(bs, v)
      BY <1>3, <1>7
    <2>2. LedgerA!Accepts(bs, v)
      BY <1>2
    <2>3. LedgerA_Asked(v)
      OBVIOUS
    <2> HIDE DEF bs, v, later
    <2>4. Len(bs.entries) \in Nat /\ Len(bs.encumbrances) \in Nat
      BY <2>1 DEF LedgerA_AgreeAll, LedgerA_Agree, LedgerA_TypeInv
    <2>5. v \in LedgerA_Vouchers /\ v.encumbrance <= Len(bs.encumbrances)
            /\ v.reverses <= Len(bs.entries)
      BY <1>4, <1>5, <2>1, <2>3, <2>4 DEF LedgerA_Asked, LedgerA_Follows, LedgerA_Vouchers
    <2>6. LedgerA_AgreeAll(later) /\ LedgerA_Follows(bs, later)
      BY <2>1, <2>2, <2>5, LedgerA_PostedAgrees
    <2>7. Len(later.entries) \in Nat
      BY <2>6 DEF LedgerA_AgreeAll, LedgerA_Agree, LedgerA_TypeInv
    <2>8. LedgerA_Follows(LedgerA!Books, later)
      BY <1>4, <1>5, <2>1, <2>4, <2>6, <2>7 DEF LedgerA_Follows
    <2> QED
      BY <2>6, <2>8 DEF later
  <1>8. k \in T
    <2> HIDE DEF T
    <2> QED
      BY <1>6, <1>7, NaturalsFrom
  <1>9. LedgerA_AgreeAll(last) /\ LedgerA_Follows(LedgerA!Books, last)
    BY <1>8
  <1> HIDE DEF last
  <1>10. LedgerA_Agree(s2, s3, s4)'
    BY <1>2, <1>9 DEF LedgerA_AgreeAll, LedgerA_Agree, LedgerA_TypeInv, LedgerA_BudgetInv,
       LedgerA_EntriesInv, LedgerA_EncumbrancesInv
  <1>11. LedgerA_PeriodsInv'
    BY <1>2, <1>4, <1>9 DEF LedgerA_Follows, LedgerA_IInv, LedgerA_PeriodsInv, LedgerA!Of
  <1> QED
    BY <1>10, <1>11 DEF LedgerA_IInv

LEMMA LedgerA_PostPreserves ==
    ASSUME LedgerA_IInv, NEW n \in 1 .. LedgerAConfig.MaxBatch,
           NEW batch \in [1 .. n -> LedgerA!Payloads], LedgerA!Post(batch)
    PROVE  LedgerA_IInv'
  <1>1. n \in Nat /\ DOMAIN batch = 1 .. n /\ Len(batch) = n
    OBVIOUS
  <1>2. Len(s4) \in Nat /\ Len(s2) \in Nat
    BY DEF LedgerA_IInv, LedgerA_Agree, LedgerA_TypeInv
  <1>3. ASSUME NEW m \in DOMAIN batch
        PROVE  LedgerA_Asked(batch[m])
    <2> DEFINE v == batch[m]
    <2>1. v \in LedgerA!Payloads
      BY <1>1
    <2> HIDE DEF v
    <2>2. \A a \in LedgerAConfig.Amounts : a \in Int /\ -a \in Int
      BY LedgerAAssumption DEF LedgerA_Parameters
    <2>3. v.delta \in Int
      BY <2>1, <2>2 DEF LedgerA!Payloads
    <2>4. /\ v.encumbrance \in Nat /\ v.encumbrance <= Len(s4)
          /\ v.reverses = 0 /\ v.key \in LedgerAConfig.Keys /\ v.period \in LedgerA!Periods
          /\ v = [key |-> v.key, period |-> v.period, delta |-> v.delta,
                  encumbrance |-> v.encumbrance, reverses |-> v.reverses]
      BY <1>2, <2>1 DEF LedgerA!Payloads
    <2>5. v \in LedgerA_Vouchers
      BY <2>3, <2>4 DEF LedgerA_Vouchers
    <2> QED
      BY <1>2, <2>4, <2>5 DEF LedgerA_Asked, v
  <1> QED
    BY <1>1, <1>3, LedgerA_PostKeeps

LEMMA LedgerA_ReversePreserves ==
    ASSUME LedgerA_IInv, NEW i \in DOMAIN s2, NEW key \in LedgerAConfig.Keys,
           NEW p \in LedgerA!Periods,
           LedgerA!Reverse(i, key, p)
    PROVE  LedgerA_IInv'
  <1> DEFINE v == [key |-> key, period |-> p, delta |-> -s2[i].payload.delta,
                   encumbrance |-> 0, reverses |-> i]
             batch == <<v>>
  <1>1. s2 \in Seq(LedgerA_EntryRows) /\ s4 \in Seq(LedgerA_EncumbranceRows)
    BY DEF LedgerA_IInv, LedgerA_Agree, LedgerA_TypeInv
  <1>2. /\ s2[i] \in LedgerA_EntryRows /\ i \in Nat /\ i <= Len(s2)
        /\ Len(s4) \in Nat
    BY <1>1
  <1>3. LedgerA_Asked(v)
    BY <1>2 DEF LedgerA_Asked, LedgerA_Vouchers, LedgerA_EntryRows
  <1>4. Len(batch) = 1 /\ DOMAIN batch = 1 .. 1 /\ batch[1] = v /\ LedgerA!Post(batch)
    BY DEF LedgerA!Reverse
  <1> HIDE DEF v, batch
  <1>5. \A n \in DOMAIN batch : LedgerA_Asked(batch[n])
    BY <1>3, <1>4
  <1> QED
    BY <1>4, <1>5, LedgerA_PostKeeps

LEMMA LedgerA_InitInv == LedgerA!Init => LedgerA_IInv
  <1> SUFFICES ASSUME LedgerA!Init PROVE LedgerA_IInv
    OBVIOUS
  <1>1. /\ s2 = <<>> /\ s4 = <<>> /\ DOMAIN s2 = {}
        /\ DOMAIN s4 = {} /\ Len(s4) = 0
        /\ s2 \in Seq(LedgerA_EntryRows) /\ s4 \in Seq(LedgerA_EncumbranceRows)
    BY DEF LedgerA!Init
  <1>2. /\ s3.amount = 0 /\ s3.encumbered = 0 /\ s3.actual = 0
        /\ s3 \in [amount : Nat, encumbered : Int, actual : Int]
    BY DEF LedgerA!Init
  <1>3. LedgerA_OpenOnes(s4) = {}
    BY <1>1 DEF LedgerA_OpenOnes
  <1>4. LedgerA_OpenSum(s4) = 0 /\ LedgerA_ChargeSum(s2) = 0
    BY <1>1, <1>3, SumOfNone DEF LedgerA_OpenSum, LedgerA_ChargeSum
  <1>5. LedgerA_Agree(s2, s3, s4)
    BY <1>1, <1>2, <1>4
       DEF LedgerA_Agree, LedgerA_TypeInv, LedgerA_BudgetInv, LedgerA_EntriesInv,
           LedgerA_EncumbrancesInv, LedgerA!Available
  <1>6. LedgerA_PeriodsInv
    BY DEF LedgerA!Init, LedgerA_PeriodsInv
  <1> QED
    BY <1>5, <1>6 DEF LedgerA_IInv

LEMMA LedgerA_ApprovePreserves ==
    ASSUME LedgerA_IInv, NEW a \in LedgerAConfig.Amounts, LedgerA!ApproveEncumbrance(a)
    PROVE  LedgerA_IInv'
  <1> DEFINE row == [amount |-> a, status |-> "open"]
             n == Len(s4) + 1
  <1>1. /\ s2 \in Seq(LedgerA_EntryRows) /\ s4 \in Seq(LedgerA_EncumbranceRows)
        /\ s3 \in [amount : Nat, encumbered : Int, actual : Int]
        /\ LedgerA_BudgetInv(s2, s3, s4) /\ LedgerA_EntriesInv(s2)
        /\ LedgerA_EncumbrancesInv(s2, s4) /\ LedgerA_PeriodsInv
    BY DEF LedgerA_IInv, LedgerA_Agree, LedgerA_TypeInv
  <1>2. /\ LedgerA!Available(s3) >= a /\ s3' = [s3 EXCEPT !.encumbered = @ + a]
        /\ s4' = Append(s4, row) /\ UNCHANGED <<s1, s2, s5>>
    BY DEF LedgerA!ApproveEncumbrance
  <1>3. row \in LedgerA_EncumbranceRows /\ row.status = "open" /\ row.amount = a /\ a \in Nat
    BY LedgerAAssumption DEF LedgerA_Parameters, LedgerA_EncumbranceRows
  <1> HIDE DEF row
  <1>4. /\ s4' \in Seq(LedgerA_EncumbranceRows) /\ Len(s4') = n
        /\ DOMAIN s4' = DOMAIN s4 \cup {n}
        /\ s4'[n] = row
        /\ \A e \in DOMAIN s4 : s4'[e] = s4[e]
        /\ Len(s4) \in Nat
    BY <1>1, <1>2, <1>3, Appended
  <1>5. LedgerA_OpenSum(s4') = LedgerA_OpenSum(s4) + a
    BY <1>1, <1>2, <1>3, LedgerA_EncumbranceAdded
  <1>6. /\ s3'.amount = s3.amount /\ s3'.actual = s3.actual
        /\ s3'.encumbered = s3.encumbered + a
        /\ s3' \in [amount : Nat, encumbered : Int, actual : Int]
    BY <1>1, <1>2, <1>3
  <1>7. LedgerA_TypeInv(s2', s3', s4') /\ LedgerA_BudgetInv(s2', s3', s4')
    BY <1>1, <1>2, <1>3, <1>4, <1>5, <1>6 DEF LedgerA_TypeInv, LedgerA_BudgetInv,
       LedgerA!Available
  <1>8. LedgerA_EncumbrancesInv(s2', s4')
    <2>1. \A i \in DOMAIN s2 : s2[i].payload.encumbrance <= Len(s4)
                                    /\ s2[i].payload.encumbrance \in Nat
      <3>1. \A i \in DOMAIN s2 : s2[i] \in LedgerA_EntryRows
        BY <1>1, DomainsFinite
      <3> QED
        BY <1>1, <3>1 DEF LedgerA_EncumbrancesInv, LedgerA_EntryRows, LedgerA_Vouchers
    <2>2. LedgerA_Liquidating(s2, n) = {}
      BY <1>4, <2>1 DEF LedgerA_Liquidating
    <2>3. ASSUME NEW e \in DOMAIN s4'
          PROVE  IF s4'[e].status = "liquidated"
                 THEN \E i \in DOMAIN s2 : LedgerA_Liquidating(s2, e) = {i}
                 ELSE LedgerA_Liquidating(s2, e) = {}
      <3>1. CASE e = n
        BY <1>3, <1>4, <2>2, <3>1
      <3>2. CASE e # n
        BY <1>1, <1>4, <3>2 DEF LedgerA_EncumbrancesInv
      <3> QED
        BY <3>1, <3>2
    <2> QED
      BY <1>2, <1>4, <2>1, <2>3 DEF LedgerA_EncumbrancesInv
  <1> QED
    BY <1>1, <1>2, <1>7, <1>8 DEF LedgerA_IInv, LedgerA_Agree, LedgerA_PeriodsInv,
       LedgerA_TypeInv, LedgerA_BudgetInv, LedgerA_EntriesInv, LedgerA_EncumbrancesInv,
           LedgerA!Of

LEMMA LedgerA_CancelPreserves ==
    ASSUME LedgerA_IInv, NEW e \in DOMAIN s4, LedgerA!CancelEncumbrance(e)
    PROVE  LedgerA_IInv'
  <1> DEFINE row == [s4[e] EXCEPT !.status = "cancelled"]
             ds == s4'
  <1>1. /\ s2 \in Seq(LedgerA_EntryRows) /\ s4 \in Seq(LedgerA_EncumbranceRows)
        /\ s3 \in [amount : Nat, encumbered : Int, actual : Int]
        /\ LedgerA_BudgetInv(s2, s3, s4) /\ LedgerA_EntriesInv(s2)
        /\ LedgerA_EncumbrancesInv(s2, s4) /\ LedgerA_PeriodsInv
    BY DEF LedgerA_IInv, LedgerA_Agree, LedgerA_TypeInv
  <1>2. /\ s4[e].status = "open" /\ UNCHANGED <<s1, s2, s5>>
        /\ s3' = [s3 EXCEPT !.encumbered = @ - s4[e].amount]
        /\ ds = [s4 EXCEPT ![e] = row]
    BY DEF LedgerA!CancelEncumbrance
  <1>3. s4[e] \in LedgerA_EncumbranceRows
    BY <1>1
  <1>4. row \in LedgerA_EncumbranceRows /\ row.status = "cancelled" /\ s4[e].amount \in Nat
    BY <1>3 DEF LedgerA_EncumbranceRows
  <1> HIDE DEF row
  <1>5. /\ ds \in Seq(LedgerA_EncumbranceRows) /\ DOMAIN ds = DOMAIN s4
        /\ Len(ds) = Len(s4) /\ ds[e] = row
        /\ \A c \in DOMAIN s4 \ {e} : ds[c] = s4[c]
    BY <1>1, <1>2, <1>4
  <1> HIDE DEF ds
  <1>6. e \in LedgerA_OpenOnes(s4)
    BY <1>2 DEF LedgerA_OpenOnes
  <1>7. LedgerA_OpenSum(s4) = LedgerA_OpenSum(ds) + s4[e].amount
    BY <1>1, <1>4, <1>5, <1>6, LedgerA_EncumbranceEnded
  <1>8. LedgerA_OpenSum(ds) \in Int
    <2>1. IsFiniteSet(LedgerA_OpenOnes(ds)) /\ \A c \in DOMAIN ds :
            ds[c] \in LedgerA_EncumbranceRows
      BY <1>5, DomainsFinite DEF LedgerA_OpenOnes
    <2>2. \A c \in LedgerA_OpenOnes(ds) : LedgerA_AmountOf(ds)[c] \in Int
      BY <2>1 DEF LedgerA_OpenOnes, LedgerA_AmountOf, LedgerA_EncumbranceRows
    <2> QED
      BY <2>1, <2>2, SumType DEF LedgerA_OpenSum
  <1>9. /\ s3'.amount = s3.amount /\ s3'.actual = s3.actual
        /\ s3'.encumbered = s3.encumbered - s4[e].amount
        /\ s3' \in [amount : Nat, encumbered : Int, actual : Int]
    BY <1>1, <1>2, <1>4
  <1>10. LedgerA_TypeInv(s2', s3', ds) /\ LedgerA_BudgetInv(s2', s3', ds)
    <2>1. LedgerA_TypeInv(s2', s3', ds)
      BY <1>1, <1>2, <1>5, <1>9 DEF LedgerA_TypeInv
    <2>2. /\ s3.amount \in Nat /\ s3.encumbered \in Int /\ s3.actual \in Int
          /\ s3.encumbered = LedgerA_OpenSum(s4)
          /\ s3.actual = LedgerA_ChargeSum(s2) /\ s3.actual >= 0
          /\ s3.amount - s3.encumbered - s3.actual >= 0
      BY <1>1 DEF LedgerA_BudgetInv, LedgerA!Available
    <2>3. s3'.encumbered = LedgerA_OpenSum(ds)
      BY <1>4, <1>7, <1>8, <1>9, <2>2
    <2>4. s3'.amount - s3'.encumbered - s3'.actual >= 0
      BY <1>4, <1>9, <2>2
    <2> QED
      BY <1>2, <1>9, <2>1, <2>2, <2>3, <2>4 DEF LedgerA_BudgetInv, LedgerA!Available
  <1>11. LedgerA_EncumbrancesInv(s2', ds)
    BY <1>1, <1>2, <1>4, <1>5 DEF LedgerA_EncumbrancesInv
  <1> QED
    BY <1>1, <1>2, <1>10, <1>11
       DEF LedgerA_IInv, LedgerA_Agree, LedgerA_PeriodsInv, LedgerA_TypeInv, LedgerA_BudgetInv,
           LedgerA_EntriesInv, LedgerA_EncumbrancesInv, LedgerA!Of, ds

LEMMA LedgerA_BudgetPreserves ==
    ASSUME LedgerA_IInv, LedgerA!CreateBudget
    PROVE  LedgerA_IInv'
  <1>1. /\ s3 \in [amount : Nat, encumbered : Int, actual : Int] /\ s3.amount = 0
        /\ s3' = [s3 EXCEPT !.amount = LedgerAConfig.BudgetAmount]
             /\ LedgerAConfig.BudgetAmount \in Nat
        /\ UNCHANGED <<s1, s2, s4, s5>>
    BY LedgerAAssumption DEF LedgerA!CreateBudget, LedgerA_IInv, LedgerA_Agree, LedgerA_TypeInv,
       LedgerA_Parameters
  <1>2. /\ s3'.encumbered = s3.encumbered /\ s3'.actual = s3.actual
        /\ s3'.amount = LedgerAConfig.BudgetAmount
        /\ s3' \in [amount : Nat, encumbered : Int, actual : Int]
    BY <1>1
  <1>3. LedgerA_TypeInv(s2', s3', s4')
    BY <1>1, <1>2 DEF LedgerA_IInv, LedgerA_Agree, LedgerA_TypeInv
  <1>4. LedgerA_BudgetInv(s2', s3', s4')
    BY <1>1, <1>2 DEF LedgerA_IInv, LedgerA_Agree, LedgerA_BudgetInv, LedgerA!Available
  <1> QED
    BY <1>1, <1>3, <1>4
       DEF LedgerA_IInv, LedgerA_Agree, LedgerA_PeriodsInv, LedgerA_TypeInv, LedgerA_BudgetInv,
           LedgerA_EntriesInv, LedgerA_EncumbrancesInv, LedgerA!Of

LEMMA LedgerA_PeriodsPreserve ==
    ASSUME LedgerA_IInv, NEW p \in LedgerA!Periods, LedgerA!Close(p) \/ LedgerA!Reopen(p)
    PROVE  LedgerA_IInv'
  <1>1. UNCHANGED <<s2, s3, s4>>
    BY DEF LedgerA!Close, LedgerA!Reopen
  <1>2. LedgerA_Agree(s2, s3, s4)'
    BY <1>1 DEF LedgerA_IInv, LedgerA_Agree, LedgerA_TypeInv, LedgerA_BudgetInv,
       LedgerA_EntriesInv, LedgerA_EncumbrancesInv
  <1>3. LedgerA_PeriodsInv'
    BY <1>1 DEF LedgerA_IInv, LedgerA_PeriodsInv, LedgerA!Close, LedgerA!Reopen, LedgerA!Of
  <1> QED
    BY <1>2, <1>3 DEF LedgerA_IInv

LEMMA LedgerA_NextPreserves == LedgerA_IInv /\ [LedgerA!Next]_(LedgerA!vars) => LedgerA_IInv'
  <1> SUFFICES ASSUME LedgerA_IInv, [LedgerA!Next]_(LedgerA!vars) PROVE LedgerA_IInv'
    OBVIOUS
  <1>1. CASE UNCHANGED LedgerA!vars
    BY <1>1
       DEF LedgerA!vars, LedgerA_IInv, LedgerA_Agree, LedgerA_PeriodsInv, LedgerA_TypeInv,
           LedgerA_BudgetInv, LedgerA_EntriesInv, LedgerA_EncumbrancesInv, LedgerA!Of
  <1>2. CASE \E n \in 1 .. LedgerAConfig.MaxBatch : \E batch \in [1 .. n -> LedgerA!Payloads] :
          LedgerA!Post(batch)
    BY <1>2, LedgerA_PostPreserves
  <1>3. CASE \E i \in DOMAIN s2, key \in LedgerAConfig.Keys, p \in LedgerA!Periods :
          LedgerA!Reverse(i, key, p)
    BY <1>3, LedgerA_ReversePreserves
  <1>4. CASE \E p \in LedgerA!Periods : LedgerA!Close(p) \/ LedgerA!Reopen(p)
    BY <1>4, LedgerA_PeriodsPreserve
  <1>5. CASE LedgerA!CreateBudget
    BY <1>5, LedgerA_BudgetPreserves
  <1>6. CASE \E a \in LedgerAConfig.Amounts : LedgerA!ApproveEncumbrance(a)
    BY <1>6, LedgerA_ApprovePreserves
  <1>7. CASE \E e \in DOMAIN s4 : LedgerA!CancelEncumbrance(e)
    BY <1>7, LedgerA_CancelPreserves
  <1> QED
    BY <1>1, <1>2, <1>3, <1>4, <1>5, <1>6, <1>7 DEF LedgerA!Next

-----------------------------------------------------------------------------
(* Journals, budgets and periods (text10): text10/b *)

LedgerB_Parameters == LedgerBConfig.BudgetAmount \in Nat /\ LedgerBConfig.Amounts \subseteq Nat
ASSUME LedgerBAssumption == LedgerB_Parameters

LedgerB_EntryRows == [key : LedgerBConfig.Keys \cup {0}, period : LedgerBConfig.Periods,
    reverses : Nat]
LedgerB_RequestRows ==
    [amount : Nat, status : {"pending", "approved", "posted", "cancelled"}]
LedgerB_Transactions == [batch : Seq(LedgerB_EntryRows), locked : SUBSET LedgerBConfig.Periods]

LedgerB_AmountOf(rs) == [r \in DOMAIN rs |-> rs[r].amount]
LedgerB_Being(rs, status) == {r \in DOMAIN rs : rs[r].status = status}
LedgerB_TotalOf(rs, status) == SumOf(LedgerB_Being(rs, status), LedgerB_AmountOf(rs))

LedgerB_TypeInv ==
    /\ s1 \in [LedgerBConfig.Periods -> BOOLEAN] /\ s2 \in Seq(LedgerB_EntryRows)
    /\ s3 \in [LedgerBConfig.Clients -> LedgerB_Transactions]
    /\ s4 \in [encumbered : Int, actual : Int]
    /\ s5 \in Seq(LedgerB_RequestRows) /\ s6 = [p \in LedgerBConfig.Periods |-> s6[p]]

\* A transaction has locked periods that were open then and are open still. Its
\* entries reverse what was posted before it began; with a key or a reversal it
\* has but one entry.
LedgerB_Good(t) ==
    /\ \A p \in t.locked : s1[p]
    /\ \A n \in DOMAIN t.batch : t.batch[n].reverses <= Len(s2)
    /\ \A n, m \in DOMAIN t.batch : n # m => t.batch[n].key = 0 /\ t.batch[n].reverses = 0
LedgerB_PostingInv == \A c \in LedgerBConfig.Clients : LedgerB_Good(s3[c])

LedgerB_Apart(x, y) ==
    /\ x.key = y.key => x.key = 0
    /\ x.reverses = y.reverses => x.reverses = 0
LedgerB_EntriesInv ==
    /\ \A i, j \in DOMAIN s2 : i # j => LedgerB_Apart(s2[i], s2[j])
    /\ \A i \in DOMAIN s2 : s2[i].reverses < i
    /\ \A p \in LedgerBConfig.Periods : ~s1[p] => LedgerB!Of(p) = s6[p]

LedgerB_BudgetInv ==
    /\ s4.encumbered = LedgerB_TotalOf(s5, "approved")
    /\ s4.actual = LedgerB_TotalOf(s5, "posted")
    /\ LedgerB!Available >= 0

LedgerB_IInv == LedgerB_TypeInv /\ LedgerB_PostingInv /\ LedgerB_EntriesInv /\ LedgerB_BudgetInv

LEMMA LedgerB_SumsAreSums ==
    ASSUME s5 \in Seq(LedgerB_RequestRows), NEW status
    PROVE  LedgerB!Total(status) = LedgerB_TotalOf(s5, status)
  <1> DEFINE S == LedgerB_Being(s5, status)
             w == LedgerB_AmountOf(s5)
             F(g) == g = [s \in SUBSET S |-> IF s = {} THEN 0
                      ELSE s5[CHOOSE x \in s : TRUE].amount + g[s \ {CHOOSE x \in s : TRUE}]]
  <1>1. LedgerB!Total(status) = (CHOOSE g : F(g))[S]
    BY DEF LedgerB!Total, LedgerB!MapThenSumSet, LedgerB!MapThenFoldSet, LedgerB_Being
  <1>2. IsFiniteSet(S)
    BY DomainsFinite DEF LedgerB_Being
  <1>3. ASSUME NEW g PROVE F(g) <=> Sums(g, S, w)
    <2>1. \A s \in SUBSET S : s # {} => w[FirstOf(s)] = s5[FirstOf(s)].amount
      BY FirstRest DEF LedgerB_Being, LedgerB_AmountOf
    <2> HIDE DEF S, w
    <2>2. Sums(g, S, w) <=> g = [s \in SUBSET S |-> IF s = {} THEN 0
                            ELSE s5[FirstOf(s)].amount + g[RestOf(s)]]
      BY <2>1 DEF Sums
    <2> QED
      BY <2>2 DEF FirstOf, RestOf
  <1> DEFINE f == CHOOSE g : F(g)
  <1> HIDE DEF F
  <1>4. F(f)
    BY <1>2, <1>3, SumsExist
  <1> HIDE DEF f
  <1>5. f[S] = SumOf(S, w)
    BY <1>2, <1>3, <1>4, SumIs
  <1> QED
    BY <1>1, <1>5 DEF LedgerB_TotalOf, f

LEMMA LedgerB_Sound == LedgerB_IInv => LedgerB!LedgerSound
  <1> SUFFICES ASSUME LedgerB_IInv PROVE LedgerB!LedgerSound
    OBVIOUS
  <1>1. /\ s4.encumbered = LedgerB!Total("approved") /\ s4.actual = LedgerB!Total("posted")
        /\ LedgerB!Available >= 0
    BY LedgerB_SumsAreSums DEF LedgerB_IInv, LedgerB_TypeInv, LedgerB_BudgetInv
  <1>2. s4 = [encumbered |-> s4.encumbered, actual |-> s4.actual]
    BY DEF LedgerB_IInv, LedgerB_TypeInv
  <1> QED
    BY <1>1, <1>2 DEF LedgerB_IInv, LedgerB_EntriesInv, LedgerB_Apart, LedgerB!LedgerSound

LEMMA LedgerB_InitInv == LedgerB!Init => LedgerB_IInv
  <1> SUFFICES ASSUME LedgerB!Init PROVE LedgerB_IInv
    OBVIOUS
  <1>1. /\ s2 = <<>> /\ s5 = <<>> /\ DOMAIN s2 = {} /\ DOMAIN s5 = {}
        /\ Len(s2) = 0 /\ s2 \in Seq(LedgerB_EntryRows) /\ s5 \in Seq(LedgerB_RequestRows)
        /\ s4.encumbered = 0 /\ s4.actual = 0 /\ s4 \in [encumbered : Int, actual : Int]
    BY DEF LedgerB!Init
  <1>2. LedgerB!Idle \in LedgerB_Transactions /\ LedgerB!Idle.batch = <<>>
          /\ LedgerB!Idle.locked = {}
    BY DEF LedgerB!Idle, LedgerB_Transactions
  <1> HIDE DEF LedgerB!Idle
  <1>3. LedgerB_TypeInv
    BY <1>1, <1>2 DEF LedgerB!Init, LedgerB_TypeInv
  <1>4. LedgerB_PostingInv
    BY <1>2 DEF LedgerB!Init, LedgerB_PostingInv, LedgerB_Good
  <1>5. \A status : LedgerB_Being(s5, status) = {}
    BY <1>1 DEF LedgerB_Being
  <1>6. \A status : LedgerB_TotalOf(s5, status) = 0
    BY <1>5, SumOfNone DEF LedgerB_TotalOf
  <1>7. LedgerB_BudgetInv
    BY <1>1, <1>6, LedgerBAssumption DEF LedgerB_BudgetInv, LedgerB!Available,
       LedgerB_Parameters
  <1>8. LedgerB_EntriesInv
    BY <1>1 DEF LedgerB!Init, LedgerB_EntriesInv
  <1> QED
    BY <1>3, <1>4, <1>7, <1>8 DEF LedgerB_IInv

\* One transaction changes, and nothing else.
LEMMA LedgerB_OneTransaction ==
    ASSUME LedgerB_IInv, NEW c \in LedgerBConfig.Clients, NEW t \in LedgerB_Transactions,
           LedgerB_Good(t),
           s3' = [s3 EXCEPT ![c] = t],
           UNCHANGED <<s1, s2, s4, s5, s6>>
    PROVE  LedgerB_IInv'
  <1>1. LedgerB_TypeInv'
    BY DEF LedgerB_IInv, LedgerB_TypeInv
  <1>2. \A d \in LedgerBConfig.Clients : s3'[d] = IF d = c THEN t ELSE s3[d]
    BY DEF LedgerB_IInv, LedgerB_TypeInv
  <1>3. LedgerB_PostingInv'
    BY <1>2 DEF LedgerB_IInv, LedgerB_PostingInv, LedgerB_Good
  <1>4. LedgerB_EntriesInv' /\ LedgerB_BudgetInv'
    BY DEF LedgerB_IInv, LedgerB_EntriesInv, LedgerB_Apart, LedgerB!Of, LedgerB_BudgetInv,
       LedgerB!Available
  <1> QED
    BY <1>1, <1>3, <1>4 DEF LedgerB_IInv

LEMMA LedgerB_ToIdle ==
    ASSUME LedgerB_IInv, NEW c \in LedgerBConfig.Clients, s3' = [s3 EXCEPT ![c] = LedgerB!Idle],
           UNCHANGED <<s1, s2, s4, s5, s6>>
    PROVE  LedgerB_IInv'
  <1>1. LedgerB!Idle \in LedgerB_Transactions /\ LedgerB!Idle.batch = <<>>
          /\ LedgerB!Idle.locked = {}
    BY DEF LedgerB!Idle, LedgerB_Transactions
  <1> HIDE DEF LedgerB!Idle
  <1>2. LedgerB_Good(LedgerB!Idle)
    BY <1>1 DEF LedgerB_Good
  <1> QED
    BY <1>1, <1>2, LedgerB_OneTransaction

LEMMA LedgerB_SendPreserves ==
    ASSUME LedgerB_IInv, NEW c \in LedgerBConfig.Clients, NEW batch \in Seq(LedgerB_EntryRows),
           LedgerB!Send(c, batch),
           \A n \in DOMAIN batch : batch[n].reverses <= Len(s2),
           \A n, m \in DOMAIN batch : n # m => batch[n].key = 0 /\ batch[n].reverses = 0
    PROVE  LedgerB_IInv'
  <1> DEFINE t == [s3[c] EXCEPT !.batch = batch]
  <1>1. /\ s3[c] = LedgerB!Idle /\ s3' = [s3 EXCEPT ![c].batch = batch]
        /\ UNCHANGED <<s1, s2, s4, s5, s6>>
    BY DEF LedgerB!Send
  <1>2. s3[c] = [batch |-> <<>>, locked |-> {}]
    BY <1>1 DEF LedgerB!Idle
  <1>3. t \in LedgerB_Transactions /\ t.batch = batch /\ t.locked = {}
    BY <1>2 DEF LedgerB_Transactions
  <1>4. s3' = [s3 EXCEPT ![c] = t]
    BY <1>1
  <1> HIDE DEF t
  <1>5. LedgerB_Good(t)
    BY <1>3 DEF LedgerB_Good
  <1> QED
    BY <1>1, <1>3, <1>4, <1>5, LedgerB_OneTransaction

LEMMA LedgerB_LockPreserves ==
    ASSUME LedgerB_IInv, NEW c \in LedgerBConfig.Clients, LedgerB!LockOpenPeriod(c)
    PROVE  LedgerB_IInv'
  <1> DEFINE p == LedgerB!NextPeriod(c)
             old == s3[c]
             t == [old EXCEPT !.locked = @ \cup {p}]
  <1>1. /\ LedgerB!Unlocked(c) # {}
        /\ s3' = IF s1[p] THEN [s3 EXCEPT ![c].locked = @ \cup {p}]
                                 ELSE [s3 EXCEPT ![c] = LedgerB!Idle]
        /\ UNCHANGED <<s1, s2, s4, s5, s6>>
    BY DEF LedgerB!LockOpenPeriod
  <1>2. old \in LedgerB_Transactions /\ LedgerB_Good(old)
    BY DEF LedgerB_IInv, LedgerB_TypeInv, LedgerB_PostingInv
  <1>3. CASE ~s1[p]
    BY <1>1, <1>3, LedgerB_ToIdle
  <1>4. CASE s1[p]
    <2>1. s3' = [s3 EXCEPT ![c].locked = @ \cup {p}]
      BY <1>1, <1>4
    <2>2. s3' = [s3 EXCEPT ![c] = t]
      BY <2>1
    <2>3. p \in LedgerBConfig.Periods
      <3>1. LedgerB!Unlocked(c) \subseteq DOMAIN old.batch
              /\ old.batch \in Seq(LedgerB_EntryRows)
        BY <1>2 DEF LedgerB!Unlocked, LedgerB_Transactions
      <3>2. LedgerB!Unlocked(c) \subseteq Nat
        BY <3>1
      <3>3. LedgerB!Min(LedgerB!Unlocked(c)) \in LedgerB!Unlocked(c)
        <4>1. \E n \in LedgerB!Unlocked(c) : \A m \in LedgerB!Unlocked(c) : n <= m
          BY <1>1, <3>2, LeastNatural
        <4> QED
          BY <4>1 DEF LedgerB!Min
      <3>4. old.batch[LedgerB!Min(LedgerB!Unlocked(c))] \in LedgerB_EntryRows
        BY <3>1, <3>3, DomainsFinite
      <3> QED
        BY <3>4 DEF LedgerB!NextPeriod, LedgerB_EntryRows
    <2>4. t \in LedgerB_Transactions /\ t.batch = old.batch /\ t.locked = old.locked \cup {p}
      BY <1>2, <2>3 DEF LedgerB_Transactions
    <2> HIDE DEF t, p, old
    <2>5. LedgerB_Good(t)
      BY <1>2, <1>4, <2>4 DEF LedgerB_Good
    <2> QED
      BY <1>1, <2>2, <2>4, <2>5, LedgerB_OneTransaction
  <1> QED
    BY <1>3, <1>4

LEMMA LedgerB_Joined ==
    ASSUME NEW T, NEW s \in Seq(T), NEW t \in Seq(T), NEW u, u = s \o t
    PROVE  /\ u \in Seq(T) /\ Len(u) = Len(s) + Len(t) /\ Len(s) \in Nat /\ Len(t) \in Nat
           /\ DOMAIN u = 1 .. Len(s) + Len(t) /\ DOMAIN s = 1 .. Len(s)
                /\ DOMAIN t = 1 .. Len(t)
           /\ \A i \in DOMAIN s : u[i] = s[i]
           /\ \A i \in DOMAIN u \ DOMAIN s : i - Len(s) \in DOMAIN t /\ u[i] = t[i - Len(s)]
  OBVIOUS

LEMMA LedgerB_CommitPreserves ==
    ASSUME LedgerB_IInv, NEW c \in LedgerBConfig.Clients, LedgerB!Commit(c)
    PROVE  LedgerB_IInv'
  <1> DEFINE t == s3[c]
             batch == t.batch
             es == s2 \o batch
             k == Len(s2)
  <1>1. /\ LedgerB!Unlocked(c) = {} /\ s3' = [s3 EXCEPT ![c] = LedgerB!Idle]
        /\ s2' = IF \A n \in DOMAIN batch : LedgerB!Insertable(batch[n]) THEN es ELSE s2
        /\ UNCHANGED <<s1, s4, s5, s6>>
    BY DEF LedgerB!Commit
  <1>2. t \in LedgerB_Transactions /\ LedgerB_Good(t) /\ s2 \in Seq(LedgerB_EntryRows)
          /\ batch \in Seq(LedgerB_EntryRows)
    BY DEF LedgerB_IInv, LedgerB_TypeInv, LedgerB_PostingInv, LedgerB_Transactions
  <1>3. CASE ~ \A n \in DOMAIN batch : LedgerB!Insertable(batch[n])
    BY <1>1, <1>3, LedgerB_ToIdle
  <1>4. CASE \A n \in DOMAIN batch : LedgerB!Insertable(batch[n])
    <2>1. s2' = es
      BY <1>1, <1>4
    <2>2. /\ es \in Seq(LedgerB_EntryRows) /\ Len(es) = k + Len(batch) /\ k \in Nat
               /\ Len(batch) \in Nat
          /\ DOMAIN es = 1 .. k + Len(batch) /\ DOMAIN s2 = 1 .. k
          /\ \A i \in DOMAIN s2 : es[i] = s2[i]
          /\ \A i \in DOMAIN es \ DOMAIN s2 : i - k \in DOMAIN batch /\ es[i] = batch[i - k]
      BY <1>2, LedgerB_Joined
    <2>3. \A n \in DOMAIN batch : batch[n].period \in t.locked /\ batch[n] \in LedgerB_EntryRows
      BY <1>1, <1>2, DomainsFinite DEF LedgerB!Unlocked
    <2>4. \A n \in DOMAIN batch : s1[batch[n].period] /\ batch[n].reverses \in Nat
      BY <1>2, <2>3 DEF LedgerB_Good, LedgerB_EntryRows
    <2>5. ASSUME NEW n \in DOMAIN batch, NEW i \in DOMAIN s2
          PROVE  LedgerB_Apart(s2[i], batch[n]) /\ LedgerB_Apart(batch[n], s2[i])
      BY <1>4 DEF LedgerB!Insertable, LedgerB_Apart
    <2>6. \A n, m \in DOMAIN batch : n # m => LedgerB_Apart(batch[n], batch[m])
      BY <1>2 DEF LedgerB_Good, LedgerB_Apart
    <2>7. \A n \in DOMAIN batch : batch[n].reverses <= k
      BY <1>2 DEF LedgerB_Good
    <2>8. LedgerB_EntriesInv /\ LedgerB_TypeInv /\ LedgerB_PostingInv /\ LedgerB_BudgetInv
      BY DEF LedgerB_IInv
    <2> HIDE DEF es, k, batch, t
    <2>9. ASSUME NEW i \in DOMAIN es, NEW j \in DOMAIN es, i # j
          PROVE  LedgerB_Apart(es[i], es[j])
      <3>1. CASE i \in DOMAIN s2 /\ j \in DOMAIN s2
        BY <2>2, <2>8, <2>9, <3>1 DEF LedgerB_EntriesInv
      <3>2. CASE i \in DOMAIN s2 /\ j \notin DOMAIN s2
        BY <2>2, <2>5, <3>2
      <3>3. CASE i \notin DOMAIN s2 /\ j \in DOMAIN s2
        BY <2>2, <2>5, <3>3
      <3>4. CASE i \notin DOMAIN s2 /\ j \notin DOMAIN s2
        <4> DEFINE n == i - k
                   m == j - k
        <4>1. n \in DOMAIN batch /\ m \in DOMAIN batch /\ es[i] = batch[n] /\ es[j] = batch[m]
          BY <2>2, <3>4
        <4>2. n # m
          BY <2>2, <2>9
        <4> HIDE DEF n, m
        <4> QED
          BY <2>6, <4>1, <4>2
      <3> QED
        BY <3>1, <3>2, <3>3, <3>4
    <2>10. ASSUME NEW i \in DOMAIN es PROVE es[i].reverses < i
      <3>1. CASE i \in DOMAIN s2
        BY <2>2, <2>8, <3>1 DEF LedgerB_EntriesInv
      <3>2. CASE i \notin DOMAIN s2
        <4> DEFINE n == i - k
        <4>1. n \in DOMAIN batch /\ es[i] = batch[n] /\ i > k /\ i \in Nat
          BY <2>2, <3>2
        <4> HIDE DEF n
        <4>2. es[i].reverses <= k /\ es[i].reverses \in Nat
          BY <2>4, <2>7, <4>1
        <4> QED
          BY <2>2, <4>1, <4>2
      <3> QED
        BY <3>1, <3>2
    <2>11. ASSUME NEW p \in LedgerBConfig.Periods, ~s1[p]
           PROVE  {i \in DOMAIN es : es[i].period = p} = {i \in DOMAIN s2 : s2[i].period = p}
      <3>1. \A i \in DOMAIN es \ DOMAIN s2 : s1[es[i].period]
        BY <2>2, <2>4
      <3>2. DOMAIN s2 \subseteq DOMAIN es
        BY <2>2
      <3> QED
        BY <2>2, <2>11, <3>1, <3>2
    <2>12. LedgerB_EntriesInv'
      BY <1>1, <2>1, <2>8, <2>9, <2>10, <2>11 DEF LedgerB_EntriesInv, LedgerB!Of, LedgerB_Apart
    <2>13. LedgerB!Idle \in LedgerB_Transactions /\ LedgerB!Idle.batch = <<>>
             /\ LedgerB!Idle.locked = {}
      BY DEF LedgerB!Idle, LedgerB_Transactions
    <2> HIDE DEF LedgerB!Idle
    <2>14. LedgerB_TypeInv' /\ \A d \in LedgerBConfig.Clients : s3'[d] = LedgerB!Idle
             \/ s3'[d] = s3[d]
      BY <1>1, <2>1, <2>2, <2>8, <2>13 DEF LedgerB_TypeInv
    <2>15. LedgerB_PostingInv'
      <3>1. ASSUME NEW d \in LedgerBConfig.Clients PROVE LedgerB_Good(s3[d])'
        <4>1. CASE s3'[d] = LedgerB!Idle
          BY <2>13, <4>1 DEF LedgerB_Good
        <4>2. CASE s3'[d] = s3[d]
          <5>1. /\ LedgerB_Good(s3[d]) /\ s3[d].batch \in Seq(LedgerB_EntryRows)
                /\ Len(s2) <= Len(s2') /\ Len(s2) \in Nat /\ Len(s2') \in Nat
            BY <2>1, <2>2, <2>8 DEF LedgerB_PostingInv, LedgerB_TypeInv, LedgerB_Transactions, k
          <5>2. \A n \in DOMAIN s3[d].batch : s3[d].batch[n].reverses \in Nat
            <6>1. \A n \in DOMAIN s3[d].batch : s3[d].batch[n] \in LedgerB_EntryRows
              BY <5>1, DomainsFinite
            <6> QED
              BY <6>1 DEF LedgerB_EntryRows
          <5>3. \A n \in DOMAIN s3[d].batch : s3[d].batch[n].reverses <= Len(s2')
            BY <5>1, <5>2 DEF LedgerB_Good
          <5> QED
            BY <1>1, <4>2, <5>1, <5>3 DEF LedgerB_Good
        <4> QED
          BY <2>14, <4>1, <4>2
      <3> QED
        BY <3>1 DEF LedgerB_PostingInv
    <2>16. LedgerB_BudgetInv'
      BY <1>1, <2>8 DEF LedgerB_BudgetInv, LedgerB!Available
    <2> QED
      BY <2>12, <2>14, <2>15, <2>16 DEF LedgerB_IInv
  <1> QED
    BY <1>3, <1>4

LEMMA LedgerB_PeriodsPreserve ==
    ASSUME LedgerB_IInv, NEW p \in LedgerBConfig.Periods, LedgerB!ClosePeriod(p)
           \/ LedgerB!ReopenPeriod(p)
    PROVE  LedgerB_IInv'
  <1>1. /\ ~LedgerB!Locked(p) /\ UNCHANGED <<s2, s3, s4, s5>>
        /\ \A q \in LedgerBConfig.Periods : q # p => s1'[q] = s1[q] /\ s6'[q] = s6[q]
        /\ s1' \in [LedgerBConfig.Periods -> BOOLEAN]
             /\ s6' = [q \in LedgerBConfig.Periods |-> s6'[q]]
        /\ ~s1'[p] => s6'[p] = LedgerB!Of(p)
    BY DEF LedgerB_IInv, LedgerB_TypeInv, LedgerB!ClosePeriod, LedgerB!ReopenPeriod
  <1>2. LedgerB_TypeInv' /\ LedgerB_BudgetInv'
    BY <1>1 DEF LedgerB_IInv, LedgerB_TypeInv, LedgerB_BudgetInv, LedgerB!Available
  <1>3. LedgerB_PostingInv'
    <2>1. ASSUME NEW c \in LedgerBConfig.Clients, NEW q \in s3[c].locked
          PROVE  s1'[q]
      <3>1. q # p /\ q \in LedgerBConfig.Periods /\ s1[q]
        BY <1>1 DEF LedgerB!Locked, LedgerB_IInv, LedgerB_TypeInv, LedgerB_Transactions,
           LedgerB_PostingInv, LedgerB_Good
      <3> QED
        BY <1>1, <3>1
    <2> QED
      BY <1>1, <2>1 DEF LedgerB_IInv, LedgerB_PostingInv, LedgerB_Good
  <1>4. LedgerB_EntriesInv'
    BY <1>1 DEF LedgerB_IInv, LedgerB_EntriesInv, LedgerB!Of, LedgerB_Apart
  <1> QED
    BY <1>2, <1>3, <1>4 DEF LedgerB_IInv

\* Totals do not change with requests of another status.
LEMMA LedgerB_TotalInt ==
    ASSUME NEW rs \in Seq(LedgerB_RequestRows), NEW status
    PROVE  LedgerB_TotalOf(rs, status) \in Int
  <1>1. IsFiniteSet(LedgerB_Being(rs, status)) /\ \A r \in DOMAIN rs :
          rs[r] \in LedgerB_RequestRows
    BY DomainsFinite DEF LedgerB_Being
  <1>2. \A r \in LedgerB_Being(rs, status) : LedgerB_AmountOf(rs)[r] \in Int
    BY <1>1 DEF LedgerB_Being, LedgerB_AmountOf, LedgerB_RequestRows
  <1> QED
    BY <1>1, <1>2, SumType DEF LedgerB_TotalOf

LEMMA LedgerB_CreatePreserves ==
    ASSUME LedgerB_IInv, NEW a \in LedgerBConfig.Amounts, LedgerB!CreateRequest(a)
    PROVE  LedgerB_IInv'
  <1> DEFINE row == [amount |-> a, status |-> "pending"]
             n == Len(s5) + 1
             rs == s5'
  <1>1. /\ LedgerB_TypeInv /\ LedgerB_PostingInv /\ LedgerB_EntriesInv /\ LedgerB_BudgetInv
             /\ rs = Append(s5, row)
        /\ UNCHANGED <<s1, s2, s3, s4, s6>>
    BY DEF LedgerB!CreateRequest, LedgerB_IInv
  <1>2. row \in LedgerB_RequestRows /\ row.status = "pending"
    BY LedgerBAssumption DEF LedgerB_RequestRows, LedgerB_Parameters
  <1> HIDE DEF row
  <1>3. /\ rs \in Seq(LedgerB_RequestRows) /\ DOMAIN rs = DOMAIN s5 \cup {n}
        /\ rs[n] = row /\ \A r \in DOMAIN s5 : rs[r] = s5[r]
    BY <1>1, <1>2, Appended DEF LedgerB_TypeInv
  <1> HIDE DEF n, rs
  <1>4. ASSUME NEW status, status # "pending"
        PROVE  LedgerB_TotalOf(rs, status) = LedgerB_TotalOf(s5, status)
    <2>1. LedgerB_Being(rs, status) = LedgerB_Being(s5, status)
      BY <1>2, <1>3, <1>4 DEF LedgerB_Being
    <2>2. IsFiniteSet(LedgerB_Being(s5, status))
      BY <1>1, DomainsFinite DEF LedgerB_TypeInv, LedgerB_Being
    <2>3. \A r \in LedgerB_Being(s5, status) : LedgerB_AmountOf(rs)[r] = LedgerB_AmountOf(s5)[r]
      BY <1>3 DEF LedgerB_Being, LedgerB_AmountOf
    <2> QED
      BY <2>1, <2>2, <2>3, SumSame DEF LedgerB_TotalOf
  <1>5. LedgerB_BudgetInv'
    BY <1>1, <1>4 DEF LedgerB_BudgetInv, LedgerB!Available, rs
  <1>6. LedgerB_TypeInv' /\ LedgerB_PostingInv' /\ LedgerB_EntriesInv'
    BY <1>1, <1>3 DEF LedgerB_TypeInv, LedgerB_PostingInv, LedgerB_Good, LedgerB_EntriesInv,
       LedgerB_Apart, LedgerB!Of, rs
  <1> QED
    BY <1>5, <1>6 DEF LedgerB_IInv

\* A request takes its amount from the total of its old status to that of the new.
LEMMA LedgerB_StatusMoves ==
    ASSUME NEW rs \in Seq(LedgerB_RequestRows), NEW r \in DOMAIN rs, NEW old, NEW new, NEW qs,
           rs[r].status = old, old # new,
           DOMAIN qs = DOMAIN rs, \A q \in DOMAIN rs : qs[q].amount = rs[q].amount,
           qs[r].status = new, \A q \in DOMAIN rs \ {r} : qs[q].status = rs[q].status
    PROVE  /\ rs[r].amount \in Nat
           /\ LedgerB_TotalOf(rs, old) = LedgerB_TotalOf(qs, old) + rs[r].amount
           /\ LedgerB_TotalOf(qs, new) = LedgerB_TotalOf(rs, new) + rs[r].amount
           /\ \A status : status # old /\ status # new =>
                LedgerB_TotalOf(qs, status) = LedgerB_TotalOf(rs, status)
  <1>1. LedgerB_AmountOf(qs) = LedgerB_AmountOf(rs)
    BY DEF LedgerB_AmountOf
  <1>2. \A q \in DOMAIN rs : rs[q] \in LedgerB_RequestRows
    BY DomainsFinite
  <1>3. \A q \in DOMAIN rs : LedgerB_AmountOf(rs)[q] \in Int
          /\ LedgerB_AmountOf(rs)[q] = rs[q].amount
    BY <1>2 DEF LedgerB_AmountOf, LedgerB_RequestRows
  <1>4. rs[r].amount \in Nat
    BY <1>2 DEF LedgerB_RequestRows
  <1>5. \A status : LedgerB_Being(qs, status) \subseteq DOMAIN rs
          /\ LedgerB_Being(rs, status) \subseteq DOMAIN rs
    BY DEF LedgerB_Being
  <1>6. \A status : IsFiniteSet(LedgerB_Being(qs, status))
          /\ IsFiniteSet(LedgerB_Being(rs, status))
    BY <1>5, DomainsFinite
  <1>7. Adds(LedgerB_Being(rs, old), LedgerB_AmountOf(rs), LedgerB_Being(qs, old),
          LedgerB_AmountOf(qs), r)
    BY <1>1, <1>3, <1>6 DEF Adds, LedgerB_Being
  <1>8. Adds(LedgerB_Being(qs, new), LedgerB_AmountOf(qs), LedgerB_Being(rs, new),
          LedgerB_AmountOf(rs), r)
    BY <1>1, <1>3, <1>6 DEF Adds, LedgerB_Being
  <1>9. \A status : status # old /\ status # new =>
          LedgerB_Being(qs, status) = LedgerB_Being(rs, status)
    BY DEF LedgerB_Being
  <1> QED
    BY <1>1, <1>3, <1>4, <1>7, <1>8, <1>9, SumWith DEF LedgerB_TotalOf

LEMMA LedgerB_MovePreserves ==
    ASSUME LedgerB_IInv, NEW r \in DOMAIN s5,
           NEW new \in {"approved", "posted", "cancelled"}, NEW e \in Int, NEW a \in Int,
           LedgerB!Move(r, new, e, a), s5[r].status # new,
           e = (IF new = "approved" THEN s5[r].amount ELSE 0)
                 - (IF s5[r].status = "approved" THEN s5[r].amount ELSE 0),
           a = (IF new = "posted" THEN s5[r].amount ELSE 0),
           s5[r].status # "posted",
           new = "approved" => LedgerB!Available >= s5[r].amount,
           new = "posted" => s5[r].status = "approved"
    PROVE  LedgerB_IInv'
  <1> DEFINE qs == s5'
             old == s5[r].status
             x == s5[r].amount
  <1>1. /\ LedgerB_TypeInv /\ LedgerB_PostingInv /\ LedgerB_EntriesInv /\ LedgerB_BudgetInv
        /\ UNCHANGED <<s1, s2, s3, s6>>
        /\ qs = [s5 EXCEPT ![r].status = new]
        /\ s4' = [encumbered |-> s4.encumbered + e, actual |-> s4.actual + a]
    BY DEF LedgerB!Move, LedgerB_IInv
  <1>2. \A q \in DOMAIN s5 : s5[q] \in LedgerB_RequestRows
    BY <1>1, DomainsFinite DEF LedgerB_TypeInv
  <1>3. /\ qs \in Seq(LedgerB_RequestRows) /\ DOMAIN qs = DOMAIN s5
        /\ \A q \in DOMAIN s5 : qs[q].amount = s5[q].amount
        /\ qs[r].status = new /\ \A q \in DOMAIN s5 \ {r} : qs[q].status = s5[q].status
    <2> DEFINE row == [s5[r] EXCEPT !.status = new]
    <2>1. row \in LedgerB_RequestRows /\ row.status = new /\ row.amount = s5[r].amount
      BY <1>2 DEF LedgerB_RequestRows
    <2>2. qs = [s5 EXCEPT ![r] = row]
      BY <1>1
    <2> HIDE DEF row
    <2>3. s5 \in Seq(LedgerB_RequestRows)
      BY <1>1 DEF LedgerB_TypeInv
    <2>4. /\ DOMAIN qs = DOMAIN s5 /\ qs[r] = row
          /\ \A q \in DOMAIN s5 \ {r} : qs[q] = s5[q]
      BY <2>2
    <2>5. qs \in Seq(LedgerB_RequestRows)
      BY <2>1, <2>2, <2>3
    <2>6. \A q \in DOMAIN s5 : qs[q].amount = s5[q].amount
      BY <2>1, <2>4
    <2> HIDE DEF qs
    <2> QED
      BY <2>1, <2>4, <2>5, <2>6
  <1> HIDE DEF qs
  <1>4. s5 \in Seq(LedgerB_RequestRows)
    BY <1>1 DEF LedgerB_TypeInv
  <1>5. /\ x \in Nat
        /\ LedgerB_TotalOf(s5, old) = LedgerB_TotalOf(qs, old) + x
        /\ LedgerB_TotalOf(qs, new) = LedgerB_TotalOf(s5, new) + x
        /\ \A status : status # old /\ status # new =>
               LedgerB_TotalOf(qs, status) = LedgerB_TotalOf(s5, status)
    BY <1>3, <1>4, LedgerB_StatusMoves
  <1>6. \A status : LedgerB_TotalOf(qs, status) \in Int /\ LedgerB_TotalOf(s5, status) \in Int
    BY <1>3, <1>4, LedgerB_TotalInt
  <1>7. /\ s4'.encumbered = s4.encumbered + e /\ s4'.actual = s4.actual + a
        /\ s4' \in [encumbered : Int, actual : Int]
        /\ s4.encumbered \in Int /\ s4.actual \in Int
    BY <1>1 DEF LedgerB_TypeInv
  <1>8. s4'.encumbered = LedgerB_TotalOf(qs, "approved")
          /\ s4'.actual = LedgerB_TotalOf(qs, "posted")
    <2> DEFINE Was(status) == LedgerB_TotalOf(s5, status)
               Is(status) == LedgerB_TotalOf(qs, status)
    <2>1. /\ s4.encumbered = Was("approved") /\ s4.actual = Was("posted")
          /\ \A status : Was(status) \in Int /\ Is(status) \in Int
          /\ Was(old) = Is(old) + x /\ Is(new) = Was(new) + x
          /\ \A status : status # old /\ status # new => Is(status) = Was(status)
      BY <1>1, <1>5, <1>6 DEF LedgerB_BudgetInv
    <2>2. /\ e = (IF new = "approved" THEN x ELSE 0) - (IF old = "approved" THEN x ELSE 0)
          /\ a = (IF new = "posted" THEN x ELSE 0) /\ x \in Nat
          /\ old # new /\ old # "posted"
      BY <1>5
    <2>3. /\ s4'.encumbered = Was("approved") + e /\ s4'.actual = Was("posted") + a
      BY <1>7, <2>1
    <2> HIDE DEF Was, Is, old, x
    <2>4. /\ Was("approved") \in Int /\ Is("approved") \in Int
          /\ Was("posted") \in Int /\ Is("posted") \in Int
      BY <2>1
    <2>5. Is("approved") = Was("approved") + e
      <3>1. CASE new = "approved"
        BY <2>1, <2>2, <2>4, <3>1
      <3>2. CASE old = "approved"
        BY <2>1, <2>2, <2>4, <3>2
      <3>3. CASE new # "approved" /\ old # "approved"
        BY <2>1, <2>2, <2>4, <3>3
      <3> QED
        BY <3>1, <3>2, <3>3
    <2>6. Is("posted") = Was("posted") + a
      <3>1. CASE new = "posted"
        <4>1. Is("posted") = Was("posted") + x /\ a = x
          BY <2>1, <2>2, <3>1
        <4> QED
          BY <4>1
      <3>2. CASE new # "posted"
        BY <2>1, <2>2, <2>4, <3>2
      <3> QED
        BY <3>1, <3>2
    <2> QED
      BY <2>3, <2>5, <2>6 DEF Is
  <1>9. LedgerB!Available'  >= 0
    BY <1>1, <1>5, <1>7, LedgerBAssumption DEF LedgerB!Available, LedgerB_BudgetInv,
       LedgerB_Parameters
  <1>10. LedgerB_BudgetInv'
    BY <1>8, <1>9 DEF LedgerB_BudgetInv, qs
  <1>11. LedgerB_TypeInv'
    BY <1>1, <1>3, <1>7 DEF LedgerB_TypeInv, qs
  <1>12. LedgerB_PostingInv'
    BY <1>1 DEF LedgerB_PostingInv, LedgerB_Good
  <1>13. LedgerB_EntriesInv'
    BY <1>1 DEF LedgerB_EntriesInv, LedgerB_Apart, LedgerB!Of
  <1> QED
    BY <1>10, <1>11, <1>12, <1>13 DEF LedgerB_IInv

LEMMA LedgerB_NextPreserves == LedgerB_IInv /\ [LedgerB!Next]_(LedgerB!vars) => LedgerB_IInv'
  <1> SUFFICES ASSUME LedgerB_IInv, [LedgerB!Next]_(LedgerB!vars) PROVE LedgerB_IInv'
    OBVIOUS
  <1>1. CASE UNCHANGED LedgerB!vars
    BY <1>1
       DEF LedgerB!vars, LedgerB_IInv, LedgerB_TypeInv, LedgerB_PostingInv, LedgerB_Good,
           LedgerB_EntriesInv, LedgerB_Apart, LedgerB!Of, LedgerB_BudgetInv, LedgerB!Available
  <1>2. ASSUME NEW c \in LedgerBConfig.Clients, NEW e \in LedgerB!Posts \cup LedgerB!Reversals,
                 LedgerB!Send(c, <<e>>)
        PROVE  LedgerB_IInv'
    <2> DEFINE batch == <<e>>
    <2>1. s2 \in Seq(LedgerB_EntryRows) /\ DOMAIN s2 \subseteq 1 .. Len(s2)
          /\ Len(s2) \in Nat
      BY DEF LedgerB_IInv, LedgerB_TypeInv
    <2>2. e \in LedgerB_EntryRows /\ e.reverses <= Len(s2)
      BY <2>1 DEF LedgerB!Posts, LedgerB!Reversals, LedgerB_EntryRows
    <2>3. batch \in Seq(LedgerB_EntryRows) /\ DOMAIN batch = {1} /\ batch[1] = e
      BY <2>2
    <2>4. LedgerB!Send(c, batch)
      BY <1>2
    <2> HIDE DEF batch
    <2> QED
      BY <2>2, <2>3, <2>4, LedgerB_SendPreserves
  <1>3. ASSUME NEW c \in LedgerBConfig.Clients, NEW n \in 1 .. LedgerBConfig.MaxBatch,
                 NEW batch \in [1 .. n -> LedgerB!Imports],
               LedgerB!Send(c, batch)
        PROVE  LedgerB_IInv'
    <2>1. n \in Nat /\ DOMAIN batch = 1 .. n /\ Len(s2) \in Nat
      BY DEF LedgerB_IInv, LedgerB_TypeInv
    <2>2. \A m \in 1 .. n : batch[m] \in LedgerB_EntryRows /\ batch[m].key = 0
            /\ batch[m].reverses = 0
      BY DEF LedgerB!Imports, LedgerB_EntryRows
    <2>3. batch \in Seq(LedgerB_EntryRows)
      BY <2>1, <2>2
    <2> QED
      BY <1>3, <2>1, <2>2, <2>3, LedgerB_SendPreserves
  <1>4. ASSUME NEW c \in LedgerBConfig.Clients, LedgerB!LockOpenPeriod(c) \/ LedgerB!Deadlock(c)
                 \/ LedgerB!Commit(c)
        PROVE  LedgerB_IInv'
    BY <1>4, LedgerB_LockPreserves, LedgerB_CommitPreserves, LedgerB_ToIdle DEF LedgerB!Deadlock
  <1>5. CASE \E p \in LedgerBConfig.Periods : LedgerB!ClosePeriod(p) \/ LedgerB!ReopenPeriod(p)
    BY <1>5, LedgerB_PeriodsPreserve
  <1>6. CASE \E a \in LedgerBConfig.Amounts : LedgerB!CreateRequest(a)
    BY <1>6, LedgerB_CreatePreserves
  <1>7. ASSUME NEW r \in DOMAIN s5, LedgerB!ApproveRequest(r) \/ LedgerB!PostRequest(r)
                 \/ LedgerB!CancelRequest(r)
        PROVE  LedgerB_IInv'
    <2>1. s5[r].amount \in Nat
      <3>1. s5[r] \in LedgerB_RequestRows
        BY DEF LedgerB_IInv, LedgerB_TypeInv
      <3> QED
        BY <3>1 DEF LedgerB_RequestRows
    <2>2. CASE LedgerB!ApproveRequest(r)
      BY <2>1, <2>2, LedgerB_MovePreserves DEF LedgerB!ApproveRequest
    <2>3. CASE LedgerB!PostRequest(r)
      BY <2>1, <2>3, LedgerB_MovePreserves DEF LedgerB!PostRequest
    <2>4. CASE LedgerB!CancelRequest(r)
      BY <2>1, <2>4, LedgerB_MovePreserves DEF LedgerB!CancelRequest
    <2> QED
      BY <1>7, <2>2, <2>3, <2>4
  <1> QED
    BY <1>1, <1>2, <1>3, <1>4, <1>5, <1>6, <1>7 DEF LedgerB!Next

-----------------------------------------------------------------------------
(* Consent ledger (text6): text6/b *)

ConsentB_EventRows ==
    [id : ConsentBConfig.EventIds, subject : ConsentBConfig.Subjects,
     type : {"grant", "withdraw"}, at : Nat, version : Nat,
     expires : ConsentBConfig.Expiries \cup {0},
     content : [id : ConsentBConfig.EventIds, subject : ConsentBConfig.Subjects,
                type : {"grant", "withdraw"}, expires : ConsentBConfig.Expiries]]

\* The greatest number, and the event of a stream that has it
ConsentB_Latest(S) == CHOOSE x \in S : \A y \in S : x >= y
ConsentB_NewestOf(evs, s) == evs[ConsentB_Latest(ConsentB!Stream(evs, s))]
ConsentB_Earlier(evs, i) == {j \in ConsentB!Stream(evs, evs[i].subject) : j < i}
\* What ConsentSound says of event i
ConsentB_EventSound(evs, i) ==
    /\ evs[i].version = Cardinality(ConsentB_Earlier(evs, i)) + 1
    /\ evs[i].type = "withdraw" <=>
           /\ ConsentB_Earlier(evs, i) # {}
                /\ evs[ConsentB_Latest(ConsentB_Earlier(evs, i))].type = "grant"
           /\ \/ evs[ConsentB_Latest(ConsentB_Earlier(evs, i))].expires = 0
              \/ evs[i].at < evs[ConsentB_Latest(ConsentB_Earlier(evs, i))].expires
ConsentB_Agree(evs) ==
    /\ evs \in Seq(ConsentB_EventRows)
    /\ \A i, j \in DOMAIN evs : evs[i].id = evs[j].id => i = j
    /\ \A i \in DOMAIN evs : ConsentB_EventSound(evs, i)
ConsentB_RebuiltOf(evs, s) ==
    IF ConsentB!Stream(evs, s) = {} THEN ConsentB!NoRow
    ELSE [version |-> ConsentB_NewestOf(evs, s).version, last |-> ConsentB_NewestOf(evs, s).id]

\* A request that is not late is of a subject that is not erased.
ConsentB_RequestsInv ==
    /\ s6 = [r \in ConsentBConfig.Requests |-> s6[r]]
    /\ \A r \in ConsentBConfig.Requests :
           /\ s6[r].op # "idle" => s6[r].subject \in ConsentBConfig.Subjects
           /\ s6[r].op # "idle" /\ ~s6[r].late => ~s2[s6[r].subject]
ConsentB_IInv ==
    /\ s1 \in Nat /\ ConsentB_Agree(s3)
    /\ s4 = [s \in ConsentBConfig.Subjects |-> ConsentB_RebuiltOf(s3, s)]
    /\ ConsentB_RequestsInv
    /\ s2 \in [ConsentBConfig.Subjects -> BOOLEAN]
    /\ \A e \in s5 : e.of \in ConsentBConfig.Subjects /\ (s2[e.of] => e.late)

LEMMA ConsentB_Counts == \A S : ConsentB!Cardinality(S) = Cardinality(S)
  BY DEF ConsentB!Cardinality, Cardinality

LEMMA ConsentB_Names ==
    /\ \A S : ConsentB!Max(S) = ConsentB_Latest(S)
    /\ \A evs, s : ConsentB!Newest(evs, s) = ConsentB_NewestOf(evs, s)
  BY DEF ConsentB!Max, ConsentB!Newest, ConsentB_Latest, ConsentB_NewestOf

LEMMA ConsentB_Sound == ConsentB_IInv => ConsentB!ConsentSound
  <1> SUFFICES ASSUME ConsentB_IInv PROVE ConsentB!ConsentSound
    OBVIOUS
  <1>1. \A i \in DOMAIN s3 : ConsentB_EventSound(s3, i)
    BY DEF ConsentB_IInv, ConsentB_Agree
  <1>2. \A s \in ConsentBConfig.Subjects : s4[s] = ConsentB!Rebuilt(s)
    BY ConsentB_Names DEF ConsentB_IInv, ConsentB_RebuiltOf, ConsentB!Rebuilt
  <1> QED
    BY <1>1, <1>2, ConsentB_Counts, ConsentB_Names
       DEF ConsentB!ConsentSound, ConsentB_EventSound,
       ConsentB_Earlier, ConsentB_IInv, ConsentB_Agree

\* The greatest number of a stream, or of what came earlier, is one of it.
LEMMA ConsentB_MaxIn ==
    ASSUME NEW evs \in Seq(ConsentB_EventRows), NEW S \in SUBSET DOMAIN evs, S # {}
    PROVE  ConsentB_Latest(S) \in S /\ \A x \in S : x <= ConsentB_Latest(S)
  <1>1. S \subseteq Nat /\ Len(evs) \in Nat /\ \A x \in S : x <= Len(evs)
    OBVIOUS
  <1>2. PICK m \in S : \A x \in S : x <= m
    BY <1>1, GreatestNatural
  <1>3. \A x \in S : m >= x
    BY <1>1, <1>2
  <1>4. ConsentB_Latest(S) \in S /\ \A x \in S : ConsentB_Latest(S) >= x
    BY <1>3 DEF ConsentB_Latest
  <1> QED
    BY <1>1, <1>4

\* What holds of an event does not change when others are appended.
LEMMA ConsentB_SoundStays ==
    ASSUME NEW evs \in Seq(ConsentB_EventRows), NEW es \in Seq(ConsentB_EventRows),
           DOMAIN evs \subseteq DOMAIN es,
           \A i \in DOMAIN evs : es[i] = evs[i], NEW i \in DOMAIN evs,
               ConsentB_EventSound(evs, i)
    PROVE  ConsentB_EventSound(es, i)
  <1>1. ConsentB_Earlier(es, i) = ConsentB_Earlier(evs, i)
    BY DEF ConsentB_Earlier, ConsentB!Stream
  <1>2. ConsentB_Earlier(evs, i) \in SUBSET DOMAIN evs
    BY DEF ConsentB_Earlier, ConsentB!Stream
  <1>3. ConsentB_Earlier(evs, i) # {} =>
          es[ConsentB_Latest(ConsentB_Earlier(evs,
              i))] = evs[ConsentB_Latest(ConsentB_Earlier(evs,
              i))]
    BY <1>2, ConsentB_MaxIn
  <1> QED
    BY <1>1, <1>3 DEF ConsentB_EventSound

\* The version of a stream is the number of its events.
LEMMA ConsentB_Versions ==
    ASSUME NEW evs, ConsentB_Agree(evs), NEW s
    PROVE  ConsentB!Version(evs, s) = Cardinality(ConsentB!Stream(evs, s))
           /\ ConsentB!Version(evs, s) \in Nat
  <1> DEFINE S == ConsentB!Stream(evs, s)
             m == ConsentB_Latest(S)
  <1>1. evs \in Seq(ConsentB_EventRows) /\ S \in SUBSET DOMAIN evs /\ IsFiniteSet(S)
    BY DomainsFinite DEF ConsentB_Agree, ConsentB!Stream
  <1>2. CASE S = {}
    BY <1>2, FS_EmptySet DEF ConsentB!Version
  <1>3. CASE S # {}
    <2>1. m \in S /\ \A x \in S : x <= m
      BY <1>1, <1>3, ConsentB_MaxIn
    <2> HIDE DEF m
    <2>2. m \in DOMAIN evs /\ evs[m].subject = s /\ m \in Nat /\ \A x \in S : x \in Nat
      BY <1>1, <2>1 DEF ConsentB!Stream
    <2>3. ConsentB_Earlier(evs, m) = S \ {m}
      BY <2>1, <2>2 DEF ConsentB_Earlier
    <2>4. ConsentB!Version(evs, s) = Cardinality(S \ {m}) + 1
      BY <1>3, <2>2, <2>3, ConsentB_Names
         DEF ConsentB_Agree, ConsentB_EventSound, ConsentB!Version,
         ConsentB_NewestOf, m
    <2>5. Cardinality(S \ {m}) = Cardinality(S) - 1 /\ Cardinality(S) \in Nat
      BY <1>1, <2>1, FS_RemoveElement, FS_CardinalityType
    <2> QED
      BY <2>4, <2>5
  <1> QED
    BY <1>2, <1>3

ConsentB_Follows(evs, es, s) ==
    /\ Len(evs) <= Len(es) /\ \A i \in DOMAIN evs : es[i] = evs[i]
    /\ \A i \in DOMAIN es \ DOMAIN evs : es[i].subject = s

LEMMA ConsentB_AppendedAgrees ==
    ASSUME s1 \in Nat, NEW evs, ConsentB_Agree(evs), NEW c \in ConsentB!Contents, NEW x,
           ConsentB!Accepts(evs, c, x),
           NEW es, es = ConsentB!Appended(evs, c)
    PROVE  ConsentB_Agree(es) /\ ConsentB_Follows(evs, es, c.subject)
  <1> USE DEF ConsentB!Contents
  <1>1. evs \in Seq(ConsentB_EventRows) /\ Len(evs) \in Nat /\ DOMAIN evs = 1 .. Len(evs)
    BY DEF ConsentB_Agree
  <1>2. CASE ConsentB!Replayed(evs, c)
    BY <1>1, <1>2 DEF ConsentB!Appended, ConsentB_Follows
  <1>3. CASE ~ConsentB!Replayed(evs, c)
    <2> DEFINE n == Len(evs) + 1
               S == ConsentB!Stream(evs, c.subject)
               e == [id |-> c.id, subject |-> c.subject, type |-> c.type, at |-> s1,
                     version |-> ConsentB!Version(evs, c.subject) + 1,
                     expires |-> IF c.type = "grant" THEN c.expires ELSE 0, content |-> c]
    <2>1. ConsentB!Version(evs, c.subject) = Cardinality(S)
            /\ ConsentB!Version(evs, c.subject) \in Nat
      BY ConsentB_Versions
    <2>2. e \in ConsentB_EventRows
      BY <2>1 DEF ConsentB_EventRows
    <2>3. es = Append(evs, e)
      BY <1>3 DEF ConsentB!Appended
    <2>4. /\ e.id = c.id /\ e.subject = c.subject /\ e.type = c.type /\ e.at = s1
          /\ e.version = Cardinality(S) + 1
      BY <2>1
    <2> HIDE DEF e
    <2>5. /\ es \in Seq(ConsentB_EventRows) /\ Len(es) = n /\ DOMAIN es = DOMAIN evs \cup {n}
          /\ n \notin DOMAIN evs /\ es[n] = e /\ \A i \in DOMAIN evs : es[i] = evs[i]
      BY <1>1, <2>2, <2>3
    <2>6. ~ConsentB!Used(evs, c.id) /\ (c.type = "withdraw" <=> ConsentB!Valid(evs, c.subject))
      BY <1>3 DEF ConsentB!Accepts
    <2>7. \A i, j \in DOMAIN es : es[i].id = es[j].id => i = j
      BY <2>4, <2>5, <2>6 DEF ConsentB!Used, ConsentB_Agree
    <2>8. \A i \in DOMAIN evs : ConsentB_EventSound(es, i)
      BY <1>1, <2>5, ConsentB_SoundStays DEF ConsentB_Agree
    <2>9. ConsentB_EventSound(es, n)
      <3>1. \A i \in DOMAIN evs : i < n /\ ~(n < n)
        BY <1>1
      <3>2. ConsentB_Earlier(es, n) = S
        BY <2>4, <2>5, <3>1 DEF ConsentB_Earlier, ConsentB!Stream
      <3>3. S \in SUBSET DOMAIN evs
        BY DEF ConsentB!Stream
      <3>4. S # {} => es[ConsentB_Latest(S)] = evs[ConsentB_Latest(S)]
        BY <1>1, <2>5, <3>3, ConsentB_MaxIn
      <3>5. ConsentB_NewestOf(evs, c.subject) = evs[ConsentB_Latest(S)]
        BY DEF ConsentB_NewestOf
      <3> HIDE DEF S, n
      <3>6. c.type = "withdraw" <=>
                /\ S # {} /\ evs[ConsentB_Latest(S)].type = "grant"
                /\ evs[ConsentB_Latest(S)].expires = 0 \/ s1 < evs[ConsentB_Latest(S)].expires
        BY <2>6, <3>5, ConsentB_Names DEF ConsentB!Valid, S
      <3> QED
        BY <2>4, <2>5, <3>2, <3>4, <3>6 DEF ConsentB_EventSound
    <2>10. ConsentB_Agree(es)
      BY <2>5, <2>7, <2>8, <2>9 DEF ConsentB_Agree
    <2>11. ConsentB_Follows(evs, es, c.subject)
      BY <1>1, <2>4, <2>5 DEF ConsentB_Follows
    <2> QED
      BY <2>10, <2>11
  <1> QED
    BY <1>2, <1>3

\* The rows that a stream ends with, after events of subject s were appended
LEMMA ConsentB_RebuiltAfter ==
    ASSUME NEW evs, ConsentB_Agree(evs), NEW es, ConsentB_Agree(es), NEW s,
           ConsentB_Follows(evs, es, s)
    PROVE  /\ \A q : q # s => ConsentB_RebuiltOf(es, q) = ConsentB_RebuiltOf(evs, q)
           /\ es # evs => ConsentB_RebuiltOf(es, s) = [version |-> es[Len(es)].version, last |->
                es[Len(es)].id]
  <1>1. /\ evs \in Seq(ConsentB_EventRows) /\ es \in Seq(ConsentB_EventRows) /\ Len(evs) \in Nat
             /\ Len(es) \in Nat
        /\ DOMAIN evs = 1 .. Len(evs) /\ DOMAIN es = 1 .. Len(es) /\ Len(evs) <= Len(es)
        /\ \A i \in DOMAIN evs : es[i] = evs[i]
    BY DEF ConsentB_Agree, ConsentB_Follows
  <1>2. ASSUME NEW q, q # s
        PROVE  ConsentB_RebuiltOf(es, q) = ConsentB_RebuiltOf(evs, q)
    <2>1. ConsentB!Stream(es, q) = ConsentB!Stream(evs, q)
      BY <1>1, <1>2 DEF ConsentB_Follows, ConsentB!Stream
    <2>2. ConsentB!Stream(evs, q) # {} => ConsentB_NewestOf(es, q) = ConsentB_NewestOf(evs, q)
      <3>1. ConsentB!Stream(evs, q) \in SUBSET DOMAIN evs
        BY DEF ConsentB!Stream
      <3>2. ConsentB!Stream(evs, q) # {} =>
              ConsentB_Latest(ConsentB!Stream(evs, q)) \in DOMAIN evs
        BY <1>1, <3>1, ConsentB_MaxIn
      <3> QED
        BY <1>1, <2>1, <3>2 DEF ConsentB_NewestOf
    <2> QED
      BY <2>1, <2>2 DEF ConsentB_RebuiltOf
  <1>3. ASSUME es # evs
        PROVE  ConsentB_RebuiltOf(es, s) = [version |-> es[Len(es)].version, last |->
               es[Len(es)].id]
    <2>1. Len(evs) < Len(es)
      BY <1>1, <1>3
    <2>2. Len(es) \in ConsentB!Stream(es, s)
      BY <1>1, <2>1 DEF ConsentB_Follows, ConsentB!Stream
    <2>3. ConsentB!Stream(es, s) \in SUBSET DOMAIN es
      BY DEF ConsentB!Stream
    <2>4. ConsentB_Latest(ConsentB!Stream(es, s)) \in 1 .. Len(es)
            /\ Len(es) <= ConsentB_Latest(ConsentB!Stream(es, s))
      BY <1>1, <2>2, <2>3, ConsentB_MaxIn
    <2>5. ConsentB_Latest(ConsentB!Stream(es, s)) = Len(es)
      BY <1>1, <2>4
    <2> QED
      BY <2>2, <2>5 DEF ConsentB_RebuiltOf, ConsentB_NewestOf
  <1> QED
    BY <1>2, <1>3

\* The function that AppendEvents defines by recursion
ConsentB_Runs(g, evs, batch) ==
    g = [n \in 0 .. Len(batch) |-> IF n = 0 THEN evs ELSE ConsentB!Appended(g[n - 1], batch[n])]

LEMMA ConsentB_RunExists ==
    ASSUME NEW evs, NEW batch, Len(batch) \in Nat
    PROVE  \E g : ConsentB_Runs(g, evs, batch)
  <1> DEFINE Upto(g, m) ==
          g = [n \in 0 .. m |-> IF n = 0 THEN evs ELSE ConsentB!Appended(g[n - 1], batch[n])]
      T == {m \in Nat : \E g : Upto(g, m)}
  <1>1. 0 \in T
    <2> DEFINE g == [n \in 0 .. 0 |-> evs]
    <2>1. Upto(g, 0)
      OBVIOUS
    <2> QED
      BY <2>1
  <1>2. ASSUME NEW m \in Nat, m \in T
        PROVE  m + 1 \in T
    <2>1. PICK g : Upto(g, m)
      BY <1>2
    <2> DEFINE h == [n \in 0 .. m + 1 |-> IF n = m +
          1 THEN ConsentB!Appended(g[m], batch[m + 1])
                                          ELSE g[n]]
               f == [n \in 0 .. m + 1 |->
                   IF n = 0 THEN evs ELSE ConsentB!Appended(h[n - 1], batch[n])]
    <2>2. ASSUME NEW n \in 0 .. m + 1
          PROVE  h[n] = f[n]
      <3>1. CASE n = m + 1
        BY <3>1
      <3>2. CASE n # m + 1
        <4>1. n \in 0 .. m /\ h[n] = g[n]
          BY <3>2
        <4>2. g[n] = IF n = 0 THEN evs ELSE ConsentB!Appended(g[n - 1], batch[n])
          BY <2>1, <4>1
        <4>3. n # 0 => h[n - 1] = g[n - 1]
          BY <4>1
        <4> QED
          BY <4>1, <4>2, <4>3
      <3> QED
        BY <3>1, <3>2
    <2>3. h = f
      BY <2>2
    <2>4. Upto(h, m + 1)
      BY <2>3
    <2> HIDE DEF h
    <2> QED
      BY <2>4
  <1>3. Nat \subseteq T
    <2> HIDE DEF T
    <2> QED
      BY <1>1, <1>2, NaturalsFrom
  <1> QED
    BY <1>3 DEF ConsentB_Runs

LEMMA ConsentB_AppendPreserves ==
    ASSUME ConsentB_IInv, NEW r \in ConsentBConfig.Requests, NEW k \in Nat,
           NEW batch \in [1 .. k -> ConsentB!Contents],
           NEW expected, ConsentB!AppendEvents(r, batch, expected)
    PROVE  ConsentB_IInv'
  <1> DEFINE s == s6[r].subject
             g == CHOOSE f : ConsentB_Runs(f, s3, batch)
             es == g[k]
             T == {n \in Nat : n <= k => ConsentB_Agree(g[n]) /\ ConsentB_Follows(s3, g[n], s)}
  <1>1. Len(batch) = k /\ DOMAIN batch = 1 .. k
    OBVIOUS
  <1>2. ConsentB_Runs(g, s3, batch)
    BY <1>1, ConsentB_RunExists
  <1>3. /\ s6[r].op = "append"
        /\ \A n \in DOMAIN batch : batch[n].subject = s
             /\ ConsentB!Accepts(g[n - 1], batch[n], expected + n - 1)
        /\ s3' = es
        /\ s4' = IF es = s3 THEN s4
                    ELSE [s4 EXCEPT ![s] = [version |-> es[Len(es)].version, last |->
                        es[Len(es)].id]]
        /\ ConsentB!Ends(r) /\ UNCHANGED <<s1, s2, s5>>
    BY <1>1 DEF ConsentB!AppendEvents, ConsentB_Runs
  <1> HIDE DEF g
  <1>4. g[0] = s3 /\ \A n \in 1 .. k : g[n] = ConsentB!Appended(g[n - 1], batch[n])
    BY <1>1, <1>2 DEF ConsentB_Runs
  <1>5. s1 \in Nat /\ ConsentB_Agree(s3) /\ s \in ConsentBConfig.Subjects
    BY <1>3 DEF ConsentB_IInv, ConsentB_RequestsInv
  <1> HIDE DEF s
  <1>6. 0 \in T
    BY <1>4, <1>5 DEF ConsentB_Follows, ConsentB_Agree
  <1>7. ASSUME NEW n \in Nat, n \in T
        PROVE  n + 1 \in T
    <2> SUFFICES ASSUME n + 1 <= k
                 PROVE  ConsentB_Agree(g[n + 1]) /\ ConsentB_Follows(s3, g[n + 1], s)
      OBVIOUS
    <2> DEFINE a == g[n]
               b == g[n + 1]
               c == batch[n + 1]
    <2>1. ConsentB_Agree(a) /\ ConsentB_Follows(s3, a, s) /\ b = ConsentB!Appended(a, c)
      BY <1>4, <1>7
    <2>2. ConsentB!Accepts(a, c, expected + n) /\ c \in ConsentB!Contents /\ c.subject = s
      <3>1. n + 1 \in DOMAIN batch /\ (n + 1) - 1 = n /\ c \in ConsentB!Contents
        BY <1>1
      <3>2. ConsentB!Accepts(a, c, expected + (n + 1) - 1) /\ c.subject = s
        BY <1>3, <3>1
      <3> QED
        BY <3>1, <3>2 DEF ConsentB!Accepts
    <2> HIDE DEF a, b, c
    <2>3. ConsentB_Agree(b) /\ ConsentB_Follows(a, b, s)
      BY <1>5, <2>1, <2>2, ConsentB_AppendedAgrees
    <2>4. ConsentB_Follows(s3, b, s)
      BY <1>5, <2>1, <2>3 DEF ConsentB_Follows, ConsentB_Agree
    <2> QED
      BY <2>3, <2>4 DEF b
  <1>8. k \in T
    <2> HIDE DEF T
    <2> QED
      BY <1>6, <1>7, NaturalsFrom
  <1>9. ConsentB_Agree(es) /\ ConsentB_Follows(s3, es, s)
    BY <1>8
  <1> HIDE DEF es
  <1>10. s4' = [q \in ConsentBConfig.Subjects |-> ConsentB_RebuiltOf(es, q)]
    <2>1. s4 = [q \in ConsentBConfig.Subjects |-> ConsentB_RebuiltOf(s3, q)]
      BY DEF ConsentB_IInv
    <2>2. CASE es = s3
      BY <1>3, <2>1, <2>2
    <2>3. CASE es # s3
      <3>1. /\ \A q : q # s => ConsentB_RebuiltOf(es, q) = ConsentB_RebuiltOf(s3, q)
            /\ ConsentB_RebuiltOf(es, s) = [version |-> es[Len(es)].version, last |->
                 es[Len(es)].id]
        BY <1>5, <1>9, <2>3, ConsentB_RebuiltAfter
      <3> QED
        BY <1>3, <1>5, <2>1, <2>3, <3>1
    <2> QED
      BY <2>2, <2>3
  <1>11. ConsentB_RequestsInv'
    BY <1>3 DEF ConsentB_IInv, ConsentB_RequestsInv, ConsentB!Ends, ConsentB!Idle
  <1>12. ConsentB_Agree(s3)'
    <2>1. s3' = es
      BY <1>3
    <2>2. es \in Seq(ConsentB_EventRows) /\ \A i, j \in DOMAIN es : es[i].id = es[j].id => i = j
      BY <1>9 DEF ConsentB_Agree
    <2>3. \A i \in DOMAIN es : ConsentB_EventSound(es, i)
      BY <1>9 DEF ConsentB_Agree
    <2>4. \A i \in DOMAIN s3' : ConsentB_EventSound(s3, i)'
      BY <2>1, <2>3 DEF ConsentB_EventSound, ConsentB_Earlier, ConsentB!Stream
    <2> QED
      BY <2>1, <2>2, <2>4 DEF ConsentB_Agree
  <1>13. s4' = [q \in ConsentBConfig.Subjects |-> ConsentB_RebuiltOf(s3, q)']
    <2>1. s3' = es
      BY <1>3
    <2>2. ASSUME NEW q \in ConsentBConfig.Subjects
          PROVE  ConsentB_RebuiltOf(s3, q)' = ConsentB_RebuiltOf(es, q)
      BY ONLY <2>1 DEF ConsentB_RebuiltOf, ConsentB!Stream, ConsentB_NewestOf
    <2> QED
      BY <1>10, <2>2
  <1> QED
    BY <1>3, <1>5, <1>11, <1>12, <1>13 DEF ConsentB_IInv

\* The steps that leave the events alone
LEMMA ConsentB_QuietPreserves ==
    ASSUME ConsentB_IInv, UNCHANGED <<s3, s4>>, s1' \in Nat, ConsentB_RequestsInv',
           s2' \in [ConsentBConfig.Subjects -> BOOLEAN],
           \A e \in s5' : e.of \in ConsentBConfig.Subjects /\ (s2'[e.of] => e.late)
    PROVE  ConsentB_IInv'
  <1>1. ConsentB_Agree(s3)'
    BY DEF ConsentB_IInv, ConsentB_Agree, ConsentB_EventSound, ConsentB_Earlier,
           ConsentB!Stream
  <1>2. s4' = [q \in ConsentBConfig.Subjects |-> ConsentB_RebuiltOf(s3, q)']
    BY DEF ConsentB_IInv, ConsentB_RebuiltOf, ConsentB!Stream, ConsentB_NewestOf
  <1> QED
    BY <1>1, <1>2 DEF ConsentB_IInv

LEMMA ConsentB_InitInv == ConsentB!Init => ConsentB_IInv
  <1> SUFFICES ASSUME ConsentB!Init PROVE ConsentB_IInv
    OBVIOUS
  <1>1. s3 = <<>> /\ DOMAIN s3 = {} /\ \A s : ConsentB!Stream(s3, s) = {}
    BY DEF ConsentB!Init, ConsentB!Stream
  <1>2. ConsentB_Agree(s3)
    BY <1>1 DEF ConsentB_Agree
  <1>3. ConsentB_RequestsInv
    BY DEF ConsentB!Init, ConsentB_RequestsInv, ConsentB!Idle
  <1> QED
    BY <1>1, <1>2, <1>3 DEF ConsentB!Init, ConsentB_IInv, ConsentB_RebuiltOf

LEMMA ConsentB_NextPreserves == ConsentB_IInv /\ [ConsentB!Next]_(ConsentB!vars) =>
    ConsentB_IInv'
  <1> SUFFICES ASSUME ConsentB_IInv, [ConsentB!Next]_(ConsentB!vars) PROVE ConsentB_IInv'
    OBVIOUS
  <1>1. CASE UNCHANGED ConsentB!vars
    <2>1. ConsentB_RequestsInv'
      BY <1>1 DEF ConsentB!vars, ConsentB_IInv, ConsentB_RequestsInv
    <2> QED
      BY <1>1, <2>1, ConsentB_QuietPreserves DEF ConsentB!vars, ConsentB_IInv
  <1>2. ASSUME NEW r \in ConsentBConfig.Requests, NEW op \in {"append", "export"},
                 NEW s \in ConsentBConfig.Subjects,
               ConsentB!Begin(r, op, s)
        PROVE  ConsentB_IInv'
    <2>1. ConsentB_RequestsInv'
      BY <1>2 DEF ConsentB!Begin, ConsentB_IInv, ConsentB_RequestsInv
    <2> QED
      BY <1>2, <2>1, ConsentB_QuietPreserves DEF ConsentB!Begin, ConsentB_IInv
  <1>3. ASSUME NEW r \in ConsentBConfig.Requests, ConsentB!RegisterExport(r)
        PROVE  ConsentB_IInv'
    <2>1. ConsentB_RequestsInv'
      BY <1>3 DEF ConsentB!RegisterExport, ConsentB!Ends, ConsentB!Idle, ConsentB_IInv,
         ConsentB_RequestsInv
    <2>2. s6[r].subject \in ConsentBConfig.Subjects /\ (s2[s6[r].subject] => s6[r].late)
      BY <1>3 DEF ConsentB!RegisterExport, ConsentB_IInv, ConsentB_RequestsInv
    <2> QED
      BY <1>3, <2>1, <2>2, ConsentB_QuietPreserves DEF ConsentB!RegisterExport, ConsentB_IInv
  <1>4. ASSUME NEW s \in ConsentBConfig.Subjects, ConsentB!EraseSubject(s)
        PROVE  ConsentB_IInv'
    <2>1. ConsentB_RequestsInv'
      BY <1>4 DEF ConsentB!EraseSubject, ConsentB_IInv, ConsentB_RequestsInv
    <2> QED
      BY <1>4, <2>1, ConsentB_QuietPreserves DEF ConsentB!EraseSubject, ConsentB_IInv
  <1>5. CASE ConsentB!RebuildStates
    <2>1. s4' = s4
      BY <1>5, ConsentB_Names
         DEF ConsentB!RebuildStates, ConsentB_IInv, ConsentB!Rebuilt, ConsentB_RebuiltOf
    <2>2. ConsentB_RequestsInv'
      BY <1>5 DEF ConsentB!RebuildStates, ConsentB_IInv, ConsentB_RequestsInv
    <2> QED
      BY <1>5, <2>1, <2>2, ConsentB_QuietPreserves DEF ConsentB!RebuildStates, ConsentB_IInv
  <1>6. CASE ConsentB!Tick
    <2>1. ConsentB_RequestsInv'
      BY <1>6 DEF ConsentB!Tick, ConsentB_IInv, ConsentB_RequestsInv
    <2> QED
      BY <1>6, <2>1, ConsentB_QuietPreserves DEF ConsentB!Tick, ConsentB_IInv
  <1>7. ASSUME NEW r \in ConsentBConfig.Requests, NEW n \in 1 .. ConsentBConfig.MaxBatch,
                 NEW batch \in [1 .. n -> ConsentB!Contents],
               NEW expected \in 0 .. Len(s3), ConsentB!AppendEvents(r, batch, expected)
        PROVE  ConsentB_IInv'
    <2>1. n \in Nat
      OBVIOUS
    <2> QED
      BY <1>7, <2>1, ConsentB_AppendPreserves
  <1> QED
    BY <1>1, <1>2, <1>3, <1>4, <1>5, <1>6, <1>7 DEF ConsentB!Next
=============================================================================
