----------------------------- MODULE JudgedJobs -----------------------------
(***************************************************************************)
(* What a verification service promises about its jobs, whatever its       *)
(* queue, its marks and its restarts: a job is worked on by one run at a   *)
(* time; a run stores the chunks of the image in their order; it may end   *)
(* at any moment and another go on; one of them gives the one verdict,     *)
(* after which neither verdict nor chunks change; and the verdict is       *)
(* "verified" only when the stored chunks are the registered image.        *)
(***************************************************************************)
EXTENDS Naturals, Sequences, FiniteSets

CONSTANTS
    Jobs,       \* ids of jobs
    Whole       \* the chunks of the registered image

VARIABLES
    verdict,    \* "none" before the job exists, "open", or its result
    running,    \* the jobs that are being worked on
    stored,     \* the chunks stored for each job
    log         \* the verdicts in the order they were given

vars == <<verdict, running, stored, log>>

Init ==
    /\ verdict = [j \in Jobs |-> "none"]
    /\ running = {}
    /\ stored = [j \in Jobs |-> {}]
    /\ log = <<>>

Submit(j) ==
    /\ verdict[j] = "none"
    /\ verdict' = [verdict EXCEPT ![j] = "open"]
    /\ UNCHANGED <<running, stored, log>>

Begin(j) ==
    /\ verdict[j] # "none"
    /\ j \notin running
    /\ running' = running \cup {j}
    /\ UNCHANGED <<verdict, stored, log>>

\* One run ends, or all of them with their process.
End(ended) ==
    /\ running' = running \ ended
    /\ UNCHANGED <<verdict, stored, log>>

Store(j) ==
    /\ j \in running
    /\ verdict[j] = "open"
    /\ \E digest \in {"registered", "changed"} :
           stored' = [stored EXCEPT ![j] =
               @ \cup {[at |-> Cardinality(@), digest |-> digest]}]
    /\ UNCHANGED <<verdict, running, log>>

Judge(j, result) ==
    /\ j \in running
    /\ verdict[j] = "open"
    /\ result = "verified" => stored[j] = Whole
    /\ verdict' = [verdict EXCEPT ![j] = result]
    /\ log' = Append(log, [job |-> j, result |-> result])
    /\ UNCHANGED <<running, stored>>

Next ==
    \/ \E j \in Jobs :
           \/ Submit(j) \/ Begin(j) \/ Store(j)
           \/ Judge(j, "verified") \/ Judge(j, "failed")
    \/ \E ended \in SUBSET running : End(ended)

Spec == Init /\ [][Next]_vars
=============================================================================
