-------------------------- MODULE VerifyJobsProofs --------------------------
(***************************************************************************)
(* Proofs about VerifyJobs for any number of jobs, images, chunks, workers *)
(* and requests: the mark on a job excludes a second run of it, so a job   *)
(* gets one verdict and one event on the chain and is never forgotten; and *)
(* the verdict is right, whatever interruptions, restarts, errors and      *)
(* changes of the image a job has been through.                            *)
(***************************************************************************)
EXTENDS VerifyJobs, FiniteSetTheorems, TLAPS

CallerRecord == {Free} \cup [pc : {"counted"}, evidence : Evidence]
                  \cup [pc : {"enqueue", "send", "unmark"}, id : Jobs]
RunRecord == [pc : RunPcs, id : Jobs, at : 0 .. ChunkCount, hash : Seq(Contents)]

\* A caller between the setting of a mark and the send, or its undoing.
Holding(c) == caller[c].pc \in {"send", "unmark"}

(* Whoever has a job - a place in the queue, a worker, a caller of enqueue  *)
(* - has it alone, and has marked it.                                       *)
Marks ==
    /\ \A j \in Queued : j \in enqueued
    /\ \A w \in Workers : Running(w) => worker[w].id \in enqueued
    /\ \A c \in Callers : Holding(c) => caller[c].id \in enqueued
Alone ==
    /\ OneRunner
    /\ \A c \in Callers : Holding(c) =>
        /\ caller[c].id \notin Queued
        /\ RunOf(caller[c].id) = {}
    /\ \A c, d \in Callers :
        Holding(c) /\ Holding(d) /\ caller[c].id = caller[d].id => c = d

\* A run past its first step is of a job that has no verdict.
RunsUndecided ==
    \A w \in Workers : worker[w].pc \in RunPcs \ {"load", "release"} =>
        status[worker[w].id] \notin Terminal

IInv == TypeOK /\ Marks /\ Alone /\ RunsUndecided /\ VerdictMatchesRow

-----------------------------------------------------------------------------
LEMMA RunShape ==
    ASSUME TypeOK, NEW w \in Workers, Running(w)
    PROVE  worker[w] \in RunRecord
BY DEF TypeOK, Running, RunPcs, RunRecord, Idle, Gone

LEMMA CallerShape ==
    ASSUME TypeOK, NEW c \in Callers, caller[c].pc \in {"enqueue", "send", "unmark"}
    PROVE  caller[c] \in [pc : {"enqueue", "send", "unmark"}, id : Jobs]
BY DEF TypeOK, Free

\* Most steps of a run leave the job with its worker, and every mark in place.
SameRuns ==
    /\ UNCHANGED <<enqueued, queue, caller>>
    /\ worker' \in [Workers -> {Idle, Gone} \cup RunRecord]
    /\ \A w \in Workers :
        /\ Running(w)' <=> Running(w)
        /\ Running(w) => worker'[w].id = worker[w].id

LEMMA SameRunsKeep ==
    ASSUME TypeOK, Marks, Alone, SameRuns
    PROVE  Marks' /\ Alone'
<1>1. \A j : RunOf(j)' = RunOf(j)
  BY DEF SameRuns, RunOf, Running
<1>2. Queued' = Queued /\ \A c : Holding(c)' <=> Holding(c)
  BY DEF SameRuns, Queued, Holding
<1>3. Marks'
  BY <1>2 DEF Marks, SameRuns
<1>4. OneRunner'
  BY <1>1, <1>2 DEF Alone, OneRunner, SameRuns, Running
<1> QED
  BY <1>1, <1>2, <1>3, <1>4 DEF Alone, SameRuns

\* A run that moves on keeps its worker, and its record a run's.
LEMMA RunGoesOn ==
    ASSUME TypeOK, NEW w \in Workers, Running(w), NEW r \in RunRecord,
           r.id = worker[w].id, worker' = [worker EXCEPT ![w] = r],
           UNCHANGED <<enqueued, queue, caller>>
    PROVE  SameRuns
<1>1. worker' \in [Workers -> {Idle, Gone} \cup RunRecord]
  BY DEF TypeOK, RunRecord
<1>2. \A v \in Workers : worker'[v] = IF v = w THEN r ELSE worker[v]
  BY DEF TypeOK
<1>3. r.pc \in RunPcs
  BY DEF RunRecord
<1> QED
  BY <1>1, <1>2, <1>3 DEF SameRuns, Running

LEMMA GotoShape ==
    ASSUME NEW r \in RunRecord, NEW pc \in RunPcs
    PROVE  /\ Goto(r, pc) \in RunRecord
           /\ Goto(r, pc).id = r.id
           /\ Goto(r, pc).pc = pc
BY DEF RunRecord, Goto

LEMMA RereadShape ==
    ASSUME VerifyJobsAssumption, NEW r \in RunRecord
    PROVE  /\ Reread(r) \in RunRecord
           /\ Reread(r).id = r.id
           /\ Reread(r).pc \in {"begin", "fail"}
<1>1. CASE PrefixStands(r.id, r.at)
  <2>1. r.at \in Nat
    BY DEF RunRecord, VerifyJobsAssumption
  <2>2. PrefixRead(r.id, r.at) \in Seq(Contents)
    BY <2>1 DEF PrefixRead, Content, Contents
  <2> QED
    BY <1>1, <2>2 DEF Reread, RunRecord, RunPcs
<1>2. CASE ~PrefixStands(r.id, r.at)
  BY <1>2, GotoShape DEF Reread, RunPcs
<1> QED
  BY <1>1, <1>2

\* The steps of a run but for its last one.
RunSteps(w) ==
    \/ LoadJob(w)
    \/ OpenImage(w)
    \/ RereadPrefix(w)
    \/ BeginRun(w)
    \/ CancelRun(w)
    \/ StoreChunk(w)
    \/ RejectChunk(w)
    \/ StoreProgress(w)
    \/ Judge(w)
    \/ FailJob(w)
    \/ VerifyJob(w)
    \/ MarkInterrupted(w)
    \/ DatabaseError(w)

LEMMA RunStepsShape ==
    ASSUME VerifyJobsAssumption, TypeOK, NEW w \in Workers, RunSteps(w)
    PROVE  /\ SameRuns
           /\ Running(w)
           /\ \A v \in Workers \ {w} : worker'[v] = worker[v]
<1> DEFINE r == worker[w]
<1>0. Running(w)
  BY DEF RunSteps, Running, RunPcs, LoadJob, OpenImage, RereadPrefix, BeginRun,
         CancelRun, StoreChunk, RejectChunk, StoreProgress, Judge, FailJob,
         VerifyJob, MarkInterrupted, DatabaseError
<1>1. r \in RunRecord
  BY <1>0, RunShape
<1>2. UNCHANGED <<enqueued, queue, caller>>
  BY DEF RunSteps, LoadJob, OpenImage, RereadPrefix, BeginRun, CancelRun,
         StoreChunk, RejectChunk, StoreProgress, Judge, FailJob, VerifyJob,
         MarkInterrupted, DatabaseError, Decide, memory
<1>3. \E s \in RunRecord : s.id = r.id /\ worker' = [worker EXCEPT ![w] = s]
  <2>1. CASE LoadJob(w)
    <3>1. [r EXCEPT !.pc = "open", !.at = processed[r.id]] \in RunRecord
      BY <1>1 DEF RunRecord, TypeOK, RunPcs
    <3>2. [r EXCEPT !.pc = "open", !.at = processed[r.id]].id = r.id
      BY <1>1 DEF RunRecord
    <3> QED
      BY <2>1, <3>1, <3>2, <1>1, GotoShape DEF LoadJob, RunPcs
  <2>2. CASE RereadPrefix(w)
    BY <2>2, <1>1, RereadShape DEF RereadPrefix
  <2>3. CASE StoreChunk(w)
    <3> DEFINE d == Content(EvidenceOf[r.id], r.at)
               s == [r EXCEPT !.pc = "progress", !.at = r.at + 1,
                              !.hash = Append(r.hash, d)]
    <3>1. r.at + 1 \in 0 .. ChunkCount
      BY <1>1, <2>3 DEF StoreChunk, RunRecord, VerifyJobsAssumption
    <3>2. Append(r.hash, d) \in Seq(Contents)
      BY <1>1 DEF RunRecord, Content, Contents
    <3>3. s \in RunRecord /\ s.id = r.id
      BY <1>1, <3>1, <3>2 DEF RunRecord, RunPcs
    <3>4. worker' = [worker EXCEPT ![w] = s]
      BY <2>3 DEF StoreChunk
    <3> QED
      BY <3>3, <3>4
  <2>4. CASE OpenImage(w)
    BY <2>4, <1>1, GotoShape DEF OpenImage, RunPcs
  <2>5. CASE Judge(w)
    BY <2>5, <1>1, GotoShape DEF Judge, RunPcs
  <2>6. CASE StoreProgress(w)
    BY <2>6, <1>1, GotoShape DEF StoreProgress, RunPcs
  <2>7. CASE DatabaseError(w)
    BY <2>7, <1>1, GotoShape DEF DatabaseError, RunPcs
  <2>8. CASE BeginRun(w) \/ CancelRun(w) \/ RejectChunk(w)
    BY <2>8, <1>1, GotoShape DEF BeginRun, CancelRun, RejectChunk, RunPcs
  <2>9. CASE FailJob(w) \/ VerifyJob(w) \/ MarkInterrupted(w)
    BY <2>9, <1>1, GotoShape DEF FailJob, VerifyJob, MarkInterrupted, Decide, RunPcs
  <2> QED
    BY <2>1, <2>2, <2>3, <2>4, <2>5, <2>6, <2>7, <2>8, <2>9 DEF RunSteps
<1>4. SameRuns
  BY <1>0, <1>2, <1>3, RunGoesOn
<1>5. \A v \in Workers \ {w} : worker'[v] = worker[v]
  BY <1>3 DEF TypeOK
<1> QED
  BY <1>0, <1>4, <1>5

-----------------------------------------------------------------------------
(* Types.                                                                  *)

LEMMA TypeInit == VerifyJobsAssumption /\ Init => TypeOK
BY DEF VerifyJobsAssumption, Init, TypeOK, Statuses, Active, Terminal, Offsets,
       Image, Idle, Free

\* TypeOK without the rows of callers and workers.
TablesTyped ==
    /\ status \in [Jobs -> Statuses]
    /\ processed \in [Jobs -> 0 .. ChunkCount]
    /\ chunk \in [Jobs -> SUBSET Chunk]
    /\ chain \in Seq([job : Jobs, result : Results])
    /\ file \in [Evidence -> Image]
HistoryTyped == struck \subseteq Jobs /\ dirty \subseteq Jobs /\ upsets \in 0 .. MaxUpsets
MemoryTyped ==
    /\ process \in {"down", "starting", "up", "stopping"}
    /\ starting \subseteq Jobs
    /\ enqueued \subseteq Jobs
    /\ queue \in Seq(Jobs)
    /\ caller \in [Callers -> CallerRecord]
WorkersTyped == worker \in [Workers -> {Idle, Gone} \cup RunRecord]

LEMMA TypeParts ==
    /\ TypeOK => TablesTyped /\ HistoryTyped /\ MemoryTyped /\ WorkersTyped
    /\ TablesTyped' /\ HistoryTyped' /\ MemoryTyped' /\ WorkersTyped' => TypeOK'
BY DEF TypeOK, TablesTyped, HistoryTyped, MemoryTyped, WorkersTyped, CallerRecord,
       RunRecord

LEMMA RunStepsType ==
    ASSUME VerifyJobsAssumption, TypeOK, NEW w \in Workers, RunSteps(w)
    PROVE  TypeOK'
<1> DEFINE j == worker[w].id
<1>1. TablesTyped /\ HistoryTyped /\ MemoryTyped /\ WorkersTyped
  BY TypeParts
<1>2. SameRuns /\ Running(w)
  BY RunStepsShape
<1>3. worker[w] \in RunRecord /\ j \in Jobs /\ worker[w].at \in 0 .. ChunkCount
  BY <1>2, RunShape DEF RunRecord
<1>4. WorkersTyped'
  BY <1>2 DEF SameRuns, WorkersTyped
<1>5. MemoryTyped'
  BY <1>1 DEF MemoryTyped, RunSteps, LoadJob, OpenImage, RereadPrefix, BeginRun,
     CancelRun, StoreChunk, RejectChunk, StoreProgress, Judge, FailJob, VerifyJob,
     MarkInterrupted, DatabaseError, Decide, memory
<1>6. HistoryTyped'
  BY <1>1, <1>3, VerifyJobsAssumption DEF HistoryTyped, RunSteps, LoadJob, OpenImage,
     RereadPrefix, BeginRun, CancelRun, StoreChunk, RejectChunk, StoreProgress, Judge,
     FailJob, VerifyJob, MarkInterrupted, DatabaseError, Decide, history, Upset,
     VerifyJobsAssumption
<1>7. TablesTyped'
  <2>1. CASE StoreChunk(w)
    <3>1. [at |-> worker[w].at, digest |-> Content(EvidenceOf[j], worker[w].at)] \in Chunk
      BY <1>3, <2>1 DEF StoreChunk, Chunk, Offsets, Content, Contents,
         VerifyJobsAssumption
    <3> QED
      BY <1>1, <1>3, <2>1, <3>1 DEF StoreChunk, TablesTyped
  <2>2. CASE StoreProgress(w)
    BY <1>1, <1>3, <2>2 DEF StoreProgress, Progress, TablesTyped
  <2>3. CASE FailJob(w) \/ VerifyJob(w)
    <3>1. PICK r \in Results : Decide(w, r)
      BY <2>3 DEF FailJob, VerifyJob, Results, Terminal
    <3>2. [job |-> j, result |-> r] \in [job : Jobs, result : Results]
      BY <1>3
    <3>3. chain' \in Seq([job : Jobs, result : Results])
      BY <1>1, <3>1, <3>2 DEF Decide, TablesTyped
    <3>4. status' \in [Jobs -> Statuses]
      BY <1>1, <1>3, <3>1 DEF Decide, TablesTyped, Statuses, Results
    <3> QED
      BY <1>1, <3>1, <3>3, <3>4 DEF Decide, TablesTyped
  <2>4. CASE BeginRun(w) \/ MarkInterrupted(w)
    BY <1>1, <1>3, <2>4 DEF BeginRun, MarkInterrupted, TablesTyped, Statuses, Active
  <2>5. CASE LoadJob(w) \/ OpenImage(w) \/ RereadPrefix(w) \/ CancelRun(w)
    BY <1>1, <2>5 DEF LoadJob, OpenImage, RereadPrefix, CancelRun, TablesTyped, tables
  <2>6. CASE RejectChunk(w) \/ Judge(w) \/ DatabaseError(w)
    BY <1>1, <2>6 DEF RejectChunk, Judge, DatabaseError, TablesTyped, tables
  <2> QED
    BY <2>1, <2>2, <2>3, <2>4, <2>5, <2>6 DEF RunSteps
<1> QED
  BY <1>4, <1>5, <1>6, <1>7, TypeParts

LEMMA CallerStepType ==
    ASSUME TypeOK, NEW c \in Callers, CallerStep(c)
    PROVE  TypeOK'
<1>1. TablesTyped /\ HistoryTyped /\ MemoryTyped /\ WorkersTyped
  BY TypeParts
<1>2. caller[c].id \in Jobs
  BY CallerShape DEF CallerStep, EnqueueMark, EnqueueSend, EnqueueUnmark
<1>3. Enqueuing("send", caller[c].id) \in CallerRecord
      /\ Enqueuing("unmark", caller[c].id) \in CallerRecord
      /\ Free \in CallerRecord
  BY <1>2 DEF Enqueuing, CallerRecord
<1>4. TablesTyped' /\ HistoryTyped' /\ WorkersTyped'
  BY <1>1, <1>2 DEF CallerStep, EnqueueMark, EnqueueSend, EnqueueUnmark, TablesTyped,
     HistoryTyped, WorkersTyped, tables, history
<1>5. MemoryTyped'
  <2>1. CASE EnqueueMark(c)
    BY <1>1, <1>2, <1>3, <2>1 DEF EnqueueMark, MemoryTyped
  <2>2. CASE EnqueueSend(c)
    <3>1. queue' \in Seq(Jobs)
      BY <1>1, <1>2, <2>2 DEF EnqueueSend, MemoryTyped
    <3>2. UNCHANGED <<process, starting, enqueued>>
      BY <2>2 DEF EnqueueSend
    <3>3. caller' = [caller EXCEPT ![c] = Free]
          \/ caller' = [caller EXCEPT ![c] = Enqueuing("unmark", caller[c].id)]
      BY <2>2 DEF EnqueueSend, Dropped
    <3>4. caller' \in [Callers -> CallerRecord]
      BY <1>1, <1>3, <3>3 DEF MemoryTyped
    <3> QED
      BY <1>1, <3>1, <3>2, <3>4 DEF MemoryTyped
  <2>3. CASE EnqueueUnmark(c)
    BY <1>1, <1>2, <1>3, <2>3 DEF EnqueueUnmark, MemoryTyped
  <2> QED
    BY <2>1, <2>2, <2>3 DEF CallerStep
<1> QED
  BY <1>4, <1>5, TypeParts

LEMMA RequestStepType ==
    ASSUME TypeOK, NEW c \in Requests, RequestStep(c)
    PROVE  TypeOK'
<1>1. TablesTyped /\ HistoryTyped /\ MemoryTyped /\ WorkersTyped
  BY TypeParts
<1>2. c \in Callers
  BY DEF Callers
<1>3. Free \in CallerRecord
  BY DEF CallerRecord
<1>4. \A j \in Jobs : Enqueuing("enqueue", j) \in CallerRecord
  BY DEF Enqueuing, CallerRecord
<1>5. CASE CreateJob(c)
  BY <1>1, <1>2, <1>4, <1>5, TypeParts DEF CreateJob, TablesTyped, MemoryTyped,
     HistoryTyped, WorkersTyped, history, Statuses, Active
<1>6. CASE FailCreate(c)
  BY <1>1, <1>2, <1>3, <1>6, TypeParts DEF FailCreate, TablesTyped, MemoryTyped,
     HistoryTyped, WorkersTyped, history, tables
<1>7. ASSUME NEW e \in Evidence, CountActive(c, e) PROVE TypeOK'
  <2>1. Counted(e) \in CallerRecord
    BY DEF Counted, CallerRecord
  <2> QED
    BY <1>1, <1>2, <1>7, <2>1, TypeParts DEF CountActive, TablesTyped, MemoryTyped,
       HistoryTyped, WorkersTyped, history, tables
<1>8. ASSUME NEW j \in Jobs, ResumeJob(c, j) PROVE TypeOK'
  BY <1>1, <1>2, <1>4, <1>8, TypeParts DEF ResumeJob, TablesTyped, MemoryTyped,
     HistoryTyped, WorkersTyped, history, tables
<1> QED
  BY <1>5, <1>6, <1>7, <1>8 DEF RequestStep

LEMMA WorkerEndsType ==
    ASSUME VerifyJobsAssumption, TypeOK, NEW w \in Workers,
           Receive(w) \/ Release(w) \/ Leave(w)
    PROVE  TypeOK'
<1>1. TablesTyped /\ HistoryTyped /\ MemoryTyped /\ WorkersTyped
  BY TypeParts
<1>2. CASE Receive(w)
  <2>1. Head(queue) \in Jobs /\ Tail(queue) \in Seq(Jobs)
    BY <1>1, <1>2 DEF Receive, MemoryTyped
  <2>2. Run(Head(queue)) \in RunRecord
    BY <2>1 DEF Run, RunRecord, RunPcs, VerifyJobsAssumption
  <2> QED
    BY <1>1, <1>2, <2>1, <2>2, TypeParts DEF Receive, TablesTyped, MemoryTyped,
       HistoryTyped, WorkersTyped, history, tables
<1>3. CASE Release(w)
  BY <1>1, <1>3, TypeParts DEF Release, TablesTyped, MemoryTyped, HistoryTyped,
     WorkersTyped, history, tables
<1>4. CASE Leave(w)
  BY <1>1, <1>4, TypeParts DEF Leave, TablesTyped, MemoryTyped, HistoryTyped,
     WorkersTyped, history, tables, memory
<1> QED
  BY <1>2, <1>3, <1>4

LEMMA ProcessStepType ==
    ASSUME VerifyJobsAssumption, TypeOK, ProcessStep
    PROVE  TypeOK'
<1>1. TablesTyped /\ HistoryTyped /\ MemoryTyped /\ WorkersTyped
  BY TypeParts
<1>2. CASE Start
  BY <1>1, <1>2, TypeParts DEF Start, Restarted, TablesTyped, MemoryTyped, HistoryTyped,
     WorkersTyped, Statuses, Active
<1>3. CASE Serve \/ Stop
  BY <1>1, <1>3, TypeParts DEF Serve, Stop, TablesTyped, MemoryTyped, HistoryTyped,
     WorkersTyped, history, tables
<1>4. CASE Exit \/ Crash
  <2>1. Ended
    BY <1>4 DEF Exit, Crash
  <2>2. upsets' \in 0 .. MaxUpsets
    BY <1>1, <1>4 DEF Exit, Crash, Upset, HistoryTyped, VerifyJobsAssumption
  <2>3. MemoryTyped' /\ WorkersTyped'
    BY <2>1 DEF Ended, MemoryTyped, WorkersTyped, CallerRecord
  <2> QED
    BY <1>1, <2>1, <2>2, <2>3, TypeParts DEF Ended, TablesTyped, HistoryTyped, tables
<1>5. ASSUME NEW j \in Jobs, Requeue(j) PROVE TypeOK'
  <2>1. Enqueuing("enqueue", j) \in CallerRecord /\ Starter \in Callers
    BY DEF Enqueuing, CallerRecord, Callers
  <2> QED
    BY <1>1, <1>5, <2>1, TypeParts DEF Requeue, TablesTyped, MemoryTyped, HistoryTyped,
       WorkersTyped, history, tables
<1> QED
  BY <1>2, <1>3, <1>4, <1>5 DEF ProcessStep

LEMMA DisturbType ==
    ASSUME VerifyJobsAssumption, TypeOK, NEW e \in Evidence, Disturb(e)
    PROVE  TypeOK'
<1>1. TablesTyped /\ HistoryTyped /\ MemoryTyped /\ WorkersTyped
  BY TypeParts
<1>2. file' \in [Evidence -> Image]
  <2> DEFINE image == [file[e] EXCEPT !.touched = TRUE]
  <2>1. file \in [Evidence -> Image] /\ image \in Image
    BY <1>1 DEF TablesTyped, Image
  <2>2. [image EXCEPT !.named = ~image.named] \in Image
    BY <2>1 DEF Image
  <2>3. \A k \in Offsets :
            [image EXCEPT !.changed = image.changed \cup {k}] \in Image
    BY <2>1 DEF Image
  <2>4. \A n \in 0 .. ChunkCount + 1 :
            [image EXCEPT !.size = n, !.changed =
                image.changed \cup {k \in Offsets : k >= n}] \in Image
    BY <2>1 DEF Image
  <2>5. \E i \in Image : file' = [file EXCEPT ![e] = i]
    BY <2>1, <2>2, <2>3, <2>4 DEF Disturb
  <2> QED
    BY <2>1, <2>5
<1>3. upsets' \in 0 .. MaxUpsets
  <2>1. Upset
    BY DEF Disturb
  <2> QED
    BY <1>1, <2>1 DEF Upset, HistoryTyped, VerifyJobsAssumption
<1> QED
  BY <1>1, <1>2, <1>3, TypeParts DEF Disturb, TablesTyped, MemoryTyped, HistoryTyped,
     WorkersTyped, memory, tables

-----------------------------------------------------------------------------
(* Marks and runs.                                                         *)

\* When the holders of jobs and the marks stay as they are, so do the facts.
SameHolders ==
    /\ UNCHANGED <<enqueued, queue, worker>>
    /\ \A c \in Callers :
        /\ Holding(c)' <=> Holding(c)
        /\ Holding(c) => caller'[c].id = caller[c].id

LEMMA SameHoldersKeep ==
    ASSUME Marks, Alone, SameHolders
    PROVE  Marks' /\ Alone'
<1>1. Queued' = Queued /\ \A j : RunOf(j)' = RunOf(j)
  BY DEF SameHolders, Queued, RunOf, Running
<1>2. Marks'
  BY <1>1 DEF Marks, SameHolders, Running
<1>3. OneRunner'
  BY <1>1 DEF Alone, OneRunner, SameHolders, Running
<1> QED
  BY <1>1, <1>2, <1>3 DEF Alone, SameHolders

LEMMA EnqueueMarkKeeps ==
    ASSUME TypeOK, Marks, Alone, NEW c \in Callers, EnqueueMark(c)
    PROVE  Marks' /\ Alone'
<1> DEFINE j == caller[c].id
<1>1. j \in Jobs /\ ~Holding(c)
  BY CallerShape DEF EnqueueMark, Holding
<1>2. CASE Marked(j)
  <2>1. /\ caller' = [caller EXCEPT ![c] = Free]
        /\ UNCHANGED <<enqueued, queue, worker>>
    BY <1>2 DEF EnqueueMark
  <2>2. SameHolders
    BY <1>1, <2>1 DEF SameHolders, Holding, TypeOK, Free
  <2> QED
    BY <2>2, SameHoldersKeep
<1>3. CASE ~Marked(j)
  <2>1. /\ enqueued' = enqueued \cup {j}
        /\ UNCHANGED <<queue, worker>>
        /\ caller' = [caller EXCEPT ![c] = Enqueuing("send", j)]
    BY <1>3 DEF EnqueueMark
  <2>2. Queued' = Queued /\ \A i : RunOf(i)' = RunOf(i)
    BY <2>1 DEF Queued, RunOf, Running
  <2>3. \A d \in Callers : /\ Holding(d)' <=> Holding(d) \/ d = c
                           /\ caller'[d].id = IF d = c THEN j ELSE caller[d].id
    BY <2>1 DEF Holding, TypeOK, Enqueuing
  <2>4. /\ j \notin Queued
        /\ RunOf(j) = {}
        /\ \A d \in Callers : Holding(d) => caller[d].id # j
    BY <1>3 DEF Marked, Marks, RunOf
  <2>5. Marks'
    BY <2>1, <2>2, <2>3 DEF Marks, Running
  <2>6. OneRunner'
    BY <2>1, <2>2 DEF Alone, OneRunner, Running
  <2> QED
    BY <2>2, <2>3, <2>4, <2>5, <2>6 DEF Alone
<1> QED
  BY <1>2, <1>3

LEMMA EnqueueSendKeeps ==
    ASSUME VerifyJobsAssumption, TypeOK, Marks, Alone, NEW c \in Callers, EnqueueSend(c)
    PROVE  Marks' /\ Alone'
<1> DEFINE j == caller[c].id
<1>1. j \in Jobs /\ Holding(c)
  BY CallerShape DEF EnqueueSend, Holding
<1> /\ Len(queue) \in Nat
    /\ QueueCapacity \in Nat
    /\ Len(queue) < QueueCapacity \/ Len(queue) >= QueueCapacity
  BY DEF TypeOK, VerifyJobsAssumption
<1>2. CASE Len(queue) < QueueCapacity
  <2>1. /\ queue' = Append(queue, j)
        /\ UNCHANGED <<enqueued, worker>>
        /\ caller' = [caller EXCEPT ![c] = Free]
    BY <1>2 DEF EnqueueSend
  <2>2. Queued' = Queued \cup {j} /\ \A i : RunOf(i)' = RunOf(i)
    <3>1. /\ DOMAIN queue' = DOMAIN queue \cup {Len(queue) + 1}
          /\ \A i \in DOMAIN queue : queue'[i] = queue[i]
          /\ queue'[Len(queue) + 1] = j
      BY <2>1 DEF TypeOK
    <3>2. Queued' = Queued \cup {j}
      BY <3>1 DEF Queued
    <3> QED
      BY <2>1, <3>2 DEF RunOf, Running
  <2>3. \A d \in Callers : /\ Holding(d)' <=> Holding(d) /\ d # c
                           /\ d # c => caller'[d] = caller[d]
    BY <2>1 DEF Holding, TypeOK, Free
  <2>4. Marks'
    BY <1>1, <2>1, <2>2, <2>3 DEF Marks, Running
  <2>5. j \notin Queued /\ RunOf(j) = {}
    BY <1>1 DEF Alone
  <2>6. \A i, k \in DOMAIN queue' : queue'[i] = queue'[k] => i = k
    BY <2>1, <2>5 DEF Alone, OneRunner, Queued, TypeOK
  <2>7. OneRunner'
    BY <2>1, <2>2, <2>5, <2>6 DEF Alone, OneRunner, Running
  <2>8. \A d \in Callers : Holding(d)' => caller'[d].id # j
    BY <1>1, <2>3 DEF Alone
  <2> QED
    BY <2>2, <2>3, <2>7, <2>4, <2>8 DEF Alone
<1>3. CASE Len(queue) >= QueueCapacity
  <2>1. /\ caller' = [caller EXCEPT ![c] = Enqueuing("unmark", j)]
        /\ UNCHANGED <<queue, enqueued, worker>>
    BY <1>3 DEF EnqueueSend, Dropped
  <2>2. SameHolders
    BY <1>1, <2>1 DEF SameHolders, Holding, TypeOK, Enqueuing
  <2> QED
    BY <2>2, SameHoldersKeep
<1> QED
  BY <1>2, <1>3 DEF EnqueueSend

LEMMA EnqueueUnmarkKeeps ==
    ASSUME TypeOK, Marks, Alone, NEW c \in Callers, EnqueueUnmark(c)
    PROVE  Marks' /\ Alone'
<1> DEFINE j == caller[c].id
<1>1. j \in Jobs /\ Holding(c)
  BY CallerShape DEF EnqueueUnmark, Holding
<1>2. /\ enqueued' = enqueued \ {j}
      /\ UNCHANGED <<queue, worker>>
      /\ caller' = [caller EXCEPT ![c] = Free]
  BY DEF EnqueueUnmark
<1>3. Queued' = Queued /\ \A i : RunOf(i)' = RunOf(i)
  BY <1>2 DEF Queued, RunOf, Running
<1>4. \A d \in Callers : /\ Holding(d)' <=> Holding(d) /\ d # c
                         /\ d # c => caller'[d] = caller[d]
  BY <1>2 DEF Holding, TypeOK, Free
<1>5. j \notin Queued /\ RunOf(j) = {}
  BY <1>1 DEF Alone
<1>6. Marks'
  BY <1>1, <1>2, <1>3, <1>4, <1>5 DEF Marks, Alone, RunOf, Running
<1>7. OneRunner'
  BY <1>2, <1>3 DEF Alone, OneRunner, Running
<1> QED
  BY <1>3, <1>4, <1>6, <1>7 DEF Alone

LEMMA ReceiveKeeps ==
    ASSUME VerifyJobsAssumption, TypeOK, Marks, Alone, NEW w \in Workers, Receive(w)
    PROVE  Marks' /\ Alone'
<1> DEFINE j == queue[1]
<1>1. j \in Queued /\ j = Head(queue) /\ queue \in Seq(Jobs) /\ Len(queue) > 0
  BY DEF Receive, Queued, TypeOK
<1>2. /\ worker' = [worker EXCEPT ![w] = Run(j)]
      /\ queue' = Tail(queue)
      /\ UNCHANGED <<enqueued, caller>>
      /\ ~Running(w)
  BY <1>1 DEF Receive, Running, Idle, RunPcs
<1>3. \A v \in Workers : /\ Running(v)' <=> Running(v) \/ v = w
                         /\ v # w => worker'[v] = worker[v]
                         /\ worker'[w].id = j
  BY <1>2 DEF Running, Run, RunPcs, TypeOK
<1>4. \A i \in DOMAIN queue' : i + 1 \in DOMAIN queue /\ queue'[i] = queue[i + 1]
  BY <1>1, <1>2
<1>5. Queued' \subseteq Queued /\ j \notin Queued'
  <2>1. Queued' \subseteq Queued
    BY <1>4 DEF Queued
  <2>2. ASSUME NEW i \in DOMAIN queue', queue'[i] = j PROVE FALSE
    <3>1. 1 \in DOMAIN queue /\ i \in Nat \ {0}
      BY <1>1, <1>2
    <3>2. i + 1 = 1
      BY <1>4, <2>2, <3>1 DEF Alone, OneRunner
    <3> QED
      BY <3>1, <3>2
  <2> QED
    BY <2>1, <2>2 DEF Queued
<1>6. RunOf(j) = {}
  BY <1>1 DEF Alone, OneRunner
<1>7. \A i : RunOf(i)' = IF i = j THEN RunOf(i) \cup {w} ELSE RunOf(i)
  BY <1>2, <1>3 DEF RunOf
<1>8. Marks'
  BY <1>1, <1>2, <1>3, <1>5 DEF Marks, Holding
<1>9. OneRunner'
  <2>1. \A u, v \in Workers :
           Running(u)' /\ Running(v)' /\ worker'[u].id = worker'[v].id => u = v
    BY <1>2, <1>3, <1>6 DEF Alone, OneRunner, RunOf
  <2>2. \A i, k \in DOMAIN queue' : queue'[i] = queue'[k] => i = k
    <3> SUFFICES ASSUME NEW i \in DOMAIN queue', NEW k \in DOMAIN queue',
                        queue'[i] = queue'[k]
                 PROVE  i = k
      OBVIOUS
    <3>1. i + 1 = k + 1
      BY <1>4 DEF Alone, OneRunner
    <3>2. i \in Nat /\ k \in Nat
      BY <1>1, <1>2
    <3> QED
      BY <3>1, <3>2
  <2>3. \A i \in Queued' : RunOf(i)' = {}
    BY <1>5, <1>7 DEF Alone, OneRunner
  <2> QED
    BY <2>1, <2>2, <2>3 DEF OneRunner
<1> QED
  BY <1>1, <1>2, <1>5, <1>7, <1>8, <1>9 DEF Alone, Holding

LEMMA ReleaseKeeps ==
    ASSUME TypeOK, Marks, Alone, NEW w \in Workers, Release(w)
    PROVE  Marks' /\ Alone'
<1> DEFINE j == worker[w].id
<1>1. Running(w)
  BY DEF Release, Running, RunPcs
<1>2. /\ worker' = [worker EXCEPT ![w] = Idle]
      /\ enqueued' = enqueued \ {j}
      /\ UNCHANGED <<queue, caller>>
  BY DEF Release
<1>3. \A v \in Workers : /\ Running(v)' <=> Running(v) /\ v # w
                         /\ v # w => worker'[v] = worker[v]
  BY <1>2 DEF Running, Idle, RunPcs, TypeOK
<1>4. w \in RunOf(j) /\ j \notin Queued
  BY <1>1 DEF RunOf, Alone, OneRunner
<1>5. Queued' = Queued /\ \A c : Holding(c)' <=> Holding(c)
  BY <1>2 DEF Queued, Holding
<1>6. \A i : RunOf(i)' \subseteq RunOf(i)
  BY <1>3 DEF RunOf
<1>7. Marks'
  BY <1>1, <1>2, <1>3, <1>4, <1>5 DEF Marks, Alone, OneRunner
<1>8. OneRunner'
  BY <1>2, <1>3, <1>5, <1>6 DEF Alone, OneRunner
<1> QED
  BY <1>2, <1>5, <1>6, <1>7, <1>8 DEF Alone

LEMMA LeaveKeeps ==
    ASSUME TypeOK, Marks, Alone, NEW w \in Workers, Leave(w)
    PROVE  Marks' /\ Alone'
<1>1. SameRuns
  BY DEF Leave, memory, SameRuns, Running, Idle, Gone, RunPcs, TypeOK, RunRecord
<1> QED
  BY <1>1, SameRunsKeep

LEMMA EndedKeeps ==
    ASSUME Ended
    PROVE  Marks' /\ Alone'
<1>1. \A w \in Workers : ~Running(w)'
  BY DEF Ended, Running, Idle, RunPcs
<1>2. \A c \in Callers : ~Holding(c)'
  BY DEF Ended, Holding, Free
<1>3. Queued' = {} /\ queue' = <<>>
  BY DEF Ended, Queued
<1> QED
  BY <1>1, <1>2, <1>3 DEF Marks, Alone, OneRunner

-----------------------------------------------------------------------------
(* Verdicts.                                                               *)

\* Nothing but a verdict adds to the chain or makes a status terminal.
SameVerdicts ==
    /\ UNCHANGED chain
    /\ \A j \in Jobs, r \in Results : status'[j] = r <=> status[j] = r

LEMMA SameVerdictsKeep ==
    ASSUME VerdictMatchesRow, SameVerdicts
    PROVE  VerdictMatchesRow'
BY DEF VerdictMatchesRow, SameVerdicts

LEMMA RunStepVerdict ==
    ASSUME VerifyJobsAssumption, IInv, NEW w \in Workers, RunSteps(w)
    PROVE  RunsUndecided' /\ VerdictMatchesRow'
<1> DEFINE j == worker[w].id
<1>1. TypeOK /\ Alone /\ RunsUndecided /\ VerdictMatchesRow
  BY DEF IInv
<1>2. SameRuns /\ Running(w) /\ \A v \in Workers \ {w} : worker'[v] = worker[v]
  BY <1>1, RunStepsShape
<1>3. worker[w] \in RunRecord /\ j \in Jobs
  BY <1>1, <1>2, RunShape DEF RunRecord
<1>4. \A v \in Workers \ {w} : Running(v) => worker[v].id # j
  BY <1>1, <1>2 DEF Alone, OneRunner
<1>5. ASSUME \A i \in Jobs \ {j} : status'[i] = status[i],
             worker'[w].pc = "release" \/ status'[j] \notin Terminal
      PROVE  RunsUndecided'
  <2> SUFFICES ASSUME NEW v \in Workers, worker'[v].pc \in RunPcs \ {"load", "release"}
               PROVE  status'[worker'[v].id] \notin Terminal
    BY DEF RunsUndecided
  <2>1. CASE v = w
    BY <1>2, <1>5, <2>1 DEF SameRuns
  <2>2. CASE v # w
    <3>1. worker'[v] = worker[v] /\ Running(v)
      BY <1>2, <2>2 DEF Running
    <3>2. worker[v].id \in Jobs \ {j}
      BY <1>1, <1>4, <2>2, <3>1, RunShape DEF RunRecord
    <3> QED
      BY <1>1, <1>5, <3>1, <3>2 DEF RunsUndecided
  <2> QED
    BY <2>1, <2>2
<1>6. worker[w].pc \in RunPcs \ {"load", "release"} => status[j] \notin Terminal
  BY <1>1 DEF RunsUndecided
<1>7. CASE FailJob(w) \/ VerifyJob(w)
  <2>1. PICK r \in Results : Decide(w, r)
    BY <1>7 DEF FailJob, VerifyJob, Results, Terminal
  <2>2. status[j] \notin Terminal
    BY <1>6, <1>7 DEF FailJob, VerifyJob, RunPcs
  <2>3. status \in [Jobs -> Statuses] /\ chain \in Seq([job : Jobs, result : Results])
    BY <1>1 DEF TypeOK
  <2>4. /\ status' = [status EXCEPT ![j] = r]
        /\ chain' = Append(chain, [job |-> j, result |-> r])
    BY <2>1 DEF Decide
  <2>5. /\ DOMAIN chain' = DOMAIN chain \cup {Len(chain) + 1}
        /\ \A i \in DOMAIN chain : chain'[i] = chain[i]
        /\ chain'[Len(chain) + 1] = [job |-> j, result |-> r]
        /\ Len(chain) + 1 \notin DOMAIN chain
    BY <2>3, <2>4
  <2>6. \A i \in DOMAIN chain : chain[i].job # j
    <3> SUFFICES ASSUME NEW i \in DOMAIN chain, chain[i].job = j PROVE FALSE
      OBVIOUS
    <3>1. chain[i] \in [job : Jobs, result : Results]
      <4> DEFINE Event == [job : Jobs, result : Results]
      <4>1. chain \in Seq(Event)
        BY <2>3
      <4> HIDE DEF Event
      <4>2. chain[i] \in Event
        BY <4>1
      <4> QED
        BY <4>2 DEF Event
    <3>2. chain[i] = [job |-> j, result |-> chain[i].result] /\ chain[i].result \in Results
      BY <3>1
    <3>3. status[j] = chain[i].result
      BY <1>1, <1>3, <3>2 DEF VerdictMatchesRow
    <3> QED
      BY <2>2, <3>2, <3>3 DEF Results
  <2>7. \A i, k \in DOMAIN chain' : chain'[i].job = chain'[k].job => i = k
    BY <1>1, <2>5, <2>6 DEF VerdictMatchesRow
  <2>8. ASSUME NEW k \in Jobs, NEW q \in Results
        PROVE  status'[k] = q <=>
                   \E i \in DOMAIN chain' : chain'[i] = [job |-> k, result |-> q]
    <3>1. CASE k = j
      <4>1. (\E i \in DOMAIN chain' : chain'[i] = [job |-> j, result |-> q]) <=> r = q
        <5>1. ASSUME NEW i \in DOMAIN chain', chain'[i] = [job |-> j, result |-> q]
              PROVE  r = q
          <6>1. chain'[i].job = j /\ chain'[i].result = q
            BY <5>1
          <6>2. i = Len(chain) + 1
            BY <2>5, <2>6, <6>1
          <6> QED
            BY <2>5, <6>1, <6>2
        <5> QED
          BY <2>5, <5>1
      <4> QED
        BY <1>3, <2>3, <2>4, <3>1, <4>1
    <3>2. CASE k # j
      <4>1. [job |-> j, result |-> r] # [job |-> k, result |-> q]
        <5>1. [job |-> j, result |-> r].job # [job |-> k, result |-> q].job
          BY <3>2
        <5> QED
          BY <5>1
      <4>2. (\E i \in DOMAIN chain' : chain'[i] = [job |-> k, result |-> q]) <=>
               \E i \in DOMAIN chain : chain[i] = [job |-> k, result |-> q]
        BY <2>5, <4>1
      <4>3. status'[k] = status[k]
        BY <2>3, <2>4, <3>2
      <4> QED
        BY <1>1, <4>2, <4>3 DEF VerdictMatchesRow
    <3> QED
      BY <3>1, <3>2
  <2>9. VerdictMatchesRow'
    BY <2>7, <2>8 DEF VerdictMatchesRow
  <2>10. worker'[w].pc = "release"
    BY <1>1, <1>3, <2>1, GotoShape DEF Decide, TypeOK, RunPcs
  <2>11. RunsUndecided'
    BY <1>3, <1>5, <2>3, <2>4, <2>10
  <2> QED
    BY <2>9, <2>11
<1>8. CASE BeginRun(w) \/ MarkInterrupted(w)
  <2>1. status[j] \notin Terminal
    BY <1>6, <1>8 DEF BeginRun, MarkInterrupted, RunPcs
  <2>2. PICK q \in {"running", "interrupted"} : status' = [status EXCEPT ![j] = q]
    BY <1>8 DEF BeginRun, MarkInterrupted
  <2>3. UNCHANGED chain
    BY <1>8 DEF BeginRun, MarkInterrupted
  <2>4. /\ \A i \in Jobs \ {j} : status'[i] = status[i]
        /\ status'[j] \notin Terminal
    BY <1>1, <1>3, <2>2 DEF TypeOK, Terminal
  <2>5. SameVerdicts
    BY <2>1, <2>3, <2>4 DEF SameVerdicts, Results
  <2> QED
    BY <1>1, <1>5, <2>4, <2>5, SameVerdictsKeep
<1>9. CASE ~(FailJob(w) \/ VerifyJob(w) \/ BeginRun(w) \/ MarkInterrupted(w))
  <2>1. UNCHANGED <<status, chain>>
    BY <1>9 DEF RunSteps, LoadJob, OpenImage, RereadPrefix, CancelRun, StoreChunk,
       RejectChunk, StoreProgress, Judge, DatabaseError, tables
  <2>2. worker'[w].pc = "release" \/ status[j] \notin Terminal
    <3>1. CASE LoadJob(w)
      BY <1>1, <1>3, <3>1, GotoShape DEF LoadJob, Decided, TypeOK, RunPcs
    <3>2. CASE worker[w].pc = "load" /\ DatabaseError(w)
      BY <1>1, <1>3, <3>2, GotoShape DEF DatabaseError, TypeOK, RunPcs
    <3>3. CASE worker[w].pc # "load"
      <4>1. worker[w].pc # "release"
        BY DEF RunSteps, LoadJob, OpenImage, RereadPrefix, BeginRun, CancelRun,
           StoreChunk, RejectChunk, StoreProgress, Judge, FailJob, VerifyJob,
           MarkInterrupted, DatabaseError
      <4> QED
        BY <1>2, <1>6, <3>3, <4>1 DEF Running
    <3> QED
      BY <1>9, <3>1, <3>2, <3>3 DEF RunSteps, OpenImage, RereadPrefix, CancelRun,
         StoreChunk, RejectChunk, StoreProgress, Judge
  <2>3. SameVerdicts
    BY <2>1 DEF SameVerdicts
  <2> QED
    BY <1>1, <1>5, <2>1, <2>2, <2>3, SameVerdictsKeep
<1> QED
  BY <1>7, <1>8, <1>9

\* Steps outside the runs leave their workers alone or take them out of them.
LEMMA OtherVerdict ==
    ASSUME IInv,
           UNCHANGED chain,
           \A j \in Jobs, r \in Results : status'[j] = r <=> status[j] = r,
           \A w \in Workers : \/ worker'[w] = worker[w]
                              \/ worker'[w].pc \notin RunPcs \ {"load", "release"}
    PROVE  RunsUndecided' /\ VerdictMatchesRow'
<1>1. VerdictMatchesRow'
  BY SameVerdictsKeep DEF IInv, SameVerdicts
<1>2. ASSUME NEW w \in Workers, worker'[w].pc \in RunPcs \ {"load", "release"}
      PROVE  status'[worker'[w].id] \notin Terminal
  <2>1. worker'[w] = worker[w] /\ worker[w].id \in Jobs
    BY <1>2, RunShape DEF IInv, Running, RunRecord
  <2> QED
    BY <1>2, <2>1 DEF IInv, RunsUndecided, Results
<1> QED
  BY <1>1, <1>2 DEF RunsUndecided

-----------------------------------------------------------------------------
(* The invariant, step by step.                                            *)

LEMMA IInvInit == VerifyJobsAssumption /\ Init => IInv
<1> SUFFICES ASSUME VerifyJobsAssumption, Init PROVE IInv
  OBVIOUS
<1>1. TypeOK
  BY TypeInit
<1>2. \A w \in Workers : worker[w] = Idle
  BY DEF Init
<1>3. \A w \in Workers : ~Running(w) /\ worker[w].pc \notin RunPcs
  BY <1>2 DEF Running, Idle, RunPcs
<1>4. \A c \in Callers : ~Holding(c)
  BY DEF Init, Holding, Free
<1>5. Queued = {} /\ queue = <<>> /\ chain = <<>>
  BY DEF Init, Queued
<1>6. Marks /\ Alone
  BY <1>3, <1>4, <1>5 DEF Marks, Alone, OneRunner
<1>7. RunsUndecided
  BY <1>3 DEF RunsUndecided
<1>8. VerdictMatchesRow
  BY <1>5 DEF Init, VerdictMatchesRow, Results, Terminal
<1> QED
  BY <1>1, <1>6, <1>7, <1>8 DEF IInv

LEMMA CallerStepKeeps ==
    ASSUME VerifyJobsAssumption, IInv, NEW c \in Callers, CallerStep(c)
    PROVE  IInv'
<1>1. TypeOK /\ Marks /\ Alone
  BY DEF IInv
<1>2. TypeOK'
  BY <1>1, CallerStepType
<1>3. Marks' /\ Alone'
  BY <1>1, EnqueueMarkKeeps, EnqueueSendKeeps, EnqueueUnmarkKeeps DEF CallerStep
<1>4. UNCHANGED <<status, chain, worker>>
  BY DEF CallerStep, EnqueueMark, EnqueueSend, EnqueueUnmark, tables
<1>5. RunsUndecided' /\ VerdictMatchesRow'
  BY <1>4, OtherVerdict
<1> QED
  BY <1>2, <1>3, <1>5 DEF IInv

LEMMA RequestStepKeeps ==
    ASSUME IInv, NEW c \in Requests, RequestStep(c)
    PROVE  IInv'
<1>1. TypeOK /\ Marks /\ Alone
  BY DEF IInv
<1>2. TypeOK'
  BY <1>1, RequestStepType
<1>3. UNCHANGED <<enqueued, queue, worker, chain>>
  BY DEF RequestStep, CreateJob, FailCreate, CountActive, ResumeJob, tables
<1>4. c \in Callers /\ caller[c].pc \in {"free", "counted"}
  BY DEF RequestStep, CreateJob, FailCreate, CountActive, ResumeJob, Callers, Free
<1>5. \E r : caller' = [caller EXCEPT ![c] = r] /\ r.pc \notin {"send", "unmark"}
  BY DEF RequestStep, CreateJob, FailCreate, CountActive, ResumeJob, Free, Counted,
         Enqueuing
<1>6. SameHolders
  BY <1>1, <1>3, <1>4, <1>5 DEF SameHolders, Holding, TypeOK
<1>7. Marks' /\ Alone'
  BY <1>1, <1>6, SameHoldersKeep
<1>8. \A j \in Jobs, r \in Results : status'[j] = r <=> status[j] = r
  <2>1. CASE CreateJob(c)
    BY <1>1, <2>1 DEF CreateJob, TypeOK, Results, Terminal
  <2>2. CASE ~CreateJob(c)
    BY <2>2 DEF RequestStep, FailCreate, CountActive, ResumeJob, tables
  <2> QED
    BY <2>1, <2>2
<1>9. RunsUndecided' /\ VerdictMatchesRow'
  BY <1>3, <1>8, OtherVerdict
<1> QED
  BY <1>2, <1>7, <1>9 DEF IInv

LEMMA WorkerStepKeeps ==
    ASSUME VerifyJobsAssumption, IInv, NEW w \in Workers,
           Receive(w) \/ RunStep(w) \/ DatabaseError(w) \/ Leave(w)
    PROVE  IInv'
<1>1. TypeOK /\ Marks /\ Alone
  BY DEF IInv
<1>2. CASE RunSteps(w)
  <2>1. TypeOK'
    BY <1>1, <1>2, RunStepsType
  <2>2. Marks' /\ Alone'
    BY <1>1, <1>2, RunStepsShape, SameRunsKeep
  <2>3. RunsUndecided' /\ VerdictMatchesRow'
    BY <1>2, RunStepVerdict
  <2> QED
    BY <2>1, <2>2, <2>3 DEF IInv
<1>3. CASE Receive(w) \/ Release(w) \/ Leave(w)
  <2>1. TypeOK'
    BY <1>1, <1>3, WorkerEndsType
  <2>2. Marks' /\ Alone'
    BY <1>1, <1>3, ReceiveKeeps, ReleaseKeeps, LeaveKeeps
  <2>3. UNCHANGED <<status, chain>>
    BY <1>3 DEF Receive, Release, Leave, tables
  <2>4. \E r : worker' = [worker EXCEPT ![w] = r] /\ r.pc \notin RunPcs \ {"load", "release"}
    BY <1>3 DEF Receive, Release, Leave, Run, Idle, Gone, RunPcs
  <2>5. \A v \in Workers : \/ worker'[v] = worker[v]
                           \/ worker'[v].pc \notin RunPcs \ {"load", "release"}
    BY <1>1, <2>4 DEF TypeOK
  <2>6. RunsUndecided' /\ VerdictMatchesRow'
    BY <2>3, <2>5, OtherVerdict
  <2> QED
    BY <2>1, <2>2, <2>6 DEF IInv
<1> QED
  BY <1>2, <1>3 DEF RunStep, RunSteps

LEMMA ProcessStepKeeps ==
    ASSUME VerifyJobsAssumption, IInv, ProcessStep
    PROVE  IInv'
<1>1. TypeOK /\ Marks /\ Alone
  BY DEF IInv
<1>2. TypeOK'
  BY <1>1, ProcessStepType
<1>3. CASE Exit \/ Crash
  <2>1. Ended
    BY <1>3 DEF Exit, Crash
  <2>2. Marks' /\ Alone'
    BY <2>1, EndedKeeps
  <2>3. UNCHANGED <<status, chain>>
    BY <2>1 DEF Ended, tables
  <2>4. \A w \in Workers : worker'[w].pc \notin RunPcs
    BY <2>1 DEF Ended, Idle, RunPcs
  <2>5. RunsUndecided' /\ VerdictMatchesRow'
    BY <2>3, <2>4, OtherVerdict
  <2> QED
    BY <1>2, <2>2, <2>5 DEF IInv
<1>4. CASE Start \/ Serve \/ Stop
  <2>1. UNCHANGED <<enqueued, queue, caller, worker, chain>>
    BY <1>4 DEF Start, Serve, Stop, tables
  <2>2. Marks' /\ Alone'
    BY <1>1, <2>1, SameHoldersKeep DEF SameHolders, Holding
  <2>3. \A j \in Jobs, r \in Results : status'[j] = r <=> status[j] = r
    BY <1>4 DEF Start, Restarted, Serve, Stop, tables, Results, Terminal
  <2>4. RunsUndecided' /\ VerdictMatchesRow'
    BY <2>1, <2>3, OtherVerdict
  <2> QED
    BY <1>2, <2>2, <2>4 DEF IInv
<1>5. ASSUME NEW j \in Jobs, Requeue(j) PROVE IInv'
  <2>1. UNCHANGED <<enqueued, queue, worker, status, chain>>
    BY <1>5 DEF Requeue, tables
  <2>2. SameHolders
    BY <1>1, <1>5, <2>1 DEF Requeue, SameHolders, Holding, Enqueuing, Free, TypeOK
  <2>3. Marks' /\ Alone'
    BY <1>1, <2>2, SameHoldersKeep
  <2>4. RunsUndecided' /\ VerdictMatchesRow'
    BY <2>1, OtherVerdict
  <2> QED
    BY <1>2, <2>3, <2>4 DEF IInv
<1> QED
  BY <1>3, <1>4, <1>5 DEF ProcessStep

LEMMA IInvStep == VerifyJobsAssumption /\ IInv /\ [Next]_vars => IInv'
<1> SUFFICES ASSUME VerifyJobsAssumption, IInv, [Next]_vars PROVE IInv'
  OBVIOUS
<1>1. ASSUME NEW c \in Callers, CallerStep(c) PROVE IInv'
  BY <1>1, CallerStepKeeps
<1>2. ASSUME NEW c \in Requests, RequestStep(c) PROVE IInv'
  BY <1>2, RequestStepKeeps
<1>3. ASSUME NEW w \in Workers,
             Receive(w) \/ RunStep(w) \/ DatabaseError(w) \/ Leave(w)
      PROVE  IInv'
  BY <1>3, WorkerStepKeeps
<1>4. CASE ProcessStep
  BY <1>4, ProcessStepKeeps
<1>5. ASSUME NEW e \in Evidence, Disturb(e) PROVE IInv'
  <2>1. UNCHANGED <<enqueued, queue, caller, worker, status, chain>>
    BY <1>5 DEF Disturb, tables, memory
  <2>2. TypeOK'
    BY <1>5, DisturbType DEF IInv
  <2>3. Marks' /\ Alone'
    BY <2>1, SameHoldersKeep DEF IInv, SameHolders, Holding
  <2>4. RunsUndecided' /\ VerdictMatchesRow'
    BY <2>1, OtherVerdict
  <2> QED
    BY <2>2, <2>3, <2>4 DEF IInv
<1>6. CASE UNCHANGED vars
  <2>1. TypeOK'
    BY <1>6 DEF IInv, TypeOK, vars
  <2>2. UNCHANGED <<enqueued, queue, caller, worker, status, chain>>
    BY <1>6 DEF vars
  <2>3. Marks' /\ Alone'
    BY <2>2, SameHoldersKeep DEF IInv, SameHolders, Holding
  <2>4. RunsUndecided' /\ VerdictMatchesRow'
    BY <2>2, OtherVerdict
  <2> QED
    BY <2>1, <2>3, <2>4 DEF IInv
<1> QED
  BY <1>1, <1>2, <1>3, <1>4, <1>5, <1>6 DEF Next

LEMMA Invariance == Spec => []IInv
<1>1. Init => IInv
  BY IInvInit, VerifyJobsAssumption
<1>2. IInv /\ [Next]_vars => IInv'
  BY IInvStep, VerifyJobsAssumption
<1> QED
  BY <1>1, <1>2, PTL DEF Spec

-----------------------------------------------------------------------------
(* Every variable keeps its type, in every number of jobs and goroutines.  *)
THEOREM TypeCorrect == Spec => []TypeOK
<1>1. IInv => TypeOK
  BY DEF IInv
<1> QED
  BY <1>1, Invariance, PTL

(* The marks of enqueue and worker (jobs.go:121-150) exclude two runs of one *)
(* job, whatever requests, restarts and full queues do.                      *)
THEOREM RunsExclude == Spec => []OneRunner
<1>1. IInv => OneRunner
  BY DEF IInv, Alone
<1> QED
  BY <1>1, Invariance, PTL

(* A job has one event on the chain exactly when its row has a verdict, and *)
(* the two agree (failJob and the last transaction of runJob).              *)
THEOREM VerdictOnce == Spec => []VerdictMatchesRow
<1>1. IInv => VerdictMatchesRow
  BY DEF IInv
<1> QED
  BY <1>1, Invariance, PTL

-----------------------------------------------------------------------------
(* No mark is left behind: a separate induction, on top of IInv.            *)

Held(j) ==
    \/ j \in Queued
    \/ RunOf(j) # {}
    \/ \E c \in Callers : Holding(c) /\ caller[c].id = j
HeldMarks == \A j \in enqueued : Held(j)

LEMMA HeldMarksSuffice ==
    ASSUME TypeOK, HeldMarks
    PROVE  MarkIsHeld
<1>1. ASSUME NEW j \in enqueued, NEW c \in Callers, Holding(c), caller[c].id = j
      PROVE  caller[c] \in {Enqueuing("send", j), Enqueuing("unmark", j)}
  <2>1. caller[c] \in [pc : {"enqueue", "send", "unmark"}, id : Jobs]
    BY <1>1, CallerShape DEF Holding
  <2> QED
    BY <1>1, <2>1 DEF Holding, Enqueuing
<1> QED
  BY <1>1 DEF HeldMarks, Held, MarkIsHeld

LEMMA SameRunsHold ==
    ASSUME SameRuns, HeldMarks
    PROVE  HeldMarks'
<1>1. \A j : RunOf(j)' = RunOf(j)
  BY DEF SameRuns, RunOf, Running
<1>2. Queued' = Queued /\ \A c : Holding(c)' <=> Holding(c)
  BY DEF SameRuns, Queued, Holding
<1> QED
  BY <1>1, <1>2 DEF HeldMarks, Held, SameRuns

LEMMA SameHoldersHold ==
    ASSUME SameHolders, HeldMarks
    PROVE  HeldMarks'
<1>1. Queued' = Queued /\ \A j : RunOf(j)' = RunOf(j)
  BY DEF SameHolders, Queued, RunOf, Running
<1> QED
  BY <1>1 DEF HeldMarks, Held, SameHolders

LEMMA EnqueueMarkHolds ==
    ASSUME TypeOK, HeldMarks, NEW c \in Callers, EnqueueMark(c)
    PROVE  HeldMarks'
<1> DEFINE j == caller[c].id
<1>1. ~Holding(c)
  BY DEF EnqueueMark, Holding
<1>2. CASE Marked(j)
  <2>1. /\ caller' = [caller EXCEPT ![c] = Free]
        /\ UNCHANGED <<enqueued, queue, worker>>
    BY <1>2 DEF EnqueueMark
  <2>2. SameHolders
    BY <1>1, <2>1 DEF SameHolders, Holding, TypeOK, Free
  <2> QED
    BY <2>2, SameHoldersHold
<1>3. CASE ~Marked(j)
  <2>1. /\ enqueued' = enqueued \cup {j}
        /\ UNCHANGED <<queue, worker>>
        /\ caller' = [caller EXCEPT ![c] = Enqueuing("send", j)]
    BY <1>3 DEF EnqueueMark
  <2>2. Queued' = Queued /\ \A i : RunOf(i)' = RunOf(i)
    BY <2>1 DEF Queued, RunOf, Running
  <2>3. \A d \in Callers : d # c => caller'[d] = caller[d]
    BY <2>1 DEF TypeOK
  <2>4. Holding(c)' /\ caller'[c].id = j
    BY <2>1 DEF Holding, TypeOK, Enqueuing
  <2> QED
    BY <1>1, <2>1, <2>2, <2>3, <2>4 DEF HeldMarks, Held, Holding
<1> QED
  BY <1>2, <1>3

LEMMA EnqueueSendHolds ==
    ASSUME VerifyJobsAssumption, TypeOK, HeldMarks, NEW c \in Callers, EnqueueSend(c)
    PROVE  HeldMarks'
<1> DEFINE j == caller[c].id
<1>1. Holding(c)
  BY DEF EnqueueSend, Holding
<1>2. CASE queue' = Append(queue, j) /\ caller' = [caller EXCEPT ![c] = Free]
  <2>1. UNCHANGED <<enqueued, worker>>
    BY DEF EnqueueSend
  <2>2. Queued \cup {j} \subseteq Queued'
    <3>1. /\ \A i \in DOMAIN queue : i \in DOMAIN queue' /\ queue'[i] = queue[i]
          /\ Len(queue) + 1 \in DOMAIN queue'
          /\ queue'[Len(queue) + 1] = j
      BY <1>2 DEF TypeOK
    <3> QED
      BY <3>1 DEF Queued
  <2>3. \A i : RunOf(i)' = RunOf(i)
    BY <2>1 DEF RunOf, Running
  <2>4. \A d \in Callers : d # c => caller'[d] = caller[d]
    BY <1>2 DEF TypeOK
  <2> QED
    BY <2>1, <2>2, <2>3, <2>4 DEF HeldMarks, Held, Holding
<1>3. CASE UNCHANGED queue /\ caller' = [caller EXCEPT ![c] = Dropped(j)]
  <2>1. SameHolders
    BY <1>1, <1>3 DEF EnqueueSend, SameHolders, Holding, TypeOK, Dropped, Enqueuing
  <2> QED
    BY <2>1, SameHoldersHold
<1> QED
  BY <1>2, <1>3 DEF EnqueueSend

LEMMA EnqueueUnmarkHolds ==
    ASSUME TypeOK, HeldMarks, NEW c \in Callers, EnqueueUnmark(c)
    PROVE  HeldMarks'
<1>1. /\ enqueued' = enqueued \ {caller[c].id}
      /\ UNCHANGED <<queue, worker>>
      /\ \A d \in Callers : d # c => caller'[d] = caller[d]
  BY DEF EnqueueUnmark, TypeOK
<1>2. Queued' = Queued /\ \A i : RunOf(i)' = RunOf(i)
  BY <1>1 DEF Queued, RunOf, Running
<1> QED
  BY <1>1, <1>2 DEF HeldMarks, Held, Holding

\* The job that leaves the queue has a run from now on.
LEMMA ReceiveHolds ==
    ASSUME TypeOK, HeldMarks, NEW w \in Workers, Receive(w)
    PROVE  HeldMarks'
<1> DEFINE j == Head(queue)
<1>1. /\ worker' = [worker EXCEPT ![w] = Run(j)]
      /\ queue' = Tail(queue)
      /\ UNCHANGED <<enqueued, caller>>
      /\ ~Running(w)
  BY DEF Receive, Running, Idle, RunPcs
<1>2. queue \in Seq(Jobs) /\ Len(queue) > 0
  BY DEF Receive, TypeOK
<1>3. Queued \subseteq Queued' \cup {j}
  <2>1. ASSUME NEW i \in DOMAIN queue, i # 1
        PROVE  i - 1 \in DOMAIN queue' /\ queue'[i - 1] = queue[i]
    BY <1>1, <1>2, <2>1
  <2>2. queue[1] = j
    BY <1>2
  <2> QED
    BY <2>1, <2>2 DEF Queued
<1>4. \A v \in Workers : /\ v # w => worker'[v] = worker[v]
                         /\ Running(w)' /\ worker'[w].id = j
  BY <1>1 DEF Running, Run, RunPcs, TypeOK
<1>5. \A i : RunOf(i) \subseteq RunOf(i)'
  BY <1>1, <1>4 DEF RunOf, Running
<1>6. \A i : i = j => w \in RunOf(i)'
  BY <1>4 DEF RunOf
<1>7. \A c : Holding(c)' <=> Holding(c)
  BY <1>1 DEF Holding
<1> QED
  BY <1>1, <1>3, <1>5, <1>6, <1>7 DEF HeldMarks, Held

LEMMA ReleaseHolds ==
    ASSUME TypeOK, HeldMarks, NEW w \in Workers, Release(w)
    PROVE  HeldMarks'
<1> DEFINE j == worker[w].id
<1>1. /\ enqueued' = enqueued \ {j}
      /\ UNCHANGED <<queue, caller>>
      /\ \A v \in Workers : v # w => worker'[v] = worker[v]
  BY DEF Release, TypeOK
<1>2. Queued' = Queued /\ \A c : Holding(c)' <=> Holding(c)
  BY <1>1 DEF Queued, Holding
<1>3. \A i : i # j => RunOf(i) \subseteq RunOf(i)'
  BY <1>1 DEF RunOf, Running
<1> QED
  BY <1>1, <1>2, <1>3 DEF HeldMarks, Held

LEMMA HeldMarksStep ==
    VerifyJobsAssumption /\ TypeOK /\ HeldMarks /\ [Next]_vars => HeldMarks'
<1> SUFFICES ASSUME VerifyJobsAssumption, TypeOK, HeldMarks, [Next]_vars
             PROVE  HeldMarks'
  OBVIOUS
<1>1. ASSUME NEW c \in Callers, CallerStep(c) PROVE HeldMarks'
  BY <1>1, EnqueueMarkHolds, EnqueueSendHolds, EnqueueUnmarkHolds DEF CallerStep
<1>2. ASSUME NEW c \in Requests, RequestStep(c) PROVE HeldMarks'
  <2>1. UNCHANGED <<enqueued, queue, worker>> /\ c \in Callers /\ ~Holding(c)
    BY <1>2 DEF RequestStep, CreateJob, FailCreate, CountActive, ResumeJob, Callers,
       Holding, Free
  <2>2. /\ \A d \in Callers : d # c => caller'[d] = caller[d]
        /\ ~Holding(c)'
    BY <1>2, <2>1 DEF RequestStep, CreateJob, FailCreate, CountActive, ResumeJob,
       Holding, Free, Counted, Enqueuing, TypeOK
  <2>3. SameHolders
    BY <2>1, <2>2 DEF SameHolders, Holding
  <2> QED
    BY <2>3, SameHoldersHold
<1>3. ASSUME NEW w \in Workers,
             Receive(w) \/ RunStep(w) \/ DatabaseError(w) \/ Leave(w)
      PROVE  HeldMarks'
  <2>1. CASE RunSteps(w)
    BY <2>1, RunStepsShape, SameRunsHold
  <2>2. CASE Leave(w)
    <3>1. SameRuns
      BY <2>2 DEF Leave, memory, SameRuns, Running, Idle, Gone, RunPcs, TypeOK,
         RunRecord
    <3> QED
      BY <3>1, SameRunsHold
  <2> QED
    BY <1>3, <2>1, <2>2, ReceiveHolds, ReleaseHolds DEF RunStep, RunSteps
<1>4. CASE ProcessStep
  <2>1. CASE Exit \/ Crash
    BY <2>1 DEF Exit, Crash, Ended, HeldMarks
  <2>2. CASE Start \/ Serve \/ Stop
    <3>1. SameHolders
      BY <2>2 DEF Start, Serve, Stop, SameHolders, Holding
    <3> QED
      BY <3>1, SameHoldersHold
  <2>3. ASSUME NEW j \in Jobs, Requeue(j) PROVE HeldMarks'
    <3>1. Starter \in Callers /\ UNCHANGED <<enqueued, queue, worker>>
      BY <2>3 DEF Requeue, Callers
    <3>2. /\ ~Holding(Starter)
          /\ ~Holding(Starter)'
          /\ \A d \in Callers : d # Starter => caller'[d] = caller[d]
      BY <2>3, <3>1 DEF Requeue, Holding, Free, Enqueuing, TypeOK
    <3>3. SameHolders
      BY <3>1, <3>2 DEF SameHolders, Holding
    <3> QED
      BY <3>3, SameHoldersHold
  <2> QED
    BY <1>4, <2>1, <2>2, <2>3 DEF ProcessStep
<1>5. ASSUME NEW e \in Evidence, Disturb(e) PROVE HeldMarks'
  <2>1. SameHolders
    BY <1>5 DEF Disturb, memory, SameHolders, Holding
  <2> QED
    BY <2>1, SameHoldersHold
<1>6. CASE UNCHANGED vars
  <2>1. SameHolders
    BY <1>6 DEF vars, SameHolders, Holding
  <2> QED
    BY <2>1, SameHoldersHold
<1> QED
  BY <1>1, <1>2, <1>3, <1>4, <1>5, <1>6 DEF Next

(* Whoever sets a mark clears it or hands it on (enqueue, worker:           *)
(* jobs.go:121-150): no job is marked that the queue, a worker or a caller  *)
(* of enqueue does not have, so none is kept out for ever by its mark.      *)
THEOREM MarksAreHeld == Spec => []MarkIsHeld
<1>1. Init => HeldMarks
  BY DEF Init, HeldMarks
<1>2. TypeOK /\ HeldMarks /\ [Next]_vars => HeldMarks'
  BY HeldMarksStep, VerifyJobsAssumption
<1>3. TypeOK /\ HeldMarks => MarkIsHeld
  BY HeldMarksSuffice
<1> QED
  BY <1>1, <1>2, <1>3, TypeCorrect, PTL DEF Spec

-----------------------------------------------------------------------------
(* No job is forgotten while the server runs.                               *)

\* A process that is down holds nothing, one that serves has gone through
\* the ids of Start, and what a full queue turned away is struck.
Quiet ==
    /\ process = "down" =>
        /\ starting = {}
        /\ \A c \in Callers : caller[c] = Free
        /\ \A w \in Workers : ~Running(w)
    /\ process = "up" => starting = {}
    /\ \A c \in Callers : caller[c].pc = "unmark" => caller[c].id \in struck

Live == process \in {"starting", "up"}
Waits(j) == status[j] \in {"queued", "running"} /\ j \notin struck
Asks(c) == caller[c].pc \in {"enqueue", "send"}
OnTheWay(j) ==
    \/ j \in Queued
    \/ RunOf(j) # {}
    \/ \E c \in Callers : Asks(c) /\ caller[c].id = j

\* What waits is among the ids of Start or on the way; a run that ends has
\* left its job with a verdict or interrupted.
Waiting ==
    Live =>
        /\ \A j \in Jobs : Waits(j) => j \in starting \/ OnTheWay(j)
        /\ \A w \in Workers : worker[w].pc = "release" => ~Waits(worker[w].id)

\* A job that the process knows of has a row.
Touched(j) ==
    \/ j \in starting
    \/ j \in Queued
    \/ RunOf(j) # {}
    \/ \E c \in Callers : caller[c].pc \in {"enqueue", "send", "unmark"} /\ caller[c].id = j
Known == \A j \in Jobs : Touched(j) => status[j] # "none"

JInv == IInv /\ HeldMarks /\ Known /\ Quiet /\ Waiting

LEMMA JInvSuffices == JInv => WaitingIsHeld
<1> SUFFICES ASSUME JInv, process = "up",
                    NEW j \in Jobs \ struck, status[j] \in {"queued", "running"}
             PROVE  \/ j \in Queued
                    \/ RunOf(j) # {}
                    \/ \E c \in Callers :
                           caller[c] \in {Enqueuing("enqueue", j), Enqueuing("send", j)}
  BY DEF WaitingIsHeld
<1>1. OnTheWay(j)
  BY DEF JInv, Quiet, Waiting, Live, Waits
<1>2. ASSUME NEW c \in Callers, Asks(c), caller[c].id = j
      PROVE  caller[c] \in {Enqueuing("enqueue", j), Enqueuing("send", j)}
  <2>1. caller[c] \in [pc : {"enqueue", "send", "unmark"}, id : Jobs]
    BY <1>2, CallerShape DEF Asks, JInv, IInv
  <2> QED
    BY <1>2, <2>1 DEF Asks, Enqueuing
<1> QED
  BY <1>1, <1>2 DEF OnTheWay

-----------------------------------------------------------------------------
\* A step of a run writes the row of its own job, and ends the run with a row
\* that waits no more, unless the process stops or a statement failed.
LEMMA RunStepsWait ==
    ASSUME VerifyJobsAssumption, JInv, NEW w \in Workers, RunSteps(w)
    PROVE  Quiet' /\ Waiting'
<1> DEFINE j == worker[w].id
<1>1. TypeOK /\ OneRunner
  BY DEF JInv, IInv, Alone
<1>2. SameRuns /\ Running(w) /\ \A v \in Workers \ {w} : worker'[v] = worker[v]
  BY <1>1, RunStepsShape
<1>3. worker[w] \in RunRecord /\ j \in Jobs
  BY <1>1, <1>2, RunShape DEF RunRecord
<1>4. UNCHANGED <<process, starting, caller, queue>> /\ struck \subseteq struck'
  BY DEF RunSteps, LoadJob, OpenImage, RereadPrefix, BeginRun, CancelRun, StoreChunk,
     RejectChunk, StoreProgress, Judge, FailJob, VerifyJob, MarkInterrupted,
     DatabaseError, Decide, memory, history
<1>5. \A i \in Jobs : i # j => status'[i] = status[i]
  BY <1>1 DEF RunSteps, LoadJob, OpenImage, RereadPrefix, BeginRun, CancelRun,
     StoreChunk, RejectChunk, StoreProgress, Judge, FailJob, VerifyJob,
     MarkInterrupted, DatabaseError, Decide, tables, TypeOK
<1>6. \A i : RunOf(i)' = RunOf(i)
  BY <1>2 DEF SameRuns, RunOf, Running
<1>7. w \in RunOf(j)
  BY <1>2 DEF RunOf
<1>8. Quiet'
  BY <1>2, <1>4 DEF JInv, Quiet
<1>9. ASSUME Live', NEW i \in Jobs, Waits(i)' PROVE i \in starting' \/ OnTheWay(i)'
  <2>1. CASE i = j
    BY <1>6, <1>7, <2>1 DEF OnTheWay
  <2>2. CASE i # j
    BY <1>4, <1>5, <1>6, <1>9, <2>2 DEF JInv, Waiting, Live, Waits, OnTheWay, Queued, Asks
  <2> QED
    BY <2>1, <2>2
<1>10. ASSUME Live', worker'[w].pc = "release" PROVE ~(Waits(worker[w].id))'
  <2>1. worker'[w].id = worker[w].id
    BY <1>2 DEF SameRuns
  <2>2. process # "stopping"
    BY <1>4, <1>10 DEF Live
  <2>3. \A pc \in RunPcs : Goto(worker[w], pc).pc = pc
    BY <1>3, GotoShape
  <2>4. worker'[w].pc = "release" => j \in struck' \/ status'[j] \notin {"queued", "running"}
    <3>1. CASE LoadJob(w)
      BY <1>1, <1>3, <2>2, <3>1 DEF LoadJob, Decided, Terminal, TypeOK, RunRecord, tables
    <3>2. CASE FailJob(w) \/ VerifyJob(w) \/ MarkInterrupted(w)
      BY <1>1, <1>3, <3>2 DEF FailJob, VerifyJob, MarkInterrupted, Decide, TypeOK
    <3>3. CASE DatabaseError(w)
      BY <3>3 DEF DatabaseError
    <3>4. CASE OpenImage(w) \/ BeginRun(w) \/ CancelRun(w) \/ RejectChunk(w)
      BY <1>1, <2>3, <3>4 DEF OpenImage, BeginRun, CancelRun, RejectChunk, RunPcs, TypeOK
    <3>5. CASE StoreProgress(w) \/ Judge(w)
      BY <1>1, <2>3, <3>5 DEF StoreProgress, Judge, RunPcs, TypeOK
    <3>6. CASE StoreChunk(w)
      BY <1>1, <1>3, <3>6 DEF StoreChunk, RunRecord, TypeOK
    <3>7. CASE RereadPrefix(w)
      <4>1. worker'[w] = Reread(worker[w])
        BY <1>1, <3>7 DEF RereadPrefix, TypeOK
      <4> QED
        BY <1>3, <4>1, RereadShape
    <3> QED
      BY <3>1, <3>2, <3>3, <3>4, <3>5, <3>6, <3>7 DEF RunSteps
  <2> QED
    BY <1>10, <2>1, <2>4 DEF Waits
<1>11. ASSUME Live', NEW v \in Workers, worker'[v].pc = "release"
       PROVE  ~Waits(worker[v].id)'
  <2>1. CASE v = w
    BY <1>10, <1>11, <2>1
  <2>2. CASE v # w
    <3>1. worker'[v] = worker[v] /\ Running(v)
      BY <1>2, <1>11, <2>2 DEF Running, RunPcs
    <3>2. worker[v].id # j /\ worker[v].id \in Jobs
      BY <1>1, <1>2, <2>2, <3>1, RunShape DEF OneRunner, RunRecord
    <3>3. ~Waits(worker[v].id)
      BY <1>4, <1>11, <3>1 DEF JInv, Waiting, Live
    <3> QED
      BY <1>4, <1>5, <3>1, <3>2, <3>3 DEF Waits
  <2> QED
    BY <2>1, <2>2
<1> QED
  BY <1>8, <1>9, <1>11 DEF Waiting

\* A caller finds a mark that another holder of the job has set, or sets it.
LEMMA EnqueueMarkWaits ==
    ASSUME JInv, NEW c \in Callers, EnqueueMark(c)
    PROVE  Quiet' /\ Waiting'
<1> DEFINE j == caller[c].id
<1>1. /\ TypeOK
      /\ UNCHANGED <<status, struck, process, starting, queue, worker>>
      /\ \A d \in Callers : d # c => caller'[d] = caller[d]
  BY DEF JInv, IInv, EnqueueMark, TypeOK, tables, history
<1>2. Queued' = Queued /\ \A i : RunOf(i)' = RunOf(i)
  BY <1>1 DEF Queued, RunOf, Running
<1>3. process # "down" /\ caller'[c].pc # "unmark"
  BY <1>1 DEF EnqueueMark, JInv, Quiet, Free, Enqueuing, TypeOK
<1>4. Quiet'
  BY <1>1, <1>3 DEF JInv, Quiet
<1>5. ASSUME Live', NEW i \in Jobs, Waits(i)' PROVE i \in starting' \/ OnTheWay(i)'
  <2>1. Waits(i) /\ (i \in starting \/ OnTheWay(i))
    BY <1>1, <1>5 DEF JInv, Waiting, Live, Waits
  <2>2. CASE i = j /\ Marked(j)
    <3>1. Held(i)
      BY <2>2 DEF JInv, HeldMarks, Marked
    <3>2. ASSUME NEW d \in Callers, Holding(d), caller[d].id = i
          PROVE  d # c /\ Asks(d)
      BY <2>1, <3>2 DEF EnqueueMark, Holding, Asks, JInv, Quiet, Waits
    <3> QED
      BY <1>1, <1>2, <3>1, <3>2 DEF Held, OnTheWay, Asks
  <2>3. CASE i = j /\ ~Marked(j)
    <3>1. caller'[c] = Enqueuing("send", j)
      BY <1>1, <2>3 DEF EnqueueMark, TypeOK
    <3> QED
      BY <2>3, <3>1 DEF OnTheWay, Asks, Enqueuing
  <2>4. CASE i # j
    BY <1>1, <1>2, <2>1, <2>4 DEF OnTheWay, Asks
  <2> QED
    BY <2>2, <2>3, <2>4
<1>6. ASSUME Live' PROVE \A w \in Workers : worker'[w].pc = "release" => ~Waits(worker[w].id)'
  BY <1>1, <1>6 DEF JInv, Waiting, Live, Waits
<1> QED
  BY <1>4, <1>5, <1>6 DEF Waiting

LEMMA EnqueueSendWaits ==
    ASSUME VerifyJobsAssumption, JInv, NEW c \in Callers, EnqueueSend(c)
    PROVE  Quiet' /\ Waiting'
<1> DEFINE j == caller[c].id
<1>1. /\ TypeOK
      /\ UNCHANGED <<status, process, starting, worker>>
      /\ struck \subseteq struck'
      /\ \A d \in Callers : d # c => caller'[d] = caller[d]
  BY DEF JInv, IInv, EnqueueSend, TypeOK, tables
<1>2. \A i : RunOf(i)' = RunOf(i)
  BY <1>1 DEF RunOf, Running
<1>3. process # "down"
  BY DEF EnqueueSend, JInv, Quiet, Free
<1>4. /\ Queued \subseteq Queued'
      /\ \/ j \in Queued' /\ caller'[c] = Free
         \/ j \in struck' /\ caller'[c] = Enqueuing("unmark", j)
  <2>1. CASE queue' = Append(queue, j) /\ caller' = [caller EXCEPT ![c] = Free]
    <3>1. /\ \A i \in DOMAIN queue : i \in DOMAIN queue' /\ queue'[i] = queue[i]
          /\ Len(queue) + 1 \in DOMAIN queue'
          /\ queue'[Len(queue) + 1] = j
      BY <1>1, <2>1 DEF TypeOK
    <3>2. Queued \subseteq Queued'
      BY <3>1 DEF Queued
    <3>3. j \in Queued'
      BY <3>1 DEF Queued
    <3>4. caller'[c] = Free
      BY <1>1, <2>1 DEF TypeOK
    <3> QED
      BY <3>2, <3>3, <3>4
  <2>2. CASE /\ UNCHANGED queue
             /\ caller' = [caller EXCEPT ![c] = Dropped(j)]
             /\ struck' = struck \cup {j}
    BY <1>1, <2>2 DEF Queued, Dropped, TypeOK
  <2> QED
    BY <2>1, <2>2 DEF EnqueueSend
<1>5. Quiet'
  BY <1>1, <1>3, <1>4 DEF JInv, Quiet, Free, Enqueuing
<1>6. ASSUME Live', NEW i \in Jobs, Waits(i)' PROVE i \in starting' \/ OnTheWay(i)'
  <2>1. Waits(i) /\ (i \in starting \/ OnTheWay(i))
    BY <1>1, <1>6 DEF JInv, Waiting, Live, Waits
  <2>2. CASE i = j
    BY <1>4, <1>6, <2>2 DEF OnTheWay, Waits
  <2>3. CASE i # j
    BY <1>1, <1>2, <1>4, <2>1, <2>3 DEF OnTheWay, Asks
  <2> QED
    BY <2>2, <2>3
<1>7. ASSUME Live' PROVE \A w \in Workers : worker'[w].pc = "release" => ~Waits(worker[w].id)'
  BY <1>1, <1>7 DEF JInv, Waiting, Live, Waits
<1> QED
  BY <1>5, <1>6, <1>7 DEF Waiting

\* Callers outside of the send, and requests, take nothing off the way.
SameWay ==
    /\ UNCHANGED <<struck, process, starting, queue, worker>>
    /\ process # "down"
    /\ \A c \in Callers :
        /\ caller'[c].pc = "unmark" => caller'[c] = caller[c]
        /\ Asks(c) => caller'[c] = caller[c]
    /\ \A j \in Jobs : Waits(j)' /\ ~Waits(j) =>
          /\ \E c \in Callers : Asks(c)' /\ caller'[c].id = j
          /\ status[j] = "none"

LEMMA SameWayWaits ==
    ASSUME JInv, SameWay
    PROVE  Quiet' /\ Waiting'
<1>1. Quiet'
  BY DEF SameWay, JInv, Quiet
<1>2. Queued' = Queued /\ \A i : RunOf(i)' = RunOf(i)
  BY DEF SameWay, Queued, RunOf, Running
<1>3. ASSUME Live', NEW i \in Jobs, Waits(i)' PROVE i \in starting' \/ OnTheWay(i)'
  <2>1. CASE Waits(i)
    <3>1. i \in starting \/ OnTheWay(i)
      BY <1>3, <2>1 DEF SameWay, JInv, Waiting, Live
    <3> QED
      BY <1>2, <3>1 DEF SameWay, OnTheWay, Asks
  <2>2. CASE ~Waits(i)
    BY <1>3, <2>2 DEF SameWay, OnTheWay
  <2> QED
    BY <2>1, <2>2
<1>4. ASSUME Live', NEW w \in Workers, worker'[w].pc = "release"
      PROVE  ~Waits(worker[w].id)'
  <2>1. worker' = worker /\ Running(w) /\ ~Waits(worker[w].id)
    BY <1>4 DEF SameWay, JInv, Waiting, Live, Running, RunPcs
  <2>2. worker[w].id \in Jobs /\ status[worker[w].id] # "none"
    BY <2>1, RunShape DEF JInv, IInv, RunRecord, Known, Touched, RunOf
  <2> QED
    BY <2>1, <2>2 DEF SameWay, Waits
<1> QED
  BY <1>1, <1>3, <1>4 DEF Waiting

LEMMA EnqueueUnmarkWaits ==
    ASSUME JInv, NEW c \in Callers, EnqueueUnmark(c)
    PROVE  Quiet' /\ Waiting'
<1>1. SameWay
  BY DEF EnqueueUnmark, SameWay, Asks, Free, Waits, JInv, IInv, TypeOK, Quiet, tables,
     history
<1> QED
  BY <1>1, SameWayWaits

LEMMA RequestStepWaits ==
    ASSUME JInv, NEW c \in Requests, RequestStep(c)
    PROVE  Quiet' /\ Waiting'
<1>1. c \in Callers /\ TypeOK
  BY DEF Callers, JInv, IInv
<1>2. /\ UNCHANGED <<struck, process, starting, queue, worker>>
      /\ ~Asks(c)
      /\ caller'[c].pc # "unmark"
      /\ \A d \in Callers : d # c => caller'[d] = caller[d]
  BY <1>1 DEF RequestStep, CreateJob, FailCreate, CountActive, ResumeJob, history,
     Asks, Free, Counted, Enqueuing, TypeOK
<1>3. process # "down"
  BY <1>1 DEF RequestStep, CreateJob, FailCreate, CountActive, ResumeJob, Free, JInv,
     Quiet
<1>4. ASSUME NEW j \in Jobs, Waits(j)', ~Waits(j)
      PROVE  /\ \E d \in Callers : Asks(d)' /\ caller'[d].id = j
             /\ status[j] = "none"
  <2>1. CreateJob(c) /\ status[j] = "none" /\ caller'[c] = Enqueuing("enqueue", j)
    BY <1>1, <1>2, <1>4 DEF RequestStep, CreateJob, FailCreate, CountActive, ResumeJob,
       Waits, TypeOK, tables
  <2> QED
    BY <1>1, <2>1 DEF Asks, Enqueuing
<1>5. SameWay
  BY <1>2, <1>3, <1>4 DEF SameWay
<1> QED
  BY <1>5, SameWayWaits

LEMMA ReceiveWaits ==
    ASSUME JInv, NEW w \in Workers, Receive(w)
    PROVE  Quiet' /\ Waiting'
<1> DEFINE j == Head(queue)
<1>1. /\ TypeOK
      /\ UNCHANGED <<status, struck, process, starting, caller>>
      /\ process # "down"
      /\ worker' = [worker EXCEPT ![w] = Run(j)]
      /\ queue' = Tail(queue)
      /\ ~Running(w)
  BY DEF JInv, IInv, Receive, Running, Idle, RunPcs, tables, history
<1>2. queue \in Seq(Jobs) /\ Len(queue) > 0
  BY <1>1 DEF Receive, TypeOK
<1>3. \A i : i \in Queued => i \in Queued' \/ i = j
  <2>1. ASSUME NEW k \in DOMAIN queue, k # 1
        PROVE  k - 1 \in DOMAIN queue' /\ queue'[k - 1] = queue[k]
    BY <1>1, <1>2, <2>1
  <2>2. queue[1] = j
    BY <1>2
  <2> QED
    BY <2>1, <2>2 DEF Queued
<1>4. \A v \in Workers : /\ v # w => worker'[v] = worker[v]
                         /\ Running(w)' /\ worker'[w].id = j
                         /\ worker'[w].pc # "release"
  BY <1>1 DEF Running, Run, RunPcs, TypeOK
<1>5. \A i : /\ RunOf(i) \subseteq RunOf(i)'
             /\ i = j => w \in RunOf(i)'
  BY <1>1, <1>4 DEF RunOf, Running
<1>6. Quiet'
  BY <1>1 DEF JInv, Quiet
<1>7. ASSUME Live', NEW i \in Jobs, Waits(i)' PROVE i \in starting' \/ OnTheWay(i)'
  <2>1. i \in starting \/ OnTheWay(i)
    BY <1>1, <1>7 DEF JInv, Waiting, Live, Waits
  <2> QED
    BY <1>1, <1>3, <1>5, <2>1 DEF OnTheWay, Asks
<1>8. ASSUME Live' PROVE \A v \in Workers : worker'[v].pc = "release" => ~Waits(worker[v].id)'
  BY <1>1, <1>4, <1>8 DEF JInv, Waiting, Live, Waits
<1> QED
  BY <1>6, <1>7, <1>8 DEF Waiting

LEMMA ReleaseWaits ==
    ASSUME JInv, NEW w \in Workers, Release(w) \/ Leave(w)
    PROVE  Quiet' /\ Waiting'
<1>1. /\ TypeOK
      /\ UNCHANGED <<status, struck, process, starting, queue, caller>>
      /\ process # "down"
      /\ \A v \in Workers : v # w => worker'[v] = worker[v]
      /\ ~Running(w)' /\ worker'[w].pc # "release"
  BY DEF JInv, IInv, Release, Leave, tables, history, memory, TypeOK, Running, RunPcs,
     Idle, Gone, Quiet
<1>2. Quiet'
  BY <1>1 DEF JInv, Quiet
<1>3. ASSUME Live', NEW i \in Jobs, Waits(i)' PROVE i \in starting' \/ OnTheWay(i)'
  <2>1. Waits(i) /\ (i \in starting \/ OnTheWay(i))
    BY <1>1, <1>3 DEF JInv, Waiting, Live, Waits
  <2>2. w \notin RunOf(i)
    BY <1>1, <1>3, <2>1 DEF JInv, Waiting, Live, RunOf, Running, RunPcs, Release, Leave,
       Idle
  <2>3. RunOf(i) \subseteq RunOf(i)' /\ Queued' = Queued
    BY <1>1, <2>2 DEF RunOf, Running, Queued
  <2> QED
    BY <1>1, <2>1, <2>3 DEF OnTheWay, Asks
<1>4. ASSUME Live' PROVE \A v \in Workers : worker'[v].pc = "release" => ~Waits(worker[v].id)'
  BY <1>1, <1>4 DEF JInv, Waiting, Live, Waits
<1> QED
  BY <1>2, <1>3, <1>4 DEF Waiting

LEMMA ProcessStepWaits ==
    ASSUME JInv, ProcessStep
    PROVE  Quiet' /\ Waiting'
<1>1. TypeOK
  BY DEF JInv, IInv
<1>2. CASE Start
  <2>1. /\ process' = "starting"
        /\ \A c \in Callers : caller'[c] = Free
        /\ \A w \in Workers : ~Running(w) /\ worker'[w] = worker[w]
    BY <1>2 DEF Start, JInv, Quiet
  <2>2. \A j \in Jobs : status'[j] \in {"queued", "running"} => j \in starting'
    BY <1>2 DEF Start, Restarted
  <2> QED
    BY <2>1, <2>2 DEF Quiet, Waiting, Waits, Free, Running, RunPcs
<1>3. CASE Serve
  <2>1. Quiet'
    BY <1>3 DEF Serve, JInv, Quiet, history
  <2>2. UNCHANGED <<status, struck, starting, queue, caller, worker>> /\ Live
    BY <1>3 DEF Serve, tables, history, Live
  <2>3. Waiting'
    BY <2>2 DEF JInv, Waiting, Waits, OnTheWay, Queued, RunOf, Running, Asks
  <2> QED
    BY <2>1, <2>3
<1>4. CASE Stop
  BY <1>4 DEF Stop, JInv, Quiet, Waiting, Live, history
<1>5. CASE Exit \/ Crash
  BY <1>5 DEF Exit, Crash, Ended, Quiet, Waiting, Live, Running, RunPcs, Idle, Free
<1>6. ASSUME NEW j \in Jobs, Requeue(j) PROVE Quiet' /\ Waiting'
  <2>1. /\ Starter \in Callers
        /\ j \in starting
        /\ starting' = starting \ {j}
        /\ UNCHANGED <<status, struck, process, queue, worker>>
        /\ caller[Starter] = Free
        /\ caller'[Starter] = Enqueuing("enqueue", j)
        /\ \A d \in Callers : d # Starter => caller'[d] = caller[d]
    BY <1>1, <1>6 DEF Requeue, Callers, TypeOK, tables, history
  <2>2. Quiet'
    BY <2>1 DEF JInv, Quiet, Enqueuing
  <2>3. ASSUME Live', NEW i \in Jobs, Waits(i)' PROVE i \in starting' \/ OnTheWay(i)'
    <3>1. i \in starting \/ OnTheWay(i)
      BY <2>1, <2>3 DEF JInv, Waiting, Live, Waits
    <3>2. \A d \in Callers : Asks(d) => caller'[d] = caller[d]
      BY <2>1 DEF Asks, Free
    <3>3. CASE i = j
      BY <2>1, <3>3 DEF OnTheWay, Asks, Enqueuing
    <3> QED
      BY <2>1, <3>1, <3>2, <3>3 DEF OnTheWay, Asks, Queued, RunOf, Running
  <2>4. ASSUME Live' PROVE \A v \in Workers : worker'[v].pc = "release" => ~Waits(worker[v].id)'
    BY <2>1, <2>4 DEF JInv, Waiting, Live, Waits
  <2> QED
    BY <2>2, <2>3, <2>4 DEF Waiting
<1> QED
  BY <1>2, <1>3, <1>4, <1>5, <1>6 DEF ProcessStep

LEMMA WaitingStep ==
    VerifyJobsAssumption /\ JInv /\ [Next]_vars => Quiet' /\ Waiting'
<1> SUFFICES ASSUME VerifyJobsAssumption, JInv, [Next]_vars PROVE Quiet' /\ Waiting'
  OBVIOUS
<1>1. ASSUME NEW c \in Callers, CallerStep(c) PROVE Quiet' /\ Waiting'
  BY <1>1, EnqueueMarkWaits, EnqueueSendWaits, EnqueueUnmarkWaits DEF CallerStep
<1>2. ASSUME NEW c \in Requests, RequestStep(c) PROVE Quiet' /\ Waiting'
  BY <1>2, RequestStepWaits
<1>3. ASSUME NEW w \in Workers,
             Receive(w) \/ RunStep(w) \/ DatabaseError(w) \/ Leave(w)
      PROVE  Quiet' /\ Waiting'
  BY <1>3, RunStepsWait, ReceiveWaits, ReleaseWaits DEF RunStep, RunSteps
<1>4. CASE ProcessStep
  BY <1>4, ProcessStepWaits
<1>5. CASE (\E e \in Evidence : Disturb(e)) \/ UNCHANGED vars
  <2>1. UNCHANGED <<status, struck, process, starting, queue, caller, worker>>
    BY <1>5 DEF Disturb, tables, memory, vars, history
  <2> QED
    BY <2>1 DEF JInv, Quiet, Waiting, Waits, Live, OnTheWay, Queued, RunOf, Running, Asks
<1> QED
  BY <1>1, <1>2, <1>3, <1>4, <1>5 DEF Next

-----------------------------------------------------------------------------
\* A row once created stays.
LEMMA RowsStay ==
    ASSUME TypeOK, [Next]_vars, NEW j \in Jobs, status[j] # "none"
    PROVE  status'[j] # "none"
<1>1. ASSUME NEW c \in Callers, CallerStep(c) PROVE UNCHANGED status
  BY <1>1 DEF CallerStep, EnqueueMark, EnqueueSend, EnqueueUnmark, tables
<1>2. ASSUME NEW c \in Requests, RequestStep(c) PROVE status'[j] # "none"
  BY <1>2 DEF RequestStep, CreateJob, FailCreate, CountActive, ResumeJob, tables, TypeOK
<1>3. ASSUME NEW w \in Workers,
             Receive(w) \/ RunStep(w) \/ DatabaseError(w) \/ Leave(w)
      PROVE  status'[j] # "none"
  BY <1>3 DEF Receive, RunStep, DatabaseError, Leave, LoadJob, OpenImage, RereadPrefix,
     BeginRun, CancelRun, StoreChunk, RejectChunk, StoreProgress, Judge, FailJob,
     VerifyJob, MarkInterrupted, Release, Decide, tables, TypeOK
<1>4. CASE ProcessStep
  BY <1>4 DEF ProcessStep, Start, Restarted, Serve, Stop, Exit, Crash, Ended, Requeue,
     tables
<1>5. CASE (\E e \in Evidence : Disturb(e)) \/ UNCHANGED vars
  BY <1>5 DEF Disturb, vars, tables
<1> QED
  BY <1>1, <1>2, <1>3, <1>4, <1>5 DEF Next

LEMMA KnownStep ==
    VerifyJobsAssumption /\ TypeOK /\ Known /\ [Next]_vars => Known'
<1> SUFFICES ASSUME VerifyJobsAssumption, TypeOK, Known, [Next]_vars,
                    NEW j \in Jobs, Touched(j)', ~Touched(j)
             PROVE  status'[j] # "none"
  BY RowsStay DEF Known
<1>1. ASSUME NEW c \in Callers, CallerStep(c) PROVE FALSE
  <2>1. /\ UNCHANGED <<starting, worker>>
        /\ caller[c].pc \in {"enqueue", "send", "unmark"}
        /\ \A d \in Callers : d # c => caller'[d] = caller[d]
        /\ caller'[c] = Free \/ caller'[c].id = caller[c].id
    BY <1>1 DEF CallerStep, EnqueueMark, EnqueueSend, EnqueueUnmark, Dropped, Enqueuing,
       TypeOK
  <2>2. Queued' \subseteq Queued \cup {caller[c].id}
    <3>1. CASE queue' = Append(queue, caller[c].id)
      <4>1. \A i \in DOMAIN queue' :
                \/ i \in DOMAIN queue /\ queue'[i] = queue[i]
                \/ queue'[i] = caller[c].id
        BY <3>1 DEF TypeOK
      <4> QED
        BY <4>1 DEF Queued
    <3>2. CASE UNCHANGED queue
      BY <3>2 DEF Queued
    <3> QED
      BY <1>1, <3>1, <3>2 DEF CallerStep, EnqueueMark, EnqueueSend, EnqueueUnmark
  <2>3. \A i : RunOf(i)' = RunOf(i)
    BY <2>1 DEF RunOf, Running
  <2> QED
    BY <2>1, <2>2, <2>3 DEF Touched, Free
<1>2. ASSUME NEW c \in Requests, RequestStep(c) PROVE status'[j] # "none"
  <2>1. /\ UNCHANGED <<starting, queue, worker>>
        /\ c \in Callers
        /\ \A d \in Callers : d # c => caller'[d] = caller[d]
    BY <1>2 DEF RequestStep, CreateJob, FailCreate, CountActive, ResumeJob, Callers, TypeOK
  <2>2. Queued' = Queued /\ \A i : RunOf(i)' = RunOf(i)
    BY <2>1 DEF Queued, RunOf, Running
  <2>3. caller'[c].pc \in {"enqueue", "send", "unmark"} /\ caller'[c].id = j
    BY <2>1, <2>2 DEF Touched
  <2> QED
    BY <1>2, <2>1, <2>3 DEF RequestStep, CreateJob, FailCreate, CountActive, ResumeJob,
       Free, Counted, Enqueuing, TypeOK, tables
<1>3. ASSUME NEW w \in Workers, RunSteps(w) PROVE FALSE
  <2>1. SameRuns /\ UNCHANGED starting
    BY <1>3, RunStepsShape DEF RunSteps, LoadJob, OpenImage, RereadPrefix, BeginRun,
       CancelRun, StoreChunk, RejectChunk, StoreProgress, Judge, FailJob, VerifyJob,
       MarkInterrupted, DatabaseError, Decide, memory
  <2> QED
    BY <2>1 DEF SameRuns, Touched, Queued, RunOf, Running
<1>4. ASSUME NEW w \in Workers, Receive(w) PROVE FALSE
  <2>1. /\ UNCHANGED <<starting, caller>>
        /\ worker' = [worker EXCEPT ![w] = Run(Head(queue))]
        /\ queue' = Tail(queue)
        /\ queue \in Seq(Jobs) /\ Len(queue) > 0
    BY <1>4 DEF Receive, TypeOK
  <2>2. Queued' \subseteq Queued /\ Head(queue) \in Queued
    <3>1. \A i \in DOMAIN queue' : i + 1 \in DOMAIN queue /\ queue'[i] = queue[i + 1]
      BY <2>1
    <3>2. 1 \in DOMAIN queue /\ queue[1] = Head(queue)
      BY <2>1
    <3> QED
      BY <3>1, <3>2 DEF Queued
  <2>3. \A v \in Workers : /\ v # w => worker'[v] = worker[v]
                           /\ worker'[w].id = Head(queue)
    BY <2>1 DEF Run, TypeOK
  <2>4. RunOf(j)' # {} => RunOf(j) # {} \/ j = Head(queue)
    BY <2>3 DEF RunOf, Running
  <2> QED
    BY <2>1, <2>2, <2>4 DEF Touched
<1>5. ASSUME NEW w \in Workers, Release(w) \/ Leave(w) PROVE FALSE
  <2>1. /\ UNCHANGED <<starting, queue, caller>>
        /\ \A v \in Workers : v # w => worker'[v] = worker[v]
        /\ ~Running(w)'
    BY <1>5 DEF Release, Leave, memory, Running, RunPcs, Idle, Gone, TypeOK
  <2>2. RunOf(j)' \subseteq RunOf(j)
    BY <2>1 DEF RunOf, Running
  <2> QED
    BY <2>1, <2>2 DEF Touched, Queued
<1>6. CASE ProcessStep
  <2>1. CASE Start
    BY <2>1 DEF Start, Restarted, Touched, Queued, RunOf, Running
  <2>2. CASE Serve \/ Stop
    BY <2>2 DEF Serve, Stop, Touched, Queued, RunOf, Running
  <2>3. CASE Exit \/ Crash
    BY <2>3 DEF Exit, Crash, Ended, Touched, Queued, RunOf, Running, RunPcs, Idle, Free
  <2>4. ASSUME NEW i \in Jobs, Requeue(i) PROVE FALSE
    <3>1. /\ i \in starting
          /\ starting' \subseteq starting
          /\ UNCHANGED <<queue, worker>>
          /\ \A d \in Callers : caller'[d] = caller[d] \/ caller'[d] = Enqueuing("enqueue", i)
      BY <2>4 DEF Requeue, TypeOK
    <3> QED
      BY <3>1 DEF Touched, Queued, RunOf, Running, Enqueuing
  <2> QED
    BY <1>6, <2>1, <2>2, <2>3, <2>4 DEF ProcessStep
<1>7. CASE (\E e \in Evidence : Disturb(e)) \/ UNCHANGED vars
  BY <1>7 DEF Disturb, memory, vars, Touched, Queued, RunOf, Running
<1> QED
  BY <1>1, <1>2, <1>3, <1>4, <1>5, <1>6, <1>7 DEF Next, RunStep, RunSteps

LEMMA JInvInvariance == Spec => []JInv
<1>1. Init => JInv
  BY IInvInit, VerifyJobsAssumption DEF Init, JInv, HeldMarks, Known, Touched, Queued,
     RunOf, Running, RunPcs, Idle, Free, Quiet, Waiting, Live
<1>2. JInv /\ [Next]_vars => JInv'
  BY IInvStep, HeldMarksStep, KnownStep, WaitingStep, VerifyJobsAssumption DEF JInv, IInv
<1> QED
  BY <1>1, <1>2, PTL DEF Spec

(* The queue forgets no job (StartVerify, enqueue, Start: jobs.go:21-138):   *)
(* while the server runs a job that is queued or running is in the queue, in *)
(* a worker or with a caller of enqueue, unless the queue was full or a      *)
(* statement of its run failed.                                              *)
THEOREM NothingForgotten == Spec => []WaitingIsHeld
BY JInvInvariance, JInvSuffices, PTL

-----------------------------------------------------------------------------
(* The rows of a job and the run that writes them.                         *)

Row(k, digest) == [at |-> k, digest |-> digest]
Whole == [at : Offsets, digest : {"registered"}]
ImageOf(j) == file[EvidenceOf[j]]

\* The chunk rows of a job are one for each of the first n chunks.
Prefix(j, n) ==
    /\ {c.at : c \in chunk[j]} = 0 .. n - 1
    /\ \A c, d \in chunk[j] : c.at = d.at => c = d

\* What a failed verdict may be due to
Excused(j) == ImageOf(j).touched \/ j \in struck \/ Torn(j)

JobFacts(j) ==
    /\ \E n \in 0 .. ChunkCount : Prefix(j, n) /\ processed[j] <= n
    /\ ~ImageOf(j).touched => \A c \in chunk[j] : c.digest = "registered"
    /\ status[j] = "verified" => processed[j] = ChunkCount /\ chunk[j] = Whole
    /\ status[j] = "failed" => Excused(j)
    /\ j \in dirty => ImageOf(j).changed # {} /\ status[j] # "verified"

\* The run has a changed chunk before it, or has fed one to the hasher.
Suspicious(r) ==
    \E k \in ImageOf(r.id).changed : k >= r.at \/ r.hash[k + 1] = "changed"

RunFacts(r) ==
    /\ r.pc \in {"load", "open", "reread"} => r.hash = <<>>
    /\ r.pc \in {"open", "reread", "begin", "loop", "verify"} => r.at = processed[r.id]
    /\ r.pc \in {"begin", "loop", "progress", "verify"} =>
           /\ Len(r.hash) = r.at
           /\ \A k \in 1 .. r.at : Row(k - 1, r.hash[k]) \in chunk[r.id]
    /\ r.pc = "progress" => r.at > 0
    /\ r.pc = "verify" => r.at = ChunkCount /\ r.hash = Baseline
    /\ r.pc = "fail" => Excused(r.id)
    /\ r.id \in dirty => /\ r.pc \in {"begin", "loop", "progress"} => Suspicious(r)
                         /\ r.pc # "verify"

Untouched ==
    \A e \in Evidence : ~file[e].touched =>
        file[e].named /\ file[e].size = ChunkCount /\ file[e].changed = {}

WInv ==
    /\ Untouched
    /\ \A j \in Jobs : JobFacts(j)
    /\ \A w \in Workers : Running(w) => RunFacts(worker[w])

\* A prefix of n chunks has n rows, which is what the code counts.
LEMMA PrefixCounts ==
    ASSUME NEW j \in Jobs, NEW n \in Nat, Prefix(j, n)
    PROVE  Cardinality(chunk[j]) = n /\ Contiguous(j)
<1> DEFINE at == {c.at : c \in chunk[j]}
           f == [k \in 0 .. n - 1 |-> CHOOSE c \in chunk[j] : c.at = k]
<1>1. at = 0 .. n - 1 /\ \A c, d \in chunk[j] : c.at = d.at => c = d
  BY DEF Prefix
<1>2. \A k \in 0 .. n - 1 : f[k] \in chunk[j] /\ f[k].at = k
  <2> SUFFICES ASSUME NEW k \in 0 .. n - 1 PROVE f[k] \in chunk[j] /\ f[k].at = k
    OBVIOUS
  <2>1. \E c \in chunk[j] : c.at = k
    BY <1>1
  <2> QED
    BY <2>1
<1>3. f \in Bijection(0 .. n - 1, chunk[j])
  <2>1. f \in [0 .. n - 1 -> chunk[j]]
    BY <1>2
  <2>2. \A k, m \in 0 .. n - 1 : f[k] = f[m] => k = m
    BY <1>2
  <2>3. \A c \in chunk[j] : \E k \in 0 .. n - 1 : f[k] = c
    <3> SUFFICES ASSUME NEW c \in chunk[j] PROVE f[c.at] = c /\ c.at \in 0 .. n - 1
      OBVIOUS
    <3>1. c.at \in 0 .. n - 1
      BY <1>1
    <3> QED
      BY <1>1, <1>2, <3>1
  <2> HIDE DEF f
  <2> QED
    BY <2>1, <2>2, <2>3 DEF Bijection, Injection, Surjection, IsInjective
<1>4. IsFiniteSet(0 .. n - 1) /\ Cardinality(0 .. n - 1) = n
  BY FS_Interval
<1>5. Cardinality(chunk[j]) = n
  BY <1>3, <1>4, FS_Bijection DEF ExistsBijection
<1> QED
  BY <1>1, <1>4, <1>5 DEF Contiguous

\* The step leaves the rows of job i, its image and its marks alone.
SameJob(i) ==
    /\ UNCHANGED file
    /\ status'[i] = status[i] /\ processed'[i] = processed[i] /\ chunk'[i] = chunk[i]
    /\ i \in struck' <=> i \in struck
    /\ i \in dirty' <=> i \in dirty

LEMMA SameJobFacts ==
    ASSUME NEW i \in Jobs, SameJob(i), JobFacts(i)
    PROVE  JobFacts(i)'
BY DEF SameJob, JobFacts, Prefix, ImageOf, Excused, Torn

LEMMA SameRunFacts ==
    ASSUME NEW v \in Workers, worker'[v] = worker[v], SameJob(worker[v].id),
           RunFacts(worker[v])
    PROVE  RunFacts(worker[v])'
<1> DEFINE r == worker[v]
           i == worker[v].id
<1>1. /\ Suspicious(r)' <=> Suspicious(r)
      /\ Excused(i)' <=> Excused(i)
  BY DEF SameJob, Suspicious, Excused, Torn, ImageOf
<1>2. worker'[v] = r /\ worker'[v].id = i
  OBVIOUS
<1> QED
  BY <1>1 DEF SameJob, RunFacts

\* A step of a run writes the rows of its own job.
OwnJob(w) ==
    /\ \A i \in Jobs \ {worker[w].id} : SameJob(i)
    /\ \A v \in Workers \ {w} : worker'[v] = worker[v]
    /\ UNCHANGED file

LEMMA RunStepsOwn ==
    ASSUME VerifyJobsAssumption, TypeOK, NEW w \in Workers, RunSteps(w)
    PROVE  OwnJob(w)
<1>1. \A v \in Workers \ {w} : worker'[v] = worker[v]
  BY RunStepsShape
<1>2. UNCHANGED file
  BY DEF RunSteps, LoadJob, OpenImage, RereadPrefix, BeginRun, CancelRun, StoreChunk,
     RejectChunk, StoreProgress, Judge, FailJob, VerifyJob, MarkInterrupted,
     DatabaseError, Decide
<1>3. ASSUME NEW i \in Jobs, i # worker[w].id PROVE SameJob(i)
  <2>1. status'[i] = status[i] /\ processed'[i] = processed[i] /\ chunk'[i] = chunk[i]
    BY <1>3 DEF RunSteps, LoadJob, OpenImage, RereadPrefix, BeginRun, CancelRun,
       StoreChunk, RejectChunk, StoreProgress, Judge, FailJob, VerifyJob,
       MarkInterrupted, DatabaseError, Decide, tables, TypeOK
  <2>2. (i \in struck' <=> i \in struck) /\ (i \in dirty' <=> i \in dirty)
    BY <1>3 DEF RunSteps, LoadJob, OpenImage, RereadPrefix, BeginRun, CancelRun,
       StoreChunk, RejectChunk, StoreProgress, Judge, FailJob, VerifyJob,
       MarkInterrupted, DatabaseError, Decide, history
  <2> QED
    BY <1>2, <2>1, <2>2 DEF SameJob
<1> QED
  BY <1>1, <1>2, <1>3 DEF OwnJob

\* So it is enough to look at the run and its job.
LEMMA OwnSuffices ==
    ASSUME IInv, WInv, NEW w \in Workers, Running(w), OwnJob(w), SameRuns,
           NEW j \in Jobs, j = worker[w].id, JobFacts(j)',
           Running(w)' => RunFacts(worker[w])'
    PROVE  WInv'
<1>1. TypeOK /\ OneRunner
  BY DEF IInv, Alone
<1>2. Untouched'
  BY DEF WInv, Untouched, OwnJob
<1>3. ASSUME NEW i \in Jobs, i # j PROVE JobFacts(i)'
  BY <1>3, SameJobFacts DEF OwnJob, WInv
<1>4. ASSUME NEW v \in Workers, Running(v)' PROVE RunFacts(worker[v])'
  <2>1. CASE v = w
    BY <1>4, <2>1
  <2>2. CASE v # w
    <3>1. Running(v) /\ worker'[v] = worker[v]
      BY <1>4, <2>2 DEF OwnJob, Running
    <3>2. worker[v].id \in Jobs \ {j}
      BY <1>1, <2>2, <3>1, RunShape DEF OneRunner, RunRecord
    <3> QED
      BY <3>1, <3>2, SameRunFacts DEF WInv, OwnJob
  <2> QED
    BY <2>1, <2>2
<1> QED
  BY <1>2, <1>3, <1>4 DEF WInv

\* What is known of the job of a run, and of its rows.
LEMMA RunKnows ==
    ASSUME VerifyJobsAssumption, IInv, WInv, NEW w \in Workers, Running(w)
    PROVE  /\ worker[w] \in RunRecord /\ worker[w].id \in Jobs
           /\ worker[w].at \in 0 .. ChunkCount /\ worker[w].hash \in Seq(Contents)
           /\ EvidenceOf[worker[w].id] \in Evidence
           /\ RunFacts(worker[w]) /\ JobFacts(worker[w].id)
           /\ worker[w].pc \notin {"load", "release"} =>
                  status[worker[w].id] \notin Terminal
<1>1. worker[w] \in RunRecord
  BY RunShape DEF IInv
<1> QED
  BY <1>1 DEF RunRecord, VerifyJobsAssumption, WInv, IInv, RunsUndecided

LEMMA LoadJobRows ==
    ASSUME VerifyJobsAssumption, IInv, WInv, NEW w \in Workers, LoadJob(w),
           NEW j \in Jobs, j = worker[w].id
    PROVE  JobFacts(j)' /\ RunFacts(worker[w])'
<1> DEFINE r == worker[w]
           s == worker'[w]
<1>1. Running(w) /\ SameJob(j)
  BY DEF LoadJob, tables, history, SameJob, Running, RunPcs
<1>2. r \in RunRecord /\ RunFacts(r) /\ JobFacts(j)
  BY <1>1, RunKnows
<1>3. \/ s.pc = "release"
      \/ s.pc = "open" /\ s.id = j /\ s.at = processed[j] /\ s.hash = r.hash
  <2>1. s = IF process = "stopping" \/ Decided(j) THEN Goto(r, "release")
            ELSE [r EXCEPT !.pc = "open", !.at = processed[j]]
    BY DEF LoadJob, IInv, TypeOK
  <2> QED
    BY <1>2, <2>1 DEF Goto, RunRecord
<1>4. r.hash = <<>>
  BY <1>2 DEF LoadJob, RunFacts
<1> QED
  BY <1>1, <1>2, <1>3, <1>4, SameJobFacts DEF RunFacts, SameJob

LEMMA OpenImageRows ==
    ASSUME VerifyJobsAssumption, IInv, WInv, NEW w \in Workers, OpenImage(w),
           NEW j \in Jobs, j = worker[w].id
    PROVE  JobFacts(j)' /\ RunFacts(worker[w])'
<1> DEFINE r == worker[w]
           s == worker'[w]
           image == ImageOf(j)
<1>1. Running(w) /\ r.pc = "open"
  BY DEF OpenImage, Running, RunPcs
<1>2. /\ r \in RunRecord /\ RunFacts(r) /\ JobFacts(j) /\ status[j] \notin Terminal
      /\ r.at \in 0 .. ChunkCount /\ EvidenceOf[j] \in Evidence
  BY <1>1, RunKnows
<1>3. /\ UNCHANGED <<status, processed, chunk, file, struck>>
      /\ j \in dirty' <=> j \in dirty \/ image.changed # {}
  BY DEF OpenImage, tables, ImageOf
<1>4. JobFacts(j)'
  BY <1>2, <1>3 DEF JobFacts, Prefix, ImageOf, Excused, Torn, Terminal
<1>5. /\ s.id = j /\ s.at = r.at /\ s.hash = r.hash
      /\ s.pc = IF ~image.named \/ image.size # ChunkCount THEN "fail"
                ELSE IF r.at > 0 THEN "reread" ELSE "begin"
  <2>1. s = Goto(r, IF ~image.named \/ image.size # ChunkCount THEN "fail"
                    ELSE IF r.at > 0 THEN "reread" ELSE "begin")
    BY DEF OpenImage, IInv, TypeOK, ImageOf
  <2> QED
    BY <1>2, <2>1 DEF Goto, RunRecord
<1>6. r.hash = <<>> /\ r.at = processed[j]
  BY <1>1, <1>2 DEF RunFacts
<1>7. s.pc = "fail" => Excused(j)'
  BY <1>2, <1>3, <1>5 DEF Excused, ImageOf, WInv, Untouched
<1>8. s.pc = "begin" => s.at = 0
  BY <1>2, <1>5 DEF VerifyJobsAssumption
<1>9. j \in dirty' => image.changed # {} /\ image.changed \subseteq Nat
  BY <1>2, <1>3 DEF JobFacts, IInv, TypeOK, Image, ImageOf, Offsets, VerifyJobsAssumption
<1>10. j \in dirty' /\ s.pc = "begin" => Suspicious(worker[w])'
  BY <1>3, <1>5, <1>8, <1>9 DEF Suspicious, ImageOf
<1> QED
  BY <1>3, <1>4, <1>5, <1>6, <1>7, <1>8, <1>10 DEF RunFacts

\* The stored prefix is read again: either it still stands, and the hasher has
\* what the rows record, or the image was touched or the rows are torn.
LEMMA RereadPrefixRows ==
    ASSUME VerifyJobsAssumption, IInv, WInv, NEW w \in Workers, RereadPrefix(w),
           NEW j \in Jobs, j = worker[w].id
    PROVE  JobFacts(j)' /\ RunFacts(worker[w])'
<1> DEFINE r == worker[w]
           s == worker'[w]
           image == ImageOf(j)
<1>1. Running(w) /\ r.pc = "reread" /\ SameJob(j)
  BY DEF RereadPrefix, Running, RunPcs, tables, history, SameJob
<1>2. /\ r \in RunRecord /\ RunFacts(r) /\ JobFacts(j)
      /\ r.at \in 0 .. ChunkCount /\ EvidenceOf[j] \in Evidence /\ r.at = processed[j]
  BY <1>1, RunKnows DEF RunFacts
<1>3. s = Reread(r)
  BY DEF RereadPrefix, IInv, TypeOK
<1>4. PICK n \in 0 .. ChunkCount : Prefix(j, n) /\ processed[j] <= n
  BY <1>2 DEF JobFacts
<1>5. n \in Nat /\ Cardinality(chunk[j]) = n /\ Contiguous(j)
  BY <1>4, PrefixCounts DEF VerifyJobsAssumption
<1>6. JobFacts(j)'
  BY <1>1, <1>2, SameJobFacts
<1>7. CASE PrefixStands(j, r.at)
  <2>1. n = r.at /\ \A c \in chunk[j] : c.digest = Content(EvidenceOf[j], c.at)
    BY <1>5, <1>7 DEF PrefixStands
  <2>2. /\ s.pc = "begin" /\ s.id = j /\ s.at = r.at
        /\ s.hash = [k \in 1 .. r.at |-> Content(EvidenceOf[j], k - 1)]
    BY <1>2, <1>3, <1>7 DEF Reread, RunRecord, PrefixRead
  <2>3. r.at \in Nat
    BY <1>2 DEF VerifyJobsAssumption
  <2>4. ASSUME NEW k \in 1 .. r.at
        PROVE  Row(k - 1, s.hash[k]) \in chunk[j]
    <3>1. PICK c \in chunk[j] : c.at = k - 1
      BY <1>4, <2>1, <2>3 DEF Prefix
    <3>2. c = [at |-> k - 1, digest |-> s.hash[k]]
      BY <2>1, <2>2, <3>1 DEF IInv, TypeOK, Chunk
    <3> QED
      BY <3>1, <3>2 DEF Row
  <2>5. Len(s.hash) = r.at
    BY <2>2, <2>3
  <2>6. j \in dirty => Suspicious(worker[w])'
    <3> SUFFICES ASSUME j \in dirty PROVE Suspicious(worker[w])'
      OBVIOUS
    <3>1. PICK k \in image.changed : k \in Nat
      BY <1>2 DEF JobFacts, IInv, TypeOK, Image, ImageOf, Offsets, VerifyJobsAssumption
    <3>2. k < r.at => s.hash[k + 1] = "changed"
      BY <2>2, <2>3, <3>1 DEF Content, ImageOf
    <3> QED
      BY <1>1, <2>2, <2>3, <3>1, <3>2 DEF Suspicious, ImageOf, SameJob
  <2> QED
    BY <1>1, <1>2, <1>6, <2>2, <2>4, <2>5, <2>6 DEF RunFacts, SameJob
<1>8. CASE ~PrefixStands(j, r.at)
  <2>1. s.pc = "fail" /\ s.id = j
    BY <1>2, <1>3, <1>8 DEF Reread, Goto, RunRecord
  <2>2. Excused(j)
    <3> SUFFICES ASSUME ~image.touched, n = r.at PROVE FALSE
      BY <1>2, <1>4, <1>5 DEF Excused, Torn, VerifyJobsAssumption
    <3>1. image.size = ChunkCount /\ image.changed = {}
      BY <1>2 DEF WInv, Untouched, ImageOf
    <3>2. \A c \in chunk[j] : c.digest = "registered" /\ c.at \in 0 .. n - 1
      BY <1>2, <1>4 DEF JobFacts, Prefix
    <3> QED
      BY <1>5, <1>8, <3>1, <3>2 DEF PrefixStands, Content, ImageOf, VerifyJobsAssumption
  <2>3. Excused(j)'
    BY <1>1, <2>2 DEF SameJob, Excused, Torn, ImageOf
  <2> QED
    BY <1>6, <2>1, <2>3 DEF RunFacts
<1> QED
  BY <1>7, <1>8

LEMMA BeginRunRows ==
    ASSUME VerifyJobsAssumption, IInv, WInv, NEW w \in Workers, BeginRun(w),
           NEW j \in Jobs, j = worker[w].id
    PROVE  JobFacts(j)' /\ RunFacts(worker[w])'
<1> DEFINE r == worker[w]
           s == worker'[w]
<1>1. Running(w) /\ r.pc = "begin"
  BY DEF BeginRun, Running, RunPcs
<1>2. /\ r \in RunRecord /\ RunFacts(r) /\ JobFacts(j)
      /\ status[j] \notin Terminal
  BY <1>1, RunKnows
<1>3. /\ UNCHANGED <<processed, chunk, file, struck, dirty>>
      /\ status'[j] = "running"
  BY DEF BeginRun, history, IInv, TypeOK
<1>4. s.pc = "loop" /\ s.id = j /\ s.at = r.at /\ s.hash = r.hash
  <2>1. s = Goto(r, "loop")
    BY DEF BeginRun, IInv, TypeOK
  <2> QED
    BY <1>2, <2>1 DEF Goto, RunRecord
<1>5. JobFacts(j)'
  BY <1>2, <1>3 DEF JobFacts, Prefix, ImageOf, Excused, Torn
<1>6. Suspicious(worker[w])' <=> Suspicious(r)
  BY <1>3, <1>4 DEF Suspicious, ImageOf
<1> QED
  BY <1>1, <1>2, <1>3, <1>4, <1>5, <1>6 DEF RunFacts

LEMMA CancelRunRows ==
    ASSUME VerifyJobsAssumption, IInv, WInv, NEW w \in Workers, CancelRun(w),
           NEW j \in Jobs, j = worker[w].id
    PROVE  JobFacts(j)' /\ RunFacts(worker[w])'
<1>1. Running(w) /\ SameJob(j)
  BY DEF CancelRun, Running, RunPcs, tables, history, SameJob
<1>2. worker[w] \in RunRecord /\ JobFacts(j)
  BY <1>1, RunKnows
<1>3. worker'[w] = Goto(worker[w], "pause")
  BY DEF CancelRun, IInv, TypeOK
<1>4. worker'[w].pc = "pause"
  BY <1>2, <1>3 DEF Goto, RunRecord
<1> QED
  BY <1>1, <1>2, <1>4, SameJobFacts DEF RunFacts

\* The new row is that of the next chunk, and has the digest that was hashed.
LEMMA StoreChunkRows ==
    ASSUME VerifyJobsAssumption, IInv, WInv, NEW w \in Workers, StoreChunk(w),
           NEW j \in Jobs, j = worker[w].id
    PROVE  JobFacts(j)' /\ RunFacts(worker[w])'
<1> DEFINE r == worker[w]
           s == worker'[w]
           image == ImageOf(j)
           digest == Content(EvidenceOf[j], r.at)
<1>1. Running(w) /\ r.pc = "loop" /\ r.at < ChunkCount
  BY DEF StoreChunk, Running, RunPcs
<1>2. /\ r \in RunRecord /\ RunFacts(r) /\ JobFacts(j) /\ r.hash \in Seq(Contents)
      /\ r.at \in 0 .. ChunkCount /\ EvidenceOf[j] \in Evidence /\ r.at = processed[j]
      /\ Len(r.hash) = r.at /\ status[j] \notin Terminal
  BY <1>1, RunKnows DEF RunFacts
<1>3. /\ UNCHANGED <<status, processed, file, struck, dirty>>
      /\ chunk'[j] = chunk[j] \cup {Row(r.at, digest)}
      /\ ~ Unstorable(j, r.at)
  BY DEF StoreChunk, history, IInv, TypeOK, Row
<1>4. /\ s.pc = "progress" /\ s.id = j /\ s.at = r.at + 1
      /\ s.hash = Append(r.hash, digest)
  <2>1. s = [r EXCEPT !.pc = "progress", !.at = r.at + 1, !.hash = Append(r.hash, digest)]
    BY DEF StoreChunk, IInv, TypeOK
  <2> QED
    BY <1>2, <2>1 DEF RunRecord
<1>5. PICK n \in 0 .. ChunkCount : Prefix(j, n) /\ processed[j] <= n
  BY <1>2 DEF JobFacts
<1>6. r.at \in Nat /\ n \in Nat /\ ChunkCount \in Nat
  BY <1>2 DEF VerifyJobsAssumption
<1>7. n = r.at
  <2>1. r.at \notin {c.at : c \in chunk[j]}
    BY <1>3 DEF Unstorable
  <2>2. r.at \notin 0 .. n - 1
    BY <1>5, <2>1 DEF Prefix
  <2> QED
    BY <1>2, <1>5, <1>6, <2>2
<1> HIDE DEF digest
<1>8. Prefix(j, n + 1)'
  <2>1. chunk'[j] = chunk[j] \cup {Row(n, digest)} /\ Row(n, digest).at = n
    BY <1>3, <1>7 DEF Row
  <2>2. \A c \in chunk[j] : c.at \in 0 .. n - 1 /\ c.at # n
    BY <1>5, <1>6 DEF Prefix
  <2>3. \A c, d \in chunk'[j] : c.at = d.at => c = d
    BY <1>5, <2>1, <2>2 DEF Prefix
  <2>4. \A c \in chunk'[j] : c.at \in 0 .. n
    BY <1>6, <2>1, <2>2
  <2>5. \A k \in 0 .. n : \E c \in chunk'[j] : c.at = k
    <3> SUFFICES ASSUME NEW k \in 0 .. n PROVE \E c \in chunk'[j] : c.at = k
      OBVIOUS
    <3>1. CASE k = n
      BY <2>1, <3>1
    <3>2. CASE k # n
      <4>1. k \in 0 .. n - 1
        BY <1>6, <3>2
      <4>2. {c.at : c \in chunk[j]} = 0 .. n - 1
        BY <1>5 DEF Prefix
      <4>3. \E c \in chunk[j] : c.at = k
        BY <4>1, <4>2
      <4> QED
        BY <2>1, <4>3
    <3> QED
      BY <3>1, <3>2
  <2>6. {c.at : c \in chunk'[j]} = 0 .. n
    BY <2>4, <2>5
  <2>7. (n + 1) - 1 = n
    BY <1>6
  <2> QED
    BY <2>3, <2>6, <2>7 DEF Prefix
<1>9. ~image.touched => digest = "registered"
  BY <1>2 DEF digest, Content, WInv, Untouched, ImageOf
<1>10. JobFacts(j)'
  <2>1. n + 1 \in 0 .. ChunkCount /\ processed'[j] <= n + 1
    BY <1>1, <1>2, <1>3, <1>6, <1>7
  <2>2. ~ImageOf(j)'.touched => \A c \in chunk'[j] : c.digest = "registered"
    BY <1>2, <1>3, <1>9 DEF JobFacts, ImageOf, Row
  <2> QED
    BY <1>2, <1>3, <1>8, <2>1, <2>2 DEF JobFacts, Terminal, ImageOf
<1>11. /\ Len(s.hash) = s.at
       /\ \A k \in 1 .. r.at : s.hash[k] = r.hash[k]
       /\ s.hash[r.at + 1] = digest
  BY <1>2, <1>4, <1>6
<1>12. \A k \in 1 .. s.at : Row(k - 1, s.hash[k]) \in chunk'[j]
  <2> SUFFICES ASSUME NEW k \in 1 .. s.at PROVE Row(k - 1, s.hash[k]) \in chunk'[j]
    OBVIOUS
  <2>1. CASE k = r.at + 1
    BY <1>3, <1>6, <1>11, <2>1
  <2>2. CASE k # r.at + 1
    <3>0. s.at = r.at + 1 /\ r.at \in Nat
      BY <1>4, <1>6
    <3>1. k \in 1 .. r.at
      <4> HIDE DEF r, s
      <4> QED
        BY <2>2, <3>0
    <3>2. Row(k - 1, r.hash[k]) \in chunk[j]
      BY <1>1, <1>2, <3>1 DEF RunFacts
    <3> QED
      BY <1>3, <1>11, <3>1, <3>2
  <2> QED
    BY <2>1, <2>2
<1>13. j \in dirty => Suspicious(worker[w])'
  <2> SUFFICES ASSUME j \in dirty PROVE Suspicious(worker[w])'
    OBVIOUS
  <2>1. PICK k \in image.changed : k >= r.at \/ r.hash[k + 1] = "changed"
    BY <1>1, <1>2 DEF RunFacts, Suspicious
  <2>2. k \in Nat
    BY <1>2 DEF IInv, TypeOK, Image, ImageOf, Offsets, VerifyJobsAssumption
  <2>3. k >= s.at \/ s.hash[k + 1] = "changed"
    <3>1. CASE k > r.at
      BY <1>4, <1>6, <2>2, <3>1
    <3>2. CASE k = r.at
      BY <1>11, <3>2 DEF digest, Content, ImageOf
    <3>3. CASE k < r.at
      <4>1. k + 1 \in 1 .. r.at /\ r.hash[k + 1] = "changed"
        BY <1>6, <2>1, <2>2, <3>3
      <4> QED
        BY <1>11, <4>1
    <3> QED
      BY <1>6, <2>2, <3>1, <3>2, <3>3
  <2> QED
    BY <1>3, <1>4, <2>1, <2>3 DEF Suspicious, ImageOf
<1>14. s.at > 0
  BY <1>4, <1>6
<1> QED
  BY <1>3, <1>4, <1>10, <1>11, <1>12, <1>13, <1>14 DEF RunFacts

\* A chunk that cannot be stored is beyond a shrunken image, or a run stored it
\* and ended before its progress.
LEMMA RejectChunkRows ==
    ASSUME VerifyJobsAssumption, IInv, WInv, NEW w \in Workers, RejectChunk(w),
           NEW j \in Jobs, j = worker[w].id
    PROVE  JobFacts(j)' /\ RunFacts(worker[w])'
<1> DEFINE r == worker[w]
<1>1. Running(w) /\ r.pc = "loop" /\ r.at < ChunkCount /\ SameJob(j)
  BY DEF RejectChunk, Running, RunPcs, tables, history, SameJob
<1>2. /\ r \in RunRecord /\ RunFacts(r) /\ JobFacts(j)
      /\ r.at \in 0 .. ChunkCount /\ EvidenceOf[j] \in Evidence /\ r.at = processed[j]
  BY <1>1, RunKnows DEF RunFacts
<1>3. PICK n \in 0 .. ChunkCount : Prefix(j, n) /\ processed[j] <= n
  BY <1>2 DEF JobFacts
<1>4. r.at \in Nat /\ n \in Nat /\ Cardinality(chunk[j]) = n
  BY <1>2, <1>3, PrefixCounts DEF VerifyJobsAssumption
<1>5. Excused(j)
  <2>1. CASE r.at >= ImageOf(j).size
    BY <1>1, <1>2, <1>4, <2>1 DEF WInv, Untouched, ImageOf, Excused, VerifyJobsAssumption
  <2>2. CASE \E c \in chunk[j] : c.at = r.at
    <3>1. r.at \in 0 .. n - 1
      BY <1>3, <2>2 DEF Prefix
    <3> QED
      BY <1>2, <1>4, <3>1 DEF Excused, Torn
  <2> QED
    BY <2>1, <2>2 DEF RejectChunk, Unstorable, ImageOf
<1>6. worker'[w].pc = "fail" /\ worker'[w].id = j
  <2>1. worker'[w] = Goto(r, "fail")
    BY DEF RejectChunk, IInv, TypeOK
  <2> QED
    BY <1>2, <2>1 DEF Goto, RunRecord
<1>7. Excused(j)'
  BY <1>1, <1>5 DEF SameJob, Excused, Torn, ImageOf
<1> QED
  BY <1>1, <1>2, <1>6, <1>7, SameJobFacts DEF RunFacts

LEMMA StoreProgressRows ==
    ASSUME VerifyJobsAssumption, IInv, WInv, NEW w \in Workers, StoreProgress(w),
           NEW j \in Jobs, j = worker[w].id
    PROVE  JobFacts(j)' /\ RunFacts(worker[w])'
<1> DEFINE r == worker[w]
           s == worker'[w]
<1>1. Running(w) /\ r.pc = "progress"
  BY DEF StoreProgress, Running, RunPcs
<1>2. /\ r \in RunRecord /\ RunFacts(r) /\ JobFacts(j) /\ r.hash \in Seq(Contents)
      /\ r.at \in 0 .. ChunkCount /\ Len(r.hash) = r.at /\ r.at > 0
      /\ status[j] \notin Terminal
  BY <1>1, RunKnows DEF RunFacts
<1>3. /\ UNCHANGED <<status, chunk, file, struck, dirty>>
      /\ processed'[j] = r.at
  BY DEF StoreProgress, Progress, IInv, TypeOK
<1>4. /\ s.pc \in {"loop", "pause"} /\ s.id = j /\ s.at = r.at /\ s.hash = r.hash
  <2>1. s = Goto(r, "loop") \/ s = Goto(r, "pause")
    BY DEF StoreProgress, IInv, TypeOK
  <2> QED
    BY <1>2, <2>1 DEF Goto, RunRecord
<1>5. PICK n \in 0 .. ChunkCount : Prefix(j, n) /\ processed[j] <= n
  BY <1>2 DEF JobFacts
<1>6. r.at \in Nat /\ n \in Nat
  BY <1>2 DEF VerifyJobsAssumption
<1>7. r.at <= n
  <2>1. Row(r.at - 1, r.hash[r.at]) \in chunk[j]
    BY <1>1, <1>2, <1>6 DEF RunFacts
  <2>2. Row(r.at - 1, r.hash[r.at]).at = r.at - 1
    BY DEF Row
  <2>3. r.at - 1 \in 0 .. n - 1
    BY <1>5, <2>1, <2>2 DEF Prefix
  <2> QED
    BY <1>6, <2>3
<1>8. Prefix(j, n)' <=> Prefix(j, n)
  BY <1>3 DEF Prefix
<1>9. JobFacts(j)'
  BY <1>2, <1>3, <1>5, <1>7, <1>8 DEF JobFacts, Terminal, ImageOf
<1>10. Suspicious(worker[w])' <=> Suspicious(r)
  BY <1>3, <1>4 DEF Suspicious, ImageOf
<1> QED
  BY <1>1, <1>2, <1>3, <1>4, <1>9, <1>10 DEF RunFacts

\* What was hashed is what the rows hold: of an untouched image the registered
\* digests, of one that was opened changed at least one that is not.
LEMMA JudgeRows ==
    ASSUME VerifyJobsAssumption, IInv, WInv, NEW w \in Workers, Judge(w),
           NEW j \in Jobs, j = worker[w].id
    PROVE  JobFacts(j)' /\ RunFacts(worker[w])'
<1> DEFINE r == worker[w]
           s == worker'[w]
           image == ImageOf(j)
<1>1. Running(w) /\ r.pc = "loop" /\ r.at >= ChunkCount /\ SameJob(j)
  BY DEF Judge, Running, RunPcs, tables, history, SameJob
<1>2. /\ r \in RunRecord /\ RunFacts(r) /\ JobFacts(j) /\ r.hash \in Seq(Contents)
      /\ r.at \in 0 .. ChunkCount /\ Len(r.hash) = r.at /\ r.at = processed[j]
      /\ \A k \in 1 .. r.at : Row(k - 1, r.hash[k]) \in chunk[j]
      /\ EvidenceOf[j] \in Evidence
  BY <1>1, RunKnows DEF RunFacts
<1>3. r.at = ChunkCount /\ ChunkCount \in Nat
  BY <1>1, <1>2 DEF VerifyJobsAssumption
<1>4. /\ s.pc = IF image.size = ChunkCount /\ SameDigest(r.hash) THEN "verify" ELSE "fail"
      /\ s.id = j /\ s.at = r.at /\ s.hash = r.hash
  <2>1. s = Goto(r, IF image.size = ChunkCount /\ SameDigest(r.hash)
                    THEN "verify" ELSE "fail")
    BY DEF Judge, IInv, TypeOK, ImageOf
  <2> QED
    BY <1>2, <2>1 DEF Goto, RunRecord
<1>5. JobFacts(j)'
  BY <1>1, <1>2, SameJobFacts
<1>6. CASE s.pc = "fail"
  <2>1. Excused(j)
    <3> SUFFICES ASSUME ~image.touched PROVE FALSE
      BY DEF Excused
    <3>1. image.size = ChunkCount
      BY <1>2 DEF WInv, Untouched, ImageOf
    <3>2. \A k \in 1 .. ChunkCount : r.hash[k] = "registered"
      BY <1>2, <1>3 DEF JobFacts, Row
    <3>3. r.hash = Baseline
      BY <1>2, <1>3, <3>2 DEF Baseline
    <3> QED
      BY <1>4, <1>6, <3>1, <3>3 DEF SameDigest
  <2>2. Excused(j)'
    BY <1>1, <2>1 DEF SameJob, Excused, Torn, ImageOf
  <2> QED
    BY <1>4, <1>5, <1>6, <2>2 DEF RunFacts
<1>7. CASE s.pc # "fail"
  <2>1. s.pc = "verify" /\ r.hash = Baseline
    BY <1>4, <1>7 DEF SameDigest
  <2>2. j \notin dirty
    <3> SUFFICES ASSUME j \in dirty PROVE FALSE
      OBVIOUS
    <3>1. PICK k \in image.changed : k >= r.at \/ r.hash[k + 1] = "changed"
      BY <1>1, <1>2 DEF RunFacts, Suspicious
    <3>2. k \in 0 .. ChunkCount - 1
      BY <1>2 DEF IInv, TypeOK, Image, ImageOf, Offsets
    <3>3. k + 1 \in 1 .. ChunkCount /\ k < r.at
      BY <1>3, <3>2
    <3> QED
      BY <1>3, <2>1, <3>1, <3>2, <3>3 DEF Baseline
  <2> QED
    BY <1>1, <1>2, <1>3, <1>4, <1>5, <2>1, <2>2 DEF RunFacts, SameJob
<1> QED
  BY <1>6, <1>7

LEMMA FailJobRows ==
    ASSUME VerifyJobsAssumption, IInv, WInv, NEW w \in Workers, FailJob(w),
           NEW j \in Jobs, j = worker[w].id
    PROVE  JobFacts(j)' /\ RunFacts(worker[w])'
<1> DEFINE r == worker[w]
<1>1. Running(w) /\ r.pc = "fail"
  BY DEF FailJob, Running, RunPcs
<1>2. r \in RunRecord /\ RunFacts(r) /\ JobFacts(j) /\ Excused(j)
  BY <1>1, RunKnows DEF RunFacts
<1>3. /\ UNCHANGED <<processed, chunk, file, struck, dirty>>
      /\ status'[j] = "failed"
  BY DEF FailJob, Decide, history, IInv, TypeOK
<1>4. worker'[w].pc = "release"
  <2>1. worker'[w] = Goto(r, "release")
    BY DEF FailJob, Decide, IInv, TypeOK
  <2> QED
    BY <1>2, <2>1 DEF Goto, RunRecord
<1>5. JobFacts(j)'
  BY <1>2, <1>3 DEF JobFacts, Prefix, ImageOf, Excused, Torn
<1> QED
  BY <1>4, <1>5 DEF RunFacts

LEMMA VerifyJobRows ==
    ASSUME VerifyJobsAssumption, IInv, WInv, NEW w \in Workers, VerifyJob(w),
           NEW j \in Jobs, j = worker[w].id
    PROVE  JobFacts(j)' /\ RunFacts(worker[w])'
<1> DEFINE r == worker[w]
<1>1. Running(w) /\ r.pc = "verify"
  BY DEF VerifyJob, Running, RunPcs
<1>2. /\ r \in RunRecord /\ RunFacts(r) /\ JobFacts(j)
      /\ r.at = processed[j] /\ r.at = ChunkCount /\ r.hash = Baseline /\ j \notin dirty
      /\ \A k \in 1 .. r.at : Row(k - 1, r.hash[k]) \in chunk[j]
  BY <1>1, RunKnows DEF RunFacts
<1>3. /\ UNCHANGED <<processed, chunk, file, struck, dirty>>
      /\ status'[j] = "verified"
  BY DEF VerifyJob, Decide, history, IInv, TypeOK
<1>4. worker'[w].pc = "release"
  <2>1. worker'[w] = Goto(r, "release")
    BY DEF VerifyJob, Decide, IInv, TypeOK
  <2> QED
    BY <1>2, <2>1 DEF Goto, RunRecord
<1>5. PICK n \in 0 .. ChunkCount : Prefix(j, n) /\ processed[j] <= n
  BY <1>2 DEF JobFacts
<1>6. ChunkCount \in Nat /\ n = ChunkCount
  BY <1>2, <1>5 DEF VerifyJobsAssumption
<1>7. \A k \in Offsets : Row(k, "registered") \in chunk[j]
  <2> SUFFICES ASSUME NEW k \in Offsets PROVE Row(k, "registered") \in chunk[j]
    OBVIOUS
  <2>1. k + 1 \in 1 .. ChunkCount /\ (k + 1) - 1 = k
    BY <1>6 DEF Offsets
  <2>2. Row((k + 1) - 1, Baseline[k + 1]) \in chunk[j]
    BY <1>2, <2>1
  <2> QED
    BY <2>1, <2>2 DEF Baseline
<1>8. chunk[j] = Whole
  <2>1. ASSUME NEW c \in chunk[j] PROVE c \in Whole
    <3>1. c.at \in Offsets
      BY <1>5, <1>6 DEF Prefix, Offsets
    <3>2. Row(c.at, "registered") \in chunk[j] /\ Row(c.at, "registered").at = c.at
      BY <1>7, <3>1 DEF Row
    <3>3. c = Row(c.at, "registered")
      BY <1>5, <3>2 DEF Prefix
    <3> QED
      BY <3>1, <3>3 DEF Row, Whole
  <2>2. ASSUME NEW c \in Whole PROVE c \in chunk[j]
    <3>1. c = Row(c.at, "registered") /\ c.at \in Offsets
      BY <2>2 DEF Whole, Row
    <3> QED
      BY <1>7, <3>1
  <2> QED
    BY <2>1, <2>2
<1>9. JobFacts(j)'
  <2>1. Prefix(j, n)' <=> Prefix(j, n)
    BY <1>3 DEF Prefix
  <2> QED
    BY <1>2, <1>3, <1>5, <1>8, <2>1 DEF JobFacts, ImageOf, Whole, Offsets
<1> QED
  BY <1>4, <1>9 DEF RunFacts

LEMMA MarkInterruptedRows ==
    ASSUME VerifyJobsAssumption, IInv, WInv, NEW w \in Workers, MarkInterrupted(w),
           NEW j \in Jobs, j = worker[w].id
    PROVE  JobFacts(j)' /\ RunFacts(worker[w])'
<1> DEFINE r == worker[w]
<1>1. Running(w) /\ r.pc = "pause"
  BY DEF MarkInterrupted, Running, RunPcs
<1>2. r \in RunRecord /\ JobFacts(j)
  BY <1>1, RunKnows
<1>3. /\ UNCHANGED <<processed, chunk, file, struck, dirty>>
      /\ status'[j] = "interrupted"
  BY DEF MarkInterrupted, history, IInv, TypeOK
<1>4. worker'[w].pc = "release"
  <2>1. worker'[w] = Goto(r, "release")
    BY DEF MarkInterrupted, IInv, TypeOK
  <2> QED
    BY <1>2, <2>1 DEF Goto, RunRecord
<1>5. JobFacts(j)'
  BY <1>2, <1>3 DEF JobFacts, Prefix, ImageOf, Excused, Torn
<1> QED
  BY <1>4, <1>5 DEF RunFacts

LEMMA DatabaseErrorRows ==
    ASSUME VerifyJobsAssumption, IInv, WInv, NEW w \in Workers, DatabaseError(w),
           NEW j \in Jobs, j = worker[w].id
    PROVE  JobFacts(j)' /\ RunFacts(worker[w])'
<1> DEFINE r == worker[w]
<1>1. Running(w)
  BY DEF DatabaseError, Running, RunPcs
<1>2. r \in RunRecord /\ JobFacts(j)
  BY <1>1, RunKnows
<1>3. /\ UNCHANGED <<status, processed, chunk, file, dirty>>
      /\ j \in struck'
  BY DEF DatabaseError, tables
<1>4. worker'[w].pc \in {"release", "fail"} /\ worker'[w].id = j
  <2>1. worker'[w] = Goto(r, "release") \/ worker'[w] = Goto(r, "fail")
    BY DEF DatabaseError, IInv, TypeOK
  <2> QED
    BY <1>2, <2>1 DEF Goto, RunRecord
<1>5. JobFacts(j)'
  BY <1>2, <1>3 DEF JobFacts, Prefix, ImageOf, Excused, Torn
<1>6. Excused(j)'
  BY <1>3 DEF Excused
<1> QED
  BY <1>4, <1>5, <1>6 DEF RunFacts

LEMMA RunStepRows ==
    ASSUME VerifyJobsAssumption, IInv, WInv, NEW w \in Workers, RunSteps(w)
    PROVE  WInv'
<1>1. TypeOK
  BY DEF IInv
<1>2. Running(w) /\ SameRuns /\ OwnJob(w)
  BY <1>1, RunStepsShape, RunStepsOwn
<1>3. PICK j \in Jobs : j = worker[w].id
  BY <1>2, RunKnows
<1>4. JobFacts(j)' /\ RunFacts(worker[w])'
  BY <1>3, LoadJobRows, OpenImageRows, RereadPrefixRows, BeginRunRows, CancelRunRows,
     StoreChunkRows, RejectChunkRows, StoreProgressRows, JudgeRows, FailJobRows,
     VerifyJobRows, MarkInterruptedRows, DatabaseErrorRows DEF RunSteps
<1> QED
  BY <1>2, <1>3, <1>4, OwnSuffices

\* A worker that takes a job from the queue begins a run with an empty hasher.
LEMMA WorkerEndsRows ==
    ASSUME VerifyJobsAssumption, IInv, WInv, NEW w \in Workers,
           Receive(w) \/ Release(w) \/ Leave(w)
    PROVE  WInv'
<1>1. \A i \in Jobs : SameJob(i)
  BY DEF Receive, Release, Leave, tables, history, SameJob
<1>2. UNCHANGED file
  BY DEF Receive, Release, Leave
<1>3. \A v \in Workers \ {w} : worker'[v] = worker[v]
  BY DEF Receive, Release, Leave, IInv, TypeOK
<1>4. Running(w)' => worker'[w].pc = "load" /\ worker'[w].hash = <<>>
  BY DEF Receive, Release, Leave, IInv, TypeOK, Run, Running, RunPcs, Idle, Gone
<1>5. ASSUME NEW v \in Workers, Running(v)' PROVE RunFacts(worker[v])'
  <2>1. CASE v = w
    BY <1>4, <1>5, <2>1 DEF RunFacts
  <2>2. CASE v # w
    <3>1. Running(v) /\ worker'[v] = worker[v]
      BY <1>3, <1>5, <2>2 DEF Running
    <3>2. worker[v].id \in Jobs
      BY <3>1, RunKnows
    <3> QED
      BY <1>1, <3>1, <3>2, SameRunFacts DEF WInv
  <2> QED
    BY <2>1, <2>2
<1>6. \A i \in Jobs : JobFacts(i)'
  BY <1>1, SameJobFacts DEF WInv
<1>7. Untouched'
  BY <1>2 DEF WInv, Untouched
<1> QED
  BY <1>5, <1>6, <1>7 DEF WInv

\* Steps that leave rows, images and runs as they are.
LEMMA SameRowsKeep ==
    ASSUME VerifyJobsAssumption, IInv, WInv, \A i \in Jobs : SameJob(i), UNCHANGED file,
           \A w \in Workers : worker'[w] = worker[w] \/ ~Running(w)'
    PROVE  WInv'
<1>1. ASSUME NEW v \in Workers, Running(v)' PROVE RunFacts(worker[v])'
  <2>1. worker'[v] = worker[v] /\ Running(v)
    BY <1>1 DEF Running
  <2>2. worker[v].id \in Jobs
    BY <2>1, RunKnows
  <2> QED
    BY <2>1, <2>2, SameRunFacts DEF WInv
<1>2. \A i \in Jobs : JobFacts(i)'
  BY SameJobFacts DEF WInv
<1> QED
  BY <1>1, <1>2 DEF WInv, Untouched

\* A status that is not a verdict may change to another one.
LEMMA SameVerdictFacts ==
    ASSUME NEW j \in Jobs, JobFacts(j), UNCHANGED <<processed, chunk, file, struck, dirty>>,
           status'[j] \in Terminal => status'[j] = status[j]
    PROVE  JobFacts(j)'
BY DEF JobFacts, Prefix, ImageOf, Excused, Torn, Terminal

LEMMA CallerRows ==
    ASSUME VerifyJobsAssumption, IInv, WInv, NEW c \in Callers,
           CallerStep(c) \/ RequestStep(c)
    PROVE  WInv'
<1>1. CASE EnqueueSend(c)
  <2>1. /\ UNCHANGED <<status, processed, chunk, file, dirty, worker>>
        /\ struck \subseteq struck'
    BY <1>1 DEF EnqueueSend, tables
  <2>2. \A i \in Jobs : JobFacts(i)'
    BY <2>1 DEF WInv, JobFacts, Prefix, ImageOf, Excused, Torn
  <2>3. ASSUME NEW v \in Workers, Running(v)' PROVE RunFacts(worker[v])'
    <3>1. RunFacts(worker[v]) /\ worker'[v] = worker[v]
      BY <2>1, <2>3 DEF WInv, Running
    <3>2. Excused(worker[v].id) => Excused(worker[v].id)'
      BY <2>1 DEF Excused, Torn, ImageOf
    <3>3. Suspicious(worker[v])' <=> Suspicious(worker[v])
      BY <2>1 DEF Suspicious, ImageOf
    <3> QED
      BY <2>1, <3>1, <3>2, <3>3 DEF RunFacts
  <2> QED
    BY <2>1, <2>2, <2>3 DEF WInv, Untouched
<1>2. CASE CreateJob(c)
  <2>1. UNCHANGED <<processed, chunk, file, struck, dirty, worker>>
    BY <1>2 DEF CreateJob, history
  <2>2. \A j \in Jobs : status'[j] \in Terminal => status'[j] = status[j]
    BY <1>2 DEF CreateJob, IInv, TypeOK, Terminal
  <2>3. \A j \in Jobs : JobFacts(j)'
    BY <2>1, <2>2, SameVerdictFacts DEF WInv
  <2>4. ASSUME NEW v \in Workers, Running(v)' PROVE RunFacts(worker[v])'
    <3>1. RunFacts(worker[v]) /\ worker'[v] = worker[v]
      BY <2>1, <2>4 DEF WInv, Running
    <3>2. Excused(worker[v].id) <=> Excused(worker[v].id)'
      BY <2>1 DEF Excused, Torn, ImageOf
    <3>3. Suspicious(worker[v])' <=> Suspicious(worker[v])
      BY <2>1 DEF Suspicious, ImageOf
    <3> QED
      BY <2>1, <3>1, <3>2, <3>3 DEF RunFacts
  <2> QED
    BY <2>1, <2>3, <2>4 DEF WInv, Untouched
<1>3. CASE ~EnqueueSend(c) /\ ~CreateJob(c)
  <2>1. UNCHANGED <<tables, file, history, worker>>
    BY <1>3 DEF CallerStep, EnqueueMark, EnqueueUnmark, RequestStep, FailCreate,
       CountActive, ResumeJob
  <2> QED
    BY <2>1, SameRowsKeep DEF SameJob, tables, history
<1> QED
  BY <1>1, <1>2, <1>3

\* The runs of a process end with it; only one that is down is started.
LEMMA ProcessRows ==
    ASSUME VerifyJobsAssumption, IInv, WInv, Quiet, ProcessStep
    PROVE  WInv'
<1>1. CASE Start
  <2>1. /\ UNCHANGED <<processed, chunk, file, dirty, worker>>
        /\ \A w \in Workers : ~Running(w)
        /\ status' = [j \in Jobs |-> Restarted(j)]
        /\ struck' = {j \in struck : status[j] \in Terminal}
    BY <1>1 DEF Start, Quiet
  <2>2. ASSUME NEW j \in Jobs PROVE JobFacts(j)'
    <3>1. status'[j] \in Terminal => status'[j] = status[j] /\ (j \in struck' <=> j \in struck)
      BY <2>1 DEF Restarted, Terminal
    <3> QED
      BY <2>1, <3>1 DEF WInv, JobFacts, Prefix, ImageOf, Excused, Torn, Terminal
  <2> QED
    BY <2>1, <2>2 DEF WInv, Untouched, Running
<1>2. CASE ~Start
  <2>1. /\ UNCHANGED <<tables, file, struck, dirty>>
        /\ \A w \in Workers : worker'[w] = worker[w] \/ ~Running(w)'
    BY <1>2 DEF ProcessStep, Serve, Stop, Exit, Crash, Ended, Requeue, history, Running,
       RunPcs, Idle
  <2> QED
    BY <2>1, SameRowsKeep DEF SameJob, tables
<1> QED
  BY <1>1, <1>2

\* What happens to an image is recorded as touched, and no change is undone.
LEMMA DisturbRows ==
    ASSUME VerifyJobsAssumption, IInv, WInv, NEW e \in Evidence, Disturb(e)
    PROVE  WInv'
<1>1. UNCHANGED <<status, processed, chunk, struck, dirty, worker>>
  BY DEF Disturb, tables
<1>2. /\ file'[e].touched
      /\ file[e].changed \subseteq file'[e].changed
      /\ \A d \in Evidence \ {e} : file'[d] = file[d]
  <2>1. file \in [Evidence -> Image]
    BY DEF IInv, TypeOK
  <2> DEFINE image == [file[e] EXCEPT !.touched = TRUE]
  <2>2. file[e] \in Image
    BY <2>1
  <2>3. PICK new : /\ file' = [file EXCEPT ![e] = new]
                   /\ new.touched /\ file[e].changed \subseteq new.changed
    <3>1. image \in Image /\ image.touched /\ image.changed = file[e].changed
      BY <2>2 DEF Image
    <3> HIDE DEF image
    <3>2. ASSUME NEW x, NEW y
          PROVE  /\ [image EXCEPT !.named = x].touched
                 /\ [image EXCEPT !.named = x].changed = image.changed
                 /\ [image EXCEPT !.changed = x].touched
                 /\ [image EXCEPT !.changed = x].changed = x
                 /\ [image EXCEPT !.size = y, !.changed = x].touched
                 /\ [image EXCEPT !.size = y, !.changed = x].changed = x
      BY <3>1 DEF Image
    <3>3. CASE file' = [file EXCEPT ![e] = [image EXCEPT !.named = ~image.named]]
      <4> DEFINE new == [image EXCEPT !.named = ~image.named]
      <4>1. new.touched /\ file[e].changed \subseteq new.changed
        BY <3>1, <3>2
      <4> QED
        BY <3>3, <4>1
    <3>4. CASE \E k \in Offsets : file' = [file EXCEPT ![e] =
                                 [image EXCEPT !.changed = image.changed \cup {k}]]
      <4>1. PICK k \in Offsets : file' = [file EXCEPT ![e] =
                                 [image EXCEPT !.changed = image.changed \cup {k}]]
        BY <3>4
      <4> DEFINE new == [image EXCEPT !.changed = image.changed \cup {k}]
      <4>2. new.touched /\ file[e].changed \subseteq new.changed
        BY <3>1, <3>2
      <4> QED
        BY <4>1, <4>2
    <3>5. CASE \E n \in 0 .. ChunkCount + 1 : file' = [file EXCEPT ![e] =
                  [image EXCEPT !.size = n, !.changed =
                      image.changed \cup {k \in Offsets : k >= n}]]
      <4>1. PICK n \in 0 .. ChunkCount + 1 : file' = [file EXCEPT ![e] =
                  [image EXCEPT !.size = n, !.changed =
                      image.changed \cup {k \in Offsets : k >= n}]]
        BY <3>5
      <4> DEFINE new == [image EXCEPT !.size = n, !.changed =
                            image.changed \cup {k \in Offsets : k >= n}]
      <4>2. new.touched /\ file[e].changed \subseteq new.changed
        BY <3>1, <3>2
      <4> QED
        BY <4>1, <4>2
    <3> QED
      BY <3>3, <3>4, <3>5 DEF Disturb, image
  <2> QED
    BY <2>1, <2>3
<1>3. \A j \in Jobs : /\ EvidenceOf[j] \in Evidence
                      /\ ImageOf(j).touched => ImageOf(j)'.touched
                      /\ ImageOf(j).changed \subseteq ImageOf(j)'.changed
  BY <1>2 DEF ImageOf, VerifyJobsAssumption
<1>4. ASSUME NEW j \in Jobs PROVE JobFacts(j)'
  BY <1>1, <1>3 DEF WInv, JobFacts, Prefix, Excused, Torn
<1>5. ASSUME NEW v \in Workers, Running(v)' PROVE RunFacts(worker[v])'
  <2>1. RunFacts(worker[v]) /\ worker'[v] = worker[v] /\ Running(v)
    BY <1>1, <1>5 DEF WInv, Running
  <2>2. worker[v].id \in Jobs
    BY <2>1, RunKnows
  <2>3. Excused(worker[v].id) => Excused(worker[v].id)'
    BY <1>1, <1>3, <2>2 DEF Excused, Torn
  <2>4. Suspicious(worker[v]) => Suspicious(worker[v])'
    BY <1>1, <1>3, <2>2 DEF Suspicious
  <2> QED
    BY <1>1, <2>1, <2>3, <2>4 DEF RunFacts
<1>6. Untouched'
  BY <1>2 DEF WInv, Untouched
<1> QED
  BY <1>4, <1>5, <1>6 DEF WInv

LEMMA WInvStep ==
    VerifyJobsAssumption /\ IInv /\ Quiet /\ WInv /\ [Next]_vars => WInv'
<1> SUFFICES ASSUME VerifyJobsAssumption, IInv, Quiet, WInv, [Next]_vars PROVE WInv'
  OBVIOUS
<1>1. ASSUME NEW c \in Callers, CallerStep(c) \/ (c \in Requests /\ RequestStep(c))
      PROVE  WInv'
  BY <1>1, CallerRows
<1>2. ASSUME NEW w \in Workers,
             Receive(w) \/ RunStep(w) \/ DatabaseError(w) \/ Leave(w)
      PROVE  WInv'
  BY <1>2, RunStepRows, WorkerEndsRows DEF RunStep, RunSteps
<1>3. CASE ProcessStep
  BY <1>3, ProcessRows
<1>4. ASSUME NEW e \in Evidence, Disturb(e) PROVE WInv'
  BY <1>4, DisturbRows
<1>5. CASE UNCHANGED vars
  BY <1>5, SameRowsKeep DEF vars, SameJob
<1> QED
  BY <1>1, <1>2, <1>3, <1>4, <1>5 DEF Next, Callers

LEMMA WInvInit == VerifyJobsAssumption /\ Init => WInv
<1> SUFFICES ASSUME VerifyJobsAssumption, Init PROVE WInv
  OBVIOUS
<1>1. \A w \in Workers : ~Running(w)
  BY DEF Init, Running, RunPcs, Idle
<1>2. ASSUME NEW j \in Jobs PROVE JobFacts(j)
  <2>1. Prefix(j, 0) /\ processed[j] <= 0
    BY DEF Init, Prefix
  <2>2. 0 \in 0 .. ChunkCount
    BY DEF VerifyJobsAssumption
  <2> QED
    BY <2>1, <2>2 DEF Init, JobFacts
<1>3. Untouched
  BY DEF Init, Untouched
<1> QED
  BY <1>1, <1>2, <1>3 DEF WInv

LEMMA RowsInvariance == Spec => []WInv
<1>1. Init => JInv /\ WInv
  BY WInvInit, IInvInit, VerifyJobsAssumption DEF Init, JInv, HeldMarks, Known, Touched,
     Queued, RunOf, Running, RunPcs, Idle, Free, Quiet, Waiting, Live
<1>2. JInv /\ WInv /\ [Next]_vars => JInv' /\ WInv'
  BY IInvStep, HeldMarksStep, KnownStep, WaitingStep, WInvStep, VerifyJobsAssumption
     DEF JInv, IInv
<1> QED
  BY <1>1, <1>2, PTL DEF Spec

(* A verified job has every chunk with its registered digest and reports the *)
(* whole image, however often it was interrupted, resumed from its rows, or  *)
(* met by errors (runJob, jobs.go:190-373).                                  *)
THEOREM VerifiedIsRead == Spec => []VerifiedIsWhole
<1>1. WInv => VerifiedIsWhole
  BY DEF WInv, JobFacts, VerifiedIsWhole, Whole
<1> QED
  BY <1>1, RowsInvariance, PTL

(* Only three things make a job fail: a change of its image, a statement that *)
(* failed or a full queue, and a stop between the row of a chunk and the row  *)
(* of its progress (jobs.go:304,311).                                         *)
THEOREM FailureHasCause == Spec => []NoFalseAlarm
<1>1. WInv => NoFalseAlarm
  BY DEF WInv, JobFacts, NoFalseAlarm, Excused, ImageOf
<1> QED
  BY <1>1, RowsInvariance, PTL

(* No run that opened a changed image ends in "verified", nor does any later *)
(* run of the job: the change is in the prefix that is read again, or in the *)
(* part that is still to be hashed (jobs.go:233-276).                        *)
THEOREM NoChangeMissed == Spec => []ChangeIsNoticed
<1>1. IInv /\ WInv => ChangeIsNoticed
  BY DEF WInv, JobFacts, ChangeIsNoticed, IInv, TypeOK
<1> QED
  BY <1>1, Invariance, RowsInvariance, PTL

-----------------------------------------------------------------------------
(* What JudgedJobs sees of a state, and the steps it takes.                *)

Verdicts == [j \in Jobs |-> IF status[j] \in Active THEN "open" ELSE status[j]]
Busy == {j \in Jobs : RunOf(j) # {}}

\* A step that gives no verdict, stores no chunk and begins no run.
LEMMA EndsRuns ==
    ASSUME UNCHANGED <<chunk, chain>>, Verdicts' = Verdicts, Busy' \subseteq Busy
    PROVE  Judged!Next
<1>1. Busy' = Busy \ (Busy \ Busy') /\ Busy \ Busy' \in SUBSET Busy
  OBVIOUS
<1>2. Judged!End(Busy \ Busy')
  BY <1>1 DEF Judged!End, Verdicts, Busy
<1> QED
  BY <1>1, <1>2 DEF Judged!Next, Busy

LEMMA SameStatusVerdicts ==
    ASSUME \A j \in Jobs : status'[j] = status[j] \/ {status[j], status'[j]} \subseteq Active
    PROVE  Verdicts' = Verdicts
BY DEF Verdicts

LEMMA SameWorkersBusy ==
    ASSUME UNCHANGED worker
    PROVE  Busy' = Busy
BY DEF Busy, RunOf, Running

LEMMA CallerJudges ==
    ASSUME TypeOK, NEW c \in Callers, CallerStep(c) \/ RequestStep(c)
    PROVE  Judged!Next
<1>1. UNCHANGED <<chunk, chain, worker>>
  BY DEF CallerStep, EnqueueMark, EnqueueSend, EnqueueUnmark, RequestStep, CreateJob,
     FailCreate, CountActive, ResumeJob, tables
<1>2. Busy' = Busy
  BY <1>1, SameWorkersBusy
<1>3. CASE CreateJob(c)
  <2>1. PICK j \in Jobs : status[j] = "none" /\ status' = [status EXCEPT ![j] = "queued"]
    BY <1>3 DEF CreateJob
  <2>2. \A i \in Jobs : status'[i] = IF i = j THEN "queued" ELSE status[i]
    BY <2>1 DEF TypeOK
  <2>3. Verdicts[j] = "none" /\ Verdicts' = [Verdicts EXCEPT ![j] = "open"]
    BY <2>1, <2>2 DEF Verdicts, Active
  <2>4. Judged!Submit(j)
    BY <1>1, <1>2, <2>3 DEF Judged!Submit, Verdicts, Busy
  <2> QED
    BY <2>4 DEF Judged!Next
<1>4. CASE ~CreateJob(c)
  <2>1. UNCHANGED status
    BY <1>4 DEF CallerStep, EnqueueMark, EnqueueSend, EnqueueUnmark, RequestStep,
       FailCreate, CountActive, ResumeJob, tables
  <2> QED
    BY <1>1, <1>2, <2>1, SameStatusVerdicts, EndsRuns
<1> QED
  BY <1>3, <1>4

\* The job of a run is busy, and past the load of its row it is open.
LEMMA RunIsBusy ==
    ASSUME VerifyJobsAssumption, IInv, WInv, Known, NEW w \in Workers, Running(w)
    PROVE  /\ worker[w].id \in Busy
           /\ worker[w].pc \notin {"load", "release"} =>
                  status[worker[w].id] \in Active /\ Verdicts[worker[w].id] = "open"
<1>1. worker[w].id \in Jobs /\ w \in RunOf(worker[w].id)
  BY RunKnows DEF RunOf
<1>2. status[worker[w].id] # "none" /\ status[worker[w].id] \in Statuses
  BY <1>1 DEF Known, Touched, IInv, TypeOK
<1>3. worker[w].pc \notin {"load", "release"} => status[worker[w].id] \notin Terminal
  BY RunKnows
<1> QED
  BY <1>1, <1>2, <1>3 DEF Busy, Verdicts, Statuses

\* The chunk of a run is the next one: as many are stored as the run is at.
LEMMA NextChunk ==
    ASSUME VerifyJobsAssumption, IInv, WInv, NEW w \in Workers, StoreChunk(w)
    PROVE  Cardinality(chunk[worker[w].id]) = worker[w].at
<1> DEFINE r == worker[w]
           j == worker[w].id
<1>1. Running(w) /\ r.pc = "loop" /\ ~Unstorable(j, r.at)
  BY DEF StoreChunk, Running, RunPcs
<1>2. /\ RunFacts(r) /\ JobFacts(j) /\ r.at \in 0 .. ChunkCount /\ r.at = processed[j]
      /\ ChunkCount \in Nat
  BY <1>1, RunKnows DEF RunFacts, VerifyJobsAssumption
<1>3. PICK n \in 0 .. ChunkCount : Prefix(j, n) /\ processed[j] <= n
  BY <1>2 DEF JobFacts
<1>4. r.at \notin {c.at : c \in chunk[j]}
  BY <1>1 DEF Unstorable
<1>5. r.at \notin 0 .. n - 1 /\ n \in Nat
  BY <1>2, <1>3, <1>4 DEF Prefix
<1>6. n = r.at
  <2> HIDE DEF r, j
  <2> QED
    BY <1>2, <1>3, <1>5
<1>7. Cardinality(chunk[j]) = n
  <2>1. j \in Jobs
    BY <1>1, RunKnows
  <2> QED
    BY <1>3, <1>5, <2>1, PrefixCounts
<1> QED
  BY <1>6, <1>7

\* An instance has its own name for the Cardinality of FiniteSets.
LEMMA SameCardinality == \A S : Judged!Cardinality(S) = Cardinality(S)
BY DEF Judged!Cardinality, Cardinality

LEMMA StoreJudges ==
    ASSUME VerifyJobsAssumption, IInv, WInv, Known, NEW w \in Workers, StoreChunk(w)
    PROVE  Judged!Next
<1> DEFINE r == worker[w]
           j == worker[w].id
           digest == Content(EvidenceOf[j], r.at)
<1>1. Running(w) /\ r.pc = "loop" /\ SameRuns
  BY RunStepsShape DEF StoreChunk, Running, RunPcs, RunSteps, IInv
<1>2. j \in Jobs /\ j \in Busy /\ Verdicts[j] = "open"
  BY <1>1, RunKnows, RunIsBusy
<1>3. digest \in {"registered", "changed"}
  BY DEF Content
<1>4. chunk' = [chunk EXCEPT ![j] =
                   @ \cup {[at |-> Judged!Cardinality(@), digest |-> digest]}]
  BY NextChunk, SameCardinality DEF StoreChunk
<1>5. UNCHANGED <<status, chain>> /\ Busy' = Busy
  BY <1>1 DEF StoreChunk, SameRuns, Busy, RunOf, Running
<1>6. UNCHANGED Verdicts
  BY <1>5 DEF Verdicts
<1> HIDE DEF digest, j
<1>7. Judged!Store(j)
  BY <1>2, <1>3, <1>4, <1>5, <1>6 DEF Judged!Store, Verdicts, Busy
<1> QED
  BY <1>2, <1>7 DEF Judged!Next

LEMMA VerdictJudges ==
    ASSUME VerifyJobsAssumption, IInv, WInv, Known, NEW w \in Workers,
           FailJob(w) \/ VerifyJob(w)
    PROVE  Judged!Next
<1>1. PICK j \in Jobs, result \in Terminal :
          /\ j = worker[w].id
          /\ worker[w].pc = IF result = "failed" THEN "fail" ELSE "verify"
          /\ Decide(w, result)
  <2>1. Running(w)
    BY DEF FailJob, VerifyJob, Running, RunPcs
  <2>2. worker[w].id \in Jobs
    BY <2>1, RunKnows
  <2> QED
    BY <2>2 DEF FailJob, VerifyJob, Terminal
<1>2. Running(w) /\ SameRuns
  BY RunStepsShape DEF FailJob, VerifyJob, Running, RunPcs, RunSteps, IInv
<1>3. j \in Busy /\ Verdicts[j] = "open"
  BY <1>1, <1>2, RunIsBusy
<1>4. /\ status' = [status EXCEPT ![j] = result]
      /\ chain' = Append(chain, [job |-> j, result |-> result])
      /\ UNCHANGED chunk
  BY <1>1 DEF Decide
<1>5. Busy' = Busy
  BY <1>2 DEF SameRuns, Busy, RunOf, Running
<1>6. Verdicts' = [Verdicts EXCEPT ![j] = result]
  <2>1. \A i \in Jobs : status'[i] = IF i = j THEN result ELSE status[i]
    BY <1>4 DEF IInv, TypeOK
  <2> QED
    BY <2>1 DEF Verdicts, Active, Terminal
<1>7. result = "verified" => chunk[j] = Whole
  <2>1. SUFFICES ASSUME result = "verified" PROVE chunk[j] = Whole
    OBVIOUS
  <2>2. VerifyJob(w)
    BY <1>1, <2>1 DEF VerifyJob
  <2>3. JobFacts(j)'
    BY <1>1, <2>2, VerifyJobRows
  <2>4. status'[j] = "verified"
    BY <1>4, <2>1 DEF IInv, TypeOK
  <2> QED
    BY <1>4, <2>3, <2>4 DEF JobFacts, Whole, Offsets
<1>8. Judged!Judge(j, result)
  BY <1>3, <1>4, <1>5, <1>6, <1>7 DEF Judged!Judge, Verdicts, Busy, Whole
<1> QED
  BY <1>8 DEF Judged!Next, Terminal

LEMMA RunJudges ==
    ASSUME VerifyJobsAssumption, IInv, WInv, Known, NEW w \in Workers, RunSteps(w)
    PROVE  Judged!Next
<1>1. Running(w) /\ SameRuns
  BY RunStepsShape DEF IInv
<1>2. Busy' = Busy
  BY <1>1 DEF SameRuns, Busy, RunOf, Running
<1>3. CASE StoreChunk(w) \/ FailJob(w) \/ VerifyJob(w)
  BY <1>3, StoreJudges, VerdictJudges
<1>4. CASE BeginRun(w) \/ MarkInterrupted(w)
  <2>1. status[worker[w].id] \in Active
    BY <1>1, <1>4, RunIsBusy DEF BeginRun, MarkInterrupted
  <2>2. UNCHANGED <<chunk, chain>>
    BY <1>4 DEF BeginRun, MarkInterrupted
  <2>3. \A i \in Jobs : status'[i] = status[i] \/ {status[i], status'[i]} \subseteq Active
    BY <1>4, <2>1 DEF BeginRun, MarkInterrupted, IInv, TypeOK, Active
  <2> QED
    BY <1>2, <2>2, <2>3, SameStatusVerdicts, EndsRuns
<1>5. CASE LoadJob(w) \/ OpenImage(w) \/ RereadPrefix(w) \/ CancelRun(w) \/ RejectChunk(w)
           \/ StoreProgress(w) \/ Judge(w) \/ DatabaseError(w)
  <2>1. UNCHANGED <<status, chunk, chain>>
    BY <1>5 DEF LoadJob, OpenImage, RereadPrefix, CancelRun, RejectChunk, StoreProgress,
       Judge, DatabaseError, tables
  <2> QED
    BY <1>2, <2>1, SameStatusVerdicts, EndsRuns
<1> QED
  BY <1>3, <1>4, <1>5 DEF RunSteps

\* The head of the queue is known and not with another worker.
LEMMA ReceiveJudges ==
    ASSUME IInv, Known, NEW w \in Workers, Receive(w)
    PROVE  Judged!Next
<1> DEFINE j == Head(queue)
<1>1. /\ UNCHANGED <<status, chunk, chain>>
      /\ ~Running(w)
      /\ \A v \in Workers : worker'[v] = IF v = w THEN Run(j) ELSE worker[v]
      /\ queue \in Seq(Jobs) /\ Len(queue) > 0
  BY DEF Receive, tables, Running, RunPcs, Idle, IInv, TypeOK
<1>2. j \in Jobs /\ j \in Queued
  <2>1. 1 \in DOMAIN queue /\ queue[1] = j
    BY <1>1
  <2> QED
    BY <1>1, <2>1 DEF Queued
<1>3. RunOf(j) = {} /\ status[j] # "none"
  BY <1>2 DEF IInv, Alone, OneRunner, Known, Touched
<1>4. Run(j).pc \in RunPcs /\ Run(j).id = j
  BY DEF Run, RunPcs
<1> HIDE DEF j
<1>5. Busy' = Busy \cup {j}
  <2>1. \A i \in Jobs : RunOf(i)' = IF i = j THEN RunOf(i) \cup {w} ELSE RunOf(i)
    BY <1>1, <1>4 DEF RunOf, Running
  <2> QED
    BY <1>2, <2>1 DEF Busy
<1>6. Verdicts' = Verdicts /\ Verdicts[j] # "none" /\ j \notin Busy
  BY <1>1, <1>2, <1>3 DEF Verdicts, Busy
<1>7. Judged!Begin(j)
  BY <1>1, <1>5, <1>6 DEF Judged!Begin, Verdicts, Busy
<1> QED
  BY <1>2, <1>7 DEF Judged!Next

LEMMA ProcessJudges ==
    ASSUME TypeOK, ProcessStep
    PROVE  Judged!Next
<1>1. UNCHANGED <<chunk, chain>>
  BY DEF ProcessStep, Start, Serve, Stop, Exit, Crash, Ended, Requeue, tables
<1>2. Busy' \subseteq Busy
  <2>1. CASE Exit \/ Crash
    <3>1. \A w \in Workers : ~Running(w)'
      BY <2>1 DEF Exit, Crash, Ended, Running, RunPcs, Idle
    <3> QED
      BY <3>1 DEF Busy, RunOf
  <2>2. CASE ~(Exit \/ Crash)
    <3>1. UNCHANGED worker
      BY <2>2 DEF ProcessStep, Start, Serve, Stop, Requeue
    <3> QED
      BY <3>1, SameWorkersBusy
  <2> QED
    BY <2>1, <2>2
<1>3. Verdicts' = Verdicts
  <2>1. CASE Start
    BY <2>1, SameStatusVerdicts DEF Start, Restarted, Active
  <2>2. CASE ~Start
    <3>1. UNCHANGED status
      BY <2>2 DEF ProcessStep, Serve, Stop, Exit, Crash, Ended, Requeue, tables
    <3> QED
      BY <3>1, SameStatusVerdicts
  <2> QED
    BY <2>1, <2>2
<1> QED
  BY <1>1, <1>2, <1>3, EndsRuns

LEMMA StepJudges ==
    ASSUME VerifyJobsAssumption, IInv, WInv, Known, [Next]_vars
    PROVE  Judged!Next
<1>1. ASSUME NEW c \in Callers, CallerStep(c) \/ (c \in Requests /\ RequestStep(c))
      PROVE  Judged!Next
  BY <1>1, CallerJudges DEF IInv
<1>2. ASSUME NEW w \in Workers, Release(w) \/ Leave(w)
      PROVE  Judged!Next
  <2>1. /\ UNCHANGED <<status, chunk, chain>>
        /\ \A v \in Workers : v # w => worker'[v] = worker[v]
        /\ ~Running(w)'
    BY <1>2 DEF Release, Leave, tables, Running, RunPcs, Idle, Gone, IInv, TypeOK
  <2>2. Busy' \subseteq Busy
    BY <2>1 DEF Busy, RunOf, Running
  <2> QED
    BY <2>1, <2>2, SameStatusVerdicts, EndsRuns
<1>3. ASSUME NEW w \in Workers, Receive(w) \/ RunStep(w) \/ DatabaseError(w)
      PROVE  Judged!Next
  BY <1>2, <1>3, RunJudges, ReceiveJudges DEF RunStep, RunSteps
<1>4. CASE ProcessStep
  BY <1>4, ProcessJudges DEF IInv
<1>5. CASE (\E e \in Evidence : Disturb(e)) \/ UNCHANGED vars
  <2>1. UNCHANGED <<status, chunk, chain, worker>>
    BY <1>5 DEF Disturb, vars, tables
  <2> QED
    BY <2>1, SameStatusVerdicts, SameWorkersBusy, EndsRuns
<1> QED
  BY <1>1, <1>2, <1>3, <1>4, <1>5 DEF Next, Callers

(* The job service implements JudgedJobs (jobs.go:21-373, service.go:73-88): *)
(* whatever requests, workers, restarts and errors do, one run at a time     *)
(* stores the chunks of a job in their order, one verdict is given by a run  *)
(* and stands, and "verified" is given only to the whole registered image.   *)
THEOREM ServiceJudges == Spec => JobsAreJudged
<1>1. Init => Judged!Init
  <2>1. SUFFICES ASSUME Init PROVE Judged!Init
    OBVIOUS
  <2>2. \A w \in Workers : ~Running(w)
    BY <2>1 DEF Init, Running, RunPcs, Idle
  <2>3. Busy = {}
    BY <2>2 DEF Busy, RunOf
  <2>4. Verdicts = [j \in Jobs |-> "none"]
    BY <2>1 DEF Init, Verdicts, Active
  <2> QED
    BY <2>1, <2>3, <2>4 DEF Init, Judged!Init, Busy, Verdicts
<1>2. JInv /\ WInv /\ [Next]_vars => [Judged!Next]_(Judged!vars)
  BY StepJudges, VerifyJobsAssumption DEF JInv
<1>3. Spec => []JInv
  BY JInvInvariance
<1> QED
  BY <1>1, <1>2, <1>3, RowsInvariance, PTL DEF Spec, JobsAreJudged, Judged!Spec
=============================================================================
