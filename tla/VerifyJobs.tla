----------------------------- MODULE VerifyJobs -----------------------------
(***************************************************************************)
(* The verification jobs of ForensicCore (text16/b). A job re-reads a      *)
(* registered image chunk by chunk and stores, for each chunk, its digest  *)
(* and then its progress, so that a job that is interrupted can go on. Job *)
(* rows, chunk rows and the evidence chain are in the database; the queue, *)
(* the marks of queued jobs and the running jobs are in the memory of the  *)
(* process and are lost when it ends.                                      *)
(*                                                                         *)
(* An image is ChunkCount chunks, each with the content it was registered  *)
(* with or a changed one; a digest is identified with the content. The     *)
(* image changes behind the program's back (Disturb). All evidence is of   *)
(* one case, and only verdicts are followed on its chain.                  *)
(***************************************************************************)
EXTENDS Naturals, Sequences, FiniteSets

CONSTANTS
    Jobs,           \* ids of verify_jobs
    Evidence,       \* registered images
    EvidenceOf,     \* the image a job is about
    ChunkCount,     \* chunks of an image
    Workers,        \* worker goroutines (service.go:74)
    Requests,       \* request goroutines that run at the same time
    Starter,        \* the goroutine of main, which calls Start
    QueueCapacity,  \* capacity of the channel (service.go:65)
    MaxUpsets       \* bound: crashes, database errors, hook stops, changes

\* service.go:65; an empty image can be registered.
ASSUME VerifyJobsAssumption ==
    /\ EvidenceOf \in [Jobs -> Evidence]
    /\ ChunkCount \in Nat
    /\ QueueCapacity \in Nat \ {0}
    /\ MaxUpsets \in Nat
    /\ Starter \notin Requests

VARIABLES
    status,         \* VerifyJob.Status
    processed,      \* VerifyJob.ProcessedSize, in chunks
    chunk,          \* rows of verify_chunks, by job
    chain,          \* verify events on the chain of the case
    file,           \* the image of each evidence
    process,        \* the life of the server process
    starting,       \* ids that requeueInterrupted has still to enqueue
    enqueued,       \* Service.enqueued
    queue,          \* Service.queue
    caller,         \* what each caller of enqueue is doing
    worker,         \* what each worker is doing
    struck,         \* history: jobs hit by a database error or a full queue
    dirty,          \* history: jobs whose image had changed when a run opened it
    upsets          \* upsets so far

tables == <<status, processed, chunk, chain>>
memory == <<process, starting, enqueued, queue, caller>>
vars == <<status, processed, chunk, chain, file, process, starting,
          enqueued, queue, caller, worker, struck, dirty, upsets>>
history == <<struck, dirty, upsets>>

Offsets == 0 .. ChunkCount - 1
Contents == {"registered", "changed"}
Active == {"queued", "running", "interrupted"}
Terminal == {"verified", "failed"}
Statuses == Active \cup Terminal \cup {"none"}
Results == Terminal

Chunk == [at : Offsets, digest : Contents]
Image == [named : BOOLEAN, size : 0 .. ChunkCount + 1,
          changed : SUBSET Offsets, touched : BOOLEAN]

Callers == Requests \cup {Starter}
Free == [pc |-> "free"]
Counted(e) == [pc |-> "counted", evidence |-> e]
Enqueuing(pc, j) == [pc |-> pc, id |-> j]

Idle == [pc |-> "idle"]
Gone == [pc |-> "gone"]
RunPcs == {"load", "open", "reread", "begin", "loop", "progress", "fail",
           "verify", "pause", "release"}
\* A run holds the job's id, its offset and what it fed to the hasher.
Run(j) == [pc |-> "load", id |-> j, at |-> 0, hash |-> <<>>]
Goto(r, pc) == [r EXCEPT !.pc = pc]
Running(w) == worker[w].pc \in RunPcs

\* The content that pread returns for a chunk inside the file.
Content(e, k) == IF k \in file[e].changed THEN "changed" ELSE "registered"
Baseline == [k \in 1 .. ChunkCount |-> "registered"]

\* The chunk rows cover a prefix of the image without a hole.
Contiguous(j) == LET at == {c.at : c \in chunk[j]}
                 IN  at = 0 .. Cardinality(at) - 1

Init ==
    /\ status = [j \in Jobs |-> "none"]
    /\ processed = [j \in Jobs |-> 0]
    /\ chunk = [j \in Jobs |-> {}]
    /\ chain = <<>>
    /\ file = [e \in Evidence |-> [named |-> TRUE, size |-> ChunkCount,
                                   changed |-> {}, touched |-> FALSE]]
    /\ process = "down"
    /\ starting = {}
    /\ enqueued = {}
    /\ queue = <<>>
    /\ caller = [c \in Callers |-> Free]
    /\ worker = [w \in Workers |-> Idle]
    /\ struck = {}
    /\ dirty = {}
    /\ upsets = 0

Upset == upsets < MaxUpsets /\ upsets' = upsets + 1
ActiveJobs(e) == {j \in Jobs : EvidenceOf[j] = e /\ status[j] \in Active}

-----------------------------------------------------------------------------
(* enqueue (jobs.go:121-138), called by a request or by Start.             *)

Marked_Never(j) == FALSE
Marked(j) == j \in enqueued

EnqueueMark(c) ==
    /\ caller[c].pc = "enqueue"
    /\ LET j == caller[c].id
       IN  \/ /\ Marked(j)
              /\ caller' = [caller EXCEPT ![c] = Free]
              /\ UNCHANGED enqueued
           \/ /\ ~Marked(j)
              /\ enqueued' = enqueued \cup {j}
              /\ caller' = [caller EXCEPT ![c] = Enqueuing("send", j)]
    /\ UNCHANGED <<tables, file, process, starting, queue, worker, history>>

Dropped_KeepsMark(j) == Free
Dropped(j) == Enqueuing("unmark", j)

\* The send does not block: a full queue drops the job.
EnqueueSend(c) ==
    /\ caller[c].pc = "send"
    /\ LET j == caller[c].id
       IN  \/ /\ Len(queue) < QueueCapacity
              /\ queue' = Append(queue, j)
              /\ caller' = [caller EXCEPT ![c] = Free]
              /\ UNCHANGED struck
           \/ /\ Len(queue) >= QueueCapacity
              /\ caller' = [caller EXCEPT ![c] = Dropped(j)]
              /\ struck' = struck \cup {j}
              /\ UNCHANGED queue
    /\ UNCHANGED <<tables, file, process, starting, enqueued, worker, dirty, upsets>>

EnqueueUnmark(c) ==
    /\ caller[c].pc = "unmark"
    /\ enqueued' = enqueued \ {caller[c].id}
    /\ caller' = [caller EXCEPT ![c] = Free]
    /\ UNCHANGED <<tables, file, process, starting, queue, worker, history>>

-----------------------------------------------------------------------------
(* StartVerify (jobs.go:21-51) counts the active jobs and creates one in   *)
(* two statements; ResumeJob (55-71) reads the row and then enqueues.      *)

CountActive(c, e) ==
    /\ process = "up"
    /\ caller[c] = Free
    /\ ActiveJobs(e) = {}
    /\ caller' = [caller EXCEPT ![c] = Counted(e)]
    /\ UNCHANGED <<tables, file, process, starting, enqueued, queue, worker,
                   history>>

CreateJob(c) ==
    /\ caller[c].pc = "counted"
    /\ \E j \in Jobs :
        /\ status[j] = "none"
        /\ EvidenceOf[j] = caller[c].evidence
        /\ status' = [status EXCEPT ![j] = "queued"]
        /\ caller' = [caller EXCEPT ![c] = Enqueuing("enqueue", j)]
    /\ UNCHANGED <<processed, chunk, chain, file, process, starting, enqueued,
                   queue, worker, history>>

\* The insert fails, or the ids of the bounded model are used up.
FailCreate(c) ==
    /\ caller[c].pc = "counted"
    /\ caller' = [caller EXCEPT ![c] = Free]
    /\ UNCHANGED <<tables, file, process, starting, enqueued, queue, worker,
                   history>>

ResumeJob(c, j) ==
    /\ process = "up"
    /\ caller[c] = Free
    /\ status[j] = "interrupted"
    /\ caller' = [caller EXCEPT ![c] = Enqueuing("enqueue", j)]
    /\ UNCHANGED <<tables, file, process, starting, enqueued, queue, worker,
                   history>>

-----------------------------------------------------------------------------
(* worker (jobs.go:140-153) and runJob (190-373).                          *)

\* worker's receive; the mark stays until the run has returned.
Receive(w) ==
    /\ worker[w] = Idle
    /\ process \in {"starting", "up", "stopping"}
    /\ queue # <<>>
    /\ worker' = [worker EXCEPT ![w] = Run(Head(queue))]
    /\ queue' = Tail(queue)
    /\ UNCHANGED <<tables, file, process, starting, enqueued, caller, history>>

Decided_Never(j) == FALSE
Decided(j) == status[j] \in Terminal

\* The row is read once; a cancelled context or a decided job ends the run.
LoadJob(w) ==
    /\ worker[w].pc = "load"
    /\ LET j == worker[w].id
       IN  worker' = [worker EXCEPT ![w] =
               IF process = "stopping" \/ Decided(j)
               THEN Goto(@, "release")
               ELSE [@ EXCEPT !.pc = "open", !.at = processed[j]]]
    /\ UNCHANGED <<tables, file, memory, history>>

\* The path must still name the registered inode, of the registered size.
OpenImage(w) ==
    /\ worker[w].pc = "open"
    /\ LET j == worker[w].id
           image == file[EvidenceOf[j]]
       IN  /\ worker' = [worker EXCEPT ![w] = Goto(@,
                  IF ~image.named \/ image.size # ChunkCount THEN "fail"
                  ELSE IF @.at > 0 THEN "reread" ELSE "begin")]
           /\ dirty' = IF image.changed = {} THEN dirty ELSE dirty \cup {j}
    /\ UNCHANGED <<tables, file, memory, struck, upsets>>

\* The stored chunks are those of the prefix that the row reports, and the
\* image still has their content, which is fed to the hasher.
PrefixStands(j, at) ==
    LET e == EvidenceOf[j]
    IN  /\ Contiguous(j)
        /\ Cardinality(chunk[j]) = at
        /\ \A c \in chunk[j] :
               c.at < file[e].size /\ c.digest = Content(e, c.at)
PrefixRead(j, at) == [k \in 1 .. at |-> Content(EvidenceOf[j], k - 1)]

\* The stored chunk of an offset.
Stored(j, k) == CHOOSE c \in chunk[j] : c.at = k
Reread_TrustsRows(r) ==
    [r EXCEPT !.pc = "begin", !.hash = [k \in 1 .. r.at |-> Stored(r.id, k - 1).digest]]
Reread_NotHashed(r) == Goto(r, IF PrefixStands(r.id, r.at) THEN "begin" ELSE "fail")
Reread(r) ==
    IF PrefixStands(r.id, r.at)
    THEN [r EXCEPT !.pc = "begin", !.hash = PrefixRead(r.id, r.at)]
    ELSE Goto(r, "fail")

RereadPrefix(w) ==
    /\ worker[w].pc = "reread"
    /\ worker' = [worker EXCEPT ![w] = Reread(@)]
    /\ UNCHANGED <<tables, file, memory, history>>

BeginRun(w) ==
    /\ worker[w].pc = "begin"
    /\ status' = [status EXCEPT ![worker[w].id] = "running"]
    /\ worker' = [worker EXCEPT ![w] = Goto(@, "loop")]
    /\ UNCHANGED <<processed, chunk, chain, file, memory, history>>

\* The head of the loop, with its look at the context.
CancelRun(w) ==
    /\ worker[w].pc = "loop"
    /\ worker[w].at < ChunkCount
    /\ process = "stopping"
    /\ worker' = [worker EXCEPT ![w] = Goto(@, "pause")]
    /\ UNCHANGED <<tables, file, memory, history>>

\* A short read, or a second row of the same offset (uk_chunk_job_offset).
Unstorable(j, at) == at >= file[EvidenceOf[j]].size \/ \E c \in chunk[j] : c.at = at

StoreChunk(w) ==
    /\ worker[w].pc = "loop"
    /\ worker[w].at < ChunkCount
    /\ LET run == worker[w]
           digest == Content(EvidenceOf[run.id], run.at)
       IN  /\ ~Unstorable(run.id, run.at)
           /\ chunk' = [chunk EXCEPT ![run.id] =
                  @ \cup {[at |-> run.at, digest |-> digest]}]
           /\ worker' = [worker EXCEPT ![w] =
                  [run EXCEPT !.pc = "progress", !.at = run.at + 1,
                              !.hash = Append(run.hash, digest)]]
    /\ UNCHANGED <<status, processed, chain, file, memory, history>>

RejectChunk(w) ==
    /\ worker[w].pc = "loop"
    /\ worker[w].at < ChunkCount
    /\ Unstorable(worker[w].id, worker[w].at)
    /\ worker' = [worker EXCEPT ![w] = Goto(@, "fail")]
    /\ UNCHANGED <<tables, file, memory, history>>

Progress_OneAhead(w) == worker[w].at + 1
Progress(w) == worker[w].at

\* The progress row, in a statement of its own, and then the job hook.
StoreProgress(w) ==
    /\ worker[w].pc = "progress"
    /\ processed' = [processed EXCEPT ![worker[w].id] = Progress(w)]
    /\ \/ /\ worker' = [worker EXCEPT ![w] = Goto(@, "loop")]
          /\ UNCHANGED upsets
       \/ /\ Upset
          /\ worker' = [worker EXCEPT ![w] = Goto(@, "pause")]
    /\ UNCHANGED <<status, chunk, chain, file, memory, struck, dirty>>

SameDigest_NotCompared(hash) == TRUE
SameDigest(hash) == hash = Baseline

\* The last fstat is of the open descriptor; then the digests are compared.
Judge(w) ==
    /\ worker[w].pc = "loop"
    /\ worker[w].at >= ChunkCount
    /\ LET image == file[EvidenceOf[worker[w].id]]
       IN  worker' = [worker EXCEPT ![w] = Goto(@,
               IF image.size = ChunkCount /\ SameDigest(@.hash)
               THEN "verify" ELSE "fail")]
    /\ UNCHANGED <<tables, file, memory, history>>

\* The verdict and its event are one transaction.
Decide(w, result) ==
    /\ status' = [status EXCEPT ![worker[w].id] = result]
    /\ chain' = Append(chain, [job |-> worker[w].id, result |-> result])
    /\ worker' = [worker EXCEPT ![w] = Goto(@, "release")]
    /\ UNCHANGED <<processed, chunk, file, memory, history>>

FailJob(w) == worker[w].pc = "fail" /\ Decide(w, "failed")
VerifyJob(w) == worker[w].pc = "verify" /\ Decide(w, "verified")

MarkInterrupted(w) ==
    /\ worker[w].pc = "pause"
    /\ status' = [status EXCEPT ![worker[w].id] = "interrupted"]
    /\ worker' = [worker EXCEPT ![w] = Goto(@, "release")]
    /\ UNCHANGED <<processed, chunk, chain, file, memory, history>>

\* worker takes the mark away when runJob has returned.
Release(w) ==
    /\ worker[w].pc = "release"
    /\ enqueued' = enqueued \ {worker[w].id}
    /\ worker' = [worker EXCEPT ![w] = Idle]
    /\ UNCHANGED <<tables, file, process, starting, queue, caller, history>>

\* A statement fails. Without its row, or its status or verdict written, the
\* run just returns; without its chunks or its progress it fails the job.
DatabaseError(w) ==
    /\ Upset
    /\ \/ /\ worker[w].pc \in {"load", "begin", "fail", "verify", "pause"}
          /\ worker' = [worker EXCEPT ![w] = Goto(@, "release")]
       \/ /\ \/ worker[w].pc \in {"reread", "progress"}
             \/ worker[w].pc = "loop" /\ worker[w].at < ChunkCount
          /\ worker' = [worker EXCEPT ![w] = Goto(@, "fail")]
    /\ struck' = struck \cup {worker[w].id}
    /\ UNCHANGED <<tables, file, memory, dirty>>

-----------------------------------------------------------------------------
(* The process (main.go:29-58, service.go:73-88) and the world.            *)

Restarted_Unchanged(j) == status[j]
Restarted_Reopens(j) == IF status[j] \in {"running", "failed"} THEN "interrupted" ELSE status[j]
Restarted(j) == IF status[j] = "running" THEN "interrupted" ELSE status[j]

\* Start: what was running was interrupted, and all that waits is enqueued.
Start ==
    /\ process = "down"
    /\ process' = "starting"
    /\ status' = [j \in Jobs |-> Restarted(j)]
    /\ starting' = {j \in Jobs : Restarted(j) \in {"queued", "interrupted"}}
    /\ struck' = {j \in struck : status[j] \in Terminal}
    /\ UNCHANGED <<processed, chunk, chain, file, enqueued, queue, caller,
                   worker, dirty, upsets>>

Requeue(j) ==
    /\ caller[Starter] = Free
    /\ j \in starting
    /\ starting' = starting \ {j}
    /\ caller' = [caller EXCEPT ![Starter] = Enqueuing("enqueue", j)]
    /\ UNCHANGED <<tables, file, process, enqueued, queue, worker, history>>

\* Start has returned; main serves requests.
Serve ==
    /\ process = "starting"
    /\ starting = {}
    /\ caller[Starter] = Free
    /\ process' = "up"
    /\ UNCHANGED <<tables, file, starting, enqueued, queue, caller, worker,
                   history>>

\* Close cancels the context; each worker returns when it is idle.
Stop ==
    /\ process = "up"
    /\ process' = "stopping"
    /\ UNCHANGED <<tables, file, starting, enqueued, queue, caller, worker,
                   history>>

Leave(w) ==
    /\ process = "stopping"
    /\ worker[w] = Idle
    /\ worker' = [worker EXCEPT ![w] = Gone]
    /\ UNCHANGED <<tables, file, memory, history>>

\* All that the process held in memory is lost.
Ended ==
    /\ process' = "down"
    /\ starting' = {}
    /\ enqueued' = {}
    /\ queue' = <<>>
    /\ caller' = [c \in Callers |-> Free]
    /\ worker' = [w \in Workers |-> Idle]
    /\ UNCHANGED <<tables, file, struck, dirty>>

Exit ==
    /\ process = "stopping"
    /\ \A w \in Workers : worker[w] = Gone
    /\ Ended
    /\ UNCHANGED upsets

Crash == process # "down" /\ Upset /\ Ended

\* The image is moved from or back to its path, overwritten, or resized; what
\* is cut off is lost. A changed chunk never gets its old content again.
Disturb(e) ==
    /\ Upset
    /\ LET image == [file[e] EXCEPT !.touched = TRUE]
       IN  \/ file' = [file EXCEPT ![e] = [image EXCEPT !.named = ~image.named]]
           \/ \E k \in Offsets \ image.changed :
                  file' = [file EXCEPT ![e] =
                              [image EXCEPT !.changed = image.changed \cup {k}]]
           \/ \E n \in 0 .. ChunkCount + 1 :
                  file' = [file EXCEPT ![e] =
                              [image EXCEPT !.size = n, !.changed =
                                  image.changed \cup {k \in Offsets : k >= n}]]
    /\ UNCHANGED <<tables, memory, worker, struck, dirty>>

-----------------------------------------------------------------------------
CallerStep(c) == EnqueueMark(c) \/ EnqueueSend(c) \/ EnqueueUnmark(c)
RequestStep(c) ==
    \/ CreateJob(c)
    \/ FailCreate(c)
    \/ \E e \in Evidence : CountActive(c, e)
    \/ \E j \in Jobs : ResumeJob(c, j)
RunStep(w) ==
    \/ LoadJob(w)
    \/ OpenImage(w)
    \/ RereadPrefix(w)
    \/ BeginRun(w)
    \/ CancelRun(w)
    \/ StoreChunk(w)
    \/ RejectChunk(w)
    \/ StoreProgress(w)
    \/ Judge(w)
    \/ FailJob(w)
    \/ VerifyJob(w)
    \/ MarkInterrupted(w)
    \/ Release(w)
ProcessStep ==
    \/ Start
    \/ Serve
    \/ Stop
    \/ Exit
    \/ Crash
    \/ \E j \in Jobs : Requeue(j)

Next ==
    \/ \E c \in Callers : CallerStep(c)
    \/ \E c \in Requests : RequestStep(c)
    \/ \E w \in Workers : Receive(w) \/ RunStep(w) \/ DatabaseError(w) \/ Leave(w)
    \/ ProcessStep
    \/ \E e \in Evidence : Disturb(e)

Spec == Init /\ [][Next]_vars
-----------------------------------------------------------------------------
TypeOK ==
    /\ status \in [Jobs -> Statuses]
    /\ processed \in [Jobs -> 0 .. ChunkCount]
    /\ chunk \in [Jobs -> SUBSET Chunk]
    /\ chain \in Seq([job : Jobs, result : Results])
    /\ file \in [Evidence -> Image]
    /\ process \in {"down", "starting", "up", "stopping"}
    /\ starting \subseteq Jobs
    /\ enqueued \subseteq Jobs
    /\ queue \in Seq(Jobs)
    /\ caller \in [Callers -> {Free} \cup [pc : {"counted"}, evidence : Evidence]
                     \cup [pc : {"enqueue", "send", "unmark"}, id : Jobs]]
    /\ worker \in [Workers -> {Idle, Gone} \cup
                     [pc : RunPcs, id : Jobs, at : 0 .. ChunkCount,
                      hash : Seq(Contents)]]
    /\ struck \subseteq Jobs
    /\ dirty \subseteq Jobs
    /\ upsets \in 0 .. MaxUpsets

Queued == {queue[i] : i \in DOMAIN queue}
RunOf(j) == {w \in Workers : Running(w) /\ worker[w].id = j}

\* A job is waiting in the queue once or run by one worker, never both: the
\* mark that enqueue sets and worker clears (jobs.go:121-150) is the only lock
\* around a run, whose steps read the rows once and then write them.
OneRunner ==
    /\ \A w, v \in Workers :
           Running(w) /\ Running(v) /\ worker[w].id = worker[v].id => w = v
    /\ \A i, k \in DOMAIN queue : queue[i] = queue[k] => i = k
    /\ \A j \in Queued : RunOf(j) = {}

\* The row says verified or failed exactly when the chain has one verify event
\* of the job, with that result (failJob and the last transaction of runJob):
\* a job that is enqueued again after its verdict is not judged twice.
VerdictMatchesRow ==
    /\ \A i, k \in DOMAIN chain : chain[i].job = chain[k].job => i = k
    /\ \A j \in Jobs, r \in Results :
           status[j] = r <=> \E i \in DOMAIN chain : chain[i] = [job |-> j, result |-> r]

\* A verified job has stored every chunk with its registered content and
\* reports the whole image, however often it was interrupted and resumed.
VerifiedIsWhole ==
    \A j \in Jobs : status[j] = "verified" =>
        /\ processed[j] = ChunkCount
        /\ chunk[j] = [at : Offsets, digest : {"registered"}]

\* While the server runs, a queued or running job is on its way to a worker or
\* in one, unless the queue was full or a statement failed (struck).
WaitingIsHeld ==
    process = "up" => \A j \in Jobs \ struck :
        status[j] \in {"queued", "running"} =>
            \/ j \in Queued
            \/ RunOf(j) # {}
            \/ \E c \in Callers :
                   caller[c] \in {Enqueuing("enqueue", j), Enqueuing("send", j)}

\* A job of an image that nobody touched fails only after a database error or
\* when it was stopped between a chunk and its progress (jobs.go:304,311).
Torn(j) == Cardinality(chunk[j]) > processed[j]
NoFalseAlarm ==
    \A j \in Jobs : status[j] = "failed" =>
        file[EvidenceOf[j]].touched \/ j \in struck \/ Torn(j)

\* README.md:29: a job that a stop or restart interrupts goes on afterwards.
\* Without database errors an image that nobody touched is never failed.
UntouchedNotFailed ==
    \A j \in Jobs : status[j] = "failed" =>
        file[EvidenceOf[j]].touched \/ j \in struck

\* A run that opened a changed image does not verify the job, in whatever part
\* the change is: a resumed run reads the prefix again (jobs.go:233-276).
ChangeIsNoticed == \A j \in dirty : status[j] # "verified"

\* Whoever sets a mark clears it: a mark that nobody holds would keep the job
\* from ever being enqueued again (jobs.go:123).
MarkIsHeld ==
    \A j \in enqueued :
        \/ j \in Queued
        \/ RunOf(j) # {}
        \/ \E c \in Callers : caller[c] \in {Enqueuing("send", j), Enqueuing("unmark", j)}

\* Behind its queue, marks, callers and restarts the service does what
\* JudgedJobs promises: one run of a job at a time, chunks stored in order, one
\* verdict after which the job is left alone, and "verified" only for the whole
\* registered image (jobs.go:21-373, service.go:73-88).
Judged == INSTANCE JudgedJobs WITH
    Whole <- [at : Offsets, digest : {"registered"}],
    verdict <- [j \in Jobs |-> IF status[j] \in Active THEN "open" ELSE status[j]],
    running <- {j \in Jobs : RunOf(j) # {}},
    stored <- chunk,
    log <- chain
JobsAreJudged == Judged!Spec
=============================================================================
