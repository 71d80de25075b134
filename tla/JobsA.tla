------------------------------- MODULE JobsA -------------------------------
(***************************************************************************)
(* Registration of an image and its verification job in text16/a: requests *)
(* read the file chunk by chunk, while others may write or replace it, and *)
(* keep the chunks and the progress of the job in the database. A run      *)
(* works on its own copy of the job and saves the whole row.               *)
(* A chunk stands for its digest; every change of a file gives it a new    *)
(* stamp (mtime and ctime).                                                *)
(***************************************************************************)
EXTENDS Naturals, Sequences, FiniteSets

CONSTANTS
    Contents,   \* of the file: sequences of chunks
    Requests,
    MaxStamp,   \* changes of the files that are followed
    MaxRows,    \* chunk rows
    MaxEvents   \* verdicts after which no run begins

VARIABLES
    inodes,     \* inodes[i]: stamp and content of the i-th file of the path
    evidence,   \* row of evidences: the baseline
    job,        \* row of verify_jobs
    chunks,     \* rows of chunk_hashes, in the order of their ids
    events,     \* results of the verify events of the chain
    request,    \* what is in flight
    history     \* contents of the file at the registration and at the verdict;
                \* whether two runs overlapped; changes so far

vars == <<inodes, evidence, job, chunks, events, request, history>>

None == <<>>
Idle == [at |-> "idle"]
NewJob == [status |-> "pending", processed |-> 0, result |-> "none"]

Init ==
    /\ \E c \in Contents : inodes = <<[stamp |-> 0, content |-> c]>>
    /\ evidence = None
    /\ job = None
    /\ chunks = <<>>
    /\ events = <<>>
    /\ request = [r \in Requests |-> Idle]
    /\ history = [registered |-> None, judged |-> None, overlapped |-> FALSE, stamp |-> 0]

-----------------------------------------------------------------------------
\* Identity of the file that the path names: what fstat says after the open
IdentityOf(i) == [ino |-> i, stamp |-> inodes[i].stamp, size |-> Len(inodes[i].content)]
OpenReadOnly == IdentityOf(Len(inodes))
CheckUnchanged(id) == IdentityOf(id.ino) = id
CanRead(id, off) == off < Len(inodes[id.ino].content)
ReadChunkAt(id, off) == inodes[id.ino].content[off + 1]

\* Somebody writes the file, or puts another one in its place, which changes
\* the ctime of the old one as well.
Write(c) ==
    LET now == history.stamp + 1 IN
    /\ now <= MaxStamp
    /\ inodes' = [inodes EXCEPT ![Len(inodes)] = [stamp |-> now, content |-> c]]
    /\ history' = [history EXCEPT !.stamp = now]
    /\ UNCHANGED <<evidence, job, chunks, events, request>>

Replace(c) ==
    LET now == history.stamp + 1 IN
    /\ now <= MaxStamp
    /\ inodes' = Append([inodes EXCEPT ![Len(inodes)].stamp = now],
                        [stamp |-> now, content |-> c])
    /\ history' = [history EXCEPT !.stamp = now]
    /\ UNCHANGED <<evidence, job, chunks, events, request>>

-----------------------------------------------------------------------------
Register(r) ==
    /\ request[r] = Idle /\ evidence = None
    /\ request' = [request EXCEPT ![r] =
           [at |-> "register", id |-> OpenReadOnly, got |-> <<>>]]
    /\ UNCHANGED <<inodes, evidence, job, chunks, events, history>>

HashWholeFile(r) ==
    LET q == request[r]
        off == Len(q.got)
    IN
    /\ q.at = "register" /\ off < q.id.size
    /\ request' = [request EXCEPT ![r] =
           IF CanRead(q.id, off) THEN [q EXCEPT !.got = Append(@, ReadChunkAt(q.id, off))]
           ELSE Idle]
    /\ UNCHANGED <<inodes, evidence, job, chunks, events, history>>

SaveBaseline(r) ==
    LET q == request[r] IN
    /\ q.at = "register" /\ Len(q.got) = q.id.size
    /\ request' = [request EXCEPT ![r] = Idle]
    /\ IF CheckUnchanged(q.id) /\ evidence = None
       THEN /\ evidence' = [id |-> q.id, content |-> q.got]
            /\ history' = [history EXCEPT !.registered = inodes[q.id.ino].content]
       ELSE UNCHANGED <<evidence, history>>
    /\ UNCHANGED <<inodes, job, chunks, events>>

CreateVerifyJob ==
    /\ evidence # None /\ job = None
    /\ job' = NewJob
    /\ UNCHANGED <<inodes, evidence, chunks, events, request, history>>

-----------------------------------------------------------------------------
Running == {r \in Requests : request[r].at \notin {"idle", "register"}}

\* Everything but a finished or a running job is run.
RunJob(r) ==
    /\ request[r] = Idle
    /\ job # None /\ job.status \in {"pending", "paused"} /\ Len(events) < MaxEvents
    /\ request' = [request EXCEPT ![r] = [at |-> "open", job |-> job]]
    /\ history' = [history EXCEPT !.overlapped = @ \/ Running # {}]
    /\ UNCHANGED <<inodes, evidence, job, chunks, events>>

\* The run ends and its copy replaces the row.
Save(r, status) ==
    /\ job' = [request[r].job EXCEPT !.status = status]
    /\ request' = [request EXCEPT ![r] = Idle]
    /\ UNCHANGED <<inodes, evidence, chunks, events, history>>

Acceptable(id, processed) ==
    /\ id.ino = evidence.id.ino /\ id.size = evidence.id.size
    /\ processed > 0 => id.stamp = evidence.id.stamp

Open(r) ==
    LET copy == [request[r].job EXCEPT !.status = "running"] IN
    /\ request[r].at = "open"
    /\ IF Acceptable(OpenReadOnly, copy.processed)
       THEN /\ job' = copy
            /\ request' = [request EXCEPT ![r] =
                   [at |-> IF copy.processed > 0 THEN "rows" ELSE "seq", job |-> copy,
                    id |-> OpenReadOnly, got |-> <<>>, seq |-> 0, rows |-> <<>>]]
            /\ UNCHANGED <<inodes, evidence, chunks, events, history>>
       ELSE Save(r, "failed")

\* ORDER BY seq: rows of one seq come in any order.
InOrder(rows) == \A i, k \in DOMAIN rows : i < k => rows[i].seq <= rows[k].seq
Rows(r) ==
    /\ request[r].at = "rows"
    /\ \E p \in [DOMAIN chunks -> DOMAIN chunks] :
           LET rows == [i \in DOMAIN chunks |-> chunks[p[i]]] IN
           /\ \A i, k \in DOMAIN p : i # k => p[i] # p[k]
           /\ InOrder(rows)
           /\ request' = [request EXCEPT ![r].at = "recheck", ![r].rows = rows]
    /\ UNCHANGED <<inodes, evidence, job, chunks, events, history>>

\* The next row of the prefix is compared with the file.
Recheck(r) ==
    LET q == request[r]
        row == Head(q.rows)
        off == Len(q.got)
    IN
    /\ q.at = "recheck" /\ q.rows # <<>>
    /\ IF row.off = off /\ CanRead(q.id, off) /\ ReadChunkAt(q.id, off) = row.sum
       THEN /\ request' = [request EXCEPT ![r].got = Append(@, row.sum),
                               ![r].rows = Tail(@)]
            /\ UNCHANGED <<inodes, evidence, job, chunks, events, history>>
       ELSE Save(r, "failed")

Rechecked(r) ==
    LET q == request[r] IN
    /\ q.at = "recheck" /\ q.rows = <<>>
    /\ IF Len(q.got) = q.job.processed
       THEN /\ request' = [request EXCEPT ![r].at = "seq"]
            /\ UNCHANGED <<inodes, evidence, job, chunks, events, history>>
       ELSE Save(r, "failed")

\* The query names no table and nobody looks at its error, so that seq may
\* stay 0 instead of following the last row.
NextSeq(r) ==
    LET last == Cardinality({chunks[i].seq : i \in DOMAIN chunks}) IN
    /\ request[r].at = "seq"
    /\ \E n \in {0, last} : request' = [request EXCEPT ![r].at = "read", ![r].seq = n]
    /\ UNCHANGED <<inodes, evidence, job, chunks, events, history>>

ReadOn(r) ==
    LET q == request[r]
        off == Len(q.got)
    IN
    /\ q.at = "read" /\ off < q.id.size /\ Len(chunks) < MaxRows
    /\ IF CanRead(q.id, off)
       THEN /\ chunks' = Append(chunks, [seq |-> q.seq, off |-> off,
                                         sum |-> ReadChunkAt(q.id, off)])
            /\ job' = [job EXCEPT !.processed = off + 1]
            /\ request' = [request EXCEPT ![r].got = Append(@, ReadChunkAt(q.id, off)),
                   ![r].seq = @ + 1, ![r].job.processed = off + 1]
            /\ UNCHANGED <<inodes, evidence, events, history>>
       ELSE Save(r, "failed")

\* The client has left.
Pause(r) ==
    /\ request[r].at = "read" /\ Len(request[r].got) < request[r].id.size
    /\ Save(r, "paused")

Finish(r) ==
    LET q == request[r]
        result == IF q.got = evidence.content THEN "match" ELSE "mismatch"
    IN
    /\ q.at = "read" /\ Len(q.got) = q.id.size
    /\ IF CheckUnchanged(q.id)
       THEN /\ job' = [q.job EXCEPT !.status = "completed", !.result = result]
            /\ events' = Append(events, result)
            /\ request' = [request EXCEPT ![r] = Idle]
            /\ history' = [history EXCEPT !.judged = inodes[q.id.ino].content]
            /\ UNCHANGED <<inodes, evidence, chunks>>
       ELSE Save(r, "failed")

\* A statement fails and the request ends.
Fail(r) ==
    /\ request[r] # Idle
    /\ request' = [request EXCEPT ![r] = Idle]
    /\ UNCHANGED <<inodes, evidence, job, chunks, events, history>>

\* The process dies; RecoverInterruptedJobs runs when it starts.
Restart ==
    /\ request' = [r \in Requests |-> Idle]
    /\ job' = IF job # None /\ job.status = "running" THEN [job EXCEPT !.status = "paused"]
              ELSE job
    /\ UNCHANGED <<inodes, evidence, chunks, events, history>>

Next ==
    \/ \E c \in Contents : Write(c) \/ Replace(c)
    \/ \E r \in Requests :
           \/ Register(r) \/ HashWholeFile(r) \/ SaveBaseline(r)
           \/ RunJob(r) \/ Open(r) \/ Rows(r) \/ Recheck(r) \/ Rechecked(r)
           \/ NextSeq(r) \/ ReadOn(r) \/ Pause(r) \/ Finish(r) \/ Fail(r)
    \/ CreateVerifyJob
    \/ Restart

Spec == Init /\ [][Next]_vars
-----------------------------------------------------------------------------
\* The baseline is what the file contained, and so is what a job is judged by,
\* whatever changes the file, and however often the job is interrupted and
\* resumed. Unless two runs of the job overlap (RunJob reads the status and sets
\* it without a condition), the chunks are the progress, each once, and of the
\* content that is judged, and the chain has one verdict for a completed job
\* and none for another (service.go:47-95, 134-306).
JobsSound ==
    /\ evidence # None => evidence.content = history.registered
    /\ job # None =>
           /\ job.status = "completed" =>
                  /\ job.result = (IF history.judged = evidence.content THEN "match"
                                   ELSE "mismatch")
                  /\ events # <<>>
           /\ ~history.overlapped =>
                  /\ Len(chunks) = job.processed
                  /\ {chunks[i].off : i \in DOMAIN chunks} = 0 .. (job.processed - 1)
                  /\ job.status = "completed" => \A i \in DOMAIN chunks :
                         chunks[i].sum = history.judged[chunks[i].off + 1]
                  /\ events = IF job.status = "completed" THEN <<job.result>> ELSE <<>>
=============================================================================
