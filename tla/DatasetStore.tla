---------------------------- MODULE DatasetStore ----------------------------
(***************************************************************************)
(* The dataset store of SynapticGo (text17/b): datasets are uploaded in    *)
(* chunks, merged into one content-addressed file when published, shared   *)
(* between datasets of the same content, and collected with their last     *)
(* reference. The state is split between PostgreSQL and a directory.       *)
(*                                                                         *)
(* A handler runs its transaction on the context of its HTTP request. When *)
(* the client goes away (Cancel) database/sql rolls the transaction back   *)
(* and its row and advisory locks are gone, but the handler goes on with   *)
(* its disk work until the next statement fails. A request that is not     *)
(* "live" is such a handler: it holds no lock and cannot write a row.      *)
(*                                                                         *)
(* A content is a sequence of blocks and is its own digest: SHA-256 is     *)
(* taken to be injective. The 'merging' status of the schema is never set. *)
(***************************************************************************)
EXTENDS Naturals, Sequences

CONSTANTS
    Datasets,       \* ids the datasets table may hand out
    Declared,       \* datasets.sha256: the content a dataset promises
    ChunkSize,      \* datasets.chunk_size, in blocks
    Blocks,         \* what a block of content may be
    Offered,        \* chunk bodies that clients send
    Requests,       \* request handlers that run at the same time
    None,           \* no row, no file
    Hole            \* a block nobody wrote: the zeros of a sparse file

\* datasets.go:45-57: sizes are positive and the digest is that of a content.
ASSUME DatasetsAssumption ==
    /\ Declared \in [Datasets -> Seq(Blocks) \ {<<>>}]
    /\ ChunkSize \in [Datasets -> Nat \ {0}]
    /\ Offered \subseteq Seq(Blocks)
    /\ Hole \notin Blocks
    /\ None \notin Seq(Blocks \cup {Hole})

VARIABLES
    status,         \* datasets.status; "none" before, "deleted" after the row
    chunkRow,       \* rows of dataset_chunks: the recorded digest
    rows,           \* rows of files, by digest
    bound,          \* whether a model version or experiment refers to it
    chunkFile,      \* chunks/<id>/<index>
    tmp,            \* tmp/merge-<id>.part
    file,           \* files/<digest>
    request,        \* what each request handler is doing
    up,             \* whether the server has recovered and takes requests
    disturbed       \* whether a client ever left before its answer

tables == <<status, chunkRow, rows, bound>>
disk == <<chunkFile, tmp, file>>
vars == <<tables, disk, request, up, disturbed>>

Digests == {Declared[d] : d \in Datasets}

----------------------------------------------------------------------------
(* Chunks and contents *)

\* datasets.go:58, 164-175.
ChunkCount(d) == (Len(Declared[d]) + ChunkSize[d] - 1) \div ChunkSize[d]
Indexes(d) == 0 .. (ChunkCount(d) - 1)
Expected_AlwaysFull(d, i) == ChunkSize[d]
Expected(d, i) ==
    IF i = ChunkCount(d) - 1
    THEN Len(Declared[d]) - ChunkSize[d] * (ChunkCount(d) - 1)
    ELSE ChunkSize[d]

Bodies(d, i) == {b \in Offered : Len(b) = Expected(d, i)}
NoChunks(d) == [i \in Indexes(d) |-> None]

\* The chunks one after the other.
Assembled(d, chunks) ==
    [k \in 1 .. Len(Declared[d]) |->
        chunks[(k - 1) \div ChunkSize[d]][1 + ((k - 1) % ChunkSize[d])]]

\* A write through a descriptor whose offset is "after".
Written(content, after, body) ==
    LET end == after + Len(body)
        size == IF end > Len(content) THEN end ELSE Len(content)
    IN  [k \in 1 .. size |->
            IF k \in after + 1 .. end THEN body[k - after]
            ELSE IF k <= Len(content) THEN content[k] ELSE Hole]

----------------------------------------------------------------------------
(* Handlers and the locks of their transactions *)

Idle == [stage |-> "idle"]
Uploading(d) ==
    [stage : {"write", "insert"}, ds : {d}, live : BOOLEAN,
     index : Indexes(d), body : Offered]
Publishing(d) ==
    [stage : {"open", "merge", "merged", "promote", "discard", "commit"},
     ds : {d}, live : BOOLEAN, chunks : [Indexes(d) -> Offered],
     next : 0 .. ChunkCount(d), fd : {"none", "tmp", "file", "gone"}]
Others ==
    [stage : {"release", "drop", "rmdir", "gc", "unlink", "bind"}, ds : Datasets,
     live : BOOLEAN, orphan : BOOLEAN]

Running == {r \in Requests : request[r] # Idle}
Holding(stages) ==
    {r \in Running : request[r].live /\ request[r].stage \in stages}

\* FOR UPDATE on the datasets row (datasets.go:72-87).
RowFree_NotLocked(d) == TRUE
RowFree(d) ==
    \A r \in Holding({"write", "insert", "open", "merge", "merged",
                      "promote", "discard", "commit", "release", "drop"}) :
        request[r].ds # d

\* pg_advisory_xact_lock on the digest (files.go:45, 83, 114).
FileFree_NotLocked(digest) == TRUE
FileFree(digest) ==
    \A r \in Holding({"promote", "discard", "commit", "drop", "unlink"}) :
        Declared[request[r].ds] # digest

\* files.go:87-94: datasets other than d that point at d's files row.
Sharing(d) ==
    {e \in Datasets \ {d} :
        status[e] = "published" /\ Declared[e] = Declared[d]}

\* files.go:117-122.
Orphan_NotChecked(digest) == TRUE
Orphan(digest) == digest \notin rows

\* datasets.go:306-314.
Referenced(d) == bound[d]

\* The descriptors that are open on the file at a place follow it there.
Moved(from, to, datasets) ==
    [r \in Requests |->
        IF /\ request[r].stage = "merge"
           /\ request[r].fd = from
           /\ request[r].ds \in datasets
        THEN [request[r] EXCEPT !.fd = to] ELSE request[r]]
Sharers(digest) == {d \in Datasets : Declared[d] = digest}

Accepts(r) == up /\ request[r] = Idle

----------------------------------------------------------------------------
Init ==
    /\ status = [d \in Datasets |-> "none"]
    /\ chunkRow = [d \in Datasets |-> NoChunks(d)]
    /\ rows = {}
    /\ bound = [d \in Datasets |-> FALSE]
    /\ chunkFile = [d \in Datasets |-> NoChunks(d)]
    /\ tmp = [d \in Datasets |-> None]
    /\ file = [D \in Digests |-> None]
    /\ request = [r \in Requests |-> Idle]
    /\ up = TRUE
    /\ disturbed = FALSE

\* datasets.go:45-70.
Create(d) ==
    /\ up
    /\ status[d] = "none"
    /\ status' = [status EXCEPT ![d] = "uploading"]
    /\ UNCHANGED <<chunkRow, rows, bound, disk, request, up, disturbed>>

----------------------------------------------------------------------------
(* UploadChunk *)

\* datasets.go:140-192. An index that has a row is answered at once: 200 for
\* the same content, 409 for another.
BeginUpload(r, d, i, body) ==
    /\ Accepts(r)
    /\ RowFree(d)
    /\ status[d] = "uploading"
    /\ chunkRow[d][i] = None
    /\ request' = [request EXCEPT ![r] =
           [stage |-> "write", ds |-> d, live |-> TRUE, index |-> i,
            body |-> body]]
    /\ UNCHANGED <<tables, disk, up, disturbed>>

\* filestore.go:60-87: the rename at the end is what others can see.
WriteChunk(r) ==
    LET q == request[r] IN
    /\ q.stage = "write"
    /\ chunkFile' = [chunkFile EXCEPT ![q.ds][q.index] = q.body]
    /\ request' = [request EXCEPT ![r].stage = "insert"]
    /\ UNCHANGED <<tables, tmp, file, up, disturbed>>

\* datasets.go:197-208.
CommitChunk(r) ==
    LET q == request[r] IN
    /\ q.stage = "insert"
    /\ q.live
    /\ chunkRow' = [chunkRow EXCEPT ![q.ds][q.index] = q.body]
    /\ request' = [request EXCEPT ![r] = Idle]
    /\ UNCHANGED <<status, rows, bound, disk, up, disturbed>>

----------------------------------------------------------------------------
(* Publish *)

\* datasets.go:222-256.
BeginPublish(r, d) ==
    /\ Accepts(r)
    /\ RowFree(d)
    /\ status[d] = "uploading"
    /\ \A i \in Indexes(d) : chunkRow[d][i] # None
    /\ request' = [request EXCEPT ![r] =
           [stage |-> "open", ds |-> d, live |-> TRUE,
            chunks |-> chunkRow[d], next |-> 0, fd |-> "none"]]
    /\ UNCHANGED <<tables, disk, up, disturbed>>

\* filestore.go:93-98: O_CREATE and O_TRUNC keep the file that is there.
OpenTmp(r) ==
    LET q == request[r] IN
    /\ q.stage = "open"
    /\ tmp' = [tmp EXCEPT ![q.ds] = <<>>]
    /\ request' = [request EXCEPT ![r].stage = "merge", ![r].fd = "tmp"]
    /\ UNCHANGED <<tables, chunkFile, file, up, disturbed>>

\* Where the descriptor of request q points, after it wrote body at "after".
TmpAfter(q, body) ==
    IF q.fd = "tmp"
    THEN [tmp EXCEPT ![q.ds] = Written(@, q.next * ChunkSize[q.ds], body)]
    ELSE tmp
FileAfter(q, body) ==
    IF q.fd = "file"
    THEN [file EXCEPT ![Declared[q.ds]] =
             Written(@, q.next * ChunkSize[q.ds], body)]
    ELSE file

\* filestore.go:105-137: the chunk is copied, then its digest is compared.
CopyChunk(r) ==
    LET q == request[r]
        body == chunkFile[q.ds][q.next]
        last == q.next = ChunkCount(q.ds) - 1
    IN
    /\ q.stage = "merge"
    /\ body = q.chunks[q.next]
    /\ tmp' = TmpAfter(q, body)
    /\ file' = FileAfter(q, body)
    /\ request' = [request EXCEPT ![r] =
           [q EXCEPT !.stage = IF last THEN "merged" ELSE "merge",
                     !.fd = IF last THEN "none" ELSE q.fd,
                     !.next = q.next + 1]]
    /\ UNCHANGED <<tables, chunkFile, up, disturbed>>

\* filestore.go:99-103, 107-129: a missing or different chunk; what was
\* copied stays where the descriptor points and the tmp path is removed.
FailMerge(r) ==
    LET q == request[r]
        body == chunkFile[q.ds][q.next]
    IN
    /\ q.stage = "merge"
    /\ body # q.chunks[q.next]
    /\ tmp' = [tmp EXCEPT ![q.ds] = None]
    /\ file' = IF body = None THEN file ELSE FileAfter(q, body)
    /\ request' = [Moved("tmp", "gone", {q.ds}) EXCEPT ![r] = Idle]
    /\ UNCHANGED <<tables, chunkFile, up, disturbed>>

\* datasets.go:268-271.
RejectDigest(r) ==
    LET q == request[r] IN
    /\ q.stage = "merged"
    /\ Assembled(q.ds, q.chunks) # Declared[q.ds]
    /\ tmp' = [tmp EXCEPT ![q.ds] = None]
    /\ request' = [Moved("tmp", "gone", {q.ds}) EXCEPT ![r] = Idle]
    /\ UNCHANGED <<tables, chunkFile, file, up, disturbed>>

\* files.go:44-60: the lock, then whether the digest has its row.
LockFile(r) ==
    LET q == request[r] IN
    /\ q.stage = "merged"
    /\ q.live
    /\ Assembled(q.ds, q.chunks) = Declared[q.ds]
    /\ FileFree(Declared[q.ds])
    /\ request' = [request EXCEPT ![r].stage =
           IF Declared[q.ds] \in rows THEN "discard" ELSE "promote"]
    /\ UNCHANGED <<tables, disk, up, disturbed>>

\* files.go:52-57.
DiscardTmp(r) ==
    LET q == request[r] IN
    /\ q.stage = "discard"
    /\ tmp' = [tmp EXCEPT ![q.ds] = None]
    /\ request' = [Moved("tmp", "gone", {q.ds}) EXCEPT ![r].stage = "commit"]
    /\ UNCHANGED <<tables, chunkFile, file, up, disturbed>>

\* filestore.go:143-151: the copy is moved into place, or dropped when the
\* place is taken; without a copy both fail and the transaction rolls back.
PromoteTmp(r) ==
    LET q == request[r]
        D == Declared[q.ds]
        taken == file[D] # None
    IN
    /\ q.stage = "promote"
    /\ tmp' = [tmp EXCEPT ![q.ds] = None]
    /\ file' = IF taken THEN file ELSE [file EXCEPT ![D] = tmp[q.ds]]
    /\ request' =
           IF tmp[q.ds] = None THEN [request EXCEPT ![r] = Idle]
           ELSE [Moved("tmp", IF taken THEN "gone" ELSE "file", {q.ds})
                    EXCEPT ![r].stage = "commit"]
    /\ UNCHANGED <<tables, chunkFile, up, disturbed>>

\* files.go:65-71, datasets.go:273-285.
CommitPublish(r) ==
    LET q == request[r] IN
    /\ q.stage = "commit"
    /\ q.live
    /\ rows' = rows \cup {Declared[q.ds]}
    /\ status' = [status EXCEPT ![q.ds] = "published"]
    /\ request' = [request EXCEPT ![r] = Idle]
    /\ UNCHANGED <<chunkRow, bound, disk, up, disturbed>>

----------------------------------------------------------------------------
(* Delete *)

\* datasets.go:294-314.
BeginDelete(r, d) ==
    /\ Accepts(r)
    /\ RowFree(d)
    /\ status[d] \in {"uploading", "published"}
    /\ ~Referenced(d)
    /\ request' = [request EXCEPT ![r] =
           [stage |-> "release", ds |-> d, live |-> TRUE, orphan |-> FALSE]]
    /\ UNCHANGED <<tables, disk, up, disturbed>>

\* files.go:76-91: the lock on the digest, then the count of the datasets
\* that other transactions have not yet committed the delete of.
CountSharing(r) ==
    LET q == request[r] IN
    /\ q.stage = "release"
    /\ q.live
    /\ status[q.ds] = "published"
    /\ FileFree(Declared[q.ds])
    /\ request' = [request EXCEPT ![r].stage = "drop",
                                 ![r].orphan = Sharing(q.ds) = {}]
    /\ UNCHANGED <<tables, disk, up, disturbed>>

\* datasets.go:316-327, files.go:92-98, with the commit: the chunk rows go
\* with the dataset, the files row with its last dataset.
CommitDelete(r) ==
    LET q == request[r] IN
    /\ \/ q.stage = "release" /\ status[q.ds] = "uploading"
       \/ q.stage = "drop"
    /\ q.live
    /\ status' = [status EXCEPT ![q.ds] = "deleted"]
    /\ chunkRow' = [chunkRow EXCEPT ![q.ds] = NoChunks(q.ds)]
    /\ rows' = IF q.orphan THEN rows \ {Declared[q.ds]} ELSE rows
    /\ request' = [request EXCEPT ![r].stage = "rmdir"]
    /\ UNCHANGED <<bound, disk, up, disturbed>>

\* datasets.go:329-339, filestore.go:153-159.
RemoveChunkDir(r) ==
    LET q == request[r] IN
    /\ q.stage = "rmdir"
    /\ chunkFile' = [chunkFile EXCEPT ![q.ds] = NoChunks(q.ds)]
    /\ request' = IF q.orphan THEN [request EXCEPT ![r].stage = "gc"]
                  ELSE [request EXCEPT ![r] = Idle]
    /\ UNCHANGED <<tables, tmp, file, up, disturbed>>

\* files.go:107-122: a transaction of its own.
CheckOrphan(r) ==
    LET q == request[r] IN
    /\ q.stage = "gc"
    /\ q.live
    /\ FileFree(Declared[q.ds])
    /\ request' = IF Orphan(Declared[q.ds])
                  THEN [request EXCEPT ![r].stage = "unlink"]
                  ELSE [request EXCEPT ![r] = Idle]
    /\ UNCHANGED <<tables, disk, up, disturbed>>

\* files.go:122-127.
UnlinkFile(r) ==
    LET q == request[r]
        D == Declared[q.ds]
    IN
    /\ q.stage = "unlink"
    /\ file' = [file EXCEPT ![D] = None]
    /\ request' = [Moved("file", "gone", Sharers(D)) EXCEPT ![r] = Idle]
    /\ UNCHANGED <<tables, chunkFile, tmp, up, disturbed>>

----------------------------------------------------------------------------
(* References: model versions and experiments *)

\* models.go:165-177, experiments.go:49-62: read without a lock.
BeginBind(r, d) ==
    /\ Accepts(r)
    /\ status[d] = "published"
    /\ request' = [request EXCEPT ![r] =
           [stage |-> "bind", ds |-> d, live |-> TRUE, orphan |-> FALSE]]
    /\ UNCHANGED <<tables, disk, up, disturbed>>

\* models.go:183-196, experiments.go:74-80. The foreign key of the new row
\* (0001_init.sql:61, 75) waits for the holder of the datasets row and fails
\* when the row is gone.
CommitBind(r) ==
    LET q == request[r] IN
    /\ q.stage = "bind"
    /\ q.live
    /\ RowFree(q.ds)
    /\ bound' = [bound EXCEPT ![q.ds] = @ \/ status[q.ds] # "deleted"]
    /\ request' = [request EXCEPT ![r] = Idle]
    /\ UNCHANGED <<status, chunkRow, rows, disk, up, disturbed>>

\* models.go:80-114, experiments.go:117-129: the last reference is deleted.
Unbind(d) ==
    /\ up
    /\ bound[d]
    /\ bound' = [bound EXCEPT ![d] = FALSE]
    /\ UNCHANGED <<status, chunkRow, rows, disk, request, up, disturbed>>

----------------------------------------------------------------------------
(* Clients that leave, crashes and recovery *)

\* server.go:125-195 passes the context of the request to the services.
Cancel(r) ==
    /\ request[r] # Idle
    /\ request[r].live
    /\ request' = [request EXCEPT ![r].live = FALSE]
    /\ disturbed' = TRUE
    /\ UNCHANGED <<tables, disk, up>>

\* The next statement of a cancelled handler fails and it returns.
Abandon(r) ==
    LET q == request[r] IN
    /\ q.stage \in {"insert", "merged", "commit", "release", "drop", "gc",
                   "bind"}
    /\ ~q.live
    /\ q.stage = "merged" => Assembled(q.ds, q.chunks) = Declared[q.ds]
    /\ request' = [request EXCEPT ![r] = Idle]
    /\ UNCHANGED <<tables, disk, up, disturbed>>

Crash ==
    /\ up
    /\ up' = FALSE
    /\ request' = [r \in Requests |-> Idle]
    /\ UNCHANGED <<tables, disk, disturbed>>

\* filestore.go:185-199.
Swept_KeepsAll(D) == file[D]
Swept(D) == IF D \in rows THEN file[D] ELSE None

\* datasets.go:351-382, main.go:42-45: before traffic is accepted.
Recover ==
    /\ ~up
    /\ up' = TRUE
    /\ tmp' = [d \in Datasets |-> None]
    /\ file' = [D \in Digests |-> Swept(D)]
    /\ chunkFile' = [d \in Datasets |->
           IF status[d] = "deleted" THEN NoChunks(d) ELSE chunkFile[d]]
    /\ UNCHANGED <<tables, request, disturbed>>

----------------------------------------------------------------------------
Step(r) ==
    \/ WriteChunk(r) \/ CommitChunk(r)
    \/ OpenTmp(r) \/ CopyChunk(r) \/ FailMerge(r) \/ RejectDigest(r)
    \/ LockFile(r) \/ DiscardTmp(r) \/ PromoteTmp(r) \/ CommitPublish(r)
    \/ CountSharing(r) \/ CommitDelete(r) \/ RemoveChunkDir(r) \/ CheckOrphan(r)
    \/ UnlinkFile(r) \/ CommitBind(r)
    \/ Abandon(r)

Arrive(r, d) ==
    \/ \E i \in Indexes(d) : \E body \in Bodies(d, i) :
           BeginUpload(r, d, i, body)
    \/ BeginPublish(r, d)
    \/ BeginDelete(r, d)
    \/ BeginBind(r, d)

Next ==
    \/ \E d \in Datasets : Create(d) \/ Unbind(d)
    \/ \E r \in Requests, d \in Datasets : Arrive(r, d)
    \/ \E r \in Requests : Step(r) \/ Cancel(r)
    \/ Crash
    \/ Recover

Spec == Init /\ [][Next]_vars

----------------------------------------------------------------------------
(* Properties *)

Contents(n) == UNION {[1 .. m -> Blocks \cup {Hole}] : m \in 0 .. n}

\* Types: in particular no file is longer than the content it is named after,
\* because every accepted chunk has the size its index calls for.
TypeOK ==
    /\ status \in [Datasets ->
           {"none", "uploading", "published", "deleted"}]
    /\ \A d \in Datasets :
           /\ chunkRow[d] \in [Indexes(d) -> Offered \cup {None}]
           /\ chunkFile[d] \in [Indexes(d) -> Offered \cup {None}]
           /\ tmp[d] \in Contents(Len(Declared[d])) \cup {None}
    /\ \A D \in Digests : file[D] \in Contents(Len(D)) \cup {None}
    /\ rows \subseteq Digests
    /\ bound \in [Datasets -> BOOLEAN]
    /\ DOMAIN request = Requests
    /\ \A r \in Requests :
           \/ request[r] \in {Idle} \cup Others
           \/ \E d \in Datasets : request[r] \in Uploading(d)
           \/ \E d \in Datasets : request[r] \in Publishing(d)
    /\ up \in BOOLEAN
    /\ disturbed \in BOOLEAN

\* A committed files row has its file, with exactly the content of its
\* digest, whatever publishers, collectors and crashes do (filestore.go:19-22,
\* files.go:26-29), as long as no client leaves early.
CommittedFileIsWhole ==
    ~disturbed => \A D \in rows : file[D] = D

\* The recorded digest of a received chunk is that of the chunk on disk, so
\* the merge never refuses a chunk that was acknowledged: the row lock
\* outlives the write (filestore.go:57-59).
ChunksMatchRows ==
    ~disturbed =>
        \A d \in Datasets : status[d] \in {"uploading", "published"} =>
            \A i \in Indexes(d) :
                chunkRow[d][i] # None => chunkFile[d][i] = chunkRow[d][i]

\* A digest has a files row exactly while a published dataset points at it:
\* no count of references is ever wrong, cancelled clients and crashes
\* included (files.go:73-99).
RowsAreReferenced ==
    rows = {Declared[d] : d \in {e \in Datasets : status[e] = "published"}}

\* A dataset that a model version or an experiment refers to stays published
\* with its files row (datasets.go:306-314), although the dataset is
\* read without a lock when the reference is made (models.go:166).
BoundStays ==
    \A d \in Datasets :
        bound[d] => status[d] = "published" /\ Declared[d] \in rows

\* When nothing runs, no merge output is left, every stored file has its row
\* and a deleted dataset has no chunk on disk: deletes, refused publishes,
\* crashes and recovery leave no garbage as long as no client leaves.
RestIsClean ==
    (up /\ ~disturbed /\ Running = {}) =>
        /\ \A d \in Datasets : tmp[d] = None
        /\ \A D \in Digests : file[D] # None => D \in rows
        /\ \A d \in Datasets :
               status[d] = "deleted" => chunkFile[d] = NoChunks(d)

\* filestore.go:19-20 as it stands: "a committed files row implies the file
\* exists on disk".
CommittedFileExists == \A D \in rows : file[D] # None
=============================================================================
