----------------------------- MODULE DatasetsA -----------------------------
(***************************************************************************)
(* The other SynapticGo (text17/a): datasets of one chunk each, published  *)
(* into shared content files, and the model versions and experiments that  *)
(* refer to them. When a client leaves, its transaction is rolled back and *)
(* its locks are gone, while the handler goes on with its next disk step.  *)
(* A merge is one step here. A content is its own digest.                  *)
(***************************************************************************)
EXTENDS Naturals, Sequences, FiniteSets

CONSTANTS
    Declared,       \* datasets.sha256 of each dataset id
    Requests,       \* bound: requests in flight that take several steps
    MaxVersions     \* bound: versions of the model

VARIABLES
    status,         \* datasets.status, "none" before and "deleted" after the row
    chunk,          \* [row, disk]: digest recorded for the chunk, and its file
    tmp,            \* datasets with a merge-<id>.part
    files,          \* [rows, disk]: digests with a files row, and with a file
    versions,       \* model_versions of one model: [dataset, tried]
    request,        \* what each request is about to do
    torn            \* history: files removed by a collector without its lock

vars == <<status, chunk, tmp, files, versions, request, torn>>

Datasets == DOMAIN Declared
Contents == {Declared[d] : d \in Datasets} \cup {"other"}
Idle == [op |-> "idle", d |-> 0, c |-> "none", live |-> TRUE]

Init ==
    /\ status = [d \in Datasets |-> "none"]
    /\ chunk = [d \in Datasets |-> [row |-> "none", disk |-> "none"]]
    /\ tmp = {}
    /\ files = [rows |-> {}, disk |-> {}]
    /\ versions = <<>>
    /\ request = [r \in Requests |-> Idle]
    /\ torn = {}

\* getDatasetForUpdate and pg_advisory_xact_lock: held while the client is there
RowFree(d) == \A r \in Requests :
    request[r].live /\ request[r].op \in {"upload", "publish", "promote"} =>
        request[r].d # d
ContentFree(c) == \A r \in Requests :
    request[r].live /\ request[r].op \in {"promote", "remove"} =>
        Declared[request[r].d] # c

Does(r, op, d, c) ==
    request' = [request EXCEPT ![r] = [op |-> op, d |-> d, c |-> c, live |-> TRUE]]
Ends(r) == request' = [request EXCEPT ![r] = Idle]

UnchangedTables == UNCHANGED <<status, versions, torn>>

-----------------------------------------------------------------------------
Create(d) ==
    /\ status[d] = "none"
    /\ status' = [status EXCEPT ![d] = "uploading"]
    /\ UNCHANGED <<chunk, tmp, files, versions, request, torn>>

\* A chunk is recorded once; before that any content of the right size will do.
BeginUpload(r, d, c) ==
    /\ request[r] = Idle /\ RowFree(d)
    /\ status[d] = "uploading" /\ chunk[d].row = "none"
    /\ Does(r, "upload", d, c)
    /\ UNCHANGED <<chunk, tmp, files>> /\ UnchangedTables

WriteChunk(r) ==
    /\ request[r].op = "upload"
    /\ LET q == request[r]
       IN  chunk' = [chunk EXCEPT ![q.d].disk = q.c,
                                  ![q.d].row = IF q.live THEN q.c ELSE @]
    /\ Ends(r)
    /\ UNCHANGED <<tmp, files>> /\ UnchangedTables

\* The merge checks the chunk file against its row, and both against the dataset.
BeginPublish(r, d) ==
    /\ request[r] = Idle /\ RowFree(d)
    /\ status[d] = "uploading"
    /\ chunk[d] = [row |-> Declared[d], disk |-> Declared[d]]
    /\ tmp' = tmp \cup {d}
    /\ Does(r, "publish", d, Declared[d])
    /\ UNCHANGED <<chunk, files>> /\ UnchangedTables

LockContent(r) ==
    /\ request[r].op = "publish"
    /\ IF request[r].live
       THEN /\ ContentFree(request[r].c)
            /\ Does(r, "promote", request[r].d, request[r].c)
       ELSE Ends(r)
    /\ UNCHANGED <<chunk, tmp, files>> /\ UnchangedTables

\* addFileRef and the commit. Without its client the handler moves the file and
\* then cannot insert the row. The merged file may be gone by then: a handler
\* without locks has moved it.
Promote(r) ==
    /\ request[r].op = "promote"
    /\ LET q == request[r]
           shared == q.c \in files.rows
           done == q.live /\ (shared \/ q.d \in tmp)
       IN  /\ files' = [rows |-> IF done THEN files.rows \cup {q.c} ELSE files.rows,
                        disk |-> IF q.d \in tmp /\ ~(q.live /\ shared)
                                 THEN files.disk \cup {q.c} ELSE files.disk]
           /\ status' = IF done THEN [status EXCEPT ![q.d] = "published"] ELSE status
           /\ tmp' = tmp \ {q.d}
    /\ Ends(r)
    /\ UNCHANGED <<chunk, versions, torn>>

\* The rows of the dataset go, with the files row of a content that no dataset
\* refers to any more.
Bound(d) == \E v \in DOMAIN versions : versions[v].dataset = d
Others(d) == {e \in Datasets \ {d} : status[e] = "published" /\ Declared[e] = Declared[d]}
Delete(r, d) ==
    /\ request[r] = Idle /\ RowFree(d)
    /\ status[d] \in {"uploading", "published"} /\ ~Bound(d)
    /\ status[d] = "published" => ContentFree(Declared[d])
    /\ status' = [status EXCEPT ![d] = "deleted"]
    /\ chunk' = [chunk EXCEPT ![d].row = "none"]
    /\ LET last == status[d] = "published" /\ Others(d) = {}
       IN  /\ files' = IF last THEN [files EXCEPT !.rows = @ \ {Declared[d]}] ELSE files
           /\ Does(r, "clean", d, IF last THEN Declared[d] ELSE "none")
    /\ UNCHANGED <<tmp, versions, torn>>

\* GCOrphanFile looks for a row only under the lock of the content.
Collects_Unchecked(q) == q.c # "none" /\ q.live
Collects(q) == q.c # "none" /\ q.live /\ q.c \notin files.rows
RemoveChunkDir(r) ==
    /\ request[r].op = "clean"
    /\ request[r].c # "none" /\ request[r].live => ContentFree(request[r].c)
    /\ chunk' = [chunk EXCEPT ![request[r].d].disk = "none"]
    /\ IF Collects(request[r])
       THEN Does(r, "remove", request[r].d, request[r].c)
       ELSE Ends(r)
    /\ UNCHANGED <<tmp, files>> /\ UnchangedTables

RemoveFile(r) ==
    /\ request[r].op = "remove"
    /\ files' = [files EXCEPT !.disk = @ \ {request[r].c}]
    /\ torn' = IF request[r].live THEN torn ELSE torn \cup {request[r].c}
    /\ Ends(r)
    /\ UNCHANGED <<status, chunk, tmp, versions>>

Cancel(r) ==
    /\ request[r] # Idle /\ request[r].live
    /\ request' = [request EXCEPT ![r].live = FALSE]
    /\ UNCHANGED <<chunk, tmp, files>> /\ UnchangedTables

\* A crash, then Recover before the server takes requests
Restart ==
    /\ request' = [r \in Requests |-> Idle]
    /\ tmp' = {}
    /\ files' = [files EXCEPT !.disk = @ \cap files.rows]
    /\ chunk' = [d \in Datasets |->
           IF status[d] = "deleted" THEN [chunk[d] EXCEPT !.disk = "none"] ELSE chunk[d]]
    /\ UnchangedTables

-----------------------------------------------------------------------------
UnchangedFiles == UNCHANGED <<status, chunk, tmp, files, request, torn>>

CreateVersion(d) ==
    /\ status[d] = "published" /\ RowFree(d)
    /\ Len(versions) < MaxVersions
    /\ versions' = Append(versions, [dataset |-> d, tried |-> FALSE])
    /\ UnchangedFiles

\* Experiments on the data that a version was trained with
Experiment(v, tried) ==
    /\ versions[v].tried # tried
    /\ versions' = [versions EXCEPT ![v].tried = tried]
    /\ UnchangedFiles

DeleteModel ==
    /\ \A v \in DOMAIN versions : ~versions[v].tried
    /\ versions' = <<>>
    /\ UnchangedFiles

Next ==
    \/ \E d \in Datasets : Create(d) \/ CreateVersion(d)
    \/ \E r \in Requests, d \in Datasets :
           BeginPublish(r, d) \/ Delete(r, d) \/ \E c \in Contents : BeginUpload(r, d, c)
    \/ \E r \in Requests :
           \/ WriteChunk(r) \/ LockContent(r) \/ Promote(r)
           \/ RemoveChunkDir(r) \/ RemoveFile(r) \/ Cancel(r)
    \/ \E v \in DOMAIN versions, tried \in BOOLEAN : Experiment(v, tried)
    \/ DeleteModel
    \/ Restart

Spec == Init /\ [][Next]_vars
-----------------------------------------------------------------------------
\* A published dataset has its content on disk under one files row, shared or
\* not, unless a collector removed the file after its client had left; and a
\* dataset that a model version refers to stays published (datasets.go:130-342,
\* files.go:25-104).
FilesSound ==
    /\ files.rows = {Declared[d] : d \in {e \in Datasets : status[e] = "published"}}
    /\ files.rows \subseteq files.disk \cup torn
    /\ \A v \in DOMAIN versions : status[versions[v].dataset] = "published"
=============================================================================
