-------------------------- MODULE DatasetStoreProofs --------------------------
(***************************************************************************)
(* For any datasets, contents and handlers, with clients that leave and    *)
(* crashes anywhere: the rows of files are exactly the published digests,  *)
(* what a model or an experiment refers to stays published, and no file    *)
(* outgrows its content. As long as no client leaves, the disk is what the *)
(* rows say, and a server at rest has nothing left to clear away.          *)
(*                                                                         *)
(* IInv is about the tables and the locks, TInv adds the types of the disk *)
(* and of the handlers, and CInv what each handler has done so far.        *)
(***************************************************************************)
EXTENDS DatasetStore, TLAPS

\* The stages in which a live handler has locked the datasets row and has found
\* it uploading; those in which it holds that row; those in which it holds the
\* lock of the digest
Working == {"write", "insert", "open", "merge", "merged", "promote", "discard",
            "commit"}
RowStages == Working \cup {"release", "drop"}
FileStages == {"promote", "discard", "commit", "drop", "unlink"}
Deleting == {"release", "drop", "rmdir", "gc", "unlink", "bind"}
Stages == {"idle"} \cup RowStages \cup FileStages \cup Deleting

Has(r, stages) == request[r].stage \in stages /\ request[r].live

Shape(r) ==
    /\ "stage" \in DOMAIN request[r]
    /\ request[r].stage \in Stages
    /\ request[r].stage # "idle" =>
           /\ {"ds", "live"} \subseteq DOMAIN request[r]
           /\ request[r].ds \in Datasets
           /\ request[r].live \in BOOLEAN
    /\ request[r].stage \in Deleting =>
           /\ "orphan" \in DOMAIN request[r]
           /\ request[r].orphan \in BOOLEAN

TableTypes ==
    /\ status \in [Datasets -> {"none", "uploading", "published", "deleted"}]
    /\ bound \in [Datasets -> BOOLEAN]
    /\ DOMAIN request = Requests

\* What a handler has found is still so as long as it is live.
Found(r) ==
    /\ Has(r, Working) => status[request[r].ds] = "uploading"
    /\ Has(r, {"release"}) =>
           /\ status[request[r].ds] \in {"uploading", "published"}
           /\ ~bound[request[r].ds] /\ ~request[r].orphan
    /\ Has(r, {"drop"}) =>
           /\ status[request[r].ds] = "published"
           /\ ~bound[request[r].ds]
           /\ request[r].orphan <=> Sharing(request[r].ds) = {}
    /\ request[r].stage = "bind" => status[request[r].ds] \in {"published", "deleted"}

\* Two live handlers do not hold the same row, nor the same digest.
Excluded(r, s) ==
    /\ Has(r, RowStages) /\ Has(s, RowStages) => request[r].ds # request[s].ds
    /\ Has(r, FileStages) /\ Has(s, FileStages) =>
           Declared[request[r].ds] # Declared[request[s].ds]

IInv ==
    /\ TableTypes
    /\ \A r \in Requests : Shape(r) /\ Found(r)
    /\ \A r, s \in Requests : r # s => Excluded(r, s)
    /\ RowsAreReferenced
    /\ BoundStays

\* What others see of handler s
Keeps(s) ==
    /\ request'[s].stage = request[s].stage
    /\ request'[s].ds = request[s].ds
    /\ request'[s].live = request[s].live
    /\ request'[s].orphan = request[s].orphan
    /\ DOMAIN request'[s] = DOMAIN request[s]

-----------------------------------------------------------------------------
LEMMA InitInv == Init => IInv
  <1> SUFFICES ASSUME Init PROVE IInv
    OBVIOUS
  <1>1. \A r \in Requests : request[r].stage = "idle" /\ "stage" \in DOMAIN request[r]
    BY DEF Init, Idle
  <1>2. \A r \in Requests : Shape(r) /\ Found(r)
    BY <1>1 DEF Shape, Found, Has, Stages, RowStages, FileStages, Working, Deleting
  <1>3. \A r, s \in Requests : Excluded(r, s)
    BY <1>1 DEF Excluded, Has, RowStages, FileStages, Working
  <1> QED
    BY <1>2, <1>3 DEF IInv, Init, TableTypes, RowsAreReferenced, BoundStays

\* A live handler that obtains a row obtains it alone.
LEMMA RowFreeExcludes ==
    ASSUME IInv, NEW d \in Datasets, RowFree(d), NEW s \in Requests, Has(s, RowStages)
    PROVE  request[s].ds # d
  BY DEF IInv, RowFree, Holding, Running, Idle, Has, RowStages, Working

LEMMA FileFreeExcludes ==
    ASSUME IInv, NEW D, FileFree(D), NEW s \in Requests, Has(s, FileStages)
    PROVE  Declared[request[s].ds] # D
  BY DEF IInv, FileFree, Holding, Running, Idle, Has, FileStages

\* Descriptors that move do not show.
LEMMA MovedKeeps ==
    ASSUME IInv, NEW from, NEW to, NEW datasets, NEW s \in Requests
    PROVE  LET m == Moved(from, to, datasets)
           IN  /\ DOMAIN m = Requests
               /\ m[s].stage = request[s].stage /\ m[s].ds = request[s].ds
               /\ m[s].live = request[s].live /\ m[s].orphan = request[s].orphan
               /\ DOMAIN m[s] = DOMAIN request[s]
  <1>1. DOMAIN Moved(from, to, datasets) = Requests
    BY DEF Moved
  <1>2. CASE Moved(from, to, datasets)[s] = request[s]
    BY <1>1, <1>2
  <1>3. CASE Moved(from, to, datasets)[s] = [request[s] EXCEPT !.fd = to]
    BY <1>1, <1>3
  <1> QED
    BY <1>2, <1>3 DEF Moved

-----------------------------------------------------------------------------
(* Steps that change no row *)

LEMMA QuietStep ==
    ASSUME IInv, NEW r \in Requests, UNCHANGED <<status, rows, bound>>,
           DOMAIN request' = Requests,
           \A s \in Requests : s # r => Keeps(s),
           Shape(r)', Found(r)',
           Has(r, RowStages)' =>
               \A s \in Requests : s # r /\ Has(s, RowStages) =>
                   request[s].ds # request'[r].ds,
           Has(r, FileStages)' =>
               \A s \in Requests : s # r /\ Has(s, FileStages) =>
                   Declared[request[s].ds] # Declared[request'[r].ds]
    PROVE  IInv'
  <1>1. TableTypes' /\ RowsAreReferenced' /\ BoundStays'
    BY DEF IInv, TableTypes, RowsAreReferenced, BoundStays
  <1>2. ASSUME NEW s \in Requests, s # r
        PROVE  Shape(s)' /\ Found(s)'
    BY <1>2 DEF IInv, Keeps, Shape, Found, Has, Sharing
  <1>3. ASSUME NEW s \in Requests, NEW q \in Requests, s # q
        PROVE  Excluded(s, q)'
    <2>1. CASE s # r /\ q # r
      <3>1. Excluded(s, q)
        BY <1>3 DEF IInv
      <3> QED
        BY <2>1, <3>1 DEF Keeps, Excluded, Has
    <2>2. CASE s = r
      <3>1. Keeps(q)
        BY <1>3, <2>2
      <3> QED
        BY <1>3, <2>2, <3>1 DEF Keeps, Excluded, Has
    <2>3. CASE q = r
      <3>1. Keeps(s)
        BY <1>3, <2>3
      <3> QED
        BY <1>3, <2>3, <3>1 DEF Keeps, Excluded, Has
    <2> QED
      BY <2>1, <2>2, <2>3
  <1> QED
    BY <1>1, <1>2, <1>3 DEF IInv

\* A handler that ends
LEMMA Ends ==
    ASSUME IInv, NEW r \in Requests, UNCHANGED <<status, rows, bound>>,
           DOMAIN request' = Requests, request'[r] = Idle,
           \A s \in Requests : s # r => Keeps(s)
    PROVE  IInv'
  <1>1. request'[r].stage = "idle" /\ "stage" \in DOMAIN request'[r]
    BY DEF Idle
  <1>2. Shape(r)' /\ Found(r)' /\ ~ Has(r, RowStages)' /\ ~ Has(r, FileStages)'
    BY <1>1 DEF Shape, Found, Has, Stages, RowStages, FileStages, Working, Deleting
  <1> QED
    BY <1>2, QuietStep

\* A handler that goes on with the locks that it has
LEMMA GoesOn ==
    ASSUME IInv, NEW r \in Requests, UNCHANGED <<status, rows, bound>>,
           DOMAIN request' = Requests,
           \A s \in Requests : s # r => Keeps(s),
           {"stage", "ds", "live"} \subseteq DOMAIN request'[r],
           request[r].stage \in Working, request'[r].stage \in Working,
           request'[r].ds = request[r].ds, request'[r].live = request[r].live,
           request'[r].stage \in FileStages => request[r].stage \in FileStages
    PROVE  IInv'
  <1>1. Shape(r) /\ Found(r)
    BY DEF IInv
  <1>2. Shape(r)' /\ Found(r)'
    BY <1>1 DEF Shape, Found, Has, Stages, RowStages, FileStages, Working, Deleting
  <1>3. ASSUME NEW s \in Requests, s # r
        PROVE  Excluded(r, s) /\ Excluded(s, r)
    BY <1>3 DEF IInv
  <1> QED
    BY <1>2, <1>3, QuietStep DEF Excluded, Has, RowStages

\* What a step of one handler leaves to the others
LEMMA OnlyOne ==
    ASSUME IInv, NEW r \in Requests, NEW q, request' = [request EXCEPT ![r] = q]
    PROVE  /\ DOMAIN request' = Requests
           /\ request'[r] = q
           /\ \A s \in Requests : s # r => Keeps(s)
  BY DEF IInv, TableTypes, Keeps

LEMMA OneAndMoved ==
    ASSUME IInv, NEW r \in Requests, NEW q, NEW from, NEW to, NEW datasets,
           request' = [Moved(from, to, datasets) EXCEPT ![r] = q]
    PROVE  /\ DOMAIN request' = Requests
           /\ request'[r] = q
           /\ \A s \in Requests : s # r => Keeps(s)
  <1> DEFINE m == Moved(from, to, datasets)
  <1>1. DOMAIN m = Requests
    BY MovedKeeps
  <1>2. \A s \in Requests : s # r => request'[s] = m[s]
    BY <1>1
  <1>3. ASSUME NEW s \in Requests, s # r
        PROVE  Keeps(s)
    BY <1>2, <1>3, MovedKeeps DEF Keeps
  <1> QED
    BY <1>1, <1>3

-----------------------------------------------------------------------------
(* Upload and publish *)

LEMMA UploadPreserves ==
    ASSUME IInv, NEW r \in Requests, WriteChunk(r) \/ CommitChunk(r)
    PROVE  IInv'
  <1>1. Shape(r)
    BY DEF IInv
  <1>2. CASE WriteChunk(r)
    <2>1. /\ request' = [request EXCEPT ![r] = [request[r] EXCEPT !.stage = "insert"]]
          /\ request[r].stage = "write" /\ UNCHANGED <<status, rows, bound>>
      BY <1>2 DEF WriteChunk, tables, IInv, TableTypes
    <2>2. /\ DOMAIN request' = Requests
          /\ request'[r] = [request[r] EXCEPT !.stage = "insert"]
          /\ \A s \in Requests : s # r => Keeps(s)
      BY <2>1, OnlyOne
    <2> QED
      BY <1>1, <2>1, <2>2, GoesOn DEF Shape, Working, FileStages
  <1>3. CASE CommitChunk(r)
    <2>1. request' = [request EXCEPT ![r] = Idle] /\ UNCHANGED <<status, rows, bound>>
      BY <1>3 DEF CommitChunk
    <2> QED
      BY <2>1, OnlyOne, Ends
  <1> QED
    BY <1>2, <1>3

LEMMA MergePreserves ==
    ASSUME IInv, NEW r \in Requests, OpenTmp(r) \/ CopyChunk(r) \/ DiscardTmp(r)
    PROVE  IInv'
  <1>1. Shape(r)
    BY DEF IInv
  <1>2. CASE OpenTmp(r)
    <2> DEFINE q == [request[r] EXCEPT !.stage = "merge", !.fd = "tmp"]
    <2>1. /\ request' = [request EXCEPT ![r] = q]
          /\ request[r].stage = "open" /\ UNCHANGED <<status, rows, bound>>
      BY <1>2 DEF OpenTmp, tables, IInv, TableTypes
    <2>2. /\ DOMAIN request' = Requests /\ request'[r] = q
          /\ \A s \in Requests : s # r => Keeps(s)
      BY <2>1, OnlyOne
    <2>3. /\ {"stage", "ds", "live"} \subseteq DOMAIN q /\ q.stage = "merge"
          /\ q.ds = request[r].ds /\ q.live = request[r].live
      BY <1>1, <2>1 DEF Shape
    <2> HIDE DEF q
    <2> QED
      BY <2>1, <2>2, <2>3, GoesOn DEF Working, FileStages
  <1>3. CASE CopyChunk(r)
    <2> DEFINE last == request[r].next = ChunkCount(request[r].ds) - 1
               q == [request[r] EXCEPT !.stage = IF last THEN "merged" ELSE "merge",
                                       !.fd = IF last THEN "none" ELSE request[r].fd,
                                       !.next = request[r].next + 1]
    <2>1. /\ request' = [request EXCEPT ![r] = q]
          /\ request[r].stage = "merge" /\ UNCHANGED <<status, rows, bound>>
      BY <1>3 DEF CopyChunk, tables
    <2>2. /\ DOMAIN request' = Requests /\ request'[r] = q
          /\ \A s \in Requests : s # r => Keeps(s)
      BY <2>1, OnlyOne
    <2>3. /\ {"stage", "ds", "live"} \subseteq DOMAIN q /\ q.stage \in {"merge", "merged"}
          /\ q.ds = request[r].ds /\ q.live = request[r].live
      BY <1>1, <2>1 DEF Shape
    <2> HIDE DEF q
    <2> QED
      BY <2>1, <2>2, <2>3, GoesOn DEF Working, FileStages
  <1>4. CASE DiscardTmp(r)
    <2> DEFINE m == Moved("tmp", "gone", {request[r].ds})
               q == [m[r] EXCEPT !.stage = "commit"]
    <2>1. DOMAIN m = Requests
      BY MovedKeeps
    <2>2. /\ request' = [m EXCEPT ![r] = q]
          /\ request[r].stage = "discard" /\ UNCHANGED <<status, rows, bound>>
      BY <1>4, <2>1 DEF DiscardTmp, tables
    <2>3. /\ DOMAIN request' = Requests /\ request'[r] = q
          /\ \A s \in Requests : s # r => Keeps(s)
      BY <2>2, OneAndMoved
    <2>4. /\ {"stage", "ds", "live"} \subseteq DOMAIN q /\ q.stage = "commit"
          /\ q.ds = request[r].ds /\ q.live = request[r].live
      BY <1>1, <2>2, MovedKeeps DEF Shape
    <2> HIDE DEF q
    <2> QED
      BY <2>2, <2>3, <2>4, GoesOn DEF Working, FileStages
  <1> QED
    BY <1>2, <1>3, <1>4

LEMMA GiveUpPreserves ==
    ASSUME IInv, NEW r \in Requests, FailMerge(r) \/ RejectDigest(r) \/ Abandon(r)
    PROVE  IInv'
  <1>1. CASE FailMerge(r) \/ RejectDigest(r)
    <2>1. /\ request' = [Moved("tmp", "gone", {request[r].ds}) EXCEPT ![r] = Idle]
          /\ UNCHANGED <<status, rows, bound>>
      BY <1>1 DEF FailMerge, RejectDigest, tables
    <2> QED
      BY <2>1, OneAndMoved, Ends
  <1>2. CASE Abandon(r)
    <2>1. request' = [request EXCEPT ![r] = Idle] /\ UNCHANGED <<status, rows, bound>>
      BY <1>2 DEF Abandon, tables
    <2> QED
      BY <2>1, OnlyOne, Ends
  <1> QED
    BY <1>1, <1>2

\* The publisher gets the lock of its digest.
LEMMA LockFilePreserves ==
    ASSUME IInv, NEW r \in Requests, LockFile(r)
    PROVE  IInv'
  <1> DEFINE stage == IF Declared[request[r].ds] \in rows THEN "discard" ELSE "promote"
             q == [request[r] EXCEPT !.stage = stage]
  <1>1. Shape(r) /\ Found(r)
    BY DEF IInv
  <1>2. /\ request' = [request EXCEPT ![r] = q]
        /\ request[r].stage = "merged" /\ UNCHANGED <<status, rows, bound>>
        /\ FileFree(Declared[request[r].ds])
    BY DEF LockFile, tables, IInv, TableTypes
  <1>3. /\ DOMAIN request' = Requests /\ request'[r] = q
        /\ \A s \in Requests : s # r => Keeps(s)
    BY <1>2, OnlyOne
  <1>4. /\ DOMAIN q = DOMAIN request[r] /\ q.stage \in {"discard", "promote"}
        /\ q.ds = request[r].ds /\ q.live = request[r].live
    BY <1>1, <1>2 DEF Shape
  <1> HIDE DEF q
  <1>5. Shape(r)' /\ Found(r)'
    BY <1>1, <1>2, <1>3, <1>4 DEF Shape, Found, Has, Stages, RowStages, FileStages, Working,
       Deleting
  <1>6. ASSUME NEW s \in Requests, s # r
        PROVE  Excluded(r, s)
    BY <1>6 DEF IInv
  <1>7. \A s \in Requests : Has(s, FileStages) =>
            Declared[request[s].ds] # Declared[request[r].ds]
    BY <1>2, FileFreeExcludes
  <1>8. Has(r, RowStages)' => Has(r, RowStages)
    BY <1>2, <1>3, <1>4 DEF Has, RowStages, Working
  <1> QED
    BY <1>2, <1>3, <1>4, <1>5, <1>6, <1>7, <1>8, QuietStep DEF Excluded

LEMMA PromotePreserves ==
    ASSUME IInv, NEW r \in Requests, PromoteTmp(r)
    PROVE  IInv'
  <1>1. Shape(r) /\ request[r].stage = "promote" /\ UNCHANGED <<status, rows, bound>>
    BY DEF IInv, PromoteTmp, tables
  <1>2. CASE tmp[request[r].ds] = None
    <2>1. request' = [request EXCEPT ![r] = Idle]
      BY <1>2 DEF PromoteTmp
    <2> QED
      BY <1>1, <2>1, OnlyOne, Ends
  <1>3. CASE tmp[request[r].ds] # None
    <2>1. PICK to : request' = [Moved("tmp", to, {request[r].ds}) EXCEPT ![r].stage = "commit"]
      BY <1>3 DEF PromoteTmp
    <2> DEFINE m == Moved("tmp", to, {request[r].ds})
               q == [m[r] EXCEPT !.stage = "commit"]
    <2>2. DOMAIN m = Requests
      BY MovedKeeps
    <2>3. request' = [m EXCEPT ![r] = q]
      BY <2>1, <2>2
    <2>4. /\ DOMAIN request' = Requests /\ request'[r] = q
          /\ \A s \in Requests : s # r => Keeps(s)
      BY <2>3, OneAndMoved
    <2>5. /\ {"stage", "ds", "live"} \subseteq DOMAIN q /\ q.stage = "commit"
          /\ q.ds = request[r].ds /\ q.live = request[r].live
      BY <1>1, MovedKeeps DEF Shape
    <2> HIDE DEF q
    <2> QED
      BY <1>1, <2>4, <2>5, GoesOn DEF Working, FileStages
  <1> QED
    BY <1>2, <1>3

\* A handler that has just locked a row
LEMMA BeginsWork ==
    ASSUME IInv, NEW r \in Requests, NEW d \in Datasets, NEW q,
           UNCHANGED <<status, rows, bound>>, request' = [request EXCEPT ![r] = q],
           RowFree(d), status[d] = "uploading",
           q.stage \in {"write", "open"}, q.ds = d, q.live = TRUE,
           {"stage", "ds", "live"} \subseteq DOMAIN q
    PROVE  IInv'
  <1>1. /\ DOMAIN request' = Requests /\ request'[r] = q
        /\ \A s \in Requests : s # r => Keeps(s)
    BY OnlyOne
  <1>2. Shape(r)' /\ Found(r)'
    BY <1>1 DEF Shape, Found, Has, Stages, RowStages, FileStages, Working, Deleting
  <1>3. ~ Has(r, FileStages)'
    BY <1>1 DEF Has, FileStages
  <1> QED
    BY <1>1, <1>2, <1>3, RowFreeExcludes, QuietStep

LEMMA ArrivePreserves ==
    ASSUME IInv, NEW r \in Requests, NEW d \in Datasets, Arrive(r, d)
    PROVE  IInv'
  <1>1. UNCHANGED <<status, rows, bound>>
    BY DEF Arrive, BeginUpload, BeginPublish, BeginDelete, BeginBind, tables
  <1>2. CASE \E i \in Indexes(d) : \E body \in Bodies(d, i) : BeginUpload(r, d, i, body)
    <2>3. PICK i \in Indexes(d) : \E body \in Bodies(d, i) : BeginUpload(r, d, i, body)
      BY <1>2
    <2>1. PICK body \in Bodies(d, i) : BeginUpload(r, d, i, body)
      BY <2>3
    <2> DEFINE q == [stage |-> "write", ds |-> d, live |-> TRUE, index |-> i,
                     body |-> body]
    <2>2. /\ request' = [request EXCEPT ![r] = q]
          /\ RowFree(d) /\ status[d] = "uploading"
      BY <2>1 DEF BeginUpload
    <2>4. /\ q.stage = "write" /\ q.ds = d /\ q.live = TRUE
          /\ {"stage", "ds", "live"} \subseteq DOMAIN q
      OBVIOUS
    <2> HIDE DEF q
    <2> QED
      BY <1>1, <2>2, <2>4, BeginsWork
  <1>5. CASE BeginPublish(r, d)
    <2> DEFINE q == [stage |-> "open", ds |-> d, live |-> TRUE,
                     chunks |-> chunkRow[d], next |-> 0, fd |-> "none"]
    <2>1. /\ request' = [request EXCEPT ![r] = q]
          /\ RowFree(d) /\ status[d] = "uploading"
      BY <1>5 DEF BeginPublish
    <2>2. /\ q.stage = "open" /\ q.ds = d /\ q.live = TRUE
          /\ {"stage", "ds", "live"} \subseteq DOMAIN q
      OBVIOUS
    <2> HIDE DEF q
    <2> QED
      BY <1>1, <2>1, <2>2, BeginsWork
  <1>3. CASE BeginDelete(r, d)
    <2> DEFINE q == [stage |-> "release", ds |-> d, live |-> TRUE, orphan |-> FALSE]
    <2>1. /\ request' = [request EXCEPT ![r] = q] /\ RowFree(d)
          /\ status[d] \in {"uploading", "published"} /\ ~bound[d]
      BY <1>3 DEF BeginDelete, Referenced
    <2>2. /\ DOMAIN request' = Requests /\ request'[r] = q
          /\ \A s \in Requests : s # r => Keeps(s)
      BY <2>1, OnlyOne
    <2>3. Shape(r)' /\ Found(r)'
      BY <1>1, <2>1, <2>2 DEF Shape, Found, Has, Stages, RowStages, FileStages, Working,
         Deleting
    <2>4. ~ Has(r, FileStages)' /\ request'[r].ds = d
      BY <2>2 DEF Has, FileStages
    <2> QED
      BY <1>1, <2>1, <2>2, <2>3, <2>4, RowFreeExcludes, QuietStep
  <1>4. CASE BeginBind(r, d)
    <2> DEFINE q == [stage |-> "bind", ds |-> d, live |-> TRUE, orphan |-> FALSE]
    <2>1. request' = [request EXCEPT ![r] = q] /\ status[d] = "published"
      BY <1>4 DEF BeginBind
    <2>2. /\ DOMAIN request' = Requests /\ request'[r] = q
          /\ \A s \in Requests : s # r => Keeps(s)
      BY <2>1, OnlyOne
    <2>3. Shape(r)' /\ Found(r)'
      BY <1>1, <2>1, <2>2 DEF Shape, Found, Has, Stages, RowStages, FileStages, Working,
         Deleting
    <2>4. ~ Has(r, FileStages)' /\ ~ Has(r, RowStages)'
      BY <2>2 DEF Has, FileStages, RowStages, Working
    <2> QED
      BY <1>1, <2>1, <2>2, <2>3, <2>4, QuietStep
  <1> QED
    BY <1>2, <1>3, <1>4, <1>5 DEF Arrive

-----------------------------------------------------------------------------
(* Delete, collection and references *)

\* The collector gets the lock of the digest and counts.
LEMMA CountPreserves ==
    ASSUME IInv, NEW r \in Requests, CountSharing(r)
    PROVE  IInv'
  <1> DEFINE d == request[r].ds
             q == [request[r] EXCEPT !.stage = "drop", !.orphan = Sharing(d) = {}]
  <1>1. Shape(r) /\ Found(r)
    BY DEF IInv
  <1>2. /\ request' = [request EXCEPT ![r] = q]
        /\ request[r].stage = "release" /\ request[r].live /\ status[d] = "published"
        /\ UNCHANGED <<status, rows, bound>> /\ FileFree(Declared[d])
    BY DEF CountSharing, tables, IInv, TableTypes
  <1>3. /\ DOMAIN request' = Requests /\ request'[r] = q
        /\ \A s \in Requests : s # r => Keeps(s)
    BY <1>2, OnlyOne
  <1>4. /\ DOMAIN q = DOMAIN request[r] /\ q.stage = "drop"
        /\ q.ds = d /\ q.live = request[r].live
        /\ q.orphan = (Sharing(d) = {})
    BY <1>1, <1>2 DEF Shape, Deleting
  <1> HIDE DEF q
  <1>5. Sharing(d)' = Sharing(d) /\ d \in Datasets
    BY <1>1, <1>2, <1>3, <1>4 DEF Sharing, Shape
  <1>6. Shape(r)' /\ Found(r)'
    BY <1>1, <1>2, <1>3, <1>4, <1>5 DEF Shape, Found, Has, Stages, RowStages, FileStages,
       Working, Deleting, Sharing
  <1>7. ASSUME NEW s \in Requests, s # r
        PROVE  Excluded(r, s)
    BY <1>7 DEF IInv
  <1>8. \A s \in Requests : Has(s, FileStages) =>
            Declared[request[s].ds] # Declared[d]
    BY <1>2, FileFreeExcludes
  <1>9. Has(r, RowStages)
    BY <1>2 DEF Has, RowStages
  <1> QED
    BY <1>2, <1>3, <1>4, <1>6, <1>7, <1>8, <1>9, QuietStep DEF Excluded

\* Cleaning up holds no row.
LEMMA CleanUpPreserves ==
    ASSUME IInv, NEW r \in Requests,
           RemoveChunkDir(r) \/ CheckOrphan(r) \/ UnlinkFile(r)
    PROVE  IInv'
  <1>1. Shape(r) /\ UNCHANGED <<status, rows, bound>>
    BY DEF IInv, RemoveChunkDir, CheckOrphan, UnlinkFile, tables
  <1>2. CASE request' = [request EXCEPT ![r] = Idle]
    BY <1>1, <1>2, OnlyOne, Ends
  <1>3. CASE UnlinkFile(r)
    <2>1. request' = [Moved("file", "gone", Sharers(Declared[request[r].ds]))
                         EXCEPT ![r] = Idle]
      BY <1>3 DEF UnlinkFile
    <2> QED
      BY <1>1, <2>1, OneAndMoved, Ends
  <1>4. ASSUME NEW stage \in {"gc", "unlink"},
               request[r].stage \in {"rmdir", "gc"},
               request' = [request EXCEPT ![r].stage = stage],
               stage = "unlink" => FileFree(Declared[request[r].ds])
        PROVE  IInv'
    <2> DEFINE q == [request[r] EXCEPT !.stage = stage]
    <2>1. request' = [request EXCEPT ![r] = q]
      BY <1>4 DEF IInv, TableTypes
    <2>2. /\ DOMAIN request' = Requests /\ request'[r] = q
          /\ \A s \in Requests : s # r => Keeps(s)
      BY <2>1, OnlyOne
    <2>3. /\ DOMAIN q = DOMAIN request[r] /\ q.stage = stage
          /\ q.ds = request[r].ds /\ q.live = request[r].live
          /\ q.orphan = request[r].orphan
      BY <1>1, <1>4 DEF Shape
    <2> HIDE DEF q
    <2>4. Shape(r)' /\ Found(r)'
      BY <1>1, <1>4, <2>2, <2>3 DEF Shape, Found, Has, Stages, RowStages, FileStages,
         Working, Deleting
    <2>5. ~ Has(r, RowStages)'
      BY <2>2, <2>3 DEF Has, RowStages, Working
    <2>6. Has(r, FileStages)' => stage = "unlink"
      BY <2>2, <2>3 DEF Has, FileStages
    <2> QED
      BY <1>1, <1>4, <2>2, <2>3, <2>4, <2>5, <2>6, FileFreeExcludes, QuietStep
  <1>5. CASE RemoveChunkDir(r) /\ request' # [request EXCEPT ![r] = Idle]
    BY <1>4, <1>5 DEF RemoveChunkDir
  <1>6. CASE CheckOrphan(r) /\ request' # [request EXCEPT ![r] = Idle]
    BY <1>4, <1>6 DEF CheckOrphan
  <1> QED
    BY <1>2, <1>3, <1>5, <1>6

\* A change of the tables by handler r, which then holds nothing
LEMMA CommitStep ==
    ASSUME IInv, NEW r \in Requests, TableTypes', Shape(r)', Found(r)',
           ~ Has(r, RowStages)', ~ Has(r, FileStages)',
           \A s \in Requests : s # r => Keeps(s) /\ Found(s)',
           RowsAreReferenced', BoundStays'
    PROVE  IInv'
  <1>1. ASSUME NEW s \in Requests, s # r
        PROVE  Shape(s)' /\ Found(s)'
    BY <1>1 DEF IInv, Keeps, Shape
  <1>2. ASSUME NEW s \in Requests, NEW q \in Requests, s # q
        PROVE  Excluded(s, q)'
    <2>1. CASE s # r /\ q # r
      <3>1. Excluded(s, q)
        BY <1>2 DEF IInv
      <3> QED
        BY <2>1, <3>1 DEF Keeps, Excluded, Has
    <2>2. CASE s = r \/ q = r
      BY <2>2 DEF Excluded
    <2> QED
      BY <2>1, <2>2
  <1> QED
    BY <1>1, <1>2 DEF IInv

LEMMA CommitPublishPreserves ==
    ASSUME IInv, NEW r \in Requests, CommitPublish(r)
    PROVE  IInv'
  <1> DEFINE d == request[r].ds
  <1>1. /\ Shape(r) /\ Found(r) /\ TableTypes
        /\ request[r].stage = "commit" /\ request[r].live
    BY DEF IInv, CommitPublish
  <1>2. PICK e \in Datasets : e = d /\ status[e] = "uploading"
    BY <1>1 DEF Shape, Found, Has, Working
  <1>3. /\ request' = [request EXCEPT ![r] = Idle]
        /\ rows' = rows \cup {Declared[e]}
        /\ status' = [status EXCEPT ![e] = "published"]
        /\ UNCHANGED bound
    BY <1>2 DEF CommitPublish
  <1>4. /\ DOMAIN request' = Requests /\ request'[r] = Idle
        /\ \A s \in Requests : s # r => Keeps(s)
    BY <1>3, OnlyOne
  <1>5. /\ TableTypes'
        /\ \A c \in Datasets : status'[c] = IF c = e THEN "published" ELSE status[c]
    BY <1>1, <1>3, <1>4 DEF TableTypes
  <1>6. Shape(r)' /\ Found(r)' /\ ~ Has(r, RowStages)' /\ ~ Has(r, FileStages)'
    BY <1>4 DEF Idle, Shape, Found, Has, Stages, RowStages, FileStages, Working, Deleting
  <1>7. ASSUME NEW s \in Requests, s # r
        PROVE  Found(s)'
    <2>1. Shape(s) /\ Found(s) /\ Excluded(r, s) /\ Keeps(s)
      BY <1>4, <1>7 DEF IInv
    <2>2. Has(s, RowStages) => request[s].ds # e
      BY <1>1, <1>2, <2>1 DEF Excluded, Has, RowStages, Working
    <2>3. Has(s, FileStages) => Declared[request[s].ds] # Declared[e]
      BY <1>1, <1>2, <2>1 DEF Excluded, Has, FileStages
    <2>4. ASSUME NEW c \in Datasets, Declared[c] # Declared[e]
          PROVE  Sharing(c)' = Sharing(c)
      BY <1>5, <2>4 DEF Sharing
    <2>5. CASE request[s].stage = "idle"
      BY <2>1, <2>5 DEF Keeps, Found, Has, Working
    <2>6. CASE request[s].stage # "idle"
      <3>1. request[s].ds \in Datasets
        BY <2>1, <2>6 DEF Shape
      <3>2. Has(s, {"drop"}) => Sharing(request[s].ds)' = Sharing(request[s].ds)
        BY <2>1, <2>3, <2>4, <3>1 DEF Has, FileStages, Keeps
      <3> QED
        BY <1>3, <1>5, <2>1, <2>2, <3>1, <3>2 DEF Keeps, Found, Has, RowStages, Sharing
    <2> QED
      BY <2>5, <2>6
  <1>8. RowsAreReferenced'
    BY <1>2, <1>3, <1>5 DEF IInv, RowsAreReferenced
  <1>9. BoundStays'
    BY <1>3, <1>5 DEF IInv, BoundStays
  <1> QED
    BY <1>4, <1>5, <1>6, <1>7, <1>8, <1>9, CommitStep

LEMMA CommitDeletePreserves ==
    ASSUME IInv, NEW r \in Requests, CommitDelete(r)
    PROVE  IInv'
  <1> DEFINE q == [request[r] EXCEPT !.stage = "rmdir"]
  <1>1. /\ Shape(r) /\ Found(r) /\ TableTypes
        /\ request[r].stage \in {"release", "drop"} /\ request[r].live
        /\ request[r].stage = "release" => status[request[r].ds] = "uploading"
    BY DEF IInv, CommitDelete
  <1>2. PICK e \in Datasets : e = request[r].ds
    BY <1>1 DEF Shape
  <1>3. PICK orphan \in BOOLEAN : orphan = request[r].orphan
    BY <1>1 DEF Shape, Deleting
  <1>4. /\ ~ bound[e]
        /\ \/ status[e] = "uploading" /\ ~ orphan
           \/ /\ request[r].stage = "drop" /\ status[e] = "published"
              /\ orphan <=> Sharing(e) = {}
    BY <1>1, <1>2, <1>3 DEF Found, Has
  <1>5. /\ request' = [request EXCEPT ![r] = q]
        /\ status' = [status EXCEPT ![e] = "deleted"]
        /\ rows' = IF orphan THEN rows \ {Declared[e]} ELSE rows
        /\ UNCHANGED bound
    BY <1>2, <1>3 DEF CommitDelete, IInv, TableTypes
  <1>6. /\ DOMAIN request' = Requests /\ request'[r] = q
        /\ \A s \in Requests : s # r => Keeps(s)
    BY <1>5, OnlyOne
  <1>7. /\ TableTypes'
        /\ \A c \in Datasets : status'[c] = IF c = e THEN "deleted" ELSE status[c]
    BY <1>1, <1>5, <1>6 DEF TableTypes
  <1>8. /\ DOMAIN q = DOMAIN request[r] /\ q.stage = "rmdir" /\ q.ds = request[r].ds
        /\ q.live = request[r].live /\ q.orphan = request[r].orphan
    <2>1. {"stage", "ds", "live", "orphan"} \subseteq DOMAIN request[r]
      BY <1>1 DEF Shape, Deleting
    <2> QED
      BY <2>1
  <1> HIDE DEF q
  <1>9. Shape(r)' /\ Found(r)' /\ ~ Has(r, RowStages)' /\ ~ Has(r, FileStages)'
    BY <1>1, <1>6, <1>8 DEF Shape, Found, Has, Stages, RowStages, FileStages, Working,
       Deleting
  <1>10. ASSUME NEW s \in Requests, s # r
         PROVE  Found(s)'
    <2>1. Shape(s) /\ Found(s) /\ Excluded(r, s) /\ Keeps(s)
      BY <1>6, <1>10 DEF IInv
    <2>2. Has(s, RowStages) => request[s].ds # e
      BY <1>1, <1>2, <2>1 DEF Excluded, Has, RowStages, Working
    <2>3. request[r].stage = "drop" /\ Has(s, FileStages) =>
              Declared[request[s].ds] # Declared[e]
      BY <1>1, <1>2, <2>1 DEF Excluded, Has, FileStages
    <2>4. ASSUME NEW c \in Datasets,
                 Declared[c] # Declared[e] \/ status[e] = "uploading"
          PROVE  Sharing(c)' = Sharing(c)
      BY <1>7, <2>4 DEF Sharing
    <2>5. CASE request[s].stage = "idle"
      BY <2>1, <2>5 DEF Keeps, Found, Has, Working
    <2>6. CASE request[s].stage # "idle"
      <3>1. request[s].ds \in Datasets
        BY <2>1, <2>6 DEF Shape
      <3>2. Has(s, {"drop"}) => Sharing(request[s].ds)' = Sharing(request[s].ds)
        BY <1>4, <2>1, <2>3, <2>4, <3>1 DEF Has, FileStages, Keeps
      <3> QED
        BY <1>5, <1>7, <2>1, <2>2, <3>1, <3>2 DEF Keeps, Found, Has, RowStages, Sharing
    <2> QED
      BY <2>5, <2>6
  <1>11. RowsAreReferenced'
    <2>1. rows = {Declared[c] : c \in {x \in Datasets : status[x] = "published"}}
      BY DEF IInv, RowsAreReferenced
    <2>2. {x \in Datasets : status[x] = "published"}' =
              {x \in Datasets : status[x] = "published"} \ {e}
      BY <1>7
    <2>3. CASE status[e] = "uploading"
      BY <1>4, <1>5, <2>1, <2>2, <2>3 DEF RowsAreReferenced
    <2>4. CASE status[e] = "published" /\ orphan
      <3>1. \A c \in Datasets \ {e} : status[c] = "published" => Declared[c] # Declared[e]
        BY <1>4, <2>4 DEF Sharing
      <3> QED
        BY <1>5, <2>1, <2>2, <2>4, <3>1 DEF RowsAreReferenced
    <2>5. CASE status[e] = "published" /\ ~ orphan
      <3>1. PICK c \in Datasets \ {e} : status[c] = "published" /\ Declared[c] = Declared[e]
        BY <1>4, <2>5 DEF Sharing
      <3> QED
        BY <1>5, <2>1, <2>2, <2>5, <3>1 DEF RowsAreReferenced
    <2> QED
      BY <1>4, <2>3, <2>4, <2>5
  <1>12. BoundStays'
    <2>1. \A c \in Datasets : status'[c] = "published" => Declared[c] \in rows'
      BY <1>11 DEF RowsAreReferenced
    <2> QED
      BY <1>4, <1>5, <1>7, <2>1 DEF IInv, BoundStays
  <1> QED
    BY <1>6, <1>7, <1>9, <1>10, <1>11, <1>12, CommitStep

LEMMA CommitBindPreserves ==
    ASSUME IInv, NEW r \in Requests, CommitBind(r)
    PROVE  IInv'
  <1>1. /\ Shape(r) /\ Found(r) /\ TableTypes /\ request[r].stage = "bind"
    BY DEF IInv, CommitBind
  <1>2. PICK e \in Datasets : e = request[r].ds /\ status[e] \in {"published", "deleted"}
    BY <1>1 DEF Shape, Found
  <1>3. /\ request' = [request EXCEPT ![r] = Idle] /\ RowFree(e)
        /\ bound' = [bound EXCEPT ![e] = @ \/ status[e] # "deleted"]
        /\ UNCHANGED <<status, rows>>
    BY <1>2 DEF CommitBind
  <1>4. /\ DOMAIN request' = Requests /\ request'[r] = Idle
        /\ \A s \in Requests : s # r => Keeps(s)
    BY <1>3, OnlyOne
  <1>5. /\ TableTypes'
        /\ \A c \in Datasets : c # e => bound'[c] = bound[c]
        /\ bound'[e] => bound[e] \/ status[e] = "published"
    BY <1>1, <1>2, <1>3, <1>4 DEF TableTypes
  <1>6. Shape(r)' /\ Found(r)' /\ ~ Has(r, RowStages)' /\ ~ Has(r, FileStages)'
    BY <1>4 DEF Idle, Shape, Found, Has, Stages, RowStages, FileStages, Working, Deleting
  <1>7. ASSUME NEW s \in Requests, s # r
        PROVE  Found(s)'
    <2>1. Shape(s) /\ Found(s) /\ Keeps(s)
      BY <1>4, <1>7 DEF IInv
    <2>2. Has(s, RowStages) => request[s].ds # e /\ request[s].ds \in Datasets
      BY <1>3, <2>1, RowFreeExcludes DEF Shape, Has, RowStages, Working
    <2>3. Has(s, RowStages) => Sharing(request[s].ds)' = Sharing(request[s].ds)
      BY <1>3, <2>1 DEF Sharing, Keeps
    <2> QED
      BY <1>3, <1>5, <2>1, <2>2, <2>3 DEF Keeps, Found, Has, RowStages
  <1>8. RowsAreReferenced'
    BY <1>3 DEF IInv, RowsAreReferenced
  <1>9. BoundStays'
    <2>1. \A c \in Datasets : status[c] = "published" => Declared[c] \in rows
      BY DEF IInv, RowsAreReferenced
    <2> QED
      BY <1>3, <1>5, <2>1 DEF IInv, BoundStays
  <1> QED
    BY <1>4, <1>5, <1>6, <1>7, <1>8, <1>9, CommitStep

-----------------------------------------------------------------------------
(* Rows without a handler; clients that leave; crashes *)

LEMMA RowStepPreserves ==
    ASSUME IInv, NEW d \in Datasets, Create(d) \/ Unbind(d)
    PROVE  IInv'
  <1>1. request' = request /\ rows' = rows /\ TableTypes
    BY DEF IInv, Create, Unbind
  <1>2. \A r, s \in Requests : r # s => Excluded(r, s)'
    BY <1>1 DEF IInv, Excluded, Has
  <1>3. \A r \in Requests : Shape(r)'
    BY <1>1 DEF IInv, Shape
  <1>4. CASE Create(d)
    <2>1. /\ status[d] = "none" /\ bound' = bound /\ TableTypes'
          /\ \A c \in Datasets : status'[c] = IF c = d THEN "uploading" ELSE status[c]
      BY <1>1, <1>4 DEF Create, TableTypes
    <2>2. \A c \in Datasets : Sharing(c)' = Sharing(c)
      BY <2>1 DEF Sharing
    <2>3. ASSUME NEW r \in Requests
          PROVE  Found(r)'
      <3>1. Shape(r) /\ Found(r)
        BY DEF IInv
      <3> QED
        BY <1>1, <2>1, <2>2, <3>1 DEF Shape, Found, Has, Working
    <2>4. RowsAreReferenced' /\ BoundStays'
      BY <1>1, <2>1 DEF IInv, RowsAreReferenced, BoundStays
    <2> QED
      BY <1>2, <1>3, <2>1, <2>3, <2>4 DEF IInv
  <1>5. CASE Unbind(d)
    <2>1. /\ status' = status /\ TableTypes'
          /\ \A c \in Datasets : bound'[c] => bound[c]
      BY <1>1, <1>5 DEF Unbind, TableTypes
    <2>2. ASSUME NEW r \in Requests
          PROVE  Found(r)'
      <3>1. Shape(r) /\ Found(r)
        BY DEF IInv
      <3> QED
        BY <1>1, <2>1, <3>1 DEF Shape, Found, Has, Working, Sharing
    <2>3. RowsAreReferenced' /\ BoundStays'
      BY <1>1, <2>1 DEF IInv, RowsAreReferenced, BoundStays
    <2> QED
      BY <1>2, <1>3, <2>1, <2>2, <2>3 DEF IInv
  <1> QED
    BY <1>4, <1>5

LEMMA CancelPreserves ==
    ASSUME IInv, NEW r \in Requests, Cancel(r)
    PROVE  IInv'
  <1> DEFINE q == [request[r] EXCEPT !.live = FALSE]
  <1>1. Shape(r) /\ Found(r)
    BY DEF IInv
  <1>2. /\ request' = [request EXCEPT ![r] = q] /\ UNCHANGED <<status, rows, bound>>
    BY DEF Cancel, tables, IInv, TableTypes
  <1>3. /\ DOMAIN request' = Requests /\ request'[r] = q
        /\ \A s \in Requests : s # r => Keeps(s)
    BY <1>2, OnlyOne
  <1>4. CASE request[r].stage = "idle"
    <2>1. DOMAIN q = DOMAIN request[r] /\ q.stage = "idle"
      BY <1>1, <1>4 DEF Shape
    <2>2. Shape(r)' /\ Found(r)' /\ ~ Has(r, RowStages)' /\ ~ Has(r, FileStages)'
      BY <1>3, <2>1, <1>1 DEF Shape, Found, Has, Stages, RowStages, FileStages, Working,
         Deleting
    <2> QED
      BY <1>2, <1>3, <2>2, QuietStep
  <1>5. CASE request[r].stage # "idle"
    <2>1. /\ DOMAIN q = DOMAIN request[r] /\ q.stage = request[r].stage
          /\ q.ds = request[r].ds /\ q.orphan = request[r].orphan /\ q.live = FALSE
      BY <1>1, <1>5 DEF Shape
    <2> HIDE DEF q
    <2>2. Shape(r)' /\ Found(r)' /\ ~ Has(r, RowStages)' /\ ~ Has(r, FileStages)'
      BY <1>1, <1>2, <1>3, <2>1 DEF Shape, Found, Has
    <2> QED
      BY <1>2, <1>3, <2>2, QuietStep
  <1> QED
    BY <1>4, <1>5

LEMMA RestartPreserves ==
    ASSUME IInv, Crash \/ Recover
    PROVE  IInv'
  <1>1. UNCHANGED <<status, rows, bound>>
    BY DEF Crash, Recover, tables
  <1>2. CASE Recover
    BY <1>1, <1>2 DEF Recover, IInv, TableTypes, Shape, Found, Has, Excluded, Sharing,
       RowsAreReferenced, BoundStays
  <1>3. CASE Crash
    <2>1. /\ DOMAIN request' = Requests
          /\ \A r \in Requests : /\ request'[r].stage = "idle"
                                 /\ "stage" \in DOMAIN request'[r]
      BY <1>3 DEF Crash, Idle
    <2>2. \A r \in Requests : Shape(r)' /\ Found(r)'
      BY <2>1 DEF Shape, Found, Has, Stages, RowStages, FileStages, Working, Deleting
    <2>3. \A r, s \in Requests : Excluded(r, s)'
      BY <2>1 DEF Excluded, Has, RowStages, FileStages, Working
    <2> QED
      BY <1>1, <2>1, <2>2, <2>3 DEF IInv, TableTypes, RowsAreReferenced, BoundStays
  <1> QED
    BY <1>2, <1>3

-----------------------------------------------------------------------------
LEMMA NextPreserves == IInv /\ [Next]_vars => IInv'
  <1> SUFFICES ASSUME IInv, [Next]_vars PROVE IInv'
    OBVIOUS
  <1>1. ASSUME NEW r \in Requests, Step(r)
        PROVE  IInv'
    BY <1>1, UploadPreserves, MergePreserves, GiveUpPreserves, LockFilePreserves,
       PromotePreserves, CommitPublishPreserves, CountPreserves, CommitDeletePreserves,
       CleanUpPreserves, CommitBindPreserves DEF Step
  <1>2. CASE UNCHANGED vars
    BY <1>2 DEF vars, tables, IInv, TableTypes, Shape, Found, Has, Excluded, Sharing,
       RowsAreReferenced, BoundStays
  <1> QED
    BY <1>1, <1>2, ArrivePreserves, CancelPreserves, RowStepPreserves, RestartPreserves
       DEF Next

\* A digest has its row in files exactly while a published dataset points at
\* it: no interleaving of publications and deletes miscounts the references,
\* whichever clients leave and wherever the process dies (files.go:73-99).
THEOREM RowsCountReferences == Spec => []RowsAreReferenced
  <1>1. IInv => RowsAreReferenced
    BY DEF IInv
  <1> QED
    BY <1>1, InitInv, NextPreserves, PTL DEF Spec

\* What a model version or an experiment refers to stays published, although
\* the reference is made after a look at the dataset without a lock
\* (datasets.go:306-314, models.go:166).
THEOREM BoundIsKept == Spec => []BoundStays
  <1>1. IInv => BoundStays
    BY DEF IInv
  <1> QED
    BY <1>1, InitInv, NextPreserves, PTL DEF Spec

-----------------------------------------------------------------------------
(* Sizes: the chunks of a dataset cover its content exactly.                *)

LEMMA DivFacts ==
    ASSUME NEW S \in Nat \ {0}, NEW a \in Nat
    PROVE  a = S * (a \div S) + (a % S) /\ a % S \in 0 .. S - 1 /\ a \div S \in Nat
  BY SMTT(30)

LEMMA CountFacts ==
    ASSUME DatasetsAssumption, NEW d \in Datasets
    PROVE  /\ ChunkSize[d] \in Nat \ {0}
           /\ Len(Declared[d]) \in Nat \ {0}
           /\ ChunkCount(d) \in Nat \ {0}
           /\ (ChunkCount(d) - 1) * ChunkSize[d] < Len(Declared[d])
           /\ Len(Declared[d]) <= ChunkCount(d) * ChunkSize[d]
  <1> DEFINE S == ChunkSize[d]
             L == Len(Declared[d])
             C == ChunkCount(d)
  <1>1. S \in Nat \ {0}
    BY DEF DatasetsAssumption
  <1>2. L \in Nat \ {0}
    <2>1. Declared[d] \in Seq(Blocks) /\ Declared[d] # <<>>
      BY DEF DatasetsAssumption
    <2> QED
      BY <2>1
  <1>3. C = (L + S - 1) \div S
    BY DEF ChunkCount
  <1> HIDE DEF S, L, C
  <1>4. /\ C \in Nat
        /\ C * S <= L + S - 1
        /\ L + S - 1 < (C + 1) * S
    <2> DEFINE a == L + S - 1
    <2>1. a \in Nat
      BY <1>1, <1>2
    <2>2. C = a \div S
      BY <1>3
    <2> HIDE DEF a
    <2>3. a = S * C + (a % S) /\ a % S \in 0 .. S - 1 /\ C \in Nat
      BY <1>1, <2>1, <2>2, DivFacts
    <2>4. (C + 1) * S = S * C + S /\ C * S = S * C /\ S * C \in Nat
      BY <1>1, <2>3
    <2>5. C * S <= a /\ a < (C + 1) * S
      BY <1>1, <2>1, <2>3, <2>4
    <2> QED
      BY <2>3, <2>5 DEF a
  <1>5. (C + 1) * S = C * S + S /\ C * S \in Nat
    BY <1>1, <1>4
  <1>6. L <= C * S
    BY <1>1, <1>2, <1>4, <1>5
  <1>7. C # 0
    BY <1>1, <1>2, <1>6
  <1>8. (C - 1) * S = C * S - S
    BY <1>1, <1>4
  <1>9. (C - 1) * S < L
    BY <1>1, <1>2, <1>4, <1>5, <1>8
  <1> QED
    BY <1>1, <1>2, <1>4, <1>6, <1>7, <1>9 DEF S, L, C

\* Where the copy of the first n chunks of d ends
Filled(d, n) == IF n = ChunkCount(d) THEN Len(Declared[d]) ELSE n * ChunkSize[d]

LEMMA ExpectedFacts ==
    ASSUME DatasetsAssumption, NEW d \in Datasets, NEW i \in Indexes(d)
    PROVE  /\ i \in Nat /\ i < ChunkCount(d)
           /\ Expected(d, i) \in 1 .. ChunkSize[d]
           /\ i * ChunkSize[d] \in Nat
           /\ Filled(d, i) = i * ChunkSize[d]
           /\ Filled(d, i + 1) = i * ChunkSize[d] + Expected(d, i)
           /\ Filled(d, i + 1) <= Len(Declared[d])
  <1> DEFINE S == ChunkSize[d]
             L == Len(Declared[d])
             C == ChunkCount(d)
  <1>1. /\ S \in Nat \ {0} /\ L \in Nat \ {0} /\ C \in Nat \ {0}
        /\ (C - 1) * S < L /\ L <= C * S
    BY CountFacts
  <1>2. i \in Nat /\ i < C
    BY <1>1 DEF Indexes
  <1>3. /\ Expected(d, i) = IF i = C - 1 THEN L - S * (C - 1) ELSE S
        /\ Filled(d, i) = i * S
        /\ Filled(d, i + 1) = IF i + 1 = C THEN L ELSE (i + 1) * S
    BY <1>1, <1>2 DEF Expected, Filled
  <1> HIDE DEF S, L, C
  <1>4. (i + 1) * S = i * S + S /\ i * S \in Nat
    BY <1>1, <1>2
  <1>5. CASE i = C - 1
    <2>1. i * S = (C - 1) * S /\ i * S = S * (C - 1) /\ C * S = i * S + S
      BY <1>1, <1>5
    <2>2. /\ Expected(d, i) = L - i * S /\ Filled(d, i) = i * S
          /\ Filled(d, i + 1) = L
      BY <1>1, <1>2, <1>3, <1>5, <2>1
    <2>3. i * S < L /\ L <= i * S + S
      BY <1>1, <2>1
    <2>4. /\ Expected(d, i) \in 1 .. S
          /\ Filled(d, i + 1) = i * S + Expected(d, i)
          /\ Filled(d, i + 1) <= L
      BY <1>1, <1>4, <2>2, <2>3
    <2> QED
      BY <1>2, <1>3, <1>4, <2>4 DEF S, L, C
  <1>6. CASE i < C - 1
    <2>1. (i + 1) * S <= (C - 1) * S
      BY <1>1, <1>2, <1>6
    <2> QED
      BY <1>1, <1>2, <1>3, <1>4, <1>6, <2>1 DEF S, L, C
  <1> QED
    BY <1>1, <1>2, <1>5, <1>6

LEMMA DivMod ==
    ASSUME NEW S \in Nat \ {0}, NEW n \in Nat, NEW a \in Nat,
           n * S <= a, a < n * S + S
    PROVE  a \div S = n /\ a % S = a - n * S
  <1>1. a = S * (a \div S) + (a % S) /\ a % S \in 0 .. S - 1 /\ a \div S \in Nat
    BY DivFacts
  <1>2. CASE a \div S < n
    <2>1. (a \div S) + 1 <= n
      BY <1>1, <1>2
    <2>2. S * ((a \div S) + 1) <= S * n
      BY <1>1, <2>1
    <2> QED
      BY <1>1, <2>2
  <1>3. CASE a \div S > n
    <2>1. n + 1 <= (a \div S)
      BY <1>1, <1>3
    <2>2. S * (n + 1) <= S * (a \div S)
      BY <1>1, <2>1
    <2> QED
      BY <1>1, <2>2
  <1> QED
    BY <1>1, <1>2, <1>3

LEMMA WrittenType ==
    ASSUME NEW n \in Nat, NEW content \in Contents(n), NEW after \in Nat,
           NEW body \in Seq(Blocks), after + Len(body) <= n
    PROVE  Written(content, after, body) \in Contents(n)
  <1> DEFINE X == Blocks \cup {Hole}
             end == after + Len(body)
  <1>1. PICK m \in 0 .. n : content \in [1 .. m -> X]
    BY DEF Contents
  <1>2. Len(content) = m
    BY <1>1
  <1> DEFINE size == IF end > m THEN end ELSE m
  <1>3. size \in 0 .. n /\ end \in Nat
    BY <1>1
  <1>4. Written(content, after, body) =
          [k \in 1 .. size |->
            IF k \in after + 1 .. end THEN body[k - after]
            ELSE IF k <= m THEN content[k] ELSE Hole]
    BY <1>2 DEF Written
  <1>5. ASSUME NEW k \in 1 .. size
        PROVE  (IF k \in after + 1 .. end THEN body[k - after]
                ELSE IF k <= m THEN content[k] ELSE Hole) \in X
    BY <1>1, <1>3
  <1>6. Written(content, after, body) \in [1 .. size -> X]
    BY <1>4, <1>5
  <1> QED
    BY <1>3, <1>6 DEF Contents

-----------------------------------------------------------------------------
(* Types, with the size of every chunk that was accepted.                   *)

Sized(chunks, d) ==
    /\ chunks \in [Indexes(d) -> Offered \cup {None}]
    /\ \A i \in Indexes(d) : chunks[i] # None => Len(chunks[i]) = Expected(d, i)

SizedUpload(q, d) == q \in Uploading(d) /\ Len(q.body) = Expected(d, q.index)
SizedPublish(q, d) ==
    /\ q \in Publishing(d)
    /\ \A i \in Indexes(d) : Len(q.chunks[i]) = Expected(d, i)
    /\ q.stage = "open" => q.next = 0
    /\ q.stage = "merge" => q.next < ChunkCount(d)
Formed(q) ==
    \/ q \in {Idle} \cup Others
    \/ \E d \in Datasets : SizedUpload(q, d) \/ SizedPublish(q, d)

RowTypes ==
    /\ DOMAIN chunkRow = Datasets
    /\ \A d \in Datasets : Sized(chunkRow[d], d)
DiskTypes ==
    /\ DOMAIN chunkFile = Datasets
    /\ \A d \in Datasets : Sized(chunkFile[d], d)
    /\ DOMAIN tmp = Datasets
    /\ \A d \in Datasets : tmp[d] \in Contents(Len(Declared[d])) \cup {None}
    /\ DOMAIN file = Digests
    /\ \A D \in Digests : file[D] \in Contents(Len(D)) \cup {None}
RequestTypes ==
    /\ \A r \in Requests : Formed(request[r])
    /\ up \in BOOLEAN
    /\ disturbed \in BOOLEAN
\* A descriptor is of a file that has its place, or is counted as gone; a
\* process that is down has no handlers.
Points(r) ==
    request[r].stage = "merge" =>
        /\ request[r].fd # "none"
        /\ request[r].fd = "tmp" => tmp[request[r].ds] # None
        /\ request[r].fd = "file" => file[Declared[request[r].ds]] # None
Down == ~up => \A r \in Requests : request[r] = Idle
TInv == RowTypes /\ DiskTypes /\ RequestTypes /\ Down /\ \A r \in Requests : Points(r)

UploadStages == {"write", "insert"}
PublishStages == {"open", "merge", "merged", "promote", "discard", "commit"}

LEMMA FormedUpload ==
    ASSUME NEW q, Formed(q), q.stage \in UploadStages
    PROVE  q.ds \in Datasets /\ SizedUpload(q, q.ds)
  BY DEF Formed, UploadStages, SizedUpload, SizedPublish, Uploading, Publishing, Idle, Others

LEMMA FormedPublish ==
    ASSUME NEW q, Formed(q), q.stage \in PublishStages
    PROVE  q.ds \in Datasets /\ SizedPublish(q, q.ds)
  BY DEF Formed, PublishStages, SizedUpload, SizedPublish, Uploading, Publishing, Idle, Others

LEMMA FormedOther ==
    ASSUME NEW q, Formed(q), q.stage \in Deleting
    PROVE  q \in Others
  BY DEF Formed, Deleting, SizedUpload, SizedPublish, Uploading, Publishing, Idle, Others

LEMMA NoChunksSized ==
    ASSUME DatasetsAssumption, NEW d \in Datasets
    PROVE  Sized(NoChunks(d), d)
  BY DEF Sized, NoChunks

LEMMA MovedFormed ==
    ASSUME RequestTypes, NEW from, NEW to \in {"file", "gone"}, NEW datasets
    PROVE  \A s \in Requests : Formed(Moved(from, to, datasets)[s])
  <1> SUFFICES ASSUME NEW s \in Requests, request[s].stage = "merge",
                      Moved(from, to, datasets)[s] = [request[s] EXCEPT !.fd = to]
               PROVE  Formed([request[s] EXCEPT !.fd = to])
    BY DEF RequestTypes, Moved
  <1>1. PICK d \in Datasets : SizedPublish(request[s], d)
    BY FormedPublish DEF RequestTypes, PublishStages
  <1>2. SizedPublish([request[s] EXCEPT !.fd = to], d)
    BY <1>1 DEF SizedPublish, Publishing
  <1> QED
    BY <1>2 DEF Formed

LEMMA TypesInit == DatasetsAssumption /\ Init => TInv
  <1> SUFFICES ASSUME DatasetsAssumption, Init PROVE TInv
    OBVIOUS
  <1>1. RowTypes /\ DiskTypes
    BY NoChunksSized DEF Init, RowTypes, DiskTypes
  <1>2. RequestTypes
    BY DEF Init, RequestTypes, Formed
  <1>3. Down /\ \A r \in Requests : Points(r)
    BY DEF Init, Down, Points, Idle
  <1> QED
    BY <1>1, <1>2, <1>3 DEF TInv

\* A handler that replaces its record by a formed one
LEMMA OneFormed ==
    ASSUME TableTypes, TInv, NEW r \in Requests, NEW q, Formed(q),
           request' = [request EXCEPT ![r] = q],
           UNCHANGED up, disturbed' \in BOOLEAN
    PROVE  RequestTypes'
  BY DEF TInv, TableTypes, RequestTypes

LEMMA MovedAndFormed ==
    ASSUME TInv, NEW r \in Requests, NEW q, Formed(q),
           NEW from, NEW to \in {"file", "gone"}, NEW datasets,
           request' = [Moved(from, to, datasets) EXCEPT ![r] = q],
           UNCHANGED <<up, disturbed>>
    PROVE  RequestTypes'
  <1>1. \A s \in Requests : Formed(Moved(from, to, datasets)[s])
    BY MovedFormed DEF TInv
  <1>2. \A s \in Requests : request'[s] = IF s = r THEN q ELSE Moved(from, to, datasets)[s]
    BY DEF Moved
  <1> QED
    BY <1>1, <1>2 DEF TInv, RequestTypes

LEMMA IdleFormed == Formed(Idle)
  BY DEF Formed

LEMMA BodyFits ==
    ASSUME DatasetsAssumption, NEW d \in Datasets, NEW i \in Indexes(d),
           NEW body \in Offered, Len(body) = Expected(d, i)
    PROVE  /\ body \in Seq(Blocks)
           /\ i * ChunkSize[d] \in Nat
           /\ i * ChunkSize[d] + Len(body) <= Len(Declared[d])
  BY ExpectedFacts DEF DatasetsAssumption

\* What FileAfter and TmpAfter write keeps the types of the disk.
\* A chunk that is copied stays within the content it is a part of.
LEMMA CopyTypes ==
    ASSUME DatasetsAssumption, TInv, NEW r \in Requests, request[r].stage = "merge",
           NEW body, body = chunkFile[request[r].ds][request[r].next], body # None
    PROVE  /\ DOMAIN TmpAfter(request[r], body) = Datasets
           /\ DOMAIN FileAfter(request[r], body) = Digests
           /\ \A e \in Datasets :
                 /\ TmpAfter(request[r], body)[e] \in Contents(Len(Declared[e])) \cup {None}
                 /\ tmp[e] # None => TmpAfter(request[r], body)[e] # None
           /\ \A D \in Digests :
                 /\ FileAfter(request[r], body)[D] \in Contents(Len(D)) \cup {None}
                 /\ file[D] # None => FileAfter(request[r], body)[D] # None
  <1> DEFINE q == request[r]
             d == q.ds
             at == q.next * ChunkSize[d]
             n == Len(Declared[d])
  <1>1. d \in Datasets /\ SizedPublish(q, d)
    BY FormedPublish DEF TInv, RequestTypes, PublishStages
  <1>2. q.next \in Indexes(d)
    BY <1>1, CountFacts DEF SizedPublish, Publishing, Indexes
  <1>3. body \in Offered /\ Len(body) = Expected(d, q.next)
    BY <1>1, <1>2 DEF TInv, DiskTypes, Sized
  <1>4. body \in Seq(Blocks) /\ at \in Nat /\ at + Len(body) <= n
    BY <1>1, <1>2, <1>3, BodyFits
  <1>5. n \in Nat /\ Declared[d] \in Digests
    BY <1>1, CountFacts DEF Digests
  <1>6. \A c \in Contents(n) : Written(c, at, body) \in Contents(n) /\ Written(c, at, body) # None
    <2>1. None \notin Contents(n)
      BY DEF Contents, DatasetsAssumption
    <2> QED
      BY <1>4, <1>5, <2>1, WrittenType
  <1>7. /\ q.fd = "tmp" => tmp[d] \in Contents(n)
        /\ q.fd = "file" => file[Declared[d]] \in Contents(n)
    BY <1>1, <1>5 DEF TInv, DiskTypes, Points
  <1>8. /\ TmpAfter(q, body) = IF q.fd = "tmp" THEN [tmp EXCEPT ![d] = Written(@, at, body)]
                               ELSE tmp
        /\ FileAfter(q, body) = IF q.fd = "file"
                                THEN [file EXCEPT ![Declared[d]] = Written(@, at, body)]
                                ELSE file
    BY DEF TmpAfter, FileAfter
  <1> HIDE DEF q, d, at, n
  <1>9. /\ DOMAIN TmpAfter(q, body) = Datasets
        /\ \A e \in Datasets : TmpAfter(q, body)[e] =
               IF q.fd = "tmp" /\ e = d THEN Written(tmp[d], at, body) ELSE tmp[e]
    BY <1>1, <1>8 DEF TInv, DiskTypes
  <1>10. /\ DOMAIN FileAfter(q, body) = Digests
         /\ \A D \in Digests : FileAfter(q, body)[D] =
                IF q.fd = "file" /\ D = Declared[d] THEN Written(file[D], at, body) ELSE file[D]
    BY <1>5, <1>8 DEF TInv, DiskTypes
  <1>11. n = Len(Declared[d])
    BY DEF n
  <1>12. ASSUME NEW e \in Datasets
         PROVE  /\ TmpAfter(q, body)[e] \in Contents(Len(Declared[e])) \cup {None}
                /\ tmp[e] # None => TmpAfter(q, body)[e] # None
    <2>1. tmp[e] \in Contents(Len(Declared[e])) \cup {None}
      BY DEF TInv, DiskTypes
    <2> QED
      BY <1>6, <1>7, <1>9, <1>11, <2>1
  <1>13. ASSUME NEW D \in Digests
         PROVE  /\ FileAfter(q, body)[D] \in Contents(Len(D)) \cup {None}
                /\ file[D] # None => FileAfter(q, body)[D] # None
    <2>1. file[D] \in Contents(Len(D)) \cup {None}
      BY DEF TInv, DiskTypes
    <2> QED
      BY <1>6, <1>7, <1>10, <1>11, <2>1
  <1> QED
    BY <1>9, <1>10, <1>12, <1>13 DEF q

\* A step of a handler that takes no file from its place
LEMMA OneStep ==
    ASSUME TInv, TableTypes, NEW r \in Requests, NEW q, Formed(q),
           request' = [request EXCEPT ![r] = q],
           RowTypes', DiskTypes', UNCHANGED up, disturbed' \in BOOLEAN, up \/ q = Idle,
           Points(r)',
           \A d \in Datasets : tmp[d] # None => tmp'[d] # None,
           \A D \in Digests : file[D] # None => file'[D] # None
    PROVE  TInv'
  <1>1. RequestTypes'
    BY OneFormed
  <1>2. \A s \in Requests : request'[s] = IF s = r THEN q ELSE request[s]
    BY DEF TableTypes
  <1>3. Down'
    BY <1>2 DEF TInv, Down
  <1>4. ASSUME NEW s \in Requests, s # r
        PROVE  Points(s)'
    <2>1. Points(s) /\ request'[s] = request[s] /\ Formed(request[s])
      BY <1>2, <1>4 DEF TInv, RequestTypes
    <2>2. request[s].stage = "merge" =>
              request[s].ds \in Datasets /\ Declared[request[s].ds] \in Digests
      BY <2>1, FormedPublish DEF PublishStages, Digests
    <2> QED
      BY <2>1, <2>2 DEF Points
  <1> QED
    BY <1>1, <1>3, <1>4 DEF TInv

\* A step that leaves the chunks' rows and the disk as they are
LEMMA StillStep ==
    ASSUME TInv, TableTypes, NEW r \in Requests, NEW q, Formed(q),
           request' = [request EXCEPT ![r] = q], q.stage # "merge",
           UNCHANGED <<chunkRow, disk, up>>, disturbed' \in BOOLEAN, up \/ q = Idle
    PROVE  TInv'
  <1>1. RowTypes' /\ DiskTypes'
    BY DEF TInv, RowTypes, DiskTypes, disk, Sized
  <1>2. Points(r)'
    BY DEF Points, TableTypes
  <1> QED
    BY <1>1, <1>2, OneStep DEF disk

\* A handler that runs
LEMMA Serving ==
    ASSUME TInv, NEW r \in Requests, request[r].stage # "idle"
    PROVE  up
  BY DEF TInv, Down, Idle, RequestTypes

\* What descriptors that move point at
LEMMA MovedPoints ==
    ASSUME TInv, TableTypes, NEW r \in Requests, NEW q, q.stage # "merge",
           NEW from \in {"tmp", "file"}, NEW to \in {"file", "gone"},
           NEW datasets \in SUBSET Datasets,
           request' = [Moved(from, to, datasets) EXCEPT ![r] = q],
           \A d \in Datasets : tmp[d] # None /\ ~ (from = "tmp" /\ d \in datasets) =>
               tmp'[d] # None,
           \A d \in Datasets :
               /\ file[Declared[d]] # None /\ ~ (from = "file" /\ d \in datasets) =>
                      file'[Declared[d]] # None
               /\ to = "file" /\ d \in datasets => file'[Declared[d]] # None,
           to # from
    PROVE  \A s \in Requests : Points(s)'
  <1>1. \A s \in Requests : request'[s] = IF s = r THEN q ELSE Moved(from, to, datasets)[s]
    BY DEF Moved
  <1> SUFFICES ASSUME NEW s \in Requests, s # r, request'[s].stage = "merge"
               PROVE  Points(s)'
    BY <1>1 DEF Points
  <1> DEFINE p == request[s]
  <1>2. Points(s) /\ Formed(p)
    BY DEF TInv, RequestTypes
  <1>3. CASE p.stage = "merge" /\ p.fd = from /\ p.ds \in datasets
    <2>1. request'[s] = [p EXCEPT !.fd = to]
      BY <1>1, <1>3 DEF Moved
    <2>2. p.ds \in Datasets /\ SizedPublish(p, p.ds)
      BY <1>2, <1>3, FormedPublish DEF PublishStages
    <2>3. request'[s].fd = to /\ request'[s].ds = p.ds
      BY <2>1, <2>2 DEF SizedPublish, Publishing
    <2> QED
      BY <1>3, <2>2, <2>3 DEF Points
  <1>4. CASE ~ (p.stage = "merge" /\ p.fd = from /\ p.ds \in datasets)
    <2>1. request'[s] = p
      BY <1>1, <1>4 DEF Moved
    <2>2. p.ds \in Datasets
      BY <1>2, <2>1, FormedPublish DEF PublishStages
    <2> QED
      BY <1>2, <1>4, <2>1, <2>2 DEF Points
  <1> QED
    BY <1>3, <1>4

\* A step of a handler that moves the descriptors of others
LEMMA MoveStep ==
    ASSUME TInv, TableTypes, NEW r \in Requests, NEW q, Formed(q), q.stage # "merge",
           NEW from \in {"tmp", "file"}, NEW to \in {"file", "gone"}, to # from,
           NEW datasets \in SUBSET Datasets,
           request' = [Moved(from, to, datasets) EXCEPT ![r] = q],
           UNCHANGED <<chunkRow, up, disturbed>>, DiskTypes', up,
           \A d \in Datasets : tmp[d] # None /\ ~ (from = "tmp" /\ d \in datasets) =>
               tmp'[d] # None,
           \A d \in Datasets :
               /\ file[Declared[d]] # None /\ ~ (from = "file" /\ d \in datasets) =>
                      file'[Declared[d]] # None
               /\ to = "file" /\ d \in datasets => file'[Declared[d]] # None
    PROVE  TInv'
  <1>1. RequestTypes'
    BY MovedAndFormed
  <1>2. \A s \in Requests : Points(s)'
    BY MovedPoints
  <1>3. RowTypes'
    BY DEF TInv, RowTypes, Sized
  <1> QED
    BY <1>1, <1>2, <1>3 DEF TInv, Down

\* What handlers are given to do is well formed.
LEMMA ArriveTypes ==
    ASSUME DatasetsAssumption, TInv, TableTypes,
           NEW r \in Requests, NEW d \in Datasets, Arrive(r, d)
    PROVE  TInv'
  <1>1. up /\ UNCHANGED <<chunkRow, disk, up, disturbed>>
    BY DEF Arrive, BeginUpload, BeginPublish, BeginDelete, BeginBind, Accepts, tables
  <1>2. disturbed' \in BOOLEAN
    BY <1>1 DEF TInv, RequestTypes
  <1>3. ASSUME NEW i \in Indexes(d), NEW body \in Bodies(d, i), BeginUpload(r, d, i, body)
        PROVE  TInv'
    <2> DEFINE q == [stage |-> "write", ds |-> d, live |-> TRUE, index |-> i, body |-> body]
    <2>1. SizedUpload(q, d)
      BY DEF SizedUpload, Uploading, Bodies
    <2>2. Formed(q) /\ q.stage # "merge"
      BY <2>1 DEF Formed
    <2>3. request' = [request EXCEPT ![r] = q]
      BY <1>3 DEF BeginUpload
    <2> HIDE DEF q
    <2> QED
      BY <1>1, <1>2, <2>2, <2>3, StillStep
  <1>4. CASE BeginPublish(r, d)
    <2> DEFINE q == [stage |-> "open", ds |-> d, live |-> TRUE, chunks |-> chunkRow[d],
                     next |-> 0, fd |-> "none"]
    <2>1. Sized(chunkRow[d], d) /\ \A i \in Indexes(d) : chunkRow[d][i] # None
      BY <1>4 DEF TInv, RowTypes, BeginPublish
    <2>2. chunkRow[d] \in [Indexes(d) -> Offered]
      BY <2>1 DEF Sized
    <2>3. 0 \in 0 .. ChunkCount(d)
      BY CountFacts
    <2>4. SizedPublish(q, d)
      BY <2>1, <2>2, <2>3 DEF SizedPublish, Publishing, Sized
    <2>5. Formed(q) /\ q.stage # "merge"
      BY <2>4 DEF Formed
    <2>6. request' = [request EXCEPT ![r] = q]
      BY <1>4 DEF BeginPublish
    <2> HIDE DEF q
    <2> QED
      BY <1>1, <1>2, <2>5, <2>6, StillStep
  <1>5. CASE BeginDelete(r, d) \/ BeginBind(r, d)
    <2>1. PICK stage \in {"release", "bind"} :
              request' = [request EXCEPT ![r] =
                  [stage |-> stage, ds |-> d, live |-> TRUE, orphan |-> FALSE]]
      BY <1>5 DEF BeginDelete, BeginBind
    <2> DEFINE q == [stage |-> stage, ds |-> d, live |-> TRUE, orphan |-> FALSE]
    <2>2. Formed(q) /\ q.stage # "merge"
      BY DEF Formed, Others
    <2> HIDE DEF q
    <2> QED
      BY <1>1, <1>2, <2>1, <2>2, StillStep DEF q
  <1> QED
    BY <1>3, <1>4, <1>5 DEF Arrive

\* A recorded or a stored chunk has its size.
LEMMA SetChunk ==
    ASSUME NEW f, DOMAIN f = Datasets, \A d \in Datasets : Sized(f[d], d),
           NEW d \in Datasets, NEW i \in Indexes(d), NEW body \in Offered,
           Len(body) = Expected(d, i), NEW g, g = [f EXCEPT ![d][i] = body]
    PROVE  DOMAIN g = Datasets /\ \A e \in Datasets : Sized(g[e], e)
  <1>1. \A e \in Datasets : g[e] = IF e = d THEN [f[d] EXCEPT ![i] = body] ELSE f[e]
    OBVIOUS
  <1>2. Sized([f[d] EXCEPT ![i] = body], d)
    BY DEF Sized
  <1> QED
    BY <1>1, <1>2

LEMMA DropChunks ==
    ASSUME DatasetsAssumption, NEW f, DOMAIN f = Datasets, \A d \in Datasets : Sized(f[d], d),
           NEW d \in Datasets, NEW g, g = [f EXCEPT ![d] = NoChunks(d)]
    PROVE  DOMAIN g = Datasets /\ \A e \in Datasets : Sized(g[e], e)
  BY NoChunksSized

LEMMA UploadTypes ==
    ASSUME DatasetsAssumption, TInv, TableTypes, NEW r \in Requests,
           WriteChunk(r) \/ CommitChunk(r)
    PROVE  TInv'
  <1> DEFINE q == request[r]
             d == q.ds
  <1>1. Formed(q) /\ q.stage \in UploadStages
    BY DEF TInv, RequestTypes, WriteChunk, CommitChunk, UploadStages
  <1>2. d \in Datasets /\ SizedUpload(q, d)
    BY <1>1, FormedUpload
  <1>3. /\ q.index \in Indexes(d) /\ q.body \in Offered /\ Len(q.body) = Expected(d, q.index)
        /\ up
    BY <1>1, <1>2, Serving DEF SizedUpload, Uploading, UploadStages
  <1>4. CASE WriteChunk(r)
    <2> DEFINE p == [q EXCEPT !.stage = "insert"]
    <2>1. /\ request' = [request EXCEPT ![r] = p]
          /\ chunkFile' = [chunkFile EXCEPT ![d][q.index] = q.body]
          /\ UNCHANGED <<chunkRow, tmp, file, up, disturbed>>
      BY <1>4 DEF WriteChunk, tables, TableTypes
    <2>2. SizedUpload(p, d) /\ p.stage = "insert"
      BY <1>2 DEF SizedUpload, Uploading
    <2>3. Formed(p)
      BY <1>2, <2>2 DEF Formed
    <2> HIDE DEF p
    <2>4. RowTypes' /\ disturbed' \in BOOLEAN
      BY <2>1 DEF TInv, RowTypes, RequestTypes, Sized
    <2>5. DOMAIN chunkFile' = Datasets /\ \A e \in Datasets : Sized(chunkFile'[e], e)
      BY <1>2, <1>3, <2>1, SetChunk DEF TInv, DiskTypes
    <2>6. DiskTypes'
      BY <2>1, <2>5 DEF TInv, DiskTypes, Sized
    <2>7. Points(r)'
      BY <2>1, <2>2 DEF Points, TableTypes
    <2> QED
      BY <1>3, <2>1, <2>3, <2>4, <2>6, <2>7, OneStep
  <1>5. CASE CommitChunk(r)
    <2>1. /\ request' = [request EXCEPT ![r] = Idle]
          /\ chunkRow' = [chunkRow EXCEPT ![d][q.index] = q.body]
          /\ UNCHANGED <<disk, up, disturbed>>
      BY <1>5 DEF CommitChunk
    <2>2. DOMAIN chunkRow' = Datasets /\ \A e \in Datasets : Sized(chunkRow'[e], e)
      BY <1>2, <1>3, <2>1, SetChunk DEF TInv, RowTypes
    <2>3. RowTypes' /\ disturbed' \in BOOLEAN
      BY <2>1, <2>2 DEF TInv, RowTypes, RequestTypes, Sized
    <2>4. DiskTypes'
      BY <2>1 DEF TInv, DiskTypes, Sized, disk
    <2>5. Points(r)'
      BY <2>1 DEF Points, TableTypes, Idle
    <2> QED
      BY <1>3, <2>1, <2>3, <2>4, <2>5, IdleFormed, OneStep DEF disk
  <1> QED
    BY <1>4, <1>5

\* A publisher that goes on
LEMMA PublisherGoesOn ==
    ASSUME NEW d \in Datasets, NEW q, SizedPublish(q, d),
           NEW p \in Publishing(d), p.chunks = q.chunks, p.stage # "open",
           p.stage = "merge" => p.next < ChunkCount(d)
    PROVE  SizedPublish(p, d) /\ Formed(p)
  <1>1. SizedPublish(p, d)
    BY DEF SizedPublish
  <1> QED
    BY <1>1 DEF Formed

\* What a publisher has
LEMMA Publisher ==
    ASSUME TInv, NEW r \in Requests, request[r].stage \in PublishStages
    PROVE  /\ request[r].ds \in Datasets /\ SizedPublish(request[r], request[r].ds)
           /\ Formed(request[r]) /\ up
           /\ disturbed \in BOOLEAN /\ Declared[request[r].ds] \in Digests
  BY FormedPublish, Serving DEF TInv, RequestTypes, PublishStages, Digests

\* The copy of a dataset is opened or taken away.
LEMMA TmpSet ==
    ASSUME DatasetsAssumption, TInv, NEW d \in Datasets, NEW c \in {<<>>, None},
           tmp' = [tmp EXCEPT ![d] = c], UNCHANGED <<chunkFile, file>>
    PROVE  DiskTypes' /\ \A e \in Datasets : tmp'[e] = IF e = d THEN c ELSE tmp[e]
  <1>1. <<>> \in Contents(Len(Declared[d]))
    <2>1. <<>> \in [1 .. 0 -> Blocks \cup {Hole}] /\ 0 \in 0 .. Len(Declared[d])
      BY CountFacts
    <2> QED
      BY <2>1 DEF Contents
  <1> QED
    BY <1>1 DEF TInv, DiskTypes, Sized

LEMMA OpenTypes ==
    ASSUME DatasetsAssumption, TInv, TableTypes, NEW r \in Requests, OpenTmp(r)
    PROVE  TInv'
  <1> DEFINE q == request[r]
             d == q.ds
             p == [q EXCEPT !.stage = "merge", !.fd = "tmp"]
  <1>1. d \in Datasets /\ SizedPublish(q, d) /\ up /\ disturbed \in BOOLEAN /\ q.stage = "open"
    BY Publisher DEF OpenTmp, PublishStages
  <1>2. q.next = 0 /\ 0 < ChunkCount(d) /\ 0 \in 0 .. ChunkCount(d)
    BY <1>1, CountFacts DEF SizedPublish
  <1>3. /\ p \in Publishing(d) /\ p.stage = "merge" /\ p.ds = d /\ p.fd = "tmp"
        /\ p.next = 0 /\ p.chunks = q.chunks
    BY <1>1, <1>2 DEF SizedPublish, Publishing
  <1>4. /\ request' = [request EXCEPT ![r] = p] /\ tmp' = [tmp EXCEPT ![d] = <<>>]
        /\ UNCHANGED <<chunkRow, chunkFile, file, up, disturbed>>
    BY DEF OpenTmp, tables, TableTypes
  <1> HIDE DEF p
  <1>5. Formed(p)
    BY <1>1, <1>2, <1>3, PublisherGoesOn
  <1>6. DiskTypes' /\ \A e \in Datasets : tmp'[e] = IF e = d THEN <<>> ELSE tmp[e]
    BY <1>1, <1>4, TmpSet
  <1>7. <<>> # None
    <2>1. <<>> \in Seq(Blocks \cup {Hole})
      OBVIOUS
    <2> QED
      BY <2>1 DEF DatasetsAssumption
  <1>8. RowTypes' /\ disturbed' \in BOOLEAN
    BY <1>1, <1>4 DEF TInv, RowTypes, Sized
  <1>9. Points(r)'
    BY <1>1, <1>3, <1>4, <1>6, <1>7 DEF Points, TableTypes
  <1> QED
    BY <1>1, <1>5, <1>4, <1>6, <1>7, <1>8, <1>9, OneStep

LEMMA CopyChunkTypes ==
    ASSUME DatasetsAssumption, TInv, TableTypes, NEW r \in Requests, CopyChunk(r)
    PROVE  TInv'
  <1> DEFINE q == request[r]
             d == q.ds
             body == chunkFile[d][q.next]
             last == q.next = ChunkCount(d) - 1
             stage == IF last THEN "merged" ELSE "merge"
             fd == IF last THEN "none" ELSE q.fd
             p == [q EXCEPT !.stage = stage, !.fd = fd, !.next = q.next + 1]
  <1>1. d \in Datasets /\ SizedPublish(q, d) /\ up /\ disturbed \in BOOLEAN /\ q.stage = "merge"
    BY Publisher DEF CopyChunk, PublishStages
  <1>2. /\ ChunkCount(d) \in Nat \ {0}
        /\ q.next \in 0 .. ChunkCount(d) - 1 /\ q.next + 1 \in 0 .. ChunkCount(d)
    BY <1>1, CountFacts DEF SizedPublish, Publishing
  <1>3. /\ stage \in {"merge", "merged"} /\ fd \in {"none", "tmp", "file", "gone"}
        /\ stage = "merge" => q.next # ChunkCount(d) - 1 /\ fd = q.fd
    BY <1>1 DEF SizedPublish, Publishing
  <1> HIDE DEF stage, fd
  <1>4. /\ p \in Publishing(d) /\ p.stage = stage /\ p.ds = d /\ p.fd = fd
        /\ p.next = q.next + 1 /\ p.chunks = q.chunks
    BY <1>1, <1>2, <1>3 DEF SizedPublish, Publishing
  <1>5. body = q.chunks[q.next] /\ body # None
    <2>1. body = q.chunks[q.next]
      BY DEF CopyChunk
    <2>2. q.chunks[q.next] \in Offered
      BY <1>1, <1>2 DEF SizedPublish, Publishing, Indexes
    <2>3. q.chunks[q.next] \in Seq(Blocks \cup {Hole})
      BY <2>2 DEF DatasetsAssumption
    <2> QED
      BY <2>1, <2>3 DEF DatasetsAssumption
  <1>6. /\ request' = [request EXCEPT ![r] = p]
        /\ tmp' = TmpAfter(q, body) /\ file' = FileAfter(q, body)
        /\ UNCHANGED <<chunkRow, chunkFile, up, disturbed>>
    BY DEF CopyChunk, tables, stage, fd
  <1> HIDE DEF p
  <1>7. Formed(p)
    <2>1. stage = "merge" => q.next + 1 < ChunkCount(d)
      BY <1>2, <1>3
    <2>2. p.stage # "open"
      BY <1>3, <1>4
    <2>3. p.stage = "merge" => p.next < ChunkCount(d)
      BY <1>4, <2>1
    <2> QED
      BY <1>1, <1>4, <2>2, <2>3, PublisherGoesOn
  <1>8. /\ DOMAIN tmp' = Datasets /\ DOMAIN file' = Digests
        /\ \A e \in Datasets : /\ tmp'[e] \in Contents(Len(Declared[e])) \cup {None}
                               /\ tmp[e] # None => tmp'[e] # None
        /\ \A D \in Digests : /\ file'[D] \in Contents(Len(D)) \cup {None}
                              /\ file[D] # None => file'[D] # None
    BY <1>1, <1>5, <1>6, CopyTypes
  <1>9. DiskTypes' /\ RowTypes' /\ disturbed' \in BOOLEAN
    BY <1>1, <1>6, <1>8 DEF TInv, DiskTypes, RowTypes, Sized
  <1>10. Points(r)'
    <2>1. Points(r) /\ request'[r] = p
      BY <1>6 DEF TInv, TableTypes
    <2>2. Declared[d] \in Digests
      BY <1>1 DEF Digests
    <2> QED
      BY <1>1, <1>3, <1>4, <1>8, <2>1, <2>2 DEF Points
  <1> QED
    BY <1>1, <1>7, <1>6, <1>8, <1>9, <1>10, OneStep

\* The copy of d leaves its place.
LEMMA TmpMoves ==
    ASSUME TInv, TableTypes, NEW r \in Requests, NEW q, Formed(q), q.stage # "merge",
           NEW d \in Datasets, NEW to \in {"file", "gone"},
           request' = [Moved("tmp", to, {d}) EXCEPT ![r] = q],
           UNCHANGED <<chunkRow, up, disturbed>>, DiskTypes', up,
           \A e \in Datasets : e # d /\ tmp[e] # None => tmp'[e] # None,
           \A e \in Datasets : file[Declared[e]] # None => file'[Declared[e]] # None,
           to = "file" => file'[Declared[d]] # None
    PROVE  TInv'
  <1>1. {d} \in SUBSET Datasets /\ "tmp" \in {"tmp", "file"} /\ to # "tmp" /\ "tmp" # "file"
    OBVIOUS
  <1>2. \A e \in Datasets :
            tmp[e] # None /\ ~ ("tmp" = "tmp" /\ e \in {d}) => tmp'[e] # None
    OBVIOUS
  <1>3. \A e \in Datasets :
            /\ file[Declared[e]] # None /\ ~ ("tmp" = "file" /\ e \in {d}) =>
                   file'[Declared[e]] # None
            /\ to = "file" /\ e \in {d} => file'[Declared[e]] # None
    OBVIOUS
  <1> QED
    BY <1>1, <1>2, <1>3, MoveStep, Zenon

LEMMA FailTypes ==
    ASSUME DatasetsAssumption, TInv, TableTypes, NEW r \in Requests, FailMerge(r)
    PROVE  TInv'
  <1> DEFINE q == request[r]
             d == q.ds
             body == chunkFile[d][q.next]
  <1>1. d \in Datasets /\ SizedPublish(q, d) /\ up /\ q.stage = "merge"
    BY Publisher DEF FailMerge, PublishStages
  <1>2. /\ request' = [Moved("tmp", "gone", {d}) EXCEPT ![r] = Idle]
        /\ tmp' = [tmp EXCEPT ![d] = None]
        /\ file' = IF body = None THEN file ELSE FileAfter(q, body)
        /\ UNCHANGED <<chunkRow, chunkFile, up, disturbed>>
    BY DEF FailMerge, tables
  <1>3. /\ DOMAIN tmp' = Datasets
        /\ \A e \in Datasets : tmp'[e] = IF e = d THEN None ELSE tmp[e]
    BY <1>1, <1>2 DEF TInv, DiskTypes
  <1>4. /\ DOMAIN file' = Digests
        /\ \A D \in Digests : /\ file'[D] \in Contents(Len(D)) \cup {None}
                              /\ file[D] # None => file'[D] # None
    <2>1. CASE body = None
      BY <1>2, <2>1 DEF TInv, DiskTypes
    <2>2. CASE body # None
      BY <1>1, <1>2, <2>2, CopyTypes
    <2> QED
      BY <2>1, <2>2
  <1>5. DiskTypes'
    BY <1>2, <1>3, <1>4 DEF TInv, DiskTypes, Sized
  <1>6. \A e \in Datasets : file[Declared[e]] # None => file'[Declared[e]] # None
    BY <1>4 DEF Digests
  <1>7. /\ Idle.stage # "merge" /\ "gone" \in {"file", "gone"} /\ "gone" # "file"
        /\ \A e \in Datasets : e # d /\ tmp[e] # None => tmp'[e] # None
    BY <1>3 DEF Idle
  <1> HIDE DEF q, d
  <1> QED
    BY <1>1, <1>2, <1>5, <1>6, <1>7, IdleFormed, TmpMoves, Zenon

LEMMA RejectTypes ==
    ASSUME DatasetsAssumption, TInv, TableTypes, NEW r \in Requests, RejectDigest(r)
    PROVE  TInv'
  <1> DEFINE d == request[r].ds
  <1>1. d \in Datasets /\ up
    BY Publisher DEF RejectDigest, PublishStages
  <1>2. /\ request' = [Moved("tmp", "gone", {d}) EXCEPT ![r] = Idle]
        /\ tmp' = [tmp EXCEPT ![d] = None]
        /\ UNCHANGED <<chunkRow, chunkFile, file, up, disturbed>>
    BY DEF RejectDigest, tables
  <1>3. DiskTypes' /\ \A e \in Datasets : tmp'[e] = IF e = d THEN None ELSE tmp[e]
    BY <1>1, <1>2, TmpSet
  <1>4. /\ Idle.stage # "merge" /\ "gone" \in {"file", "gone"} /\ "gone" # "file"
        /\ \A e \in Datasets : e # d /\ tmp[e] # None => tmp'[e] # None
        /\ \A e \in Datasets : file[Declared[e]] # None => file'[Declared[e]] # None
    BY <1>2, <1>3 DEF Idle
  <1> HIDE DEF d
  <1> QED
    BY <1>1, <1>2, <1>3, <1>4, IdleFormed, TmpMoves, Zenon

LEMMA LockFileTypes ==
    ASSUME DatasetsAssumption, TInv, TableTypes, NEW r \in Requests, LockFile(r)
    PROVE  TInv'
  <1> DEFINE q == request[r]
             d == q.ds
             stage == IF Declared[d] \in rows THEN "discard" ELSE "promote"
             p == [q EXCEPT !.stage = stage]
  <1>1. /\ d \in Datasets /\ SizedPublish(q, d) /\ up /\ disturbed \in BOOLEAN
        /\ q.stage = "merged"
    BY Publisher DEF LockFile, PublishStages
  <1>2. p \in Publishing(d) /\ p.stage \in {"discard", "promote"} /\ p.chunks = q.chunks
    BY <1>1 DEF SizedPublish, Publishing
  <1>3. request' = [request EXCEPT ![r] = p] /\ UNCHANGED <<chunkRow, disk, up, disturbed>>
    BY DEF LockFile, tables, TableTypes
  <1> HIDE DEF p
  <1>4. Formed(p)
    BY <1>1, <1>2, PublisherGoesOn
  <1> QED
    BY <1>1, <1>2, <1>3, <1>4, StillStep

\* The publisher's own record when it moves its copy
LEMMA Promoter ==
    ASSUME TInv, NEW r \in Requests, request[r].stage \in {"promote", "discard"},
           NEW q, q = [request[r] EXCEPT !.stage = "commit"]
    PROVE  /\ Formed(q) /\ q.stage = "commit"
           /\ q.ds = request[r].ds /\ q.live = request[r].live
  <1>1. request[r].ds \in Datasets /\ SizedPublish(request[r], request[r].ds)
    BY Publisher DEF PublishStages
  <1>2. /\ q \in Publishing(request[r].ds) /\ q.stage = "commit"
        /\ q.chunks = request[r].chunks /\ q.ds = request[r].ds /\ q.live = request[r].live
    BY <1>1 DEF SizedPublish, Publishing
  <1> QED
    BY <1>1, <1>2, PublisherGoesOn

LEMMA DiscardTypes ==
    ASSUME DatasetsAssumption, TInv, TableTypes, NEW r \in Requests, DiscardTmp(r)
    PROVE  TInv'
  <1> DEFINE d == request[r].ds
             m == Moved("tmp", "gone", {d})
             q == [request[r] EXCEPT !.stage = "commit"]
  <1>1. d \in Datasets /\ up /\ request[r].stage = "discard"
    BY Publisher DEF DiscardTmp, PublishStages
  <1>2. DOMAIN m = Requests /\ m[r] = request[r]
    BY <1>1 DEF Moved
  <1>3. /\ request' = [m EXCEPT ![r] = q] /\ tmp' = [tmp EXCEPT ![d] = None]
        /\ UNCHANGED <<chunkRow, chunkFile, file, up, disturbed>>
    BY <1>2 DEF DiscardTmp, tables
  <1> HIDE DEF q
  <1>4. Formed(q) /\ q.stage = "commit"
    BY <1>1, Promoter DEF q
  <1>5. DiskTypes' /\ \A e \in Datasets : tmp'[e] = IF e = d THEN None ELSE tmp[e]
    BY <1>1, <1>3, TmpSet
  <1>6. /\ "gone" \in {"file", "gone"} /\ "gone" # "file"
        /\ \A e \in Datasets : e # d /\ tmp[e] # None => tmp'[e] # None
        /\ \A e \in Datasets : file[Declared[e]] # None => file'[Declared[e]] # None
    BY <1>3, <1>5
  <1> HIDE DEF d
  <1> QED
    BY <1>1, <1>3, <1>4, <1>5, <1>6, TmpMoves, Zenon

LEMMA PromoteTypes ==
    ASSUME DatasetsAssumption, TInv, TableTypes, NEW r \in Requests, PromoteTmp(r)
    PROVE  TInv'
  <1> DEFINE d == request[r].ds
             D == Declared[d]
             taken == file[D] # None
             to == IF taken THEN "gone" ELSE "file"
             m == Moved("tmp", to, {d})
             q == [request[r] EXCEPT !.stage = "commit"]
  <1>1. /\ d \in Datasets /\ up /\ request[r].stage = "promote" /\ D \in Digests
        /\ disturbed \in BOOLEAN
    BY Publisher DEF PromoteTmp, PublishStages
  <1>2. DOMAIN m = Requests /\ m[r] = request[r]
    BY <1>1 DEF Moved
  <1>3. /\ request' = IF tmp[d] = None THEN [request EXCEPT ![r] = Idle]
                      ELSE [m EXCEPT ![r] = q]
        /\ tmp' = [tmp EXCEPT ![d] = None]
        /\ file' = IF taken THEN file ELSE [file EXCEPT ![D] = tmp[d]]
        /\ UNCHANGED <<chunkRow, chunkFile, up, disturbed>>
    BY <1>2 DEF PromoteTmp, tables
  <1>4. /\ DOMAIN tmp' = Datasets /\ DOMAIN file' = Digests
        /\ \A e \in Datasets : tmp'[e] = IF e = d THEN None ELSE tmp[e]
        /\ \A E \in Digests : file'[E] = IF ~ taken /\ E = D THEN tmp[d] ELSE file[E]
    BY <1>1, <1>3 DEF TInv, DiskTypes
  <1>5. tmp[d] \in Contents(Len(D)) \cup {None}
    BY <1>1 DEF TInv, DiskTypes
  <1>6. DiskTypes'
    BY <1>1, <1>3, <1>4, <1>5 DEF TInv, DiskTypes, Sized
  <1>7. RowTypes'
    BY <1>3 DEF TInv, RowTypes, Sized
  <1>8. Formed(q) /\ q.stage = "commit"
    BY <1>1, Promoter
  <1> HIDE DEF q
  <1>9. \A e \in Datasets : Declared[e] \in Digests
    BY DEF Digests
  <1>10. CASE tmp[d] = None
    <2>1. \A E \in Digests : file[E] # None => file'[E] # None
      BY <1>4
    <2>2. Idle.stage # "merge" /\ request' = [request EXCEPT ![r] = Idle]
      BY <1>3, <1>10 DEF Idle
    <2>3. RequestTypes'
      BY <1>1, <1>3, <2>2, IdleFormed, OneFormed
    <2>4. ASSUME NEW s \in Requests
          PROVE  Points(s)'
      <3>1. s # r => request'[s] = request[s]
        BY <2>2 DEF TableTypes
      <3>2. request'[r] = Idle
        BY <2>2 DEF TableTypes
      <3>3. Points(s) /\ Formed(request[s])
        BY DEF TInv, RequestTypes
      <3>4. request[s].stage = "merge" => request[s].ds \in Datasets
        BY <3>3, FormedPublish DEF PublishStages
      <3> QED
        BY <1>4, <1>9, <1>10, <2>1, <2>2, <3>1, <3>2, <3>3, <3>4 DEF Points
    <2> QED
      BY <1>1, <1>3, <1>6, <1>7, <2>3, <2>4 DEF TInv, Down
  <1>11. CASE tmp[d] # None
    <2>1. /\ \A e \in Datasets : file[Declared[e]] # None => file'[Declared[e]] # None
          /\ to = "file" => file'[Declared[d]] # None
      BY <1>1, <1>4, <1>9, <1>11
    <2>2. \A e \in Datasets : e # d /\ tmp[e] # None => tmp'[e] # None
      BY <1>4
    <2>3. to \in {"file", "gone"} /\ q.stage # "merge"
      BY <1>8
    <2>4. request' = [m EXCEPT ![r] = q] /\ UNCHANGED <<chunkRow, up, disturbed>>
      BY <1>3, <1>11
    <2> HIDE DEF d, to, taken
    <2> QED
      BY <1>1, <1>6, <1>8, <2>1, <2>2, <2>3, <2>4, TmpMoves, Zenon
  <1> QED
    BY <1>10, <1>11

\* Handlers that end, and deletes that go on, without touching the disk
LEMMA EndTypes ==
    ASSUME TInv, TableTypes, NEW r \in Requests,
           CommitPublish(r) \/ CommitBind(r) \/ Abandon(r)
    PROVE  TInv'
  <1>1. request' = [request EXCEPT ![r] = Idle] /\ UNCHANGED <<chunkRow, disk, up, disturbed>>
    BY DEF CommitPublish, CommitBind, Abandon, tables
  <1>2. disturbed' \in BOOLEAN /\ Idle.stage # "merge"
    BY <1>1 DEF TInv, RequestTypes, Idle
  <1> QED
    BY <1>1, <1>2, IdleFormed, StillStep

\* What a delete or a reference has
LEMMA Deleter ==
    ASSUME TInv, NEW r \in Requests, request[r].stage \in Deleting
    PROVE  /\ request[r] \in Others /\ up /\ disturbed \in BOOLEAN
           /\ Declared[request[r].ds] \in Digests
  BY FormedOther, Serving DEF TInv, RequestTypes, Deleting, Others, Digests

LEMMA OtherFormed ==
    ASSUME NEW q \in Others
    PROVE  Formed(q) /\ q.stage # "merge" /\ q.ds \in Datasets /\ q.orphan \in BOOLEAN
  BY DEF Formed, Others

LEMMA CountTypes ==
    ASSUME TInv, TableTypes, NEW r \in Requests, CountSharing(r) \/ CheckOrphan(r)
    PROVE  TInv'
  <1>1. UNCHANGED <<chunkRow, disk, up, disturbed>> /\ request[r].stage \in Deleting
    BY DEF CountSharing, CheckOrphan, tables, Deleting
  <1>2. request[r] \in Others /\ up /\ disturbed' \in BOOLEAN
    BY <1>1, Deleter
  <1>3. CASE CountSharing(r)
    <2> DEFINE p == [request[r] EXCEPT !.stage = "drop",
                                       !.orphan = Sharing(request[r].ds) = {}]
    <2>1. request' = [request EXCEPT ![r] = p]
      BY <1>3 DEF CountSharing, TableTypes
    <2>2. p \in Others
      BY <1>2 DEF Others
    <2> HIDE DEF p
    <2> QED
      BY <1>1, <1>2, <2>1, <2>2, OtherFormed, StillStep
  <1>4. CASE CheckOrphan(r)
    <2> DEFINE p == [request[r] EXCEPT !.stage = "unlink"]
    <2>1. \/ request' = [request EXCEPT ![r] = p]
          \/ request' = [request EXCEPT ![r] = Idle]
      BY <1>4 DEF CheckOrphan, TableTypes
    <2>2. p \in Others /\ Idle.stage # "merge"
      BY <1>2 DEF Others, Idle
    <2> HIDE DEF p
    <2> QED
      BY <1>1, <1>2, <2>1, <2>2, OtherFormed, IdleFormed, StillStep
  <1> QED
    BY <1>3, <1>4

LEMMA DeleteTypes ==
    ASSUME DatasetsAssumption, TInv, TableTypes, NEW r \in Requests,
           CommitDelete(r) \/ RemoveChunkDir(r)
    PROVE  TInv'
  <1> DEFINE q == request[r]
             d == q.ds
  <1>1. q.stage \in Deleting
    BY DEF CommitDelete, RemoveChunkDir, Deleting
  <1>2. q \in Others /\ up /\ disturbed \in BOOLEAN /\ d \in Datasets
    BY <1>1, Deleter, OtherFormed
  <1>3. CASE CommitDelete(r)
    <2> DEFINE p == [q EXCEPT !.stage = "rmdir"]
    <2>1. /\ request' = [request EXCEPT ![r] = p]
          /\ chunkRow' = [chunkRow EXCEPT ![d] = NoChunks(d)]
          /\ UNCHANGED <<disk, up, disturbed>>
      BY <1>3 DEF CommitDelete, TableTypes
    <2>2. p \in Others
      BY <1>2 DEF Others
    <2> HIDE DEF p
    <2>3. Formed(p) /\ p.stage # "merge"
      BY <2>2, OtherFormed
    <2>4. DOMAIN chunkRow' = Datasets /\ \A e \in Datasets : Sized(chunkRow'[e], e)
      BY <1>2, <2>1, DropChunks DEF TInv, RowTypes
    <2>5. RowTypes' /\ DiskTypes'
      BY <2>1, <2>4 DEF TInv, RowTypes, DiskTypes, disk, Sized
    <2>6. Points(r)'
      BY <2>1, <2>3 DEF Points, TableTypes
    <2> QED
      BY <1>2, <2>1, <2>3, <2>5, <2>6, OneStep DEF disk
  <1>4. CASE RemoveChunkDir(r)
    <2>1. PICK p : /\ p = Idle \/ p = [q EXCEPT !.stage = "gc"]
                   /\ request' = [request EXCEPT ![r] = p]
      BY <1>4 DEF RemoveChunkDir, TableTypes
    <2>2. p = Idle \/ p \in Others
      BY <1>2, <2>1 DEF Others
    <2>3. Formed(p) /\ p.stage # "merge"
      BY <2>2, OtherFormed, IdleFormed DEF Idle
    <2>4. /\ chunkFile' = [chunkFile EXCEPT ![d] = NoChunks(d)]
          /\ UNCHANGED <<chunkRow, tmp, file, up, disturbed>>
      BY <1>4 DEF RemoveChunkDir, tables
    <2>5. DOMAIN chunkFile' = Datasets /\ \A e \in Datasets : Sized(chunkFile'[e], e)
      BY <1>2, <2>4, DropChunks DEF TInv, DiskTypes
    <2>6. RowTypes' /\ DiskTypes'
      BY <2>4, <2>5 DEF TInv, RowTypes, DiskTypes, Sized
    <2>7. Points(r)'
      BY <2>1, <2>3 DEF Points, TableTypes
    <2> QED
      BY <1>2, <2>1, <2>3, <2>4, <2>6, <2>7, OneStep
  <1> QED
    BY <1>3, <1>4

LEMMA UnlinkTypes ==
    ASSUME TInv, TableTypes, NEW r \in Requests, UnlinkFile(r)
    PROVE  TInv'
  <1> DEFINE D == Declared[request[r].ds]
  <1>1. up /\ D \in Digests
    BY Deleter DEF UnlinkFile, Deleting
  <1>2. /\ request' = [Moved("file", "gone", Sharers(D)) EXCEPT ![r] = Idle]
        /\ file' = [file EXCEPT ![D] = None]
        /\ UNCHANGED <<chunkRow, chunkFile, tmp, up, disturbed>>
    BY DEF UnlinkFile, tables
  <1> HIDE DEF D
  <1>3. /\ DOMAIN file' = Digests
        /\ \A E \in Digests : file'[E] = IF E = D THEN None ELSE file[E]
    BY <1>2 DEF TInv, DiskTypes
  <1>4. DiskTypes'
    BY <1>2, <1>3 DEF TInv, DiskTypes, Sized
  <1>5. /\ "file" \in {"tmp", "file"} /\ "gone" \in {"file", "gone"} /\ "gone" # "file"
        /\ Sharers(D) \in SUBSET Datasets /\ Idle.stage # "merge"
    BY DEF Sharers, Idle
  <1>6. \A e \in Datasets : tmp[e] # None /\ ~ ("file" = "tmp" /\ e \in Sharers(D)) =>
            tmp'[e] # None
    BY <1>2
  <1>7. \A e \in Datasets :
            /\ file[Declared[e]] # None /\ ~ ("file" = "file" /\ e \in Sharers(D)) =>
                   file'[Declared[e]] # None
            /\ "gone" = "file" /\ e \in Sharers(D) => file'[Declared[e]] # None
    BY <1>3 DEF Sharers, Digests
  <1> QED
    BY <1>1, <1>2, <1>4, <1>5, <1>6, <1>7, IdleFormed, MoveStep, Zenon

LEMMA CancelTypes ==
    ASSUME TInv, TableTypes, NEW r \in Requests, Cancel(r)
    PROVE  TInv'
  <1> DEFINE q == request[r]
             p == [q EXCEPT !.live = FALSE]
  <1>1. /\ q # Idle /\ request' = [request EXCEPT ![r] = p] /\ disturbed' \in BOOLEAN
        /\ UNCHANGED <<chunkRow, disk, up>>
    BY DEF Cancel, tables, TableTypes
  <1>2. up
    BY <1>1 DEF TInv, Down, RequestTypes
  <1>3. Formed(q)
    BY DEF TInv, RequestTypes
  <1>4. PICK d \in Datasets : q \in Others \/ SizedUpload(q, d) \/ SizedPublish(q, d)
    BY <1>1, <1>3 DEF Formed, Others
  <1>5. /\ p.stage = q.stage /\ p.ds = q.ds
        /\ p.stage = "merge" => p.fd = q.fd
    BY <1>4 DEF Others, SizedUpload, Uploading, SizedPublish, Publishing
  <1>6. Formed(p)
    <2>1. CASE q \in Others
      <3>1. p \in Others
        BY <2>1 DEF Others
      <3> QED
        BY <3>1, OtherFormed
    <2>2. CASE SizedUpload(q, d)
      <3>1. SizedUpload(p, d)
        BY <2>2 DEF SizedUpload, Uploading
      <3> QED
        BY <3>1 DEF Formed
    <2>3. CASE SizedPublish(q, d)
      <3>1. SizedPublish(p, d)
        BY <2>3 DEF SizedPublish, Publishing
      <3> QED
        BY <3>1 DEF Formed
    <2> QED
      BY <1>4, <2>1, <2>2, <2>3
  <1> HIDE DEF p
  <1>7. RowTypes' /\ DiskTypes'
    BY <1>1 DEF TInv, RowTypes, DiskTypes, disk, Sized
  <1>8. Points(r)'
    <2>1. Points(r) /\ request'[r] = p
      BY <1>1 DEF TInv, TableTypes
    <2> QED
      BY <1>1, <1>5, <2>1 DEF Points, disk
  <1> QED
    BY <1>1, <1>2, <1>6, <1>7, <1>8, OneStep DEF disk

LEMMA RestartTypes ==
    ASSUME DatasetsAssumption, TInv, Crash \/ Recover
    PROVE  TInv'
  <1>1. CASE Crash
    <2>1. /\ \A r \in Requests : request'[r] = Idle
          /\ up' \in BOOLEAN /\ UNCHANGED <<chunkRow, disk, disturbed>>
      BY <1>1 DEF Crash, tables
    <2>2. RowTypes' /\ DiskTypes'
      BY <2>1 DEF TInv, RowTypes, DiskTypes, disk, Sized
    <2>3. RequestTypes' /\ Down' /\ \A r \in Requests : Points(r)'
      BY <2>1, IdleFormed DEF TInv, RequestTypes, Down, Points, Idle
    <2> QED
      BY <2>2, <2>3 DEF TInv
  <1>2. CASE Recover
    <2>1. /\ UNCHANGED <<chunkRow, request, disturbed>> /\ up' = TRUE
          /\ \A r \in Requests : request[r] = Idle
          /\ tmp' = [d \in Datasets |-> None]
          /\ file' = [D \in Digests |-> Swept(D)]
          /\ chunkFile' = [d \in Datasets |->
                 IF status[d] = "deleted" THEN NoChunks(d) ELSE chunkFile[d]]
      BY <1>2 DEF Recover, tables, TInv, Down
    <2>2. \A d \in Datasets : Sized(chunkFile'[d], d)
      BY <2>1, NoChunksSized DEF TInv, DiskTypes
    <2>3. RowTypes' /\ DiskTypes'
      BY <2>1, <2>2 DEF TInv, RowTypes, DiskTypes, Sized, Swept
    <2>4. RequestTypes' /\ Down' /\ \A r \in Requests : Points(r)'
      BY <2>1, IdleFormed DEF TInv, RequestTypes, Down, Points, Idle
    <2> QED
      BY <2>3, <2>4 DEF TInv
  <1> QED
    BY <1>1, <1>2

\* A step that changes neither the chunks' rows nor the disk nor a handler
LEMMA UnchangedTypes ==
    ASSUME TInv, UNCHANGED <<chunkRow, disk, request, up, disturbed>>
    PROVE  TInv'
  <1>1. RowTypes' /\ DiskTypes' /\ RequestTypes'
    BY DEF TInv, RowTypes, DiskTypes, RequestTypes, disk, Sized
  <1>2. Down' /\ \A r \in Requests : Points(r)'
    BY DEF TInv, Down, Points, disk
  <1> QED
    BY <1>1, <1>2 DEF TInv

LEMMA TypesNext == DatasetsAssumption /\ IInv /\ TInv /\ [Next]_vars => TInv'
  <1> SUFFICES ASSUME DatasetsAssumption, IInv, TInv, [Next]_vars PROVE TInv'
    OBVIOUS
  <1>1. TableTypes
    BY DEF IInv
  <1>2. ASSUME NEW r \in Requests, Step(r)
        PROVE  TInv'
    BY <1>1, <1>2, UploadTypes, OpenTypes, CopyChunkTypes, FailTypes, RejectTypes,
       LockFileTypes, DiscardTypes, PromoteTypes, EndTypes, CountTypes, DeleteTypes,
       UnlinkTypes DEF Step
  <1>3. ASSUME NEW d \in Datasets, Create(d) \/ Unbind(d)
        PROVE  TInv'
    BY <1>3, UnchangedTypes DEF Create, Unbind
  <1>4. CASE UNCHANGED vars
    BY <1>4, UnchangedTypes DEF vars, tables
  <1> QED
    BY <1>1, <1>2, <1>3, <1>4, ArriveTypes, CancelTypes, RestartTypes DEF Next

-----------------------------------------------------------------------------
(* As long as no client leaves, every handler keeps its locks to the end of *)
(* its work, and the disk is what the handlers and the tables make of it.   *)

\* The first n chunks of d, one after the other
Copied(d, chunks, n) ==
    [k \in 1 .. Filled(d, n) |->
        chunks[(k - 1) \div ChunkSize[d]][1 + ((k - 1) % ChunkSize[d])]]

\* What a handler that no client has left has done so far
Handled(r) ==
    /\ request[r].stage # "idle" => request[r].live
    /\ request[r].stage \in {"write", "insert"} =>
           chunkRow[request[r].ds][request[r].index] = None
    /\ request[r].stage = "insert" =>
           chunkFile[request[r].ds][request[r].index] = request[r].body
    /\ request[r].stage = "merge" =>
           /\ request[r].fd = "tmp"
           /\ tmp[request[r].ds] = Copied(request[r].ds, request[r].chunks, request[r].next)
    /\ request[r].stage = "merged" =>
           tmp[request[r].ds] = Assembled(request[r].ds, request[r].chunks)
    /\ request[r].stage = "promote" =>
           /\ tmp[request[r].ds] = Declared[request[r].ds]
           /\ Declared[request[r].ds] \notin rows
    /\ request[r].stage = "discard" => Declared[request[r].ds] \in rows
    /\ request[r].stage = "commit" =>
           file[Declared[request[r].ds]] = Declared[request[r].ds]
    /\ request[r].stage = "rmdir" => status[request[r].ds] = "deleted"
    /\ request[r].stage = "unlink" => Declared[request[r].ds] \notin rows

ChunkFacts ==
    \A d \in Datasets : status[d] # "deleted" =>
        \A i \in Indexes(d) : chunkRow[d][i] # None => chunkFile[d][i] = chunkRow[d][i]
FileFacts ==
    \A D \in Digests : file[D] \in {None, D} /\ (D \in rows => file[D] = D)

\* The handler that will clear away the copy of d, the file of digest D, the
\* chunks of the deleted dataset d
ClearsTmp(r, d) ==
    request[r].stage \in {"merge", "merged", "promote", "discard"} /\ request[r].ds = d
ClearsFile(r, D) ==
    /\ \/ request[r].stage = "commit"
       \/ request[r].stage \in {"rmdir", "gc", "unlink"} /\ request[r].orphan
    /\ Declared[request[r].ds] = D
ClearsDir(r, d) == request[r].stage = "rmdir" /\ request[r].ds = d

Garbage ==
    up =>
    /\ \A d \in Datasets : tmp[d] # None => \E r \in Requests : ClearsTmp(r, d)
    /\ \A D \in Digests : file[D] # None =>
           D \in rows \/ \E r \in Requests : ClearsFile(r, D)
    /\ \A d \in Datasets : status[d] = "deleted" =>
           chunkFile[d] = NoChunks(d) \/ \E r \in Requests : ClearsDir(r, d)

Clean ==
    /\ \A r \in Requests : Handled(r)
    /\ ChunkFacts
    /\ FileFacts
    /\ Garbage

\* The locks, when every handler is live
LEMMA RowPrivate ==
    ASSUME IInv, Clean, NEW r \in Requests, NEW s \in Requests, r # s,
           request[r].stage \in RowStages, request[s].stage \in RowStages
    PROVE  request[r].ds # request[s].ds
  BY DEF IInv, Excluded, Has, Clean, Handled, RowStages, Working

LEMMA FilePrivate ==
    ASSUME IInv, Clean, NEW r \in Requests, NEW s \in Requests, r # s,
           request[r].stage \in FileStages, request[s].stage \in FileStages
    PROVE  Declared[request[r].ds] # Declared[request[s].ds]
  BY DEF IInv, Excluded, Has, Clean, Handled, FileStages

\* What handler r leaves to the others
LEMMA OthersHandled ==
    ASSUME IInv, Clean, NEW r \in Requests,
           \A s \in Requests : s # r => request'[s] = request[s],
           \A s \in Requests : s # r /\ request[s].stage \in Working =>
               /\ tmp'[request[s].ds] = tmp[request[s].ds]
               /\ chunkRow'[request[s].ds] = chunkRow[request[s].ds]
               /\ chunkFile'[request[s].ds] = chunkFile[request[s].ds],
           \A s \in Requests : s # r /\ request[s].stage \in FileStages =>
               /\ file'[Declared[request[s].ds]] = file[Declared[request[s].ds]]
               /\ Declared[request[s].ds] \in rows' <=> Declared[request[s].ds] \in rows,
           \A d \in Datasets : status[d] = "deleted" => status'[d] = "deleted"
    PROVE  \A s \in Requests : s # r => Handled(s)'
  <1> SUFFICES ASSUME NEW s \in Requests, s # r
               PROVE  Handled(s)'
    OBVIOUS
  <1>1. Handled(s) /\ Shape(s) /\ request'[s] = request[s]
    BY DEF Clean, IInv
  <1>2. request[s].stage = "rmdir" => request[s].ds \in Datasets
    BY <1>1 DEF Shape
  <1> QED
    BY <1>1, <1>2 DEF Handled, Working, FileStages

\* A step under the lock of the row of d, and under that of its digest if it
\* touches the file
LEMMA LockedStep ==
    ASSUME IInv, Clean, NEW r \in Requests, request[r].stage \in RowStages,
           \A s \in Requests : s # r => request'[s] = request[s],
           \A e \in Datasets : e # request[r].ds =>
               tmp'[e] = tmp[e] /\ chunkRow'[e] = chunkRow[e] /\ chunkFile'[e] = chunkFile[e],
           \/ UNCHANGED <<file, rows>>
           \/ /\ request[r].stage \in FileStages
              /\ \A D \in Digests : D # Declared[request[r].ds] =>
                     file'[D] = file[D] /\ (D \in rows' <=> D \in rows),
           \A d \in Datasets : status[d] = "deleted" => status'[d] = "deleted"
    PROVE  \A s \in Requests : s # r => Handled(s)'
  <1>1. \A s \in Requests : request[s].stage # "idle" =>
            request[s].ds \in Datasets /\ Declared[request[s].ds] \in Digests
    BY DEF IInv, Shape, Digests
  <1>2. \A s \in Requests : s # r /\ request[s].stage \in Working =>
            request[s].ds \in Datasets /\ request[s].ds # request[r].ds
    BY <1>1, RowPrivate DEF RowStages, Working
  <1>3. \A s \in Requests : s # r /\ request[s].stage \in FileStages =>
            /\ Declared[request[s].ds] \in Digests
            /\ request[r].stage \in FileStages =>
                   Declared[request[s].ds] # Declared[request[r].ds]
    BY <1>1, FilePrivate DEF FileStages
  <1>4. \A s \in Requests : s # r /\ request[s].stage \in Working =>
            /\ tmp'[request[s].ds] = tmp[request[s].ds]
            /\ chunkRow'[request[s].ds] = chunkRow[request[s].ds]
            /\ chunkFile'[request[s].ds] = chunkFile[request[s].ds]
    BY <1>2
  <1>5. \A s \in Requests : s # r /\ request[s].stage \in FileStages =>
            /\ file'[Declared[request[s].ds]] = file[Declared[request[s].ds]]
            /\ Declared[request[s].ds] \in rows' <=> Declared[request[s].ds] \in rows
    BY <1>3
  <1> QED
    BY <1>4, <1>5, OthersHandled

\* A step that changes neither the disk nor the rows of chunks and of files
LEMMA QuietHandled ==
    ASSUME IInv, Clean, NEW r \in Requests,
           \A s \in Requests : s # r => request'[s] = request[s],
           UNCHANGED <<chunkRow, rows, disk, status>>, Handled(r)'
    PROVE  \A s \in Requests : Handled(s)'
  BY OthersHandled DEF disk

\* Others go on to clear away what they have to.
LEMMA GarbageStep ==
    ASSUME Clean, NEW r \in Requests, UNCHANGED up,
           \A s \in Requests : s # r => request'[s] = request[s],
           \A d \in Datasets : tmp'[d] # None =>
               ClearsTmp(r, d)' \/ (tmp[d] # None /\ ~ ClearsTmp(r, d)),
           \A D \in Digests : file'[D] # None =>
               \/ D \in rows' \/ ClearsFile(r, D)'
               \/ file[D] # None /\ D \notin rows /\ ~ ClearsFile(r, D),
           \A d \in Datasets : status'[d] = "deleted" =>
               \/ chunkFile'[d] = NoChunks(d) \/ ClearsDir(r, d)'
               \/ /\ status[d] = "deleted" /\ chunkFile[d] # NoChunks(d)
                  /\ ~ ClearsDir(r, d)
    PROVE  Garbage'
  <1> SUFFICES ASSUME up PROVE Garbage'
    BY DEF Garbage
  <1>1. Garbage
    BY DEF Clean
  <1>2. ASSUME NEW s \in Requests, s # r
        PROVE  /\ \A d : ClearsTmp(s, d)' <=> ClearsTmp(s, d)
               /\ \A D : ClearsFile(s, D)' <=> ClearsFile(s, D)
               /\ \A d : ClearsDir(s, d)' <=> ClearsDir(s, d)
    BY <1>2 DEF ClearsTmp, ClearsFile, ClearsDir
  <1>3. ASSUME NEW d \in Datasets, tmp'[d] # None
        PROVE  \E s \in Requests : ClearsTmp(s, d)'
    BY <1>1, <1>2, <1>3 DEF Garbage
  <1>4. ASSUME NEW D \in Digests, file'[D] # None, D \notin rows'
        PROVE  \E s \in Requests : ClearsFile(s, D)'
    BY <1>1, <1>2, <1>4 DEF Garbage
  <1>5. ASSUME NEW d \in Datasets, status'[d] = "deleted", chunkFile'[d] # NoChunks(d)
        PROVE  \E s \in Requests : ClearsDir(s, d)'
    BY <1>1, <1>2, <1>5 DEF Garbage
  <1>6. \A d : NoChunks(d)' = NoChunks(d)
    OBVIOUS
  <1> QED
    BY <1>3, <1>4, <1>5, <1>6 DEF Garbage

\* No other handler has a descriptor on the copy, and none on a file.
LEMMA NoneMoved ==
    ASSUME IInv, Clean, NEW r \in Requests, request[r].stage \in RowStages,
           NEW to, NEW s \in Requests, s # r
    PROVE  Moved("tmp", to, {request[r].ds})[s] = request[s]
  <1>1. request[s].stage = "merge" => request[s].stage \in RowStages
    BY DEF RowStages, Working
  <1>2. request[s].stage = "merge" => request[s].ds # request[r].ds
    BY <1>1, RowPrivate
  <1> QED
    BY <1>2 DEF Moved

LEMMA NoFileMoved ==
    ASSUME Clean, NEW to, NEW datasets
    PROVE  /\ DOMAIN Moved("file", to, datasets) = Requests
           /\ \A s \in Requests : Moved("file", to, datasets)[s] = request[s]
  <1>1. \A s \in Requests : request[s].stage = "merge" => request[s].fd = "tmp"
    BY DEF Clean, Handled
  <1> QED
    BY <1>1 DEF Moved

\* What a step that changes only the record of r leaves to it and to others
LEMMA OnlyRequest ==
    ASSUME TableTypes, NEW r \in Requests, NEW q, request' = [request EXCEPT ![r] = q]
    PROVE  request'[r] = q /\ \A s \in Requests : s # r => request'[s] = request[s]
  BY DEF TableTypes

LEMMA OnlyMoved ==
    ASSUME IInv, Clean, NEW r \in Requests, NEW q, NEW to,
           request[r].stage \in RowStages,
           request' = [Moved("tmp", to, {request[r].ds}) EXCEPT ![r] = q]
    PROVE  request'[r] = q /\ \A s \in Requests : s # r => request'[s] = request[s]
  <1> DEFINE m == Moved("tmp", to, {request[r].ds})
  <1>1. DOMAIN m = Requests
    BY DEF Moved
  <1>2. \A s \in Requests : s # r => m[s] = request[s]
    BY NoneMoved
  <1> HIDE DEF m
  <1> QED
    BY <1>1, <1>2 DEF m

\* The clean states of a handler that has just begun or has ended
LEMMA NothingToClear ==
    ASSUME NEW r \in Requests, request[r].stage \in {"idle", "write", "insert", "open",
                                                     "release", "drop", "bind"}
    PROVE  /\ \A d : ~ ClearsTmp(r, d) /\ ~ ClearsDir(r, d)
           /\ \A D : ~ ClearsFile(r, D)
  BY DEF ClearsTmp, ClearsFile, ClearsDir

\* A step of a handler that touches neither the rows nor the disk
LEMMA QuietClean ==
    ASSUME IInv, Clean, NEW r \in Requests,
           \A s \in Requests : s # r => request'[s] = request[s],
           UNCHANGED <<status, chunkRow, rows, disk, up>>, Handled(r)',
           \A d \in Datasets : ClearsTmp(r, d) => ClearsTmp(r, d)',
           \A D \in Digests : ClearsFile(r, D) => D \in rows \/ ClearsFile(r, D)',
           \A d \in Datasets : ClearsDir(r, d) => ClearsDir(r, d)'
    PROVE  Clean'
  <1>1. \A s \in Requests : Handled(s)'
    BY QuietHandled
  <1>2. ChunkFacts' /\ FileFacts'
    BY DEF Clean, ChunkFacts, FileFacts, disk
  <1>3. Garbage'
    <2>1. Garbage
      BY DEF Clean
    <2>2. \A d \in Datasets : tmp'[d] # None =>
              ClearsTmp(r, d)' \/ (tmp[d] # None /\ ~ ClearsTmp(r, d))
      BY DEF disk
    <2>3. \A D \in Digests : file'[D] # None =>
              \/ D \in rows' \/ ClearsFile(r, D)'
              \/ file[D] # None /\ D \notin rows /\ ~ ClearsFile(r, D)
      BY DEF disk
    <2>4. \A d \in Datasets : status'[d] = "deleted" =>
              \/ chunkFile'[d] = NoChunks(d) \/ ClearsDir(r, d)'
              \/ /\ status[d] = "deleted" /\ chunkFile[d] # NoChunks(d)
                 /\ ~ ClearsDir(r, d)
      BY DEF disk
    <2> QED
      BY <2>2, <2>3, <2>4, GarbageStep
  <1> QED
    BY <1>1, <1>2, <1>3 DEF Clean

LEMMA ArriveClean ==
    ASSUME IInv, Clean, NEW r \in Requests, NEW d \in Datasets, Arrive(r, d)
    PROVE  Clean'
  <1>1. /\ request[r] = Idle /\ UNCHANGED <<status, chunkRow, rows, disk, up>>
        /\ TableTypes
    BY DEF Arrive, BeginUpload, BeginPublish, BeginDelete, BeginBind, Accepts, tables, IInv
  <1> DEFINE Begun(q) ==
                 /\ request' = [request EXCEPT ![r] = q]
                 /\ q.live = TRUE
                 /\ q.stage \in {"write", "open", "release", "bind"}
                 /\ q.stage = "write" => chunkRow[q.ds][q.index] = None
  <1>2. \E q : Begun(q)
    <2>1. CASE BeginPublish(r, d)
      <3> DEFINE q == [stage |-> "open", ds |-> d, live |-> TRUE, chunks |-> chunkRow[d],
                       next |-> 0, fd |-> "none"]
      <3>1. Begun(q)
        BY <2>1 DEF BeginPublish
      <3> QED
        BY <3>1
    <2>2. CASE BeginDelete(r, d)
      <3> DEFINE q == [stage |-> "release", ds |-> d, live |-> TRUE, orphan |-> FALSE]
      <3>1. Begun(q)
        BY <2>2 DEF BeginDelete
      <3> QED
        BY <3>1
    <2>3. CASE BeginBind(r, d)
      <3> DEFINE q == [stage |-> "bind", ds |-> d, live |-> TRUE, orphan |-> FALSE]
      <3>1. Begun(q)
        BY <2>3 DEF BeginBind
      <3> QED
        BY <3>1
    <2>4. ASSUME NEW i \in Indexes(d), NEW body \in Bodies(d, i), BeginUpload(r, d, i, body)
          PROVE  \E q : Begun(q)
      <3> DEFINE q == [stage |-> "write", ds |-> d, live |-> TRUE, index |-> i,
                       body |-> body]
      <3>1. Begun(q)
        BY <2>4 DEF BeginUpload
      <3> QED
        BY <3>1
    <2> QED
      BY <2>1, <2>2, <2>3, <2>4 DEF Arrive
  <1> PICK q : Begun(q)
    BY <1>2
  <1>3. request'[r] = q /\ \A s \in Requests : s # r => request'[s] = request[s]
    BY <1>1, OnlyRequest
  <1>4. Handled(r)'
    BY <1>1, <1>3 DEF Handled
  <1>5. /\ \A e : ~ ClearsTmp(r, e) /\ ~ ClearsDir(r, e)
        /\ \A D : ~ ClearsFile(r, D)
    BY <1>1, NothingToClear DEF Idle
  <1> QED
    BY <1>1, <1>3, <1>4, <1>5, QuietClean

LEMMA RowStepClean ==
    ASSUME IInv, Clean, NEW d \in Datasets, Create(d) \/ Unbind(d)
    PROVE  Clean'
  <1>1. /\ UNCHANGED <<chunkRow, rows, disk, request, up>>
        /\ \A e \in Datasets : status'[e] = "deleted" <=> status[e] = "deleted"
    BY DEF Create, Unbind, IInv, TableTypes
  <1>2. ASSUME NEW r \in Requests
        PROVE  Handled(r)'
    <2>1. Handled(r) /\ Shape(r)
      BY DEF Clean, IInv
    <2> QED
      BY <1>1, <2>1 DEF Handled, Shape, disk
  <1>3. ChunkFacts' /\ FileFacts'
    BY <1>1 DEF Clean, ChunkFacts, FileFacts, disk
  <1>4. Garbage'
    BY <1>1 DEF Clean, Garbage, ClearsTmp, ClearsFile, ClearsDir, disk
  <1> QED
    BY <1>2, <1>3, <1>4 DEF Clean

\* The length of a function on 1 .. m
LEMMA LenFun ==
    ASSUME NEW m \in Nat, NEW c, DOMAIN c = 1 .. m, c = [k \in 1 .. m |-> c[k]]
    PROVE  Len(c) = m
  <1> DEFINE X == {c[k] : k \in 1 .. m}
  <1>1. c \in [1 .. m -> X]
    OBVIOUS
  <1> HIDE DEF X
  <1> QED
    BY <1>1

\* The chunk that is copied next continues what has been copied.
LEMMA CopiedNext ==
    ASSUME DatasetsAssumption, NEW d \in Datasets, NEW chunks,
           NEW n \in Indexes(d), Len(chunks[n]) = Expected(d, n)
    PROVE  Written(Copied(d, chunks, n), n * ChunkSize[d], chunks[n]) = Copied(d, chunks, n + 1)
  <1> DEFINE S == ChunkSize[d]
             at == n * S
             end == at + Len(chunks[n])
             c == Copied(d, chunks, n)
             At(k) == chunks[(k - 1) \div S][1 + ((k - 1) % S)]
  <1>1. /\ n \in Nat /\ Expected(d, n) \in 1 .. S /\ at \in Nat
        /\ Filled(d, n) = at /\ Filled(d, n + 1) = at + Expected(d, n) /\ S \in Nat \ {0}
    BY ExpectedFacts, CountFacts
  <1>2. end \in Nat /\ end > at /\ end <= at + S /\ Filled(d, n + 1) = end
    BY <1>1
  <1>3. c = [k \in 1 .. at |-> At(k)]
    BY <1>1 DEF Copied
  <1>4. Copied(d, chunks, n + 1) = [k \in 1 .. end |-> At(k)]
    BY <1>2 DEF Copied
  <1>5. Len(c) = at
    <2> HIDE DEF At, at
    <2>1. DOMAIN c = 1 .. at /\ c = [k \in 1 .. at |-> c[k]]
      BY <1>3
    <2> HIDE DEF c
    <2> QED
      BY <1>1, <2>1, LenFun
  <1>6. ASSUME NEW k \in 1 .. end
        PROVE  (IF k \in at + 1 .. end THEN chunks[n][k - at]
                ELSE IF k <= at THEN c[k] ELSE Hole) = At(k)
    <2>1. CASE k <= at
      <3>1. k \notin at + 1 .. end /\ k \in 1 .. at
        BY <1>1, <1>2, <2>1
      <3>2. c[k] = At(k)
        BY <1>3, <3>1
      <3> QED
        BY <2>1, <3>1, <3>2
    <2>2. CASE k > at
      <3> DEFINE a == k - 1
      <3>1. k \in at + 1 .. end
        BY <1>1, <1>2, <2>2
      <3>2. a \in Nat /\ n * S <= a /\ a < n * S + S
        BY <1>1, <1>2, <3>1
      <3> HIDE DEF a
      <3>3. a \div S = n /\ a % S = a - at
        BY <1>1, <3>2, DivMod DEF at
      <3>4. k - 1 = a /\ 1 + (a - at) = k - at
        BY <1>1, <3>1 DEF a
      <3>5. At(k) = chunks[n][k - at]
        BY <3>3, <3>4
      <3> QED
        BY <3>1, <3>5
    <2> QED
      BY <1>1, <2>1, <2>2
  <1>7. Written(c, at, chunks[n]) =
            [k \in 1 .. end |-> IF k \in at + 1 .. end THEN chunks[n][k - at]
                                ELSE IF k <= at THEN c[k] ELSE Hole]
    <2> HIDE DEF c, at
    <2> QED
      BY <1>2, <1>5 DEF Written
  <1> HIDE DEF At, at, end, c
  <1>8. Written(c, at, chunks[n]) = [k \in 1 .. end |-> At(k)]
    BY <1>6, <1>7
  <1> QED
    BY <1>4, <1>8 DEF c, at, S

LEMMA CopiedNone ==
    ASSUME DatasetsAssumption, NEW d \in Datasets, NEW chunks
    PROVE  Copied(d, chunks, 0) = <<>>
  <1>1. Filled(d, 0) = 0
    BY CountFacts DEF Filled
  <1>2. Copied(d, chunks, 0) \in [1 .. 0 -> {}]
    BY <1>1 DEF Copied
  <1> QED
    BY <1>2

LEMMA CopiedAll ==
    ASSUME NEW d \in Datasets, NEW chunks
    PROVE  Copied(d, chunks, ChunkCount(d)) = Assembled(d, chunks)
  BY DEF Copied, Assembled, Filled

LEMMA UploadClean ==
    ASSUME IInv, TInv, Clean, NEW r \in Requests, WriteChunk(r) \/ CommitChunk(r)
    PROVE  Clean'
  <1> DEFINE q == request[r]
             d == q.ds
             i == q.index
  <1>1. q.stage \in UploadStages /\ Formed(q) /\ Handled(r) /\ Found(r) /\ TableTypes
    BY DEF WriteChunk, CommitChunk, UploadStages, TInv, RequestTypes, Clean, IInv
  <1>2. /\ d \in Datasets /\ SizedUpload(q, d) /\ i \in Indexes(d)
        /\ q.stage \in RowStages
    BY <1>1, FormedUpload DEF SizedUpload, Uploading, RowStages, Working, UploadStages
  <1>3. q.live /\ status[d] = "uploading" /\ chunkRow[d][i] = None
    BY <1>1 DEF Handled, Found, Has, Working, UploadStages
  <1>4. /\ \A e : ~ ClearsTmp(r, e) /\ ~ ClearsDir(r, e)
        /\ \A D : ~ ClearsFile(r, D)
    BY <1>1, NothingToClear DEF UploadStages
  <1>5. CASE WriteChunk(r)
    <2> DEFINE p == [q EXCEPT !.stage = "insert"]
    <2>1. /\ request' = [request EXCEPT ![r] = p]
          /\ chunkFile' = [chunkFile EXCEPT ![d][i] = q.body]
          /\ UNCHANGED <<status, chunkRow, rows, tmp, file, up>>
      BY <1>1, <1>5 DEF WriteChunk, tables, TableTypes
    <2>2. p.stage = "insert" /\ p.ds = d /\ p.live = q.live /\ p.index = i /\ p.body = q.body
      BY <1>2 DEF SizedUpload, Uploading
    <2>3. request'[r] = p /\ \A s \in Requests : s # r => request'[s] = request[s]
      BY <1>1, <2>1, OnlyRequest
    <2>4. /\ \A e \in Datasets : e # d => chunkFile'[e] = chunkFile[e]
          /\ \A j \in Indexes(d) : chunkFile'[d][j] = IF j = i THEN q.body ELSE chunkFile[d][j]
      BY <1>2, <2>1 DEF TInv, DiskTypes, Sized
    <2> HIDE DEF p
    <2>5. \A s \in Requests : s # r => Handled(s)'
      BY <1>2, <2>1, <2>3, <2>4, LockedStep
    <2>6. Handled(r)'
      BY <1>2, <1>3, <2>1, <2>2, <2>3, <2>4 DEF Handled
    <2>7. ChunkFacts' /\ FileFacts'
      BY <1>2, <1>3, <2>1, <2>4 DEF Clean, ChunkFacts, FileFacts, Indexes
    <2>8. Garbage'
      BY <1>3, <1>4, <2>1, <2>3, <2>4, GarbageStep
    <2> QED
      BY <2>5, <2>6, <2>7, <2>8 DEF Clean
  <1>6. CASE CommitChunk(r)
    <2>1. /\ request' = [request EXCEPT ![r] = Idle]
          /\ chunkRow' = [chunkRow EXCEPT ![d][i] = q.body]
          /\ chunkFile[d][i] = q.body
          /\ UNCHANGED <<status, rows, disk, up>>
      BY <1>1, <1>6 DEF CommitChunk, Handled
    <2>2. request'[r] = Idle /\ \A s \in Requests : s # r => request'[s] = request[s]
      BY <1>1, <2>1, OnlyRequest
    <2>3. /\ \A e \in Datasets : e # d => chunkRow'[e] = chunkRow[e]
          /\ \A j \in Indexes(d) : chunkRow'[d][j] = IF j = i THEN q.body ELSE chunkRow[d][j]
      BY <1>2, <2>1 DEF TInv, RowTypes, Sized
    <2>4. \A s \in Requests : s # r => Handled(s)'
      BY <1>2, <2>1, <2>2, <2>3, LockedStep DEF disk
    <2>5. Handled(r)'
      BY <2>2 DEF Handled, Idle
    <2>6. ChunkFacts' /\ FileFacts'
      BY <1>2, <2>1, <2>3 DEF Clean, ChunkFacts, FileFacts, Indexes, disk
    <2>7. Garbage'
      BY <1>4, <2>1, <2>2, GarbageStep DEF disk
    <2> QED
      BY <2>4, <2>5, <2>6, <2>7 DEF Clean
  <1> QED
    BY <1>5, <1>6

\* What a publisher has that no client has left
LEMMA LivePublisher ==
    ASSUME IInv, TInv, Clean, NEW r \in Requests, request[r].stage \in PublishStages
    PROVE  /\ request[r].ds \in Datasets /\ SizedPublish(request[r], request[r].ds)
           /\ request[r].stage \in RowStages /\ request[r].live /\ Handled(r)
           /\ status[request[r].ds] = "uploading"
           /\ Declared[request[r].ds] \in Digests /\ TableTypes
  <1>1. Handled(r) /\ Found(r) /\ TableTypes
    BY DEF Clean, IInv
  <1>2. request[r].live /\ request[r].stage \in Working
    BY <1>1 DEF Handled, PublishStages, Working
  <1> QED
    BY <1>1, <1>2, Publisher DEF Found, Has, RowStages

\* A step of a publisher that changes only its copy
LEMMA CopyStep ==
    ASSUME IInv, TInv, Clean, NEW r \in Requests,
           request[r].stage \in PublishStages \ {"commit"},
           NEW d \in Datasets, request[r].ds = d,
           \A s \in Requests : s # r => request'[s] = request[s],
           UNCHANGED <<status, chunkRow, rows, chunkFile, file, up>>,
           \A e \in Datasets : e # d => tmp'[e] = tmp[e],
           tmp'[d] # None => ClearsTmp(r, d)',
           Handled(r)'
    PROVE  Clean'
  <1>1. request[r].stage \in RowStages
    BY LivePublisher
  <1>2. \A s \in Requests : s # r => Handled(s)'
    BY <1>1, LockedStep
  <1>3. ChunkFacts' /\ FileFacts'
    BY DEF Clean, ChunkFacts, FileFacts
  <1>4. /\ \A e : ~ ClearsDir(r, e)
        /\ \A D : ~ ClearsFile(r, D)
        /\ \A e : e # d => ~ ClearsTmp(r, e)
    <2>1. request[r].stage \notin {"commit", "rmdir", "gc", "unlink"}
      BY DEF PublishStages
    <2> QED
      BY <2>1 DEF ClearsDir, ClearsFile, ClearsTmp
  <1>5. \A e \in Datasets : tmp'[e] # None =>
            ClearsTmp(r, e)' \/ (tmp[e] # None /\ ~ ClearsTmp(r, e))
    BY <1>4
  <1>6. Garbage'
    BY <1>4, <1>5, GarbageStep
  <1> QED
    BY <1>2, <1>3, <1>6 DEF Clean

LEMMA OpenClean ==
    ASSUME DatasetsAssumption, IInv, TInv, Clean, NEW r \in Requests, OpenTmp(r)
    PROVE  Clean'
  <1> DEFINE q == request[r]
             p == [q EXCEPT !.stage = "merge", !.fd = "tmp"]
  <1>1. q.stage = "open" /\ q.stage \in PublishStages \ {"commit"}
    BY DEF OpenTmp, PublishStages
  <1>2. PICK d \in Datasets : q.ds = d /\ SizedPublish(q, d) /\ q.live /\ TableTypes
    BY <1>1, LivePublisher
  <1>3. /\ request' = [request EXCEPT ![r] = p] /\ tmp' = [tmp EXCEPT ![d] = <<>>]
        /\ UNCHANGED <<status, chunkRow, rows, chunkFile, file, up>>
    BY <1>1, <1>2 DEF OpenTmp, tables, TableTypes
  <1>4. /\ p.stage = "merge" /\ p.ds = d /\ p.fd = "tmp" /\ p.live /\ p.next = 0
        /\ p.chunks = q.chunks
    BY <1>1, <1>2 DEF SizedPublish, Publishing
  <1> HIDE DEF p
  <1>5. request'[r] = p /\ \A s \in Requests : s # r => request'[s] = request[s]
    BY <1>2, <1>3, OnlyRequest
  <1>6. \A e \in Datasets : tmp'[e] = IF e = d THEN <<>> ELSE tmp[e]
    BY <1>3 DEF TInv, DiskTypes
  <1>7. Handled(r)'
    BY <1>2, <1>4, <1>5, <1>6, CopiedNone DEF Handled, Copied, Filled
  <1>8. ClearsTmp(r, d)'
    BY <1>4, <1>5 DEF ClearsTmp
  <1> QED
    BY <1>1, <1>2, <1>3, <1>5, <1>6, <1>7, <1>8, CopyStep

LEMMA CopyClean ==
    ASSUME DatasetsAssumption, IInv, TInv, Clean, NEW r \in Requests, CopyChunk(r)
    PROVE  Clean'
  <1> DEFINE q == request[r]
             n == q.next
             last == n = ChunkCount(q.ds) - 1
             p == [q EXCEPT !.stage = IF last THEN "merged" ELSE "merge",
                            !.fd = IF last THEN "none" ELSE q.fd,
                            !.next = n + 1]
  <1>1. q.stage = "merge" /\ q.stage \in PublishStages \ {"commit"}
    BY DEF CopyChunk, PublishStages
  <1>2. PICK d \in Datasets : /\ q.ds = d /\ SizedPublish(q, d) /\ q.live /\ Handled(r)
                              /\ TableTypes
    BY <1>1, LivePublisher
  <1>3. n \in Indexes(d) /\ Len(q.chunks[n]) = Expected(d, n) /\ n + 1 \in Nat
    BY <1>1, <1>2, CountFacts DEF SizedPublish, Publishing, Indexes
  <1>4. q.fd = "tmp" /\ tmp[d] = Copied(d, q.chunks, n)
    BY <1>1, <1>2 DEF Handled
  <1>5. /\ request' = [request EXCEPT ![r] = p]
        /\ tmp' = [tmp EXCEPT ![d] = Written(@, n * ChunkSize[d], q.chunks[n])]
        /\ UNCHANGED <<status, chunkRow, rows, chunkFile, file, up>>
    BY <1>2, <1>4 DEF CopyChunk, tables, TmpAfter, FileAfter
  <1>6. /\ p.ds = d /\ p.live /\ p.chunks = q.chunks /\ p.next = n + 1
        /\ \/ p.stage = "merge" /\ p.fd = "tmp"
           \/ p.stage = "merged" /\ n + 1 = ChunkCount(d)
    BY <1>2, <1>3, <1>4, CountFacts DEF SizedPublish, Publishing
  <1> HIDE DEF p
  <1>7. request'[r] = p /\ \A s \in Requests : s # r => request'[s] = request[s]
    BY <1>2, <1>5, OnlyRequest
  <1>8. /\ \A e \in Datasets : e # d => tmp'[e] = tmp[e]
        /\ tmp'[d] = Written(Copied(d, q.chunks, n), n * ChunkSize[d], q.chunks[n])
    BY <1>4, <1>5 DEF TInv, DiskTypes
  <1>9. tmp'[d] = Copied(d, q.chunks, n + 1)
    BY <1>3, <1>8, CopiedNext
  <1>10. p.stage = "merged" => tmp'[d] = Assembled(d, q.chunks)
    BY <1>3, <1>6, <1>9, CopiedAll
  <1>11. Handled(r)'
    <2>1. /\ request'[r].live
          /\ request'[r].stage \in {"merge", "merged"}
          /\ request'[r].stage = "merge" =>
                 /\ request'[r].fd = "tmp"
                 /\ tmp'[request'[r].ds] =
                        Copied(request'[r].ds, request'[r].chunks, request'[r].next)
          /\ request'[r].stage = "merged" =>
                 tmp'[request'[r].ds] = Assembled(request'[r].ds, request'[r].chunks)
      BY <1>6, <1>7, <1>9, <1>10
    <2> QED
      BY <2>1 DEF Handled, Copied, Assembled, Filled
  <1>12. ClearsTmp(r, d)'
    BY <1>6, <1>7 DEF ClearsTmp
  <1> QED
    BY <1>1, <1>2, <1>5, <1>7, <1>8, <1>11, <1>12, CopyStep

LEMMA GiveUpClean ==
    ASSUME IInv, TInv, Clean, NEW r \in Requests,
           FailMerge(r) \/ RejectDigest(r)
    PROVE  Clean'
  <1> DEFINE q == request[r]
             body == chunkFile[q.ds][q.next]
  <1>1. /\ q.stage \in {"merge", "merged"} /\ q.stage \in PublishStages \ {"commit"}
        /\ q.stage \in RowStages
    BY DEF FailMerge, RejectDigest, PublishStages, RowStages, Working
  <1>2. PICK d \in Datasets : q.ds = d /\ Handled(r)
    BY <1>1, LivePublisher
  <1>3. /\ request' = [Moved("tmp", "gone", {q.ds}) EXCEPT ![r] = Idle]
        /\ tmp' = [tmp EXCEPT ![d] = None]
        /\ UNCHANGED <<status, chunkRow, rows, chunkFile, file, up>>
    BY <1>2 DEF FailMerge, RejectDigest, tables, FileAfter, Handled
  <1>4. request'[r] = Idle /\ \A s \in Requests : s # r => request'[s] = request[s]
    BY <1>1, <1>3, OnlyMoved
  <1>5. /\ \A e \in Datasets : e # d => tmp'[e] = tmp[e]
        /\ tmp'[d] = None
    BY <1>3 DEF TInv, DiskTypes
  <1>6. Handled(r)'
    BY <1>4 DEF Handled, Idle
  <1> QED
    BY <1>1, <1>2, <1>3, <1>4, <1>5, <1>6, CopyStep

LEMMA LockFileClean ==
    ASSUME IInv, TInv, Clean, NEW r \in Requests, LockFile(r)
    PROVE  Clean'
  <1> DEFINE q == request[r]
             p == [q EXCEPT !.stage = IF Declared[q.ds] \in rows THEN "discard"
                                      ELSE "promote"]
  <1>1. q.stage = "merged" /\ q.stage \in PublishStages \ {"commit"}
    BY DEF LockFile, PublishStages
  <1>2. PICK d \in Datasets : /\ q.ds = d /\ SizedPublish(q, d) /\ q.live /\ Handled(r)
                              /\ TableTypes
    BY <1>1, LivePublisher
  <1>3. /\ request' = [request EXCEPT ![r] = p]
        /\ Assembled(q.ds, q.chunks) = Declared[q.ds]
        /\ UNCHANGED <<status, chunkRow, rows, disk, up>>
    BY <1>2 DEF LockFile, tables, TableTypes
  <1>4. /\ p.ds = d /\ p.live
        /\ \/ p.stage = "discard" /\ Declared[d] \in rows
           \/ p.stage = "promote" /\ Declared[d] \notin rows
    BY <1>2 DEF SizedPublish, Publishing
  <1> HIDE DEF p
  <1>5. request'[r] = p /\ \A s \in Requests : s # r => request'[s] = request[s]
    BY <1>2, <1>3, OnlyRequest
  <1>6. tmp[d] = Declared[d]
    BY <1>1, <1>2, <1>3 DEF Handled
  <1>7. Handled(r)'
    BY <1>3, <1>4, <1>5, <1>6 DEF Handled, disk
  <1>8. ClearsTmp(r, d)'
    BY <1>4, <1>5 DEF ClearsTmp
  <1> QED
    BY <1>1, <1>2, <1>3, <1>5, <1>7, <1>8, CopyStep DEF disk

\* A publisher has the file of its digest, whoever stored it.
LEMMA DiscardClean ==
    ASSUME IInv, TInv, Clean, NEW r \in Requests, DiscardTmp(r)
    PROVE  Clean'
  <1> DEFINE q == request[r]
             m == Moved("tmp", "gone", {q.ds})
             p == [q EXCEPT !.stage = "commit"]
  <1>1. /\ q.stage = "discard" /\ q.stage \in PublishStages \ {"commit"}
        /\ q.stage \in RowStages
    BY DEF DiscardTmp, PublishStages, RowStages, Working
  <1>2. PICK d \in Datasets : q.ds = d /\ q.live /\ Handled(r) /\ Declared[d] \in Digests
    BY <1>1, LivePublisher
  <1>3. DOMAIN m = Requests /\ m[r] = q
    BY <1>1 DEF Moved
  <1>4. /\ request' = [m EXCEPT ![r] = p] /\ tmp' = [tmp EXCEPT ![d] = None]
        /\ UNCHANGED <<status, chunkRow, rows, chunkFile, file, up>>
    BY <1>2, <1>3 DEF DiscardTmp, tables
  <1>5. p.stage = "commit" /\ p.ds = d /\ p.live
    BY <1>1, <1>2, Promoter DEF TInv
  <1> HIDE DEF p
  <1>6. request'[r] = p /\ \A s \in Requests : s # r => request'[s] = request[s]
    BY <1>1, <1>4, OnlyMoved
  <1>7. /\ \A e \in Datasets : e # d => tmp'[e] = tmp[e]
        /\ tmp'[d] = None
    BY <1>4 DEF TInv, DiskTypes
  <1>8. file[Declared[d]] = Declared[d]
    BY <1>1, <1>2 DEF Clean, FileFacts, Handled
  <1>9. Handled(r)'
    BY <1>4, <1>5, <1>6, <1>8 DEF Handled
  <1> QED
    BY <1>1, <1>2, <1>4, <1>6, <1>7, <1>9, CopyStep

LEMMA PromoteClean ==
    ASSUME IInv, TInv, Clean, NEW r \in Requests, PromoteTmp(r)
    PROVE  Clean'
  <1> DEFINE q == request[r]
             to == IF file[Declared[q.ds]] # None THEN "gone" ELSE "file"
             m == Moved("tmp", to, {q.ds})
             p == [q EXCEPT !.stage = "commit"]
  <1>1. /\ q.stage = "promote" /\ q.stage \in PublishStages
        /\ q.stage \in RowStages /\ q.stage \in FileStages
    BY DEF PromoteTmp, PublishStages, RowStages, FileStages, Working
  <1>2. PICK d \in Datasets : q.ds = d /\ q.live /\ Handled(r) /\ Declared[d] \in Digests
    BY <1>1, LivePublisher
  <1>3. PICK D \in Digests : D = Declared[d]
    BY <1>2
  <1>4. tmp[d] = D /\ D # None
    <2>1. tmp[d] = D
      BY <1>1, <1>2, <1>3 DEF Handled
    <2>2. D \in Seq(Blocks \cup {Hole})
      BY <1>3, DatasetsAssumption DEF DatasetsAssumption
    <2> QED
      BY <2>1, <2>2, DatasetsAssumption DEF DatasetsAssumption
  <1>5. DOMAIN m = Requests /\ m[r] = q
    BY <1>1 DEF Moved
  <1>6. /\ request' = [m EXCEPT ![r] = p] /\ tmp' = [tmp EXCEPT ![d] = None]
        /\ file' = IF file[D] # None THEN file ELSE [file EXCEPT ![D] = D]
        /\ UNCHANGED <<status, chunkRow, rows, chunkFile, up>>
    BY <1>2, <1>3, <1>4, <1>5 DEF PromoteTmp, tables
  <1>7. p.stage = "commit" /\ p.ds = d /\ p.live
    BY <1>1, <1>2, Promoter DEF TInv
  <1> HIDE DEF p, to
  <1>8. request'[r] = p /\ \A s \in Requests : s # r => request'[s] = request[s]
    BY <1>1, <1>6, OnlyMoved
  <1>9. /\ \A e \in Datasets : tmp'[e] = IF e = d THEN None ELSE tmp[e]
        /\ \A E \in Digests : file'[E] = IF E = D THEN D ELSE file[E]
    BY <1>6 DEF TInv, DiskTypes, Clean, FileFacts
  <1>10. \A s \in Requests : s # r => Handled(s)'
    <2>1. \A e \in Datasets : e # q.ds =>
              tmp'[e] = tmp[e] /\ chunkRow'[e] = chunkRow[e] /\ chunkFile'[e] = chunkFile[e]
      BY <1>2, <1>6, <1>9
    <2>2. \A E \in Digests : E # Declared[q.ds] =>
              file'[E] = file[E] /\ (E \in rows' <=> E \in rows)
      BY <1>2, <1>3, <1>6, <1>9
    <2>3. \A e \in Datasets : status[e] = "deleted" => status'[e] = "deleted"
      BY <1>6
    <2> QED
      BY <1>1, <1>8, <2>1, <2>2, <2>3, LockedStep
  <1>11. Handled(r)'
    BY <1>3, <1>7, <1>8, <1>9 DEF Handled
  <1>12. ChunkFacts' /\ FileFacts'
    BY <1>6, <1>9 DEF Clean, ChunkFacts, FileFacts
  <1>13. Garbage'
    <2>1. /\ \A e : ~ ClearsDir(r, e)
          /\ \A E : ~ ClearsFile(r, E)
          /\ \A e : e # d => ~ ClearsTmp(r, e)
      BY <1>1, <1>2 DEF ClearsDir, ClearsFile, ClearsTmp
    <2>2. ClearsFile(r, D)'
      BY <1>3, <1>7, <1>8 DEF ClearsFile
    <2>3. \A e \in Datasets : tmp'[e] # None =>
              ClearsTmp(r, e)' \/ (tmp[e] # None /\ ~ ClearsTmp(r, e))
      BY <1>9, <2>1
    <2>4. \A E \in Digests : file'[E] # None =>
              \/ E \in rows' \/ ClearsFile(r, E)'
              \/ file[E] # None /\ E \notin rows /\ ~ ClearsFile(r, E)
      BY <1>6, <1>9, <2>1, <2>2
    <2> QED
      BY <1>6, <1>8, <2>1, <2>3, <2>4, GarbageStep
  <1> QED
    BY <1>10, <1>11, <1>12, <1>13 DEF Clean

LEMMA CommitPublishClean ==
    ASSUME IInv, TInv, Clean, NEW r \in Requests, CommitPublish(r)
    PROVE  Clean'
  <1> DEFINE q == request[r]
  <1>1. /\ q.stage = "commit" /\ q.stage \in PublishStages
        /\ q.stage \in RowStages /\ q.stage \in FileStages
    BY DEF CommitPublish, PublishStages, RowStages, FileStages, Working
  <1>2. PICK d \in Datasets : /\ q.ds = d /\ Handled(r) /\ Declared[d] \in Digests
                              /\ TableTypes /\ status[d] = "uploading"
    BY <1>1, LivePublisher
  <1>3. PICK D \in Digests : D = Declared[d]
    BY <1>2
  <1>4. file[D] = D
    BY <1>1, <1>2, <1>3 DEF Handled
  <1>5. /\ request' = [request EXCEPT ![r] = Idle] /\ rows' = rows \cup {D}
        /\ status' = [status EXCEPT ![d] = "published"]
        /\ UNCHANGED <<chunkRow, disk, up>>
    BY <1>2, <1>3 DEF CommitPublish
  <1>6. request'[r] = Idle /\ \A s \in Requests : s # r => request'[s] = request[s]
    BY <1>2, <1>5, OnlyRequest
  <1>7. \A e \in Datasets : status'[e] = IF e = d THEN "published" ELSE status[e]
    BY <1>2, <1>5 DEF TableTypes
  <1>8. \A s \in Requests : s # r => Handled(s)'
    BY <1>1, <1>2, <1>3, <1>5, <1>6, <1>7, LockedStep DEF disk
  <1>9. Handled(r)'
    BY <1>6 DEF Handled, Idle
  <1>10. ChunkFacts' /\ FileFacts'
    BY <1>2, <1>4, <1>5, <1>7 DEF Clean, ChunkFacts, FileFacts, disk
  <1>11. Garbage'
    <2>1. /\ \A e : ~ ClearsDir(r, e) /\ ~ ClearsTmp(r, e)
          /\ \A E : E # D => ~ ClearsFile(r, E)
      BY <1>1, <1>2, <1>3 DEF ClearsDir, ClearsFile, ClearsTmp
    <2>2. \A E \in Digests : file'[E] # None =>
              \/ E \in rows' \/ ClearsFile(r, E)'
              \/ file[E] # None /\ E \notin rows /\ ~ ClearsFile(r, E)
      BY <1>5, <2>1 DEF disk
    <2> QED
      BY <1>2, <1>5, <1>6, <1>7, <2>1, <2>2, GarbageStep DEF disk
  <1> QED
    BY <1>8, <1>9, <1>10, <1>11 DEF Clean

\* What a delete has that no client has left
LEMMA LiveDeleter ==
    ASSUME IInv, TInv, Clean, NEW r \in Requests, request[r].stage \in Deleting
    PROVE  /\ request[r] \in Others /\ request[r].live /\ request[r].ds \in Datasets
           /\ Declared[request[r].ds] \in Digests /\ Handled(r) /\ Found(r) /\ TableTypes
  <1>1. Handled(r) /\ Found(r) /\ TableTypes /\ Shape(r)
    BY DEF Clean, IInv
  <1>2. request[r].stage # "idle"
    BY DEF Deleting
  <1> QED
    BY <1>1, <1>2, Deleter DEF Handled, Shape

LEMMA QuietDeleteClean ==
    ASSUME IInv, TInv, Clean, NEW r \in Requests,
           CountSharing(r) \/ CheckOrphan(r) \/ CommitBind(r)
    PROVE  Clean'
  <1> DEFINE q == request[r]
  <1>1. /\ q.stage \in {"release", "gc", "bind"} /\ q.stage \in Deleting
        /\ UNCHANGED <<status, chunkRow, rows, disk, up>>
    BY DEF CountSharing, CheckOrphan, CommitBind, tables, Deleting
  <1>2. q \in Others /\ q.live /\ TableTypes
    BY <1>1, LiveDeleter
  <1>3. PICK D \in Digests : D = Declared[q.ds]
    BY <1>1, LiveDeleter
  <1> DEFINE Next1(p) ==
                 /\ request' = [request EXCEPT ![r] = p]
                 /\ \/ p = Idle /\ (q.stage = "gc" => D \in rows)
                    \/ p.stage = "drop" /\ p.live /\ q.stage = "release"
                    \/ /\ p.stage = "unlink" /\ p.live /\ q.stage = "gc" /\ p.ds = q.ds
                       /\ p.orphan = q.orphan /\ D \notin rows
  <1>4. \E p : Next1(p)
    <2>1. CASE CountSharing(r)
      <3> DEFINE p == [q EXCEPT !.stage = "drop", !.orphan = Sharing(q.ds) = {}]
      <3>1. request' = [request EXCEPT ![r] = p] /\ q.stage = "release"
        BY <1>2, <2>1 DEF CountSharing, TableTypes
      <3>2. p.stage = "drop" /\ p.live
        BY <1>2 DEF Others
      <3> HIDE DEF p
      <3> QED
        BY <3>1, <3>2
    <2>2. CASE CheckOrphan(r) /\ Orphan(D)
      <3> DEFINE p == [q EXCEPT !.stage = "unlink"]
      <3>1. request' = [request EXCEPT ![r] = p] /\ q.stage = "gc"
        BY <1>2, <1>3, <2>2 DEF CheckOrphan, TableTypes
      <3>2. p.stage = "unlink" /\ p.live /\ p.ds = q.ds /\ p.orphan = q.orphan
        BY <1>2 DEF Others
      <3> HIDE DEF p
      <3> QED
        BY <2>2, <3>1, <3>2 DEF Orphan
    <2>3. CASE CheckOrphan(r) /\ ~ Orphan(D)
      <3>1. request' = [request EXCEPT ![r] = Idle] /\ D \in rows
        BY <1>3, <2>3 DEF CheckOrphan, Orphan
      <3> QED
        BY <3>1
    <2>4. CASE CommitBind(r)
      <3>1. request' = [request EXCEPT ![r] = Idle] /\ q.stage = "bind"
        BY <2>4 DEF CommitBind
      <3> QED
        BY <3>1
    <2> QED
      BY <2>1, <2>2, <2>3, <2>4
  <1> PICK p : Next1(p)
    BY <1>4
  <1>5. request'[r] = p /\ \A s \in Requests : s # r => request'[s] = request[s]
    BY <1>2, OnlyRequest
  <1>6. Handled(r)'
    BY <1>1, <1>3, <1>5 DEF Handled, Idle
  <1>7. \A e : ~ ClearsTmp(r, e) /\ ~ ClearsDir(r, e)
    BY <1>1 DEF ClearsTmp, ClearsDir
  <1>8. \A E \in Digests : ClearsFile(r, E) => E \in rows \/ ClearsFile(r, E)'
    <2>1. SUFFICES ASSUME ClearsFile(r, D)
                   PROVE  D \in rows \/ ClearsFile(r, D)'
      BY <1>3 DEF ClearsFile
    <2>2. q.stage = "gc" /\ q.orphan
      BY <1>1, <2>1 DEF ClearsFile
    <2> QED
      BY <1>3, <1>5, <2>2 DEF ClearsFile
  <1> QED
    BY <1>1, <1>5, <1>6, <1>7, <1>8, QuietClean

\* A dataset that is deleted leaves its directory, and the file when it was
\* the last to use it, to its handler.
LEMMA CommitDeleteClean ==
    ASSUME IInv, TInv, Clean, NEW r \in Requests, CommitDelete(r)
    PROVE  Clean'
  <1> DEFINE q == request[r]
             p == [q EXCEPT !.stage = "rmdir"]
  <1>1. /\ q.stage \in {"release", "drop"} /\ q.stage \in Deleting
        /\ q.stage \in RowStages
    BY DEF CommitDelete, Deleting, RowStages
  <1>2. /\ q \in Others /\ q.live /\ TableTypes
        /\ q.stage = "release" => ~ q.orphan
        /\ q.stage = "drop" => q.stage \in FileStages
    BY <1>1, LiveDeleter DEF Found, Has, FileStages
  <1>3. PICK d \in Datasets : d = q.ds /\ Declared[d] \in Digests
    BY <1>1, LiveDeleter
  <1>4. PICK D \in Digests : D = Declared[d]
    BY <1>3
  <1>5. /\ request' = [request EXCEPT ![r] = p]
        /\ status' = [status EXCEPT ![d] = "deleted"]
        /\ chunkRow' = [chunkRow EXCEPT ![d] = NoChunks(d)]
        /\ rows' = IF q.orphan THEN rows \ {D} ELSE rows
        /\ UNCHANGED <<disk, up>>
    BY <1>2, <1>3, <1>4 DEF CommitDelete, TableTypes
  <1>6. p.stage = "rmdir" /\ p.live /\ p.ds = d /\ p.orphan = q.orphan
    BY <1>2, <1>3 DEF Others
  <1> HIDE DEF p
  <1>7. request'[r] = p /\ \A s \in Requests : s # r => request'[s] = request[s]
    BY <1>2, <1>5, OnlyRequest
  <1>8. /\ \A e \in Datasets : status'[e] = IF e = d THEN "deleted" ELSE status[e]
        /\ \A e \in Datasets : e # d => chunkRow'[e] = chunkRow[e]
    BY <1>2, <1>5 DEF TableTypes, TInv, RowTypes
  <1>9. \A s \in Requests : s # r => Handled(s)'
    <2>1. \A e \in Datasets : e # q.ds =>
              tmp'[e] = tmp[e] /\ chunkRow'[e] = chunkRow[e] /\ chunkFile'[e] = chunkFile[e]
      BY <1>3, <1>5, <1>8 DEF disk
    <2>2. \/ UNCHANGED <<file, rows>>
          \/ /\ q.stage \in FileStages
             /\ \A E \in Digests : E # Declared[q.ds] =>
                    file'[E] = file[E] /\ (E \in rows' <=> E \in rows)
      BY <1>1, <1>2, <1>3, <1>4, <1>5 DEF disk
    <2> QED
      BY <1>1, <1>7, <1>8, <2>1, <2>2, LockedStep
  <1>10. Handled(r)'
    BY <1>6, <1>7, <1>8 DEF Handled
  <1>11. ChunkFacts' /\ FileFacts'
    BY <1>5, <1>8 DEF Clean, ChunkFacts, FileFacts, disk
  <1>12. Garbage'
    <2>1. \A e : ~ ClearsDir(r, e) /\ ~ ClearsTmp(r, e) /\ ~ ClearsFile(r, e)
      BY <1>1 DEF ClearsDir, ClearsFile, ClearsTmp
    <2>2. ClearsDir(r, d)' /\ (q.orphan => ClearsFile(r, D)')
      BY <1>4, <1>6, <1>7 DEF ClearsDir, ClearsFile
    <2>3. \A E \in Digests : file'[E] # None =>
              \/ E \in rows' \/ ClearsFile(r, E)'
              \/ file[E] # None /\ E \notin rows /\ ~ ClearsFile(r, E)
      BY <1>5, <2>1, <2>2 DEF disk
    <2>4. \A e \in Datasets : status'[e] = "deleted" =>
              \/ chunkFile'[e] = NoChunks(e) \/ ClearsDir(r, e)'
              \/ /\ status[e] = "deleted" /\ chunkFile[e] # NoChunks(e)
                 /\ ~ ClearsDir(r, e)
      BY <1>5, <1>8, <2>1, <2>2 DEF disk
    <2>5. \A e \in Datasets : tmp'[e] # None =>
              ClearsTmp(r, e)' \/ (tmp[e] # None /\ ~ ClearsTmp(r, e))
      BY <1>5, <2>1 DEF disk
    <2> QED
      BY <1>5, <1>7, <2>3, <2>4, <2>5, GarbageStep
  <1> QED
    BY <1>9, <1>10, <1>11, <1>12 DEF Clean

\* The directory of a deleted dataset is nobody else's.
LEMMA RemoveDirClean ==
    ASSUME IInv, TInv, Clean, NEW r \in Requests, RemoveChunkDir(r)
    PROVE  Clean'
  <1> DEFINE q == request[r]
             p == IF q.orphan THEN [q EXCEPT !.stage = "gc"] ELSE Idle
  <1>1. q.stage = "rmdir" /\ q.stage \in Deleting
    BY DEF RemoveChunkDir, Deleting
  <1>2. q \in Others /\ q.live /\ TableTypes /\ Handled(r)
    BY <1>1, LiveDeleter
  <1>3. PICK d \in Datasets : d = q.ds /\ status[d] = "deleted"
    BY <1>1, LiveDeleter DEF Handled
  <1>4. /\ request' = [request EXCEPT ![r] = p]
        /\ chunkFile' = [chunkFile EXCEPT ![d] = NoChunks(d)]
        /\ UNCHANGED <<status, chunkRow, rows, tmp, file, up>>
    BY <1>2, <1>3 DEF RemoveChunkDir, tables, TableTypes
  <1>5. \/ p = Idle /\ ~ q.orphan
        \/ p.stage = "gc" /\ p.live /\ p.ds = d /\ p.orphan /\ q.orphan
    BY <1>2, <1>3 DEF Others
  <1> HIDE DEF p
  <1>6. request'[r] = p /\ \A s \in Requests : s # r => request'[s] = request[s]
    BY <1>2, <1>4, OnlyRequest
  <1>7. \A e \in Datasets : chunkFile'[e] = IF e = d THEN NoChunks(d) ELSE chunkFile[e]
    BY <1>4 DEF TInv, DiskTypes
  <1>8. \A s \in Requests : s # r => Handled(s)'
    <2>1. ASSUME NEW s \in Requests, request[s].stage \in Working
          PROVE  chunkFile'[request[s].ds] = chunkFile[request[s].ds]
      <3>1. Handled(s) /\ Found(s) /\ Shape(s)
        BY DEF Clean, IInv
      <3>2. request[s].ds \in Datasets /\ status[request[s].ds] = "uploading"
        BY <2>1, <3>1 DEF Handled, Found, Shape, Has, Working
      <3> QED
        BY <1>3, <1>7, <3>2
    <2> QED
      BY <1>4, <1>6, <2>1, OthersHandled
  <1>9. Handled(r)'
    BY <1>5, <1>6 DEF Handled, Idle
  <1>10. ChunkFacts' /\ FileFacts'
    BY <1>3, <1>4, <1>7 DEF Clean, ChunkFacts, FileFacts, Indexes
  <1>11. Garbage'
    <2>1. /\ \A e : ~ ClearsTmp(r, e)
          /\ \A e : e # d => ~ ClearsDir(r, e)
      BY <1>1, <1>3 DEF ClearsDir, ClearsTmp
    <2>2. ASSUME NEW E \in Digests, ClearsFile(r, E)
          PROVE  ClearsFile(r, E)'
      BY <1>1, <1>3, <1>5, <1>6, <2>2 DEF ClearsFile
    <2>3. \A E \in Digests : file'[E] # None =>
              \/ E \in rows' \/ ClearsFile(r, E)'
              \/ file[E] # None /\ E \notin rows /\ ~ ClearsFile(r, E)
      BY <1>4, <2>2
    <2>4. \A e \in Datasets : status'[e] = "deleted" =>
              \/ chunkFile'[e] = NoChunks(e) \/ ClearsDir(r, e)'
              \/ /\ status[e] = "deleted" /\ chunkFile[e] # NoChunks(e)
                 /\ ~ ClearsDir(r, e)
      BY <1>4, <1>7, <2>1
    <2>5. \A e \in Datasets : tmp'[e] # None =>
              ClearsTmp(r, e)' \/ (tmp[e] # None /\ ~ ClearsTmp(r, e))
      BY <1>4, <2>1
    <2> QED
      BY <1>4, <1>6, <2>3, <2>4, <2>5, GarbageStep
  <1> QED
    BY <1>8, <1>9, <1>10, <1>11 DEF Clean

\* A file is taken away under the lock of its digest, which has no row.
LEMMA UnlinkClean ==
    ASSUME IInv, TInv, Clean, NEW r \in Requests, UnlinkFile(r)
    PROVE  Clean'
  <1> DEFINE q == request[r]
  <1>1. q.stage = "unlink" /\ q.stage \in Deleting /\ q.stage \in FileStages
    BY DEF UnlinkFile, Deleting, FileStages
  <1>2. PICK D \in Digests : D = Declared[q.ds] /\ D \notin rows
    BY <1>1, LiveDeleter DEF Handled
  <1> DEFINE m == Moved("file", "gone", Sharers(D))
  <1>3. /\ request' = [m EXCEPT ![r] = Idle]
        /\ file' = [file EXCEPT ![D] = None]
        /\ UNCHANGED <<status, chunkRow, rows, chunkFile, tmp, up>>
    BY <1>2 DEF UnlinkFile, tables
  <1>4. DOMAIN m = Requests /\ \A s \in Requests : s # r => m[s] = request[s]
    BY NoFileMoved
  <1> HIDE DEF m
  <1>5. request'[r] = Idle /\ \A s \in Requests : s # r => request'[s] = request[s]
    BY <1>3, <1>4
  <1>6. \A E \in Digests : file'[E] = IF E = D THEN None ELSE file[E]
    BY <1>3 DEF TInv, DiskTypes
  <1>7. \A s \in Requests : s # r => Handled(s)'
    <2>1. ASSUME NEW s \in Requests, s # r, request[s].stage \in FileStages
          PROVE  file'[Declared[request[s].ds]] = file[Declared[request[s].ds]]
      <3>1. request[s].ds \in Datasets
        BY <2>1 DEF IInv, Shape, FileStages
      <3>2. Declared[request[s].ds] \in Digests /\ Declared[request[s].ds] # D
        BY <1>1, <1>2, <2>1, <3>1, FilePrivate DEF Digests
      <3> QED
        BY <1>6, <3>2
    <2> QED
      BY <1>3, <1>5, <2>1, OthersHandled
  <1>8. Handled(r)'
    BY <1>5 DEF Handled, Idle
  <1>9. ChunkFacts' /\ FileFacts'
    BY <1>2, <1>3, <1>6 DEF Clean, ChunkFacts, FileFacts
  <1>10. Garbage'
    <2>1. /\ \A e : ~ ClearsTmp(r, e) /\ ~ ClearsDir(r, e)
          /\ \A E : E # D => ~ ClearsFile(r, E)
      BY <1>1, <1>2 DEF ClearsDir, ClearsTmp, ClearsFile
    <2>2. \A E \in Digests : file'[E] # None =>
              \/ E \in rows' \/ ClearsFile(r, E)'
              \/ file[E] # None /\ E \notin rows /\ ~ ClearsFile(r, E)
      BY <1>3, <1>6, <2>1
    <2> QED
      BY <1>3, <1>5, <2>1, <2>2, GarbageStep
  <1> QED
    BY <1>7, <1>8, <1>9, <1>10 DEF Clean

\* Nobody gives up, and a restart clears away what the handlers had not.
LEMMA AbandonClean ==
    ASSUME Clean, NEW r \in Requests, Abandon(r)
    PROVE  FALSE
  BY DEF Clean, Handled, Abandon

LEMMA RestartClean ==
    ASSUME DatasetsAssumption, IInv, TInv, Clean, Crash \/ Recover
    PROVE  Clean'
  <1>1. CASE Crash
    <2>1. /\ \A r \in Requests : request'[r] = Idle
          /\ ~ up' /\ UNCHANGED <<status, chunkRow, rows, disk>>
      BY <1>1 DEF Crash, tables
    <2>2. \A r \in Requests : Handled(r)'
      BY <2>1 DEF Handled, Idle
    <2>3. ChunkFacts' /\ FileFacts'
      BY <2>1 DEF Clean, ChunkFacts, FileFacts, disk
    <2> QED
      BY <2>1, <2>2, <2>3 DEF Clean, Garbage
  <1>2. CASE Recover
    <2>1. /\ UNCHANGED <<status, chunkRow, rows, request>>
          /\ \A r \in Requests : request[r] = Idle
          /\ tmp' = [d \in Datasets |-> None]
          /\ file' = [D \in Digests |-> Swept(D)]
          /\ chunkFile' = [d \in Datasets |->
                 IF status[d] = "deleted" THEN NoChunks(d) ELSE chunkFile[d]]
      BY <1>2 DEF Recover, tables, TInv, Down
    <2>2. \A r \in Requests : Handled(r)'
      BY <2>1 DEF Handled, Idle
    <2>3. ChunkFacts' /\ FileFacts'
      BY <2>1 DEF Clean, ChunkFacts, FileFacts, Swept
    <2>4. Garbage'
      BY <2>1 DEF Garbage, Clean, FileFacts, Swept
    <2> QED
      BY <2>2, <2>3, <2>4 DEF Clean
  <1> QED
    BY <1>1, <1>2

LEMMA InitClean == DatasetsAssumption /\ Init => Clean
  <1> SUFFICES ASSUME DatasetsAssumption, Init PROVE Clean
    OBVIOUS
  <1>1. \A r \in Requests : Handled(r)
    BY DEF Init, Handled, Idle
  <1>2. ChunkFacts
    BY DEF Init, ChunkFacts, NoChunks
  <1>3. FileFacts /\ Garbage
    BY DEF Init, FileFacts, Garbage
  <1> QED
    BY <1>1, <1>2, <1>3 DEF Clean

CInv == ~ disturbed => Clean

LEMMA CleanNext == DatasetsAssumption /\ IInv /\ TInv /\ CInv /\ [Next]_vars => CInv'
  <1> SUFFICES ASSUME DatasetsAssumption, IInv, TInv, CInv, [Next]_vars, ~ disturbed'
               PROVE  Clean'
    BY DEF CInv
  <1>1. ASSUME NEW r \in Requests, Cancel(r)
        PROVE  FALSE
    BY <1>1 DEF Cancel
  <1>2. ~ disturbed
    <2>1. disturbed' = disturbed \/ \E r \in Requests : Cancel(r)
      BY DEF Next, Step, Arrive, Create, Unbind, BeginUpload, BeginPublish, BeginDelete,
         BeginBind, WriteChunk, CommitChunk, OpenTmp, CopyChunk, FailMerge, RejectDigest,
         LockFile, DiscardTmp, PromoteTmp, CommitPublish, CountSharing, CommitDelete,
         RemoveChunkDir, CheckOrphan, UnlinkFile, CommitBind, Abandon, Crash, Recover, vars
    <2> QED
      BY <1>1, <2>1
  <1>3. Clean
    BY <1>2 DEF CInv
  <1>4. ASSUME NEW r \in Requests, Step(r)
        PROVE  Clean'
    BY <1>3, <1>4, UploadClean, OpenClean, CopyClean, GiveUpClean, LockFileClean,
       DiscardClean, PromoteClean, CommitPublishClean, QuietDeleteClean, CommitDeleteClean,
       RemoveDirClean, UnlinkClean, AbandonClean DEF Step
  <1>5. CASE UNCHANGED vars
    <2>1. UNCHANGED <<status, chunkRow, rows, disk, request, up>>
      BY <1>5 DEF vars, tables
    <2>2. \A r \in Requests : Handled(r)'
      BY <1>3, <2>1 DEF Clean, Handled, disk
    <2>3. ChunkFacts' /\ FileFacts'
      BY <1>3, <2>1 DEF Clean, ChunkFacts, FileFacts, disk
    <2>4. Garbage'
      BY <1>3, <2>1 DEF Clean, Garbage, ClearsTmp, ClearsFile, ClearsDir, disk
    <2> QED
      BY <2>2, <2>3, <2>4 DEF Clean
  <1> QED
    BY <1>1, <1>3, <1>4, <1>5, ArriveClean, RowStepClean, RestartClean DEF Next

LEMMA Invariance == Spec => [](IInv /\ TInv /\ CInv)
  <1>1. Init => IInv /\ TInv /\ CInv
    BY DatasetsAssumption, InitInv, TypesInit, InitClean DEF CInv
  <1>2. IInv /\ TInv /\ CInv /\ [Next]_vars => (IInv /\ TInv /\ CInv)'
    BY DatasetsAssumption, NextPreserves, TypesNext, CleanNext
  <1> QED
    BY <1>1, <1>2, PTL DEF Spec

\* Every row, chunk, copy, stored file and request handler has its type. What
\* the theorem is about is the size of a file: no merge writes beyond the
\* content that its dataset declares, into the copy or into a stored file,
\* whatever clients leave, because each accepted chunk has the size that its
\* index calls for (datasets.go:164-175, filestore.go:105-137).
THEOREM TypesHold == Spec => []TypeOK
  <1>1. IInv /\ TInv => TypeOK
    <2> SUFFICES ASSUME IInv, TInv PROVE TypeOK
      OBVIOUS
    <2>1. rows \subseteq Digests
      BY DEF IInv, RowsAreReferenced, Digests
    <2>2. ASSUME NEW r \in Requests
          PROVE  \/ request[r] \in {Idle} \cup Others
                 \/ \E d \in Datasets : request[r] \in Uploading(d)
                 \/ \E d \in Datasets : request[r] \in Publishing(d)
      BY DEF TInv, RequestTypes, Formed, SizedUpload, SizedPublish
    <2> QED
      BY <2>1, <2>2 DEF TypeOK, IInv, TableTypes, TInv, RowTypes, DiskTypes, RequestTypes,
         Sized
  <1> QED
    BY <1>1, Invariance, PTL

\* As long as no client leaves, a files row has its file with exactly the
\* content of its digest: publishers of one digest that race, a collector that
\* races a publisher and a crash anywhere between the rename and the commit
\* never leave a row with a torn file or with none (filestore.go:19-22,
\* 143-151, files.go:26-29).
THEOREM FilesAreWhole == Spec => []CommittedFileIsWhole
  <1>1. IInv /\ CInv => CommittedFileIsWhole
    BY DEF IInv, CInv, Clean, FileFacts, CommittedFileIsWhole, RowsAreReferenced, Digests
  <1> QED
    BY <1>1, Invariance, PTL

\* As long as no client leaves, the chunk on disk is the one whose digest was
\* recorded: two uploads of one index never mix, because the row lock outlives
\* the write (datasets.go:140-208, filestore.go:57-59).
THEOREM ChunksAreAcknowledged == Spec => []ChunksMatchRows
  <1>1. CInv => ChunksMatchRows
    BY DEF CInv, Clean, ChunkFacts, ChunksMatchRows
  <1> QED
    BY <1>1, Invariance, PTL

\* As long as no client leaves, a server at rest has no merge output, no stored
\* file without a row and no chunk of a deleted dataset: whatever was begun is
\* cleared away by its handler, or by recovery after a crash (datasets.go:329-382,
\* files.go:107-127).
THEOREM NoGarbage == Spec => []RestIsClean
  <1>1. TInv /\ CInv => RestIsClean
    <2> SUFFICES ASSUME CInv, up, ~ disturbed, Running = {}
                 PROVE  /\ \A d \in Datasets : tmp[d] = None
                        /\ \A D \in Digests : file[D] # None => D \in rows
                        /\ \A d \in Datasets :
                               status[d] = "deleted" => chunkFile[d] = NoChunks(d)
      BY DEF RestIsClean
    <2>1. \A r \in Requests : request[r].stage = "idle"
      BY DEF Running, Idle
    <2>2. \A r \in Requests : \A e :
              ~ ClearsTmp(r, e) /\ ~ ClearsDir(r, e) /\ ~ ClearsFile(r, e)
      BY <2>1 DEF ClearsTmp, ClearsDir, ClearsFile
    <2> QED
      BY <2>2 DEF CInv, Clean, Garbage
  <1> QED
    BY <1>1, Invariance, PTL
==============================================================================
