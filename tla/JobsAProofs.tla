----------------------------- MODULE JobsAProofs -----------------------------
(***************************************************************************)
(* For any contents, requests and bounds: the baseline, the progress and   *)
(* the verdicts of JobsA are right (JobsSound).                            *)
(***************************************************************************)
EXTENDS JobsA, FiniteSetTheorems, TLAPS

\* What the parameters may be: a content is a sequence of digests.
Digests == UNION {{c[k] : k \in DOMAIN c} : c \in Contents}
Parameters == Contents \subseteq Seq(Digests)

Identities == [ino : Nat, stamp : Nat, size : Nat]
JobRows == [status : {"pending", "running", "paused", "completed", "failed"},
            processed : Nat, result : {"none", "match", "mismatch"}]
ChunkRows == [seq : Nat, off : Nat, sum : Digests]
Registering == [at : {"register"}, id : Identities, got : Seq(Digests)]
Opening == [at : {"open"}, job : JobRows]
Reading == [at : {"rows", "recheck", "seq", "read"}, job : JobRows, id : Identities,
            got : Seq(Digests), seq : Nat, rows : Seq(ChunkRows)]

TypeInv ==
    /\ inodes \in Seq([stamp : Nat, content : Contents]) /\ Len(inodes) > 0
    /\ evidence = None \/ evidence \in [id : Identities, content : Seq(Digests)]
    /\ job = None \/ job \in JobRows
    /\ chunks \in Seq(ChunkRows)
    /\ events \in Seq({"match", "mismatch"})
    /\ \A r \in Requests :
           request[r] = Idle \/ request[r] \in Registering \cup Opening \cup Reading
    /\ DOMAIN request = Requests
    /\ history \in [registered : Seq(Digests), judged : Seq(Digests),
                    overlapped : BOOLEAN, stamp : Nat]

\* While the file that a request has open keeps its stamp, what the request
\* has read of it is what it contains.
ReadsTrue(q) ==
    LET file == inodes[q.id.ino] IN
    /\ q.id.ino \in DOMAIN inodes
    /\ q.id.stamp <= history.stamp
    /\ file.stamp = q.id.stamp =>
           /\ q.id.size = Len(file.content)
           /\ Len(q.got) <= Len(file.content)
           /\ \A k \in 1 .. Len(q.got) : q.got[k] = file.content[k]
ReadingIsTrue ==
    /\ \A i \in DOMAIN inodes : inodes[i].stamp <= history.stamp
    /\ \A r \in Requests : request[r].at \notin {"idle", "open"} => ReadsTrue(request[r])

\* What the row of the job and that of the image say, and what runs need.
VerdictInv ==
    /\ evidence # None => evidence.content = history.registered
    /\ job # None => evidence # None
    /\ Running # {} => job # None
    /\ \A r \in Running : request[r].job.status # "completed"
    /\ job # None /\ job.status = "completed" =>
           /\ job.result = (IF history.judged = evidence.content THEN "match"
                            ELSE "mismatch")
           /\ events # <<>>

\* One run at a time: its copy is the row, and the chunks are its progress.
RunAlone(q) ==
    /\ q.job = job
    /\ q.at = "open" => job.status \in {"pending", "paused"}
    /\ q.at # "open" => job.status = "running"
    /\ q.at = "rows" => q.got = <<>>
    /\ q.at = "recheck" =>
           \A i \in 1 .. Len(q.rows) : \E k \in 1 .. Len(chunks) : q.rows[i] = chunks[k]
    /\ q.at \in {"recheck", "seq", "read"} =>
           /\ Len(q.got) <= Len(chunks)
           /\ \A k \in 1 .. Len(q.got) : q.got[k] = chunks[k].sum
    /\ q.at \in {"seq", "read"} => Len(q.got) = Len(chunks)

Alone ==
    /\ \A r, s \in Running : r = s
    /\ \A r \in Running : RunAlone(request[r])
    /\ \A k \in 1 .. Len(chunks) : chunks[k].off = k - 1
    /\ job = None => chunks = <<>> /\ events = <<>>
    /\ job # None =>
           /\ Len(chunks) = job.processed
           /\ job.status = "completed" =>
                  \A k \in 1 .. Len(chunks) : chunks[k].sum = history.judged[k]
           /\ events = IF job.status = "completed" THEN <<job.result>> ELSE <<>>

IInv == TypeInv /\ ReadingIsTrue /\ VerdictInv /\ (history.overlapped \/ Alone)

-----------------------------------------------------------------------------
LEMMA Appended ==
    ASSUME NEW S, NEW s \in Seq(S), NEW e \in S, NEW t, t = Append(s, e)
    PROVE  /\ t \in Seq(S)
           /\ Len(s) \in Nat /\ Len(t) = Len(s) + 1
           /\ \A k \in 1 .. Len(s) : t[k] = s[k]
           /\ t[Len(s) + 1] = e
           /\ \A k \in 1 .. Len(t) : k \in 1 .. Len(s) \/ k = Len(s) + 1
OBVIOUS

\* What the state of a request says of its fields
LEMMA Kinds ==
    ASSUME TypeInv, NEW r \in Requests
    PROVE  /\ request[r].at \in {"idle", "register", "open", "rows", "recheck", "seq", "read"}
           /\ request[r].at = "idle" <=> request[r] = Idle
           /\ request[r].at = "register" => request[r] \in Registering
           /\ request[r].at = "open" => request[r] \in Opening
           /\ request[r].at \in {"rows", "recheck", "seq", "read"} => request[r] \in Reading
BY DEF TypeInv, Idle, Registering, Opening, Reading

\* A chunk read from a file, and the identity of one
LEMMA FilesRead ==
    ASSUME Parameters, TypeInv
    PROVE  /\ \A c \in Contents : c \in Seq(Digests) /\ Len(c) \in Nat
           /\ \A i \in DOMAIN inodes :
                  /\ i \in Nat
                  /\ inodes[i].stamp \in Nat /\ inodes[i].content \in Contents
                  /\ inodes[i].content \in Seq(Digests)
                  /\ IdentityOf(i) \in Identities
           /\ Len(inodes) \in DOMAIN inodes
           /\ OpenReadOnly \in Identities /\ OpenReadOnly.ino = Len(inodes)
<1>1. \A c \in Contents : c \in Seq(Digests) /\ Len(c) \in Nat
    BY DEF Parameters
<1>2. /\ Len(inodes) \in Nat /\ DOMAIN inodes = 1 .. Len(inodes)
      /\ \A i \in 1 .. Len(inodes) : inodes[i] \in [stamp : Nat, content : Contents]
      /\ Len(inodes) > 0
  <2> DEFINE Files == [stamp : Nat, content : Contents]
  <2>1. inodes \in Seq(Files) /\ Len(inodes) > 0
    BY DEF TypeInv
  <2> HIDE DEF Files
  <2>2. /\ Len(inodes) \in Nat /\ DOMAIN inodes = 1 .. Len(inodes)
        /\ \A i \in 1 .. Len(inodes) : inodes[i] \in Files
    BY <2>1
  <2> QED  BY <2>1, <2>2 DEF Files
<1> QED  BY <1>1, <1>2 DEF OpenReadOnly, IdentityOf, Identities

\* A request's new state among the others' old ones
LEMMA OneRequest ==
    ASSUME TypeInv, NEW r \in Requests, NEW q,
           q = Idle \/ q \in Registering \cup Opening \cup Reading,
           request' = [request EXCEPT ![r] = q]
    PROVE  /\ DOMAIN request' = Requests
           /\ \A s \in Requests :
                  request'[s] = Idle \/ request'[s] \in Registering \cup Opening \cup Reading
           /\ request'[r] = q
           /\ \A s \in Requests : s # r => request'[s] = request[s]
BY DEF TypeInv

\* The sequence numbers of the chunks are a finite set.
LEMMA SeqNumber ==
    ASSUME TypeInv
    PROVE  Cardinality({chunks[i].seq : i \in DOMAIN chunks}) \in Nat
<1> DEFINE S == {chunks[i].seq : i \in DOMAIN chunks}
           f == [i \in DOMAIN chunks |-> chunks[i].seq]
<1>1. f \in Surjection(DOMAIN chunks, S)
    BY DEF Surjection
<1>2. DOMAIN chunks = 1 .. Len(chunks) /\ Len(chunks) \in Nat
    BY DEF TypeInv
<1>3. IsFiniteSet(DOMAIN chunks)
    BY <1>2, FS_Interval
<1>4. IsFiniteSet(S)
    BY <1>1, <1>3, FS_Surjection DEF ExistsSurjection
<1> QED  BY <1>4, FS_CardinalityType

LEMMA SaveTypes ==
    ASSUME TypeInv, NEW r \in Requests, request[r].at \notin {"idle", "register"},
           NEW status \in {"paused", "failed"}, Save(r, status)
    PROVE  TypeInv'
<1>1. request[r].job \in JobRows
    BY Kinds DEF Opening, Reading
<1>2. job' \in JobRows
    BY <1>1 DEF Save, JobRows
<1>3. request' = [request EXCEPT ![r] = Idle]
    BY DEF Save
<1> QED  BY <1>2, <1>3, OneRequest DEF Save, TypeInv

LEMMA TypesInit ==
    ASSUME Parameters, Init
    PROVE  TypeInv
<1>1. PICK c \in Contents : inodes = <<[stamp |-> 0, content |-> c]>>
    BY DEF Init
<1>2. /\ inodes \in Seq([stamp : Nat, content : Contents]) /\ Len(inodes) > 0
    BY <1>1
<1>3. <<>> \in Seq(Digests) /\ <<>> \in Seq(ChunkRows) /\ <<>> \in Seq({"match", "mismatch"})
    OBVIOUS
<1>4. history \in [registered : Seq(Digests), judged : Seq(Digests),
                   overlapped : BOOLEAN, stamp : Nat]
    BY <1>3 DEF Init, None
<1> QED  BY <1>2, <1>3, <1>4 DEF Init, TypeInv, None

\* Somebody writes or replaces the file.
LEMMA WriteTypes ==
    ASSUME Parameters, TypeInv, NEW c \in Contents, Write(c) \/ Replace(c)
    PROVE  TypeInv'
<1> DEFINE Files == [stamp : Nat, content : Contents]
           now == history.stamp + 1
           file == [stamp |-> now, content |-> c]
           old == [inodes EXCEPT ![Len(inodes)].stamp = now]
<1>1. inodes \in Seq(Files) /\ Len(inodes) > 0 /\ now \in Nat /\ file \in Files
    BY DEF TypeInv
<1>2. Len(inodes) \in 1 .. Len(inodes)
    BY <1>1
<1>3. [inodes EXCEPT ![Len(inodes)] = file] \in Seq(Files)
  <2> HIDE DEF Files, file
  <2> QED  BY <1>1, <1>2
<1>4. old \in Seq(Files)
  <2>1. inodes[Len(inodes)] \in Files
    <3> HIDE DEF Files, file
    <3> QED  BY <1>1, <1>2
  <2>2. [inodes[Len(inodes)] EXCEPT !.stamp = now] \in Files
    BY <1>1, <2>1
  <2>3. old = [inodes EXCEPT ![Len(inodes)] = [inodes[Len(inodes)] EXCEPT !.stamp = now]]
    BY <1>1
  <2> HIDE DEF Files, file, old
  <2> QED  BY <1>1, <1>2, <2>2, <2>3
<1>5. inodes' \in Seq(Files) /\ Len(inodes') > 0
  <2>1. inodes' = [inodes EXCEPT ![Len(inodes)] = file] \/ inodes' = Append(old, file)
    BY DEF Write, Replace
  <2>2. Len([inodes EXCEPT ![Len(inodes)] = file]) = Len(inodes)
    <3> HIDE DEF Files, file, old
    <3> QED  BY <1>1, <1>2
  <2>3. Append(old, file) \in Seq(Files) /\ Len(Append(old, file)) > 0
    <3> HIDE DEF Files, file, old
    <3> QED  BY <1>1, <1>4
  <2> HIDE DEF Files, file, old
  <2> QED  BY <1>1, <1>3, <2>1, <2>2, <2>3
<1>6. history' = [history EXCEPT !.stamp = now]
      /\ UNCHANGED <<evidence, job, chunks, events, request>>
    BY DEF Write, Replace
<1>7. history' \in [registered : Seq(Digests), judged : Seq(Digests),
                    overlapped : BOOLEAN, stamp : Nat]
    BY <1>1, <1>6 DEF TypeInv
<1>8. /\ evidence' = None \/ evidence' \in [id : Identities, content : Seq(Digests)]
      /\ job' = None \/ job' \in JobRows
      /\ chunks' \in Seq(ChunkRows)
      /\ events' \in Seq({"match", "mismatch"})
    BY <1>6 DEF TypeInv
<1>9. /\ \A r \in Requests :
             request'[r] = Idle \/ request'[r] \in Registering \cup Opening \cup Reading
      /\ DOMAIN request' = Requests
    BY <1>6 DEF TypeInv
<1> QED  BY <1>5, <1>7, <1>8, <1>9 DEF TypeInv

\* What a step that changes requests and not files has to show
LEMMA TypesFrom ==
    ASSUME TypeInv, UNCHANGED inodes,
           evidence' = None \/ evidence' \in [id : Identities, content : Seq(Digests)],
           job' = None \/ job' \in JobRows,
           chunks' \in Seq(ChunkRows),
           events' \in Seq({"match", "mismatch"}),
           history' \in [registered : Seq(Digests), judged : Seq(Digests),
                         overlapped : BOOLEAN, stamp : Nat],
           NEW r \in Requests, NEW q,
           q = Idle \/ q \in Registering \cup Opening \cup Reading,
           request' = [request EXCEPT ![r] = q]
    PROVE  TypeInv'
<1>1. /\ DOMAIN request' = Requests
      /\ \A s \in Requests :
             request'[s] = Idle \/ request'[s] \in Registering \cup Opening \cup Reading
    BY OneRequest
<1>2. inodes' \in Seq([stamp : Nat, content : Contents]) /\ Len(inodes') > 0
    BY DEF TypeInv
<1> QED  BY <1>1, <1>2 DEF TypeInv

\* The next chunk of an open file is a digest.
LEMMA ChunkRead ==
    ASSUME Parameters, TypeInv, ReadingIsTrue, NEW r \in Requests,
           request[r].at \notin {"idle", "open"},
           CanRead(request[r].id, Len(request[r].got))
    PROVE  /\ request[r].got \in Seq(Digests)
           /\ ReadChunkAt(request[r].id, Len(request[r].got)) \in Digests
<1> DEFINE q == request[r]
           off == Len(q.got)
           file == inodes[q.id.ino].content
<1>1. q.got \in Seq(Digests) /\ off \in Nat
    BY Kinds DEF Registering, Reading
<1>2. file \in Seq(Digests) /\ q.id.ino \in DOMAIN inodes
    BY FilesRead DEF ReadingIsTrue, ReadsTrue
<1>3. off < Len(file)
    BY DEF CanRead
<1>4. off + 1 \in 1 .. Len(file)
  <2>1. Len(file) \in Nat
    BY <1>2
  <2> HIDE DEF off, file
  <2> QED  BY <1>1, <1>3, <2>1
<1>5. file[off + 1] \in Digests
    BY <1>2, <1>4
<1> QED  BY <1>1, <1>5 DEF ReadChunkAt

LEMMA RegisterTypes ==
    ASSUME Parameters, TypeInv, ReadingIsTrue, NEW r \in Requests,
           Register(r) \/ HashWholeFile(r) \/ SaveBaseline(r)
    PROVE  TypeInv'
<1> DEFINE q == request[r]
           off == Len(q.got)
<1>t. /\ evidence = None \/ evidence \in [id : Identities, content : Seq(Digests)]
      /\ job = None \/ job \in JobRows
      /\ chunks \in Seq(ChunkRows)
      /\ events \in Seq({"match", "mismatch"})
      /\ history \in [registered : Seq(Digests), judged : Seq(Digests),
                      overlapped : BOOLEAN, stamp : Nat]
    BY DEF TypeInv
<1>1. CASE Register(r)
  <2>1. [at |-> "register", id |-> OpenReadOnly, got |-> <<>>] \in Registering
    BY FilesRead DEF Registering
  <2> QED  BY <1>1, <1>t, <2>1, TypesFrom DEF Register
<1>2. CASE HashWholeFile(r)
  <2>1. q \in Registering
    BY <1>2, Kinds DEF HashWholeFile
  <2>2. CASE CanRead(q.id, off)
    <3>1. ReadChunkAt(q.id, off) \in Digests
      BY <1>2, <2>2, ChunkRead DEF HashWholeFile
    <3>2. [q EXCEPT !.got = Append(@, ReadChunkAt(q.id, off))] \in Registering
      BY <2>1, <3>1 DEF Registering
    <3> QED  BY <1>2, <1>t, <2>2, <3>2, TypesFrom DEF HashWholeFile
  <2>3. CASE ~CanRead(q.id, off)
    BY <1>2, <1>t, <2>3, TypesFrom DEF HashWholeFile
  <2> QED  BY <2>2, <2>3
<1>3. CASE SaveBaseline(r)
  <2>1. q \in Registering
    BY <1>3, Kinds DEF SaveBaseline
  <2>2. evidence' = None \/ evidence' \in [id : Identities, content : Seq(Digests)]
    BY <1>3, <1>t, <2>1 DEF SaveBaseline, Registering
  <2>3. inodes[q.id.ino].content \in Seq(Digests)
    BY <1>3, FilesRead DEF SaveBaseline, ReadingIsTrue, ReadsTrue
  <2>4. history' \in [registered : Seq(Digests), judged : Seq(Digests),
                      overlapped : BOOLEAN, stamp : Nat]
    BY <1>3, <1>t, <2>3 DEF SaveBaseline
  <2> QED  BY <1>3, <1>t, <2>2, <2>4, TypesFrom DEF SaveBaseline
<1> QED  BY <1>1, <1>2, <1>3

LEMMA RunTypes ==
    ASSUME Parameters, TypeInv, ReadingIsTrue, NEW r \in Requests,
           RunJob(r) \/ Open(r) \/ Rows(r) \/ Recheck(r) \/ Rechecked(r)
    PROVE  TypeInv'
<1> DEFINE q == request[r]
           off == Len(q.got)
<1>t. /\ evidence = None \/ evidence \in [id : Identities, content : Seq(Digests)]
      /\ job = None \/ job \in JobRows
      /\ chunks \in Seq(ChunkRows)
      /\ events \in Seq({"match", "mismatch"})
      /\ history \in [registered : Seq(Digests), judged : Seq(Digests),
                      overlapped : BOOLEAN, stamp : Nat]
    BY DEF TypeInv
<1>1. CASE RunJob(r)
  <2>1. [at |-> "open", job |-> job] \in Opening
    BY <1>1, <1>t DEF RunJob, Opening
  <2>2. history' \in [registered : Seq(Digests), judged : Seq(Digests),
                      overlapped : BOOLEAN, stamp : Nat]
    BY <1>1, <1>t DEF RunJob
  <2> QED  BY <1>1, <1>t, <2>1, <2>2, TypesFrom DEF RunJob
<1>2. CASE Open(r)
  <2> DEFINE copy == [q.job EXCEPT !.status = "running"]
  <2>1. q \in Opening /\ q.job \in JobRows /\ copy \in JobRows
    BY <1>2, Kinds DEF Open, Opening, JobRows
  <2>2. CASE Acceptable(OpenReadOnly, copy.processed)
    <3> DEFINE next == [at |-> IF copy.processed > 0 THEN "rows" ELSE "seq", job |-> copy,
                        id |-> OpenReadOnly, got |-> <<>>, seq |-> 0, rows |-> <<>>]
    <3>1. next \in Reading
      BY <2>1, FilesRead DEF Reading
    <3>2. /\ job' = copy /\ request' = [request EXCEPT ![r] = next]
          /\ UNCHANGED <<inodes, evidence, chunks, events, history>>
      BY <1>2, <2>2 DEF Open
    <3> QED  BY <1>t, <2>1, <3>1, <3>2, TypesFrom
  <2>3. CASE ~Acceptable(OpenReadOnly, copy.processed)
    BY <1>2, <2>3, SaveTypes DEF Open
  <2> QED  BY <2>2, <2>3
<1>3. CASE Rows(r)
  <2>1. PICK p \in [DOMAIN chunks -> DOMAIN chunks] :
            request' = [request EXCEPT ![r].at = "recheck",
                                       ![r].rows = [i \in DOMAIN chunks |-> chunks[p[i]]]]
    BY <1>3 DEF Rows
  <2> DEFINE rows == [i \in DOMAIN chunks |-> chunks[p[i]]]
             next == [q EXCEPT !.at = "recheck", !.rows = rows]
  <2>2. q \in Reading
    BY <1>3, Kinds DEF Rows
  <2>3. rows \in Seq(ChunkRows)
    <3>1. DOMAIN chunks = 1 .. Len(chunks) /\ Len(chunks) \in Nat
          /\ \A k \in DOMAIN chunks : chunks[k] \in ChunkRows
      BY <1>t
    <3>2. rows \in [1 .. Len(chunks) -> ChunkRows]
      BY <3>1
    <3> QED  BY <3>1, <3>2
  <2>4. next \in Reading
    BY <2>2, <2>3 DEF Reading
  <2>5. request' = [request EXCEPT ![r] = next]
    BY <2>1 DEF TypeInv
  <2> QED  BY <1>3, <1>t, <2>4, <2>5, TypesFrom DEF Rows
<1>4. CASE Recheck(r)
  <2> DEFINE row == Head(q.rows)
             ok == row.off = off /\ CanRead(q.id, off) /\ ReadChunkAt(q.id, off) = row.sum
             next == [q EXCEPT !.got = Append(@, row.sum), !.rows = Tail(@)]
  <2>1. q \in Reading /\ q.rows # <<>>
    BY <1>4, Kinds DEF Recheck
  <2>2. CASE ok
    <3>1. row.sum \in Digests
      BY <1>4, <2>2, ChunkRead DEF Recheck
    <3>2. q.got \in Seq(Digests) /\ q.rows \in Seq(ChunkRows)
      BY <2>1 DEF Reading
    <3>3. Append(q.got, row.sum) \in Seq(Digests)
      BY <3>1, <3>2
    <3>4. Tail(q.rows) \in Seq(ChunkRows)
      BY <2>1, <3>2
    <3>5. next \in Reading
      BY <2>1, <3>3, <3>4 DEF Reading
    <3>6. request' = [request EXCEPT ![r] = next]
          /\ UNCHANGED <<inodes, evidence, job, chunks, events, history>>
      BY <1>4, <2>2 DEF Recheck, TypeInv
    <3> QED  BY <1>t, <3>5, <3>6, TypesFrom
  <2>3. CASE ~ok
    BY <1>4, <2>3, SaveTypes DEF Recheck
  <2> QED  BY <2>2, <2>3
<1>5. CASE Rechecked(r)
  <2>1. q \in Reading
    BY <1>5, Kinds DEF Rechecked
  <2>2. CASE off = q.job.processed
    <3>1. [q EXCEPT !.at = "seq"] \in Reading
      BY <2>1 DEF Reading
    <3>2. request' = [request EXCEPT ![r] = [q EXCEPT !.at = "seq"]]
          /\ UNCHANGED <<inodes, evidence, job, chunks, events, history>>
      BY <1>5, <2>2 DEF Rechecked, TypeInv
    <3> QED  BY <1>t, <3>1, <3>2, TypesFrom
  <2>3. CASE off # q.job.processed
    BY <1>5, <2>3, SaveTypes DEF Rechecked
  <2> QED  BY <2>2, <2>3
<1> QED  BY <1>1, <1>2, <1>3, <1>4, <1>5

LEMMA ReadTypes ==
    ASSUME Parameters, TypeInv, ReadingIsTrue, VerdictInv, NEW r \in Requests,
           NextSeq(r) \/ ReadOn(r) \/ Pause(r) \/ Finish(r) \/ Fail(r)
    PROVE  TypeInv'
<1> DEFINE q == request[r]
           off == Len(q.got)
<1>t. /\ evidence = None \/ evidence \in [id : Identities, content : Seq(Digests)]
      /\ job = None \/ job \in JobRows
      /\ chunks \in Seq(ChunkRows)
      /\ events \in Seq({"match", "mismatch"})
      /\ history \in [registered : Seq(Digests), judged : Seq(Digests),
                      overlapped : BOOLEAN, stamp : Nat]
    BY DEF TypeInv
<1>1. CASE NextSeq(r)
  <2>1. PICK n \in {0, Cardinality({chunks[i].seq : i \in DOMAIN chunks})} :
            request' = [request EXCEPT ![r].at = "read", ![r].seq = n]
    BY <1>1 DEF NextSeq
  <2>2. q \in Reading /\ n \in Nat
    BY <1>1, Kinds, SeqNumber DEF NextSeq
  <2>3. [q EXCEPT !.at = "read", !.seq = n] \in Reading
    BY <2>2 DEF Reading
  <2>4. request' = [request EXCEPT ![r] = [q EXCEPT !.at = "read", !.seq = n]]
    BY <2>1 DEF TypeInv
  <2> QED  BY <1>1, <1>t, <2>3, <2>4, TypesFrom DEF NextSeq
<1>2. CASE ReadOn(r)
  <2>1. q \in Reading /\ off \in Nat
    BY <1>2, Kinds DEF ReadOn, Reading
  <2>2. CASE CanRead(q.id, off)
    <3> DEFINE sum == ReadChunkAt(q.id, off)
               next == [q EXCEPT !.got = Append(@, sum), !.seq = @ + 1,
                                 !.job = [@ EXCEPT !.processed = off + 1]]
    <3>1. sum \in Digests /\ q.got \in Seq(Digests)
      BY <1>2, <2>2, ChunkRead DEF ReadOn
    <3>2. /\ chunks' = Append(chunks, [seq |-> q.seq, off |-> off, sum |-> sum])
          /\ job' = [job EXCEPT !.processed = off + 1]
          /\ request' = [request EXCEPT ![r].got = Append(@, sum), ![r].seq = @ + 1,
                                        ![r].job.processed = off + 1]
          /\ UNCHANGED <<inodes, evidence, events, history>>
      BY <1>2, <2>2 DEF ReadOn
    <3>3. request' = [request EXCEPT ![r] = next]
      <4> HIDE DEF off, sum
      <4> QED  BY <3>2
    <3>4. [seq |-> q.seq, off |-> off, sum |-> sum] \in ChunkRows
      BY <2>1, <3>1 DEF Reading, ChunkRows
    <3>5. chunks' \in Seq(ChunkRows)
      BY <1>t, <3>2, <3>4
    <3>6. job # None
      BY <1>2 DEF VerdictInv, Running, ReadOn
    <3>7. job' \in JobRows
      <4>1. job \in JobRows /\ off + 1 \in Nat
        BY <1>t, <2>1, <3>6
      <4> HIDE DEF off
      <4> QED  BY <3>2, <4>1 DEF JobRows
    <3>8. Append(q.got, sum) \in Seq(Digests) /\ [q.job EXCEPT !.processed = off + 1] \in JobRows
      BY <2>1, <3>1 DEF Reading, JobRows
    <3>9. next \in Reading
      <4>1. q.seq + 1 \in Nat
        BY <2>1 DEF Reading
      <4> HIDE DEF off, sum
      <4> QED  BY <2>1, <3>8, <4>1 DEF Reading
    <3> QED  BY <1>t, <3>2, <3>3, <3>5, <3>7, <3>9, TypesFrom
  <2>3. CASE ~CanRead(q.id, off)
    BY <1>2, <2>3, SaveTypes DEF ReadOn
  <2> QED  BY <2>2, <2>3
<1>3. CASE Pause(r)
  BY <1>3, SaveTypes DEF Pause
<1>4. CASE Finish(r)
  <2> DEFINE result == IF q.got = evidence.content THEN "match" ELSE "mismatch"
  <2>1. q \in Reading /\ q.job \in JobRows
    BY <1>4, Kinds DEF Finish, Reading
  <2>2. CASE CheckUnchanged(q.id)
    <3>1. /\ job' = [q.job EXCEPT !.status = "completed", !.result = result]
          /\ events' = Append(events, result)
          /\ request' = [request EXCEPT ![r] = Idle]
          /\ history' = [history EXCEPT !.judged = inodes[q.id.ino].content]
          /\ UNCHANGED <<inodes, evidence, chunks>>
      BY <1>4, <2>2 DEF Finish
    <3>2. job' \in JobRows
      BY <2>1, <3>1 DEF JobRows
    <3>3. inodes[q.id.ino].content \in Seq(Digests)
      BY <1>4, FilesRead DEF Finish, ReadingIsTrue, ReadsTrue
    <3>4. history' \in [registered : Seq(Digests), judged : Seq(Digests),
                        overlapped : BOOLEAN, stamp : Nat]
      BY <1>t, <3>1, <3>3
    <3>5. events' \in Seq({"match", "mismatch"})
      BY <1>t, <3>1
    <3> QED  BY <1>t, <3>1, <3>2, <3>4, <3>5, TypesFrom
  <2>3. CASE ~CheckUnchanged(q.id)
    BY <1>4, <2>3, SaveTypes DEF Finish
  <2> QED  BY <2>2, <2>3
<1>5. CASE Fail(r)
  BY <1>5, <1>t, TypesFrom DEF Fail
<1> QED  BY <1>1, <1>2, <1>3, <1>4, <1>5

LEMMA OtherTypes ==
    ASSUME TypeInv, CreateVerifyJob \/ Restart
    PROVE  TypeInv'
<1>1. CASE CreateVerifyJob
  <2>1. job' \in JobRows
    BY <1>1 DEF CreateVerifyJob, NewJob, JobRows
  <2> QED  BY <1>1, <2>1 DEF CreateVerifyJob, TypeInv
<1>2. CASE Restart
  <2>1. job' = None \/ job' \in JobRows
    BY <1>2 DEF Restart, TypeInv, JobRows
  <2>2. DOMAIN request' = Requests /\ \A r \in Requests : request'[r] = Idle
    BY <1>2 DEF Restart
  <2> QED  BY <1>2, <2>1, <2>2 DEF Restart, TypeInv
<1> QED  BY <1>1, <1>2

LEMMA TypesStep ==
    ASSUME Parameters, TypeInv, ReadingIsTrue, VerdictInv, [Next]_vars
    PROVE  TypeInv'
<1>1. CASE UNCHANGED vars
  BY <1>1 DEF vars, TypeInv
<1>2. CASE Next
  BY <1>2, WriteTypes, RegisterTypes, RunTypes, ReadTypes, OtherTypes DEF Next
<1> QED  BY <1>1, <1>2

\* A new stamp belongs to no file that a request has open.
LEMMA WriteReads ==
    ASSUME Parameters, TypeInv, ReadingIsTrue, NEW c \in Contents, Write(c) \/ Replace(c)
    PROVE  ReadingIsTrue'
<1> DEFINE now == history.stamp + 1
           last == Len(inodes)
<1>1. /\ last \in Nat /\ last \in DOMAIN inodes /\ DOMAIN inodes = 1 .. last
      /\ history.stamp \in Nat
      /\ \A i \in DOMAIN inodes : inodes[i].stamp \in Nat /\ inodes[i].stamp <= history.stamp
    BY FilesRead DEF TypeInv, ReadingIsTrue
<1>2. history'.stamp = now /\ request' = request
    BY DEF Write, Replace, TypeInv
<1>3. /\ DOMAIN inodes' = 1 .. last \/ DOMAIN inodes' = 1 .. (last + 1)
      /\ \A i \in DOMAIN inodes' : i < last => inodes'[i] = inodes[i]
      /\ \A i \in DOMAIN inodes' : i >= last => inodes'[i].stamp = now
  <2>1. CASE Write(c)
    <3>1. inodes' = [inodes EXCEPT ![last] = [stamp |-> now, content |-> c]]
      BY <2>1 DEF Write
    <3> QED  BY <1>1, <3>1
  <2>2. CASE Replace(c)
    <3> DEFINE old == [inodes EXCEPT ![last].stamp = now]
    <3>1. inodes' = Append(old, [stamp |-> now, content |-> c])
      BY <2>2 DEF Replace
    <3>2. /\ DOMAIN old = 1 .. last
          /\ \A i \in 1 .. last : i # last => old[i] = inodes[i]
          /\ old[last].stamp = now
      BY <1>1 DEF TypeInv
    <3>3. old \in Seq([stamp : Nat, content : Contents])
      <4>1. \A i \in 1 .. last : inodes[i] \in [stamp : Nat, content : Contents]
        <5> DEFINE Files == [stamp : Nat, content : Contents]
        <5>1. inodes \in Seq(Files)
          BY DEF TypeInv
        <5> HIDE DEF Files
        <5>2. \A i \in 1 .. Len(inodes) : inodes[i] \in Files
          BY <5>1
        <5> QED  BY <5>2 DEF Files
      <4>2. old[last] \in [stamp : Nat, content : Contents]
        BY <1>1, <4>1
      <4>3. old \in [1 .. last -> [stamp : Nat, content : Contents]]
        BY <1>1, <3>2, <4>1, <4>2
      <4> DEFINE Files == [stamp : Nat, content : Contents]
      <4> HIDE DEF Files, old
      <4>4. old \in [1 .. last -> Files]
        BY <4>3 DEF Files
      <4>5. old \in Seq(Files)
        BY <1>1, <4>4
      <4> QED  BY <4>5 DEF Files
    <3>4. Len(old) = last
      BY <1>1, <3>2, <3>3
    <3>5. /\ DOMAIN inodes' = 1 .. (last + 1)
          /\ \A i \in 1 .. last : inodes'[i] = old[i]
          /\ inodes'[last + 1] = [stamp |-> now, content |-> c]
      <4> HIDE DEF old, now
      <4> QED  BY <1>1, <3>1, <3>3, <3>4
    <3> HIDE DEF old, last, now
    <3>6. \A i \in 1 .. (last + 1) : i < last \/ i = last \/ i = last + 1
      BY <1>1
    <3>7. \A i \in 1 .. (last + 1) : i < last => i \in 1 .. last /\ i # last
      BY <1>1
    <3>8. last \in 1 .. last /\ ~(last < last) /\ ~(last + 1 < last)
      BY <1>1
    <3>9. ASSUME NEW i \in 1 .. (last + 1), i < last PROVE inodes'[i] = inodes[i]
      BY <3>2, <3>5, <3>7, <3>9
    <3>10. ASSUME NEW i \in 1 .. (last + 1), i >= last PROVE inodes'[i].stamp = now
      <4>1. i = last \/ i = last + 1
        BY <1>1, <3>10
      <4> QED  BY <3>2, <3>5, <3>8, <4>1
    <3> QED  BY <3>5, <3>9, <3>10
  <2> QED  BY <2>1, <2>2
<1>4. \A i \in DOMAIN inodes' : inodes'[i].stamp <= history'.stamp
  <2> SUFFICES ASSUME NEW i \in DOMAIN inodes'
               PROVE  inodes'[i].stamp <= history'.stamp
    OBVIOUS
  <2>1. i \in Nat /\ (i < last => i \in DOMAIN inodes)
    BY <1>1, <1>3
  <2> QED  BY <1>1, <1>2, <1>3, <2>1
<1>5. ASSUME NEW r \in Requests, request'[r].at \notin {"idle", "open"}
      PROVE  ReadsTrue(request[r])'
  <2> DEFINE q == request[r]
             n == q.id.ino
  <2>1. ReadsTrue(q)
    BY <1>2, <1>5 DEF ReadingIsTrue
  <2>2. q.id \in Identities
    BY <1>2, <1>5, Kinds DEF Registering, Reading
  <2>3. n \in DOMAIN inodes /\ n \in DOMAIN inodes'
    BY <1>1, <1>3, <2>1 DEF ReadsTrue
  <2>4. q.id.stamp <= history.stamp /\ q.id.stamp \in Nat
    BY <2>1, <2>2 DEF ReadsTrue, Identities
  <2>5. CASE n < last
    <3>1. inodes'[n] = inodes[n]
      BY <1>3, <2>3, <2>5
    <3> QED  BY <1>1, <1>2, <2>1, <2>3, <2>4, <3>1 DEF ReadsTrue
  <2>6. CASE n >= last
    <3>1. inodes'[n].stamp = now
      BY <1>3, <2>3, <2>6
    <3>2. now # q.id.stamp /\ q.id.stamp <= now
      BY <1>1, <2>4
    <3> QED  BY <1>2, <2>3, <3>1, <3>2 DEF ReadsTrue
  <2> QED  BY <1>1, <2>3, <2>5, <2>6
<1> QED  BY <1>4, <1>5 DEF ReadingIsTrue

\* What a step that leaves the files alone has to show
LEMMA ReadsFrom ==
    ASSUME ReadingIsTrue, UNCHANGED inodes, history'.stamp = history.stamp,
           \A s \in Requests :
               \/ request'[s] = request[s]
               \/ request'[s].at \in {"idle", "open"}
               \/ ReadsTrue(request'[s])
    PROVE  ReadingIsTrue'
BY DEF ReadingIsTrue, ReadsTrue

\* A request that opens the file reads true, and goes on to.
LEMMA OpensTrue ==
    ASSUME Parameters, TypeInv, ReadingIsTrue, NEW q,
           q.id = OpenReadOnly, q.got = <<>>
    PROVE  ReadsTrue(q)
<1>1. /\ Len(inodes) \in DOMAIN inodes
      /\ inodes[Len(inodes)].stamp <= history.stamp
      /\ Len(inodes[Len(inodes)].content) \in Nat
    BY FilesRead DEF ReadingIsTrue
<1> QED  BY <1>1 DEF ReadsTrue, OpenReadOnly, IdentityOf

LEMMA ReadsOn ==
    ASSUME Parameters, TypeInv, ReadingIsTrue, NEW r \in Requests,
           request[r].at \notin {"idle", "open"},
           CanRead(request[r].id, Len(request[r].got)), NEW q,
           q.id = request[r].id,
           q.got = Append(request[r].got, ReadChunkAt(request[r].id, Len(request[r].got)))
    PROVE  ReadsTrue(q)
<1> DEFINE p == request[r]
           file == inodes[p.id.ino].content
           sum == ReadChunkAt(p.id, Len(p.got))
<1>1. ReadsTrue(p)
    BY DEF ReadingIsTrue
<1>2. p.got \in Seq(Digests) /\ sum \in Digests
    BY ChunkRead
<1>3. file \in Seq(Digests)
    BY <1>1, FilesRead DEF ReadsTrue
<1>4. Len(p.got) < Len(file) /\ sum = file[Len(p.got) + 1]
    BY DEF CanRead, ReadChunkAt
<1>5. /\ Len(q.got) = Len(p.got) + 1 /\ Len(p.got) \in Nat /\ Len(file) \in Nat
      /\ \A k \in 1 .. Len(p.got) : q.got[k] = p.got[k]
      /\ q.got[Len(p.got) + 1] = sum
      /\ \A k \in 1 .. Len(q.got) : k \in 1 .. Len(p.got) \/ k = Len(p.got) + 1
  <2>1. q.got = Append(p.got, sum)
    OBVIOUS
  <2> HIDE DEF p, file, sum
  <2>2. Len(file) \in Nat
    BY <1>3
  <2> QED  BY <1>2, <2>1, <2>2, Appended
<1>6. ASSUME inodes[p.id.ino].stamp = p.id.stamp
      PROVE  /\ p.id.size = Len(file)
             /\ \A k \in 1 .. Len(p.got) : p.got[k] = file[k]
    BY <1>1, <1>6 DEF ReadsTrue
<1>7. p.id.ino \in DOMAIN inodes /\ p.id.stamp <= history.stamp
    BY <1>1 DEF ReadsTrue
<1>8. ASSUME inodes[p.id.ino].stamp = p.id.stamp, NEW k \in 1 .. Len(q.got)
      PROVE  q.got[k] = file[k]
  <2>1. k \in 1 .. Len(p.got) \/ k = Len(p.got) + 1
    BY <1>5
  <2>2. \A i \in 1 .. Len(p.got) : p.got[i] = file[i]
    BY <1>6, <1>8
  <2> HIDE DEF p, file, sum
  <2> QED  BY <1>4, <1>5, <2>1, <2>2
<1>9. Len(q.got) <= Len(file)
  <2> HIDE DEF p, file, sum
  <2> QED  BY <1>4, <1>5
<1> QED  BY <1>6, <1>7, <1>8, <1>9 DEF ReadsTrue

\* A step of one request: the others read what they read.
LEMMA ReadsByOne ==
    ASSUME TypeInv, ReadingIsTrue, UNCHANGED inodes, history'.stamp = history.stamp,
           NEW r \in Requests, NEW q,
           q = Idle \/ q \in Registering \cup Opening \cup Reading,
           request' = [request EXCEPT ![r] = q],
           q.at \in {"idle", "open"} \/ ReadsTrue(q)
    PROVE  ReadingIsTrue'
<1>1. /\ request'[r] = q
      /\ \A s \in Requests : s # r => request'[s] = request[s]
    BY DEF TypeInv
<1>2. ASSUME NEW s \in Requests
      PROVE  \/ request'[s] = request[s]
             \/ request'[s].at \in {"idle", "open"}
             \/ ReadsTrue(request'[s])
  <2>1. CASE s = r
    BY <1>1, <2>1
  <2>2. CASE s # r
    BY <1>1, <2>2
  <2> QED  BY <2>1, <2>2
<1> QED  BY <1>2, ReadsFrom

\* The query for the rows leaves the rest of the run alone.
LEMMA RowsMove ==
    ASSUME TypeInv, NEW r \in Requests, Rows(r)
    PROVE  /\ request'[r].at = "recheck"
           /\ request'[r].id = request[r].id /\ request'[r].got = request[r].got
           /\ request'[r].job = request[r].job
<1>1. PICK p \in [DOMAIN chunks -> DOMAIN chunks] :
          request' = [request EXCEPT ![r].at = "recheck",
                                     ![r].rows = [i \in DOMAIN chunks |-> chunks[p[i]]]]
    BY DEF Rows
<1>2. request[r] \in Reading
    BY Kinds DEF Rows
<1> DEFINE rows == [i \in DOMAIN chunks |-> chunks[p[i]]]
<1> HIDE DEF rows
<1>3. request' = [request EXCEPT ![r].at = "recheck", ![r].rows = rows]
    BY <1>1 DEF rows
<1> QED  BY <1>2, <1>3 DEF Reading, TypeInv

LEMMA SaveReads ==
    ASSUME TypeInv, ReadingIsTrue, NEW r \in Requests, NEW status, Save(r, status)
    PROVE  ReadingIsTrue'
BY ReadsByOne DEF Save, Idle

LEMMA RegisterReads ==
    ASSUME Parameters, TypeInv, ReadingIsTrue, NEW r \in Requests,
           Register(r) \/ HashWholeFile(r) \/ SaveBaseline(r)
    PROVE  ReadingIsTrue'
<1> DEFINE q == request[r]
           off == Len(q.got)
<1>1. CASE Register(r)
  <2> DEFINE next == [at |-> "register", id |-> OpenReadOnly, got |-> <<>>]
  <2>1. next \in Registering /\ ReadsTrue(next)
    BY FilesRead, OpensTrue DEF Registering
  <2> QED  BY <1>1, <2>1, ReadsByOne DEF Register
<1>2. CASE HashWholeFile(r)
  <2>1. q \in Registering
    BY <1>2, Kinds DEF HashWholeFile
  <2>2. CASE CanRead(q.id, off)
    <3> DEFINE next == [q EXCEPT !.got = Append(@, ReadChunkAt(q.id, off))]
    <3>1. ReadChunkAt(q.id, off) \in Digests
      BY <1>2, <2>2, ChunkRead DEF HashWholeFile
    <3>2. next \in Registering /\ next.id = q.id
          /\ next.got = Append(q.got, ReadChunkAt(q.id, off))
      <4>1. Append(q.got, ReadChunkAt(q.id, off)) \in Seq(Digests)
        BY <2>1, <3>1, Appended DEF Registering
      <4> QED  BY <2>1, <4>1 DEF Registering
    <3>3. ReadsTrue(next)
      BY <1>2, <2>2, <3>2, ReadsOn DEF HashWholeFile
    <3> QED  BY <1>2, <2>2, <3>2, <3>3, ReadsByOne DEF HashWholeFile
  <2>3. CASE ~CanRead(q.id, off)
    BY <1>2, <2>3, ReadsByOne DEF HashWholeFile, Idle
  <2> QED  BY <2>2, <2>3
<1>3. CASE SaveBaseline(r)
  <2>1. history'.stamp = history.stamp
    BY <1>3 DEF SaveBaseline, TypeInv
  <2> QED  BY <1>3, <2>1, ReadsByOne DEF SaveBaseline, Idle
<1> QED  BY <1>1, <1>2, <1>3

LEMMA RunReads ==
    ASSUME Parameters, TypeInv, ReadingIsTrue, NEW r \in Requests,
           RunJob(r) \/ Open(r) \/ Rows(r) \/ Recheck(r) \/ Rechecked(r)
    PROVE  ReadingIsTrue'
<1> DEFINE q == request[r]
           off == Len(q.got)
<1>0. \A s \in Requests : s # r => request'[s] = request[s]
    BY DEF RunJob, Open, Rows, Recheck, Rechecked, Save, TypeInv
<1>1. UNCHANGED inodes /\ history'.stamp = history.stamp
    BY DEF RunJob, Open, Rows, Recheck, Rechecked, Save, TypeInv
<1> SUFFICES request'[r].at \in {"idle", "open"} \/ ReadsTrue(request'[r])
    BY <1>0, <1>1, ReadsFrom
<1>2. CASE RunJob(r)
    BY <1>2 DEF RunJob, TypeInv
<1>3. CASE Open(r)
  <2> DEFINE copy == [q.job EXCEPT !.status = "running"]
             next == [at |-> IF copy.processed > 0 THEN "rows" ELSE "seq", job |-> copy,
                      id |-> OpenReadOnly, got |-> <<>>, seq |-> 0, rows |-> <<>>]
  <2>1. ReadsTrue(next)
    <3>1. next.id = OpenReadOnly /\ next.got = <<>>
      OBVIOUS
    <3> HIDE DEF next
    <3> QED  BY <3>1, OpensTrue
  <2>2. request' = [request EXCEPT ![r] = next] \/ request' = [request EXCEPT ![r] = Idle]
    BY <1>3 DEF Open, Save
  <2> HIDE DEF next
  <2> QED  BY <2>1, <2>2 DEF Idle, TypeInv
<1>4. CASE Rows(r)
  <2>1. request'[r].id = q.id /\ request'[r].got = q.got
    BY <1>4, RowsMove
  <2>2. ReadsTrue(q)
    BY <1>4 DEF Rows, ReadingIsTrue
  <2> QED  BY <2>1, <2>2 DEF ReadsTrue
<1>5. CASE Recheck(r)
  <2> DEFINE row == Head(q.rows)
             ok == row.off = off /\ CanRead(q.id, off) /\ ReadChunkAt(q.id, off) = row.sum
  <2>1. CASE ok
    <3>0. q \in Reading
      BY <1>5, Kinds DEF Recheck
    <3>1. /\ request'[r].id = q.id
          /\ request'[r].got = Append(q.got, ReadChunkAt(q.id, off))
      <4>1. /\ request' = [request EXCEPT ![r].got = Append(@, row.sum),
                                          ![r].rows = Tail(@)]
            /\ row.sum = ReadChunkAt(q.id, off)
        BY <1>5, <2>1 DEF Recheck
      <4> HIDE DEF row, off
      <4> QED  BY <3>0, <4>1 DEF Reading, TypeInv
    <3> QED  BY <1>5, <2>1, <3>1, ReadsOn DEF Recheck
  <2>2. CASE ~ok
    BY <1>5, <2>2 DEF Recheck, Save, Idle, TypeInv
  <2> QED  BY <2>1, <2>2
<1>6. CASE Rechecked(r)
  <2>0. q \in Reading
    BY <1>6, Kinds DEF Rechecked
  <2>1. \/ request'[r].at = "idle"
        \/ request'[r].id = q.id /\ request'[r].got = q.got
    <3>1. \/ request' = [request EXCEPT ![r].at = "seq"]
          \/ request' = [request EXCEPT ![r] = Idle]
      BY <1>6 DEF Rechecked, Save
    <3> QED  BY <2>0, <3>1 DEF Reading, TypeInv, Idle
  <2>2. ReadsTrue(q)
    BY <1>6 DEF Rechecked, ReadingIsTrue
  <2> QED  BY <2>1, <2>2 DEF ReadsTrue
<1> QED  BY <1>2, <1>3, <1>4, <1>5, <1>6

LEMMA ReadReads ==
    ASSUME Parameters, TypeInv, ReadingIsTrue, NEW r \in Requests,
           NextSeq(r) \/ ReadOn(r) \/ Pause(r) \/ Finish(r) \/ Fail(r)
    PROVE  ReadingIsTrue'
<1> DEFINE q == request[r]
           off == Len(q.got)
<1>0. \A s \in Requests : s # r => request'[s] = request[s]
    BY DEF NextSeq, ReadOn, Pause, Finish, Fail, Save, TypeInv
<1>1. UNCHANGED inodes /\ history'.stamp = history.stamp
    BY DEF NextSeq, ReadOn, Pause, Finish, Fail, Save, TypeInv
<1> SUFFICES request'[r].at \in {"idle", "open"} \/ ReadsTrue(request'[r])
    BY <1>0, <1>1, ReadsFrom
<1>2. CASE NextSeq(r)
  <2>1. request'[r].id = q.id /\ request'[r].got = q.got
    BY <1>2, Kinds DEF NextSeq, Reading, TypeInv
  <2>2. ReadsTrue(q)
    BY <1>2 DEF NextSeq, ReadingIsTrue
  <2> QED  BY <2>1, <2>2 DEF ReadsTrue
<1>3. CASE ReadOn(r)
  <2>1. CASE CanRead(q.id, off)
    <3>0. q \in Reading
      BY <1>3, Kinds DEF ReadOn
    <3>1. /\ request'[r].id = q.id
          /\ request'[r].got = Append(q.got, ReadChunkAt(q.id, off))
      <4>1. request' = [request EXCEPT ![r].got = Append(@, ReadChunkAt(q.id, off)),
                                       ![r].seq = @ + 1, ![r].job.processed = off + 1]
        BY <1>3, <2>1 DEF ReadOn
      <4> HIDE DEF off
      <4> QED  BY <3>0, <4>1 DEF Reading, TypeInv
    <3> QED  BY <1>3, <2>1, <3>1, ReadsOn DEF ReadOn
  <2>2. CASE ~CanRead(q.id, off)
    BY <1>3, <2>2 DEF ReadOn, Save, Idle, TypeInv
  <2> QED  BY <2>1, <2>2
<1>4. CASE Pause(r) \/ Finish(r) \/ Fail(r)
    BY <1>4 DEF Pause, Finish, Fail, Save, Idle, TypeInv
<1> QED  BY <1>2, <1>3, <1>4

LEMMA ReadingStep ==
    ASSUME Parameters, TypeInv, ReadingIsTrue, [Next]_vars
    PROVE  ReadingIsTrue'
<1>1. CASE UNCHANGED vars
  BY <1>1 DEF vars, ReadingIsTrue, ReadsTrue
<1>2. CASE CreateVerifyJob
  BY <1>2, ReadsFrom DEF CreateVerifyJob
<1>3. CASE Restart
  <2>1. \A s \in Requests : request'[s].at = "idle"
    BY <1>3 DEF Restart, Idle
  <2> QED  BY <1>3, <2>1, ReadsFrom DEF Restart
<1>4. CASE Next /\ ~CreateVerifyJob /\ ~Restart
  BY <1>4, WriteReads, RegisterReads, RunReads, ReadReads DEF Next
<1> QED  BY <1>1, <1>2, <1>3, <1>4

LEMMA ReadingInit == ASSUME Init PROVE ReadingIsTrue
<1>1. PICK c \in Contents : inodes = <<[stamp |-> 0, content |-> c]>>
    BY DEF Init
<1>2. \A i \in DOMAIN inodes : inodes[i].stamp = 0
    BY <1>1
<1> QED  BY <1>2 DEF Init, Idle, ReadingIsTrue

LEMMA Somethings ==
    /\ \A row \in JobRows : row # None
    /\ \A c, d : [id |-> c, content |-> d] # None
<1>1. DOMAIN None = {}
    BY DEF None
<1>2. \A row \in JobRows : "status" \in DOMAIN row
    BY DEF JobRows
<1>3. \A c, d : "id" \in DOMAIN [id |-> c, content |-> d]
    OBVIOUS
<1> QED  BY <1>1, <1>2, <1>3

\* What has been read to the end of a file that kept its stamp is the file.
LEMMA ReadWhole ==
    ASSUME Parameters, TypeInv, ReadingIsTrue, NEW r \in Requests,
           request[r].at \notin {"idle", "open"},
           Len(request[r].got) = request[r].id.size, CheckUnchanged(request[r].id)
    PROVE  request[r].got = inodes[request[r].id.ino].content
<1> DEFINE q == request[r]
           got == q.got
           file == inodes[q.id.ino].content
<1>1. ReadsTrue(q)
    BY DEF ReadingIsTrue
<1>2. got \in Seq(Digests) /\ q.id \in Identities
    BY Kinds DEF Registering, Reading
<1>3. file \in Seq(Digests)
    BY <1>1, FilesRead DEF ReadsTrue
<1>4. inodes[q.id.ino].stamp = q.id.stamp
    BY DEF CheckUnchanged, IdentityOf
<1>5. Len(got) = Len(file) /\ \A k \in 1 .. Len(got) : got[k] = file[k]
    BY <1>1, <1>4 DEF ReadsTrue
<1>6. got = file
  <2> HIDE DEF got, file
  <2> QED  BY <1>2, <1>3, <1>5
<1> QED  BY <1>6

\* What a step of one request that leaves the baseline alone has to show
LEMMA VerdictFrom ==
    ASSUME TypeInv, VerdictInv, UNCHANGED evidence,
           history'.registered = history.registered, NEW r \in Requests,
           \A s \in Requests : s # r => request'[s] = request[s],
           job' # None <=> job # None,
           request'[r].at \notin {"idle", "register"} =>
               job # None /\ request'[r].job.status # "completed",
           job' # None /\ job'.status = "completed" =>
               /\ job'.result = (IF history'.judged = evidence.content THEN "match"
                                 ELSE "mismatch")
               /\ events' # <<>>
    PROVE  VerdictInv'
<1>1. ASSUME NEW s \in Running'
      PROVE  job # None /\ request'[s].job.status # "completed"
  <2>1. s \in Requests /\ request'[s].at \notin {"idle", "register"}
    BY <1>1 DEF Running
  <2>2. CASE s = r
    BY <2>1, <2>2
  <2>3. CASE s # r
    <3>1. request'[s] = request[s] /\ s \in Running
      BY <2>1, <2>3 DEF Running
    <3> QED  BY <3>1 DEF VerdictInv
  <2> QED  BY <2>2, <2>3
<1>2. (evidence # None => evidence.content = history.registered)
      /\ (job # None => evidence # None)
    BY DEF VerdictInv
<1>3. \A s \in Running' : request'[s].job.status # "completed"
    BY <1>1
<1>4. Running' # {} => job' # None
    BY <1>1
<1> QED  BY <1>2, <1>3, <1>4 DEF VerdictInv

LEMMA SaveVerdict ==
    ASSUME TypeInv, VerdictInv, NEW r \in Requests, request[r].at \notin {"idle", "register"},
           NEW status \in {"paused", "failed"}, Save(r, status)
    PROVE  VerdictInv'
<1>1. request[r].job \in JobRows /\ job # None
    BY Kinds DEF Opening, Reading, VerdictInv, Running
<1>2. job' \in JobRows /\ job'.status # "completed"
    BY <1>1 DEF Save, JobRows
<1>3. /\ request'[r].at = "idle" /\ UNCHANGED <<evidence, history>>
      /\ \A s \in Requests : s # r => request'[s] = request[s]
    BY DEF Save, Idle, TypeInv
<1> QED  BY <1>1, <1>2, <1>3, Somethings, VerdictFrom

LEMMA RegisterVerdict ==
    ASSUME Parameters, TypeInv, ReadingIsTrue, VerdictInv, NEW r \in Requests,
           Register(r) \/ HashWholeFile(r) \/ SaveBaseline(r)
    PROVE  VerdictInv'
<1> DEFINE q == request[r]
<1>v. job # None /\ job.status = "completed" =>
           /\ job.result = (IF history.judged = evidence.content THEN "match"
                            ELSE "mismatch")
           /\ events # <<>>
    BY DEF VerdictInv
<1>r. /\ request'[r].at \in {"idle", "register"}
      /\ \A s \in Requests : s # r => request'[s] = request[s]
      /\ UNCHANGED <<job, events>> /\ history'.judged = history.judged
  <2>1. CASE Register(r)
    BY <2>1 DEF Register, TypeInv
  <2>2. CASE HashWholeFile(r)
    BY <2>2, Kinds DEF HashWholeFile, Registering, TypeInv, Idle
  <2>3. CASE SaveBaseline(r)
    BY <2>3 DEF SaveBaseline, TypeInv, Idle
  <2> QED  BY <2>1, <2>2, <2>3
<1>1. CASE UNCHANGED <<evidence, history>>
  BY <1>r, <1>v, <1>1, VerdictFrom
<1>2. CASE ~UNCHANGED <<evidence, history>>
  <2>1. /\ SaveBaseline(r) /\ q.at = "register" /\ Len(q.got) = q.id.size
        /\ CheckUnchanged(q.id) /\ evidence = None
        /\ evidence' = [id |-> q.id, content |-> q.got]
        /\ history' = [history EXCEPT !.registered = inodes[q.id.ino].content]
    BY <1>2 DEF Register, HashWholeFile, SaveBaseline
  <2>2. evidence'.content = history'.registered /\ job = None /\ Running = {}
    BY <2>1, ReadWhole DEF VerdictInv, TypeInv
  <2>3. Running' = {}
    BY <1>r, <2>2 DEF Running
  <2> QED  BY <1>r, <2>2, <2>3 DEF VerdictInv
<1> QED  BY <1>1, <1>2

LEMMA RunVerdict ==
    ASSUME Parameters, TypeInv, ReadingIsTrue, VerdictInv, NEW r \in Requests,
           RunJob(r) \/ Open(r) \/ Rows(r) \/ Recheck(r) \/ Rechecked(r)
    PROVE  VerdictInv'
<1> DEFINE q == request[r]
           off == Len(q.got)
<1>v. job # None /\ job.status = "completed" =>
           /\ job.result = (IF history.judged = evidence.content THEN "match"
                            ELSE "mismatch")
           /\ events # <<>>
    BY DEF VerdictInv
<1>r. q.at \notin {"idle", "register"} => job # None /\ q.job.status # "completed"
    BY DEF VerdictInv, Running
<1>0. /\ \A s \in Requests : s # r => request'[s] = request[s]
      /\ UNCHANGED <<evidence, events>>
      /\ history'.registered = history.registered /\ history'.judged = history.judged
    BY DEF RunJob, Open, Rows, Recheck, Rechecked, Save, TypeInv
<1>1. CASE RunJob(r)
  <2>1. job' = job /\ job # None /\ request'[r].job.status # "completed"
    BY <1>1 DEF RunJob, TypeInv
  <2> QED  BY <1>0, <1>v, <2>1, VerdictFrom
<1>2. CASE Open(r)
  <2> DEFINE copy == [q.job EXCEPT !.status = "running"]
  <2>1. CASE Acceptable(OpenReadOnly, copy.processed)
    <3>1. copy \in JobRows /\ copy.status = "running"
      BY <1>2, Kinds DEF Open, Opening, JobRows
    <3>2. job' = copy /\ request'[r].job = copy
      BY <1>2, <2>1 DEF Open, TypeInv
    <3>3. job # None /\ job' # None
      BY <1>2, <1>r, <3>1, <3>2, Somethings DEF Open
    <3> HIDE DEF copy
    <3> QED  BY <1>0, <3>1, <3>2, <3>3, VerdictFrom
  <2>2. CASE ~Acceptable(OpenReadOnly, copy.processed)
    BY <1>2, <2>2, SaveVerdict DEF Open
  <2> QED  BY <2>1, <2>2
<1>3. CASE Rows(r)
  <2>1. job' = job /\ request'[r].job = q.job
    BY <1>3, RowsMove DEF Rows
  <2> QED  BY <1>0, <1>3, <1>r, <1>v, <2>1, VerdictFrom DEF Rows
<1>4. CASE Recheck(r)
  <2>1. CASE job' = job /\ request'[r].job = q.job
    BY <1>0, <1>4, <1>r, <1>v, <2>1, VerdictFrom DEF Recheck
  <2>2. CASE Save(r, "failed")
    BY <1>4, <2>2, SaveVerdict DEF Recheck
  <2> QED  BY <1>4, <2>1, <2>2, Kinds DEF Recheck, Reading, TypeInv
<1>5. CASE Rechecked(r)
  <2>1. CASE job' = job /\ request'[r].job = q.job
    BY <1>0, <1>5, <1>r, <1>v, <2>1, VerdictFrom DEF Rechecked
  <2>2. CASE Save(r, "failed")
    BY <1>5, <2>2, SaveVerdict DEF Rechecked
  <2> QED  BY <1>5, <2>1, <2>2, Kinds DEF Rechecked, Reading, TypeInv
<1> QED  BY <1>1, <1>2, <1>3, <1>4, <1>5

LEMMA ReadVerdict ==
    ASSUME Parameters, TypeInv, ReadingIsTrue, VerdictInv, NEW r \in Requests,
           NextSeq(r) \/ ReadOn(r) \/ Pause(r) \/ Finish(r) \/ Fail(r)
    PROVE  VerdictInv'
<1> DEFINE q == request[r]
           off == Len(q.got)
<1>v. job # None /\ job.status = "completed" =>
           /\ job.result = (IF history.judged = evidence.content THEN "match"
                            ELSE "mismatch")
           /\ events # <<>>
    BY DEF VerdictInv
<1>r. q.at \notin {"idle", "register"} => job # None /\ q.job.status # "completed"
    BY DEF VerdictInv, Running
<1>0. /\ \A s \in Requests : s # r => request'[s] = request[s]
      /\ UNCHANGED evidence /\ history'.registered = history.registered
    BY DEF NextSeq, ReadOn, Pause, Finish, Fail, Save, TypeInv
<1>1. CASE NextSeq(r)
  <2>1. job' = job /\ request'[r].job = q.job /\ UNCHANGED <<events, history>>
    BY <1>1, Kinds DEF NextSeq, Reading, TypeInv
  <2> QED  BY <1>0, <1>1, <1>r, <1>v, <2>1, VerdictFrom DEF NextSeq
<1>2. CASE ReadOn(r)
  <2>1. CASE CanRead(q.id, off)
    <3>1. q \in Reading /\ q.job \in JobRows /\ job \in JobRows /\ job # None
          /\ q.job.status # "completed" /\ off + 1 \in Nat
      BY <1>2, <1>r, Kinds DEF ReadOn, Reading, TypeInv
    <3>2. request'[r].job.status = q.job.status
      BY <1>2, <2>1, <3>1 DEF ReadOn, TypeInv, Reading, JobRows
    <3>3. job' = [job EXCEPT !.processed = off + 1] /\ UNCHANGED <<events, history>>
      BY <1>2, <2>1 DEF ReadOn
    <3>4. job' \in JobRows /\ job'.status = job.status /\ job'.result = job.result
      <4> HIDE DEF off
      <4> QED  BY <3>1, <3>3 DEF JobRows
    <3>5. job' # None
      BY <3>4, Somethings
    <3> QED  BY <1>0, <1>v, <3>1, <3>2, <3>3, <3>4, <3>5, VerdictFrom
  <2>2. CASE ~CanRead(q.id, off)
    BY <1>2, <2>2, SaveVerdict DEF ReadOn
  <2> QED  BY <2>1, <2>2
<1>3. CASE Pause(r)
  BY <1>3, SaveVerdict DEF Pause
<1>4. CASE Finish(r)
  <2> DEFINE result == IF q.got = evidence.content THEN "match" ELSE "mismatch"
  <2>1. CASE CheckUnchanged(q.id)
    <3>1. /\ job' = [q.job EXCEPT !.status = "completed", !.result = result]
          /\ events' = Append(events, result)
          /\ request' = [request EXCEPT ![r] = Idle]
          /\ history' = [history EXCEPT !.judged = inodes[q.id.ino].content]
      BY <1>4, <2>1 DEF Finish
    <3>2. q.job \in JobRows /\ job # None
      BY <1>4, <1>r, Kinds DEF Finish, Reading
    <3>3. q.got = inodes[q.id.ino].content
      BY <1>4, <2>1, ReadWhole DEF Finish
    <3>4. job' \in JobRows /\ job'.result = result
      BY <3>1, <3>2 DEF JobRows
    <3>5. history'.judged = q.got
      BY <3>1, <3>3 DEF TypeInv
    <3>6. events' # <<>>
      <4>1. events \in Seq({"match", "mismatch"}) /\ result \in {"match", "mismatch"}
        BY DEF TypeInv
      <4> HIDE DEF result
      <4>2. Len(events') = Len(events) + 1 /\ Len(events) \in Nat
        BY <3>1, <4>1
      <4> QED  BY <4>2
    <3>7. request'[r].at = "idle"
      BY <3>1 DEF TypeInv, Idle
    <3> QED  BY <1>0, <3>2, <3>4, <3>5, <3>6, <3>7, Somethings, VerdictFrom
  <2>2. CASE ~CheckUnchanged(q.id)
    BY <1>4, <2>2, SaveVerdict DEF Finish
  <2> QED  BY <2>1, <2>2
<1>5. CASE Fail(r)
  <2>1. request'[r].at = "idle" /\ UNCHANGED <<job, events, history>>
    BY <1>5 DEF Fail, Idle, TypeInv
  <2> QED  BY <1>0, <1>v, <2>1, VerdictFrom
<1> QED  BY <1>1, <1>2, <1>3, <1>4, <1>5

LEMMA VerdictStep ==
    ASSUME Parameters, TypeInv, ReadingIsTrue, VerdictInv, [Next]_vars
    PROVE  VerdictInv'
<1>1. CASE UNCHANGED vars
  BY <1>1 DEF vars, VerdictInv, Running
<1>2. CASE \E c \in Contents : Write(c) \/ Replace(c)
  <2>1. /\ UNCHANGED <<evidence, job, events, request>>
        /\ history'.registered = history.registered /\ history'.judged = history.judged
    BY <1>2 DEF Write, Replace, TypeInv
  <2> QED  BY <2>1 DEF VerdictInv, Running
<1>3. CASE CreateVerifyJob
  <2>1. job' = NewJob /\ evidence # None /\ UNCHANGED <<evidence, request, history>>
        /\ Running' = Running
    BY <1>3 DEF CreateVerifyJob, Running
  <2>2. job'.status # "completed"
    BY <2>1 DEF NewJob
  <2>3. job' # None
    BY <2>1, Somethings DEF NewJob, JobRows
  <2> QED  BY <2>1, <2>2, <2>3 DEF VerdictInv
<1>4. CASE Restart
  <2>1. Running' = {} /\ UNCHANGED <<evidence, events, history>>
    BY <1>4 DEF Restart, Running, Idle
  <2>2. /\ job' # None => job # None
        /\ job' # None /\ job'.status = "completed" => job' = job
    BY <1>4 DEF Restart, TypeInv, JobRows
  <2> QED  BY <2>1, <2>2 DEF VerdictInv
<1>5. CASE \E r \in Requests : Register(r) \/ HashWholeFile(r) \/ SaveBaseline(r)
  BY <1>5, RegisterVerdict
<1>6. CASE \E r \in Requests : RunJob(r) \/ Open(r) \/ Rows(r) \/ Recheck(r) \/ Rechecked(r)
  BY <1>6, RunVerdict
<1>7. CASE \E r \in Requests : NextSeq(r) \/ ReadOn(r) \/ Pause(r) \/ Finish(r) \/ Fail(r)
  BY <1>7, ReadVerdict
<1> QED  BY <1>1, <1>2, <1>3, <1>4, <1>5, <1>6, <1>7 DEF Next

\* Runs, if any, and the rows are as before.
LEMMA AloneSame ==
    ASSUME Alone, UNCHANGED <<job, chunks, events>>, history'.judged = history.judged,
           \A s \in Running' : s \in Running /\ request'[s] = request[s]
    PROVE  Alone'
<1>1. ASSUME NEW s \in Running' PROVE RunAlone(request[s])'
  <2>1. RunAlone(request[s])
    BY <1>1 DEF Alone
  <2>2. request'[s] = request[s]
    BY <1>1
  <2> QED  BY <2>1, <2>2 DEF RunAlone
<1>2. \A s, t \in Running' : s = t
    BY DEF Alone
<1>3. /\ \A k \in 1 .. Len(chunks') : chunks'[k].off = k - 1
      /\ job' = None => chunks' = <<>> /\ events' = <<>>
      /\ job' # None =>
             /\ Len(chunks') = job'.processed
             /\ job'.status = "completed" =>
                    \A k \in 1 .. Len(chunks') : chunks'[k].sum = history'.judged[k]
             /\ events' = IF job'.status = "completed" THEN <<job'.result>> ELSE <<>>
    BY DEF Alone
<1> QED  BY <1>1, <1>2, <1>3 DEF Alone

\* What a step of the run has to show
LEMMA AloneFrom ==
    ASSUME Alone, NEW r \in Requests, r \in Running,
           \A s \in Requests : s # r => request'[s] = request[s],
           request'[r].at \notin {"idle", "register"} => RunAlone(request[r])',
           \A k \in 1 .. Len(chunks') : chunks'[k].off = k - 1,
           job' # None, Len(chunks') = job'.processed,
           job'.status = "completed" =>
               \A k \in 1 .. Len(chunks') : chunks'[k].sum = history'.judged[k],
           events' = IF job'.status = "completed" THEN <<job'.result>> ELSE <<>>
    PROVE  Alone'
<1>1. \A s \in Running' : s = r
  <2> SUFFICES ASSUME NEW s \in Running', s # r PROVE FALSE
    OBVIOUS
  <2>1. s \in Running
    BY DEF Running
  <2> QED  BY <2>1 DEF Alone
<1>2. \A s \in Running' : RunAlone(request[s])'
  <2> SUFFICES ASSUME NEW s \in Running' PROVE RunAlone(request[s])'
    OBVIOUS
  <2>1. s = r /\ request'[r].at \notin {"idle", "register"}
    BY <1>1 DEF Running
  <2> QED  BY <2>1
<1> QED  BY <1>1, <1>2 DEF Alone

\* What is known where a run takes a step
LEMMA RunKnown ==
    ASSUME TypeInv, VerdictInv, Alone, NEW r \in Requests,
           request[r].at \notin {"idle", "register"}
    PROVE  /\ r \in Running /\ RunAlone(request[r])
           /\ job \in JobRows /\ job # None /\ request[r].job = job
           /\ job.status \in {"pending", "paused", "running"}
           /\ Len(chunks) = job.processed /\ events = <<>>
           /\ Len(chunks) \in Nat /\ DOMAIN chunks = 1 .. Len(chunks)
           /\ \A k \in 1 .. Len(chunks) : chunks[k].off = k - 1
<1>1. r \in Running
    BY DEF Running
<1>2. RunAlone(request[r]) /\ job # None
    BY <1>1 DEF Alone, VerdictInv
<1>3. job \in JobRows /\ Len(chunks) \in Nat /\ DOMAIN chunks = 1 .. Len(chunks)
    BY <1>2 DEF TypeInv
<1>4. request[r].job = job /\ job.status \in {"pending", "paused", "running"}
    BY <1>2 DEF RunAlone
<1> QED  BY <1>1, <1>2, <1>3, <1>4 DEF Alone

LEMMA SaveAlone ==
    ASSUME TypeInv, VerdictInv, Alone, NEW r \in Requests,
           request[r].at \notin {"idle", "register"},
           NEW status \in {"paused", "failed"}, Save(r, status)
    PROVE  Alone'
<1>1. /\ job' = [job EXCEPT !.status = status] /\ UNCHANGED <<chunks, events, history>>
      /\ request'[r].at = "idle"
      /\ \A s \in Requests : s # r => request'[s] = request[s]
    BY RunKnown DEF Save, Idle, TypeInv
<1>2. /\ job' \in JobRows /\ job'.status # "completed"
      /\ job'.processed = job.processed
    BY <1>1, RunKnown DEF JobRows
<1>3. job' # None
    BY <1>2, Somethings
<1> QED  BY <1>1, <1>2, <1>3, RunKnown, AloneFrom

LEMMA OpenAlone ==
    ASSUME TypeInv, VerdictInv, Alone, NEW r \in Requests, Open(r)
    PROVE  Alone'
<1> DEFINE q == request[r]
           copy == [q.job EXCEPT !.status = "running"]
<1>0. q.at = "open"
    BY DEF Open
<1>1. CASE ~Acceptable(OpenReadOnly, copy.processed)
    BY <1>0, <1>1, SaveAlone DEF Open
<1>2. CASE Acceptable(OpenReadOnly, copy.processed)
  <2> DEFINE next == [at |-> IF copy.processed > 0 THEN "rows" ELSE "seq", job |-> copy,
                      id |-> OpenReadOnly, got |-> <<>>, seq |-> 0, rows |-> <<>>]
  <2>1. /\ job' = copy /\ request' = [request EXCEPT ![r] = next]
        /\ UNCHANGED <<chunks, events, history>>
    BY <1>2 DEF Open
  <2>2. /\ copy \in JobRows /\ copy.status = "running"
        /\ copy.processed = job.processed /\ job.processed \in Nat
    BY <1>0, RunKnown DEF JobRows
  <2>3. request'[r] = next /\ \A s \in Requests : s # r => request'[s] = request[s]
    BY <2>1 DEF TypeInv
  <2>4. RunAlone(request[r])'
    <3>1. /\ next.job = copy /\ next.got = <<>> /\ Len(next.got) = 0
          /\ next.at \in {"rows", "seq"} /\ (next.at = "seq" => ~(copy.processed > 0))
      OBVIOUS
    <3>2. next.at = "seq" => Len(chunks) = 0
      BY <1>0, <2>2, <3>1, RunKnown
    <3> HIDE DEF next, copy
    <3> QED  BY <1>0, <2>1, <2>2, <2>3, <3>1, <3>2, RunKnown DEF RunAlone
  <2>5. job' # None
    BY <2>1, <2>2, Somethings
  <2> HIDE DEF copy
  <2> QED  BY <1>0, <2>1, <2>2, <2>3, <2>4, <2>5, RunKnown, AloneFrom
<1> QED  BY <1>1, <1>2

\* A step of the run that changes nothing but the run
LEMMA AloneMoves ==
    ASSUME TypeInv, VerdictInv, Alone, NEW r \in Requests,
           request[r].at \notin {"idle", "register"},
           UNCHANGED <<job, chunks, events, history>>,
           \A s \in Requests : s # r => request'[s] = request[s],
           RunAlone(request'[r])
    PROVE  Alone'
<1>1. RunAlone(request[r])'
    BY DEF RunAlone
<1> QED  BY <1>1, RunKnown, AloneFrom

LEMMA RowsAlone ==
    ASSUME TypeInv, VerdictInv, Alone, NEW r \in Requests, Rows(r)
    PROVE  Alone'
<1> DEFINE q == request[r]
<1>1. PICK p \in [DOMAIN chunks -> DOMAIN chunks] :
          request' = [request EXCEPT ![r].at = "recheck",
                                     ![r].rows = [i \in DOMAIN chunks |-> chunks[p[i]]]]
    BY DEF Rows
<1> DEFINE rows == [i \in DOMAIN chunks |-> chunks[p[i]]]
<1>0. q.at = "rows" /\ q \in Reading
    BY Kinds DEF Rows
<1>2. /\ request'[r].at = "recheck" /\ request'[r].rows = rows
      /\ request'[r].job = q.job /\ request'[r].got = q.got
      /\ \A s \in Requests : s # r => request'[s] = request[s]
    BY <1>0, <1>1 DEF Reading, TypeInv
<1>3. \A i \in 1 .. Len(rows) : \E k \in 1 .. Len(chunks) : rows[i] = chunks[k]
  <2>1. DOMAIN rows = 1 .. Len(chunks) /\ DOMAIN chunks = 1 .. Len(chunks)
        /\ Len(chunks) \in Nat
    BY <1>0, RunKnown
  <2>2. Len(rows) = Len(chunks)
    BY <2>1
  <2>3. \A i \in 1 .. Len(chunks) : p[i] \in 1 .. Len(chunks) /\ rows[i] = chunks[p[i]]
    BY <2>1
  <2> QED  BY <2>2, <2>3
<1>4. q.got = <<>> /\ q.job = job /\ job.status = "running"
    BY <1>0, RunKnown DEF RunAlone
<1>5. Len(q.got) = 0 /\ Len(chunks) \in Nat
    BY <1>0, <1>4, RunKnown
<1> HIDE DEF rows
<1>6. RunAlone(request'[r])
    BY <1>2, <1>3, <1>4, <1>5 DEF RunAlone
<1> QED  BY <1>0, <1>2, <1>6, AloneMoves DEF Rows

LEMMA RecheckAlone ==
    ASSUME TypeInv, VerdictInv, Alone, NEW r \in Requests, Recheck(r)
    PROVE  Alone'
<1> DEFINE q == request[r]
           off == Len(q.got)
           row == Head(q.rows)
           ok == row.off = off /\ CanRead(q.id, off) /\ ReadChunkAt(q.id, off) = row.sum
<1>0. q.at = "recheck" /\ q \in Reading /\ q.rows # <<>>
    BY Kinds DEF Recheck
<1>1. CASE ~ok
    BY <1>0, <1>1, SaveAlone DEF Recheck
<1>2. CASE ok
  <2>1. /\ UNCHANGED <<job, chunks, events, history>>
        /\ request' = [request EXCEPT ![r].got = Append(@, row.sum), ![r].rows = Tail(@)]
    BY <1>2 DEF Recheck
  <2>2. /\ request'[r].at = "recheck" /\ request'[r].job = q.job
        /\ request'[r].got = Append(q.got, row.sum) /\ request'[r].rows = Tail(q.rows)
        /\ \A s \in Requests : s # r => request'[s] = request[s]
    BY <1>0, <2>1 DEF Reading, TypeInv
  <2>3. q.got \in Seq(Digests) /\ q.rows \in Seq(ChunkRows) /\ off \in Nat
    BY <1>0 DEF Reading
  <2>4. /\ q.job = job /\ job.status = "running"
        /\ \A i \in 1 .. Len(q.rows) : \E k \in 1 .. Len(chunks) : q.rows[i] = chunks[k]
        /\ \A k \in 1 .. off : q.got[k] = chunks[k].sum
    BY <1>0, RunKnown DEF RunAlone
  <2>5. /\ row = q.rows[1] /\ 1 \in 1 .. Len(q.rows)
        /\ Len(Tail(q.rows)) = Len(q.rows) - 1 /\ Len(q.rows) \in Nat
        /\ \A i \in 1 .. Len(Tail(q.rows)) :
               Tail(q.rows)[i] = q.rows[i + 1] /\ i + 1 \in 1 .. Len(q.rows)
    BY <1>0, <2>3
  <2>6. PICK k \in 1 .. Len(chunks) : row = chunks[k]
    BY <2>4, <2>5
  <2>7. row.off = k - 1 /\ Len(chunks) \in Nat
    BY <1>0, <2>6, RunKnown
  <2>8. k = off + 1 /\ off + 1 <= Len(chunks) /\ row.sum = chunks[off + 1].sum
    BY <1>2, <2>3, <2>6, <2>7
  <2>9. \A i \in 1 .. Len(Tail(q.rows)) :
            \E m \in 1 .. Len(chunks) : Tail(q.rows)[i] = chunks[m]
    BY <2>4, <2>5
  <2> DEFINE got == Append(q.got, row.sum)
  <2>10. /\ Len(got) = off + 1
         /\ \A m \in 1 .. off : got[m] = q.got[m]
         /\ got[off + 1] = row.sum
         /\ \A m \in 1 .. Len(got) : m \in 1 .. off \/ m = off + 1
    <3>1. row.sum \in Digests
      <4>1. chunks \in Seq(ChunkRows)
        BY DEF TypeInv
      <4>2. chunks[k] \in ChunkRows
        BY <4>1
      <4> QED  BY <2>6, <4>2 DEF ChunkRows
    <3> HIDE DEF row
    <3> QED  BY <2>3, <3>1, Appended
  <2>11. \A m \in 1 .. Len(got) : got[m] = chunks[m].sum
    <3> SUFFICES ASSUME NEW m \in 1 .. Len(got) PROVE got[m] = chunks[m].sum
      OBVIOUS
    <3>1. m \in 1 .. off \/ m = off + 1
      BY <2>10
    <3> HIDE DEF got, off, row
    <3> QED  BY <2>4, <2>8, <2>10, <3>1
  <2>12. RunAlone(request'[r])
    <3>1. request'[r].got = got /\ Len(got) <= Len(chunks)
      BY <2>2, <2>8, <2>10
    <3>2. /\ request'[r].at = "recheck" /\ request'[r].job = job
          /\ request'[r].rows = Tail(q.rows)
      BY <2>2, <2>4
    <3> HIDE DEF got, off, row
    <3> QED  BY <2>4, <2>9, <2>11, <3>1, <3>2 DEF RunAlone
  <2> QED  BY <1>0, <2>1, <2>2, <2>12, AloneMoves
<1> QED  BY <1>1, <1>2

LEMMA RecheckedAlone ==
    ASSUME TypeInv, VerdictInv, Alone, NEW r \in Requests, Rechecked(r) \/ NextSeq(r)
    PROVE  Alone'
<1> DEFINE q == request[r]
<1>0. q.at \in {"recheck", "seq"} /\ q \in Reading
    BY Kinds DEF Rechecked, NextSeq
<1>1. CASE Rechecked(r) /\ Len(q.got) # q.job.processed
    BY <1>0, <1>1, SaveAlone DEF Rechecked
<1>2. CASE NextSeq(r) \/ Len(q.got) = q.job.processed
  <2>1. /\ UNCHANGED <<job, chunks, events, history>>
        /\ request'[r].at \in {"seq", "read"}
        /\ request'[r].job = q.job /\ request'[r].got = q.got
        /\ \A s \in Requests : s # r => request'[s] = request[s]
    <3>1. \/ request' = [request EXCEPT ![r].at = "seq"]
          \/ \E n : request' = [request EXCEPT ![r].at = "read", ![r].seq = n]
      BY <1>2 DEF Rechecked, NextSeq
    <3>2. UNCHANGED <<job, chunks, events, history>>
      BY <1>2 DEF Rechecked, NextSeq
    <3> QED  BY <1>0, <3>1, <3>2 DEF Reading, TypeInv
  <2>2. Len(q.got) = Len(chunks)
    <3>1. CASE NextSeq(r)
      BY <1>0, <3>1, RunKnown DEF RunAlone, NextSeq
    <3>2. CASE ~NextSeq(r)
      BY <1>0, <1>2, <3>2, RunKnown
    <3> QED  BY <3>1, <3>2
  <2>3. RunAlone(request'[r])
    BY <1>0, <2>1, <2>2, RunKnown DEF RunAlone
  <2> QED  BY <1>0, <2>1, <2>3, AloneMoves
<1> QED  BY <1>1, <1>2

\* The chunk that is stored is the next one, and so is its place.
LEMMA ReadOnAlone ==
    ASSUME Parameters, TypeInv, ReadingIsTrue, VerdictInv, Alone,
           NEW r \in Requests, ReadOn(r)
    PROVE  Alone'
<1> DEFINE q == request[r]
           off == Len(q.got)
           sum == ReadChunkAt(q.id, off)
           row == [seq |-> q.seq, off |-> off, sum |-> sum]
<1>0. q.at = "read" /\ q \in Reading
    BY Kinds DEF ReadOn
<1>1. CASE ~CanRead(q.id, off)
    BY <1>0, <1>1, SaveAlone DEF ReadOn
<1>2. CASE CanRead(q.id, off)
  <2>1. /\ chunks' = Append(chunks, row)
        /\ job' = [job EXCEPT !.processed = off + 1]
        /\ request' = [request EXCEPT ![r].got = Append(@, sum), ![r].seq = @ + 1,
                                      ![r].job.processed = off + 1]
        /\ UNCHANGED <<events, history>>
    BY <1>2 DEF ReadOn
  <2>2. q.got \in Seq(Digests) /\ sum \in Digests /\ off \in Nat
    BY <1>0, <1>2, ChunkRead
  <2>3. /\ q.job = job /\ job \in JobRows /\ job.status = "running"
        /\ off = Len(chunks)
        /\ \A k \in 1 .. off : q.got[k] = chunks[k].sum
        /\ \A k \in 1 .. off : chunks[k].off = k - 1
        /\ events = <<>>
    BY <1>0, RunKnown DEF RunAlone
  <2>4. row \in ChunkRows
    BY <1>0, <2>2 DEF Reading, ChunkRows
  <2>5. /\ Len(chunks') = off + 1
        /\ \A k \in 1 .. off : chunks'[k] = chunks[k]
        /\ chunks'[off + 1] = row
    <3>1. chunks \in Seq(ChunkRows)
      BY DEF TypeInv
    <3> HIDE DEF row, off
    <3> QED  BY <2>1, <2>3, <2>4, <3>1, Appended
  <2> DEFINE got == Append(q.got, sum)
  <2>6. /\ Len(got) = off + 1
        /\ \A k \in 1 .. off : got[k] = q.got[k]
        /\ got[off + 1] = sum
    <3> HIDE DEF sum
    <3> QED  BY <2>2, Appended
  <2>7. /\ request'[r].at = "read" /\ request'[r].got = got
        /\ request'[r].job = [q.job EXCEPT !.processed = off + 1]
        /\ \A s \in Requests : s # r => request'[s] = request[s]
    <3> HIDE DEF off, sum
    <3> QED  BY <1>0, <2>1 DEF Reading, TypeInv
  <2>8. \A k \in 1 .. (off + 1) : k \in 1 .. off \/ k = off + 1
    <3> HIDE DEF off
    <3> QED  BY <2>2
  <2>9. row.off = off /\ row.sum = sum /\ (off + 1) - 1 = off
    BY <2>2
  <2> HIDE DEF off, sum, row, got
  <2>10. \A k \in 1 .. Len(chunks') : chunks'[k].off = k - 1
    <3> SUFFICES ASSUME NEW k \in 1 .. (off + 1) PROVE chunks'[k].off = k - 1
      BY <2>5
    <3>1. CASE k = off + 1
      BY <2>5, <2>9, <3>1
    <3>2. CASE k \in 1 .. off
      BY <2>3, <2>5, <3>2
    <3> QED  BY <2>8, <3>1, <3>2
  <2>11. \A k \in 1 .. Len(got) : got[k] = chunks'[k].sum
    <3> SUFFICES ASSUME NEW k \in 1 .. (off + 1) PROVE got[k] = chunks'[k].sum
      BY <2>6
    <3>1. CASE k = off + 1
      BY <2>5, <2>6, <2>9, <3>1
    <3>2. CASE k \in 1 .. off
      BY <2>3, <2>5, <2>6, <3>2
    <3> QED  BY <2>8, <3>1, <3>2
  <2>12. /\ job' \in JobRows /\ job'.processed = off + 1 /\ job'.status = "running"
         /\ request'[r].job = job'
    <3>1. off + 1 \in Nat /\ request'[r].job = job'
      BY <2>1, <2>2, <2>3, <2>7
    <3> QED  BY <2>1, <2>3, <3>1 DEF JobRows
  <2>13. RunAlone(request[r])'
    <3>1. /\ request'[r].at = "read" /\ request'[r].got = got
          /\ request'[r].job = job' /\ job'.status = "running"
          /\ Len(got) = Len(chunks') /\ Len(chunks') \in Nat
      BY <2>2, <2>5, <2>6, <2>7, <2>12
    <3> QED  BY <2>11, <3>1 DEF RunAlone
  <2>14. job' # None
    BY <2>12, Somethings
  <2>15. /\ Len(chunks') = job'.processed /\ job'.status # "completed"
         /\ events' = <<>>
    BY <2>1, <2>3, <2>5, <2>12
  <2>16. r \in Running
    BY <1>0, RunKnown
  <2> QED  BY <2>7, <2>10, <2>13, <2>14, <2>15, <2>16, AloneFrom
<1> QED  BY <1>1, <1>2

\* The verdict is about the content that the chunks are of.
LEMMA FinishAlone ==
    ASSUME Parameters, TypeInv, ReadingIsTrue, VerdictInv, Alone,
           NEW r \in Requests, Finish(r)
    PROVE  Alone'
<1> DEFINE q == request[r]
           result == IF q.got = evidence.content THEN "match" ELSE "mismatch"
<1>0. q.at = "read" /\ q \in Reading
    BY Kinds DEF Finish
<1>1. CASE ~CheckUnchanged(q.id)
    BY <1>0, <1>1, SaveAlone DEF Finish
<1>2. CASE CheckUnchanged(q.id)
  <2>1. /\ job' = [q.job EXCEPT !.status = "completed", !.result = result]
        /\ events' = Append(events, result)
        /\ request' = [request EXCEPT ![r] = Idle]
        /\ history' = [history EXCEPT !.judged = inodes[q.id.ino].content]
        /\ UNCHANGED chunks
    BY <1>2 DEF Finish
  <2>2. q.got = inodes[q.id.ino].content
    BY <1>0, <1>2, ReadWhole DEF Finish
  <2>3. history'.judged = q.got
    BY <2>1, <2>2 DEF TypeInv
  <2>4. \A k \in 1 .. Len(chunks) : chunks[k].sum = q.got[k]
    BY <1>0, RunKnown DEF RunAlone
  <2>5. /\ job' \in JobRows /\ job'.processed = job.processed
        /\ job'.status = "completed" /\ job'.result = result
    BY <1>0, <2>1, RunKnown DEF JobRows
  <2>6. events' = <<result>>
    <3>1. events = <<>>
      BY <1>0, RunKnown
    <3> HIDE DEF result
    <3>2. events' = Append(<<>>, result)
      BY <2>1, <3>1
    <3> QED  BY <3>2
  <2>7. /\ request'[r].at = "idle"
        /\ \A s \in Requests : s # r => request'[s] = request[s]
    BY <2>1 DEF Idle, TypeInv
  <2>8. job' # None
    BY <2>5, Somethings
  <2> HIDE DEF result
  <2> QED  BY <1>0, <2>1, <2>3, <2>4, <2>5, <2>6, <2>7, <2>8, RunKnown, AloneFrom
<1> QED  BY <1>1, <1>2

LEMMA FailAlone ==
    ASSUME TypeInv, Alone, NEW r \in Requests, Fail(r)
    PROVE  Alone'
<1>1. /\ request'[r].at = "idle" /\ UNCHANGED <<job, chunks, events, history>>
      /\ \A s \in Requests : s # r => request'[s] = request[s]
    BY DEF Fail, Idle, TypeInv
<1>2. \A s \in Running' : s \in Running /\ request'[s] = request[s]
    BY <1>1 DEF Running
<1> QED  BY <1>1, <1>2, AloneSame

\* A registration is not a run.
LEMMA RegisterAlone ==
    ASSUME TypeInv, Alone, NEW r \in Requests,
           Register(r) \/ HashWholeFile(r) \/ SaveBaseline(r)
    PROVE  Alone'
<1>1. UNCHANGED <<job, chunks, events>> /\ history'.judged = history.judged
    BY DEF Register, HashWholeFile, SaveBaseline, TypeInv
<1>2. /\ request'[r].at \in {"idle", "register"}
      /\ \A s \in Requests : s # r => request'[s] = request[s]
  <2>1. CASE Register(r)
    BY <2>1 DEF Register, TypeInv
  <2>2. CASE HashWholeFile(r)
    BY <2>2, Kinds DEF HashWholeFile, Registering, TypeInv, Idle
  <2>3. CASE SaveBaseline(r)
    BY <2>3 DEF SaveBaseline, TypeInv, Idle
  <2> QED  BY <2>1, <2>2, <2>3
<1>3. \A s \in Running' : s \in Running /\ request'[s] = request[s]
    BY <1>2 DEF Running
<1> QED  BY <1>1, <1>3, AloneSame

\* A run that begins alone
LEMMA RunJobAlone ==
    ASSUME TypeInv, Alone, NEW r \in Requests, RunJob(r), ~history'.overlapped
    PROVE  Alone'
<1>1. /\ request' = [request EXCEPT ![r] = [at |-> "open", job |-> job]]
      /\ job # None /\ job.status \in {"pending", "paused"}
      /\ UNCHANGED <<inodes, evidence, job, chunks, events>>
      /\ history' = [history EXCEPT !.overlapped = @ \/ Running # {}]
    BY DEF RunJob
<1>2. Running = {} /\ history'.judged = history.judged
    BY <1>1 DEF TypeInv
<1>3. request'[r] = [at |-> "open", job |-> job]
      /\ \A s \in Requests : s # r => request'[s] = request[s]
    BY <1>1 DEF TypeInv
<1>4. \A s \in Running' : s = r
    BY <1>2, <1>3 DEF Running
<1>5. RunAlone(request[r])'
    BY <1>1, <1>3 DEF RunAlone
<1>6. \A s \in Running' : RunAlone(request[s])'
  <2> SUFFICES ASSUME NEW s \in Running' PROVE RunAlone(request[s])'
    OBVIOUS
  <2>1. s = r
    BY <1>4
  <2> QED  BY <1>5, <2>1
<1> QED  BY <1>1, <1>2, <1>4, <1>6 DEF Alone

LEMMA OtherAlone ==
    ASSUME TypeInv, VerdictInv, Alone, CreateVerifyJob \/ Restart
    PROVE  Alone'
<1>1. CASE CreateVerifyJob
  <2>1. /\ job = None /\ job' = NewJob /\ UNCHANGED <<chunks, events, request, history>>
        /\ Running = {} /\ Running' = {} /\ chunks = <<>> /\ events = <<>>
    BY <1>1 DEF CreateVerifyJob, VerdictInv, Running, Alone
  <2>2. job'.status = "pending" /\ job'.processed = 0 /\ job' # None
    BY <2>1, Somethings DEF NewJob, JobRows
  <2> QED  BY <2>1, <2>2 DEF Alone
<1>2. CASE Restart
  <2>1. Running' = {} /\ UNCHANGED <<chunks, events, history>>
    BY <1>2 DEF Restart, Running, Idle
  <2>2. CASE job' = job
    BY <2>1, <2>2, AloneSame
  <2>3. CASE job' # job
    <3>1. /\ job # None /\ job \in JobRows /\ job.status = "running"
          /\ job' = [job EXCEPT !.status = "paused"]
      BY <1>2, <2>3 DEF Restart, TypeInv
    <3>2. /\ job' \in JobRows /\ job'.status = "paused" /\ job'.processed = job.processed
      BY <3>1 DEF JobRows
    <3>3. job' # None
      BY <3>2, Somethings
    <3> QED  BY <2>1, <3>1, <3>2, <3>3 DEF Alone
  <2> QED  BY <2>2, <2>3
<1> QED  BY <1>1, <1>2

LEMMA AloneStep ==
    ASSUME Parameters, TypeInv, ReadingIsTrue, VerdictInv, history.overlapped \/ Alone,
           [Next]_vars
    PROVE  history'.overlapped \/ Alone'
<1>1. CASE UNCHANGED vars
  <2>1. UNCHANGED <<job, chunks, events, request, history>>
    BY <1>1 DEF vars
  <2> QED  BY <2>1, AloneSame DEF Running
<1>2. CASE Next
  <2>1. history.overlapped => history'.overlapped
    <3>1. \/ \E n : history' = [history EXCEPT !.stamp = n]
          \/ \E c : history' = [history EXCEPT !.registered = c]
          \/ history' = [history EXCEPT !.overlapped = @ \/ Running # {}]
          \/ \E c : history' = [history EXCEPT !.judged = c]
          \/ UNCHANGED history
      BY <1>2 DEF Next, Write, Replace, Register, HashWholeFile, SaveBaseline, RunJob,
                  Open, Rows, Recheck, Rechecked, NextSeq, ReadOn, Pause, Finish, Fail,
                  Save, CreateVerifyJob, Restart
    <3> QED  BY <3>1 DEF TypeInv
  <2> SUFFICES ASSUME Alone, ~history'.overlapped PROVE Alone'
    BY <2>1
  <2>2. CASE \E c \in Contents : Write(c) \/ Replace(c)
    <3>1. UNCHANGED <<job, chunks, events, request>> /\ history'.judged = history.judged
      BY <2>2 DEF Write, Replace, TypeInv
    <3> QED  BY <3>1, AloneSame DEF Running
  <2>3. CASE CreateVerifyJob \/ Restart
    BY <2>3, OtherAlone
  <2>4. CASE \E r \in Requests : Register(r) \/ HashWholeFile(r) \/ SaveBaseline(r)
    BY <2>4, RegisterAlone
  <2>5. CASE \E r \in Requests : RunJob(r) \/ Open(r) \/ Rows(r)
    BY <2>5, RunJobAlone, OpenAlone, RowsAlone
  <2>6. CASE \E r \in Requests : Recheck(r) \/ Rechecked(r) \/ NextSeq(r)
    BY <2>6, RecheckAlone, RecheckedAlone
  <2>7. CASE \E r \in Requests : Pause(r)
    <3>1. PICK r \in Requests : Pause(r)
      BY <2>7
    <3>2. request[r].at \notin {"idle", "register"} /\ Save(r, "paused")
      BY <3>1 DEF Pause
    <3> QED  BY <3>2, SaveAlone
  <2>8. CASE \E r \in Requests : ReadOn(r) \/ Finish(r) \/ Fail(r)
    BY <2>8, ReadOnAlone, FinishAlone, FailAlone
  <2> QED  BY <1>2, <2>2, <2>3, <2>4, <2>5, <2>6, <2>7, <2>8 DEF Next
<1> QED  BY <1>1, <1>2

LEMMA IInvInit == ASSUME Parameters, Init PROVE IInv
<1>1. Running = {}
    BY DEF Init, Idle, Running
<1>2. VerdictInv /\ Alone
    BY <1>1 DEF Init, VerdictInv, Alone, None
<1> QED  BY <1>2, TypesInit, ReadingInit DEF IInv

LEMMA IInvStep == ASSUME Parameters, IInv, [Next]_vars PROVE IInv'
BY TypesStep, ReadingStep, VerdictStep, AloneStep DEF IInv

\* The chunks of a job that never ran twice at once are its progress.
LEMMA IInvSound == ASSUME IInv PROVE JobsSound
<1>1. ASSUME job # None, ~history.overlapped
      PROVE  /\ Len(chunks) = job.processed
             /\ {chunks[i].off : i \in DOMAIN chunks} = 0 .. (job.processed - 1)
             /\ job.status = "completed" => \A i \in DOMAIN chunks :
                    chunks[i].sum = history.judged[chunks[i].off + 1]
             /\ events = IF job.status = "completed" THEN <<job.result>> ELSE <<>>
  <2>1. Alone
    BY <1>1 DEF IInv
  <2>2. Len(chunks) \in Nat /\ DOMAIN chunks = 1 .. Len(chunks)
    BY DEF IInv, TypeInv
  <2>3. \A k \in 1 .. Len(chunks) : chunks[k].off = k - 1 /\ chunks[k].off + 1 = k
    BY <2>1, <2>2 DEF Alone
  <2>4. {chunks[i].off : i \in DOMAIN chunks} = 0 .. (Len(chunks) - 1)
    <3>1. ASSUME NEW n \in 0 .. (Len(chunks) - 1)
          PROVE  \E i \in DOMAIN chunks : chunks[i].off = n
      <4>1. n + 1 \in 1 .. Len(chunks) /\ (n + 1) - 1 = n
        BY <2>2
      <4> QED  BY <2>2, <2>3, <4>1
    <3>2. ASSUME NEW i \in DOMAIN chunks
          PROVE  chunks[i].off \in 0 .. (Len(chunks) - 1)
      BY <2>2, <2>3
    <3> QED  BY <3>1, <3>2
  <2> QED  BY <1>1, <2>1, <2>2, <2>3, <2>4 DEF Alone
<1>2. /\ evidence # None => evidence.content = history.registered
      /\ job # None /\ job.status = "completed" =>
             /\ job.result = (IF history.judged = evidence.content THEN "match"
                              ELSE "mismatch")
             /\ events # <<>>
    BY DEF IInv, VerdictInv
<1> QED  BY <1>1, <1>2 DEF JobsSound

-----------------------------------------------------------------------------
\* However a file changes and a job is interrupted, its baseline is what the
\* file contained and its verdict is about what it contains then; and unless two
\* runs overlap, its rows are its progress (service.go:47-95, 134-306).
THEOREM JobsOfImages == ASSUME Parameters PROVE Spec => []JobsSound
<1>1. Init => IInv
    BY IInvInit
<1>2. IInv /\ [Next]_vars => IInv'
    BY IInvStep
<1>3. IInv => JobsSound
    BY IInvSound
<1> QED  BY <1>1, <1>2, <1>3, PTL DEF Spec
=============================================================================
