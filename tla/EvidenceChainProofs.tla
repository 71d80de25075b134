------------------------- MODULE EvidenceChainProofs -------------------------
(***************************************************************************)
(* For any requests, people and bounds: the answer of Verify is true of    *)
(* the chain, the custodian is the receiver of its last transfer, and      *)
(* without edits from outside the chain implements the log of EvidenceLog. *)
(***************************************************************************)
EXTENDS EvidenceChain, SequenceTheorems, TLAPS

\* What a request carries to its transaction
Loaded == [type : {"none", "note", "transfer"}, at : Nat, from : People \cup {0}]

\* A row has all its columns. The envelope that a digest names is not looked
\* into: it names the digest of another one, and so on.
EnvelopeOK(e) ==
    /\ e = Envelope(e.type, e.sequence, e.prev, e.at, e.from, e.to)
    /\ e.sequence \in Nat
    /\ e.at \in Nat
RowOK(row) ==
    /\ row = [envelope |-> row.envelope, digest |-> row.digest]
    /\ EnvelopeOK(row.envelope)

Rows == {events[i] : i \in DOMAIN events}

TypeInv ==
    /\ clock \in Nat
    /\ custodian \in People \cup {0}
    /\ request \in [Requests -> Loaded]
    /\ tampered \in {"no", "tail", "inner"}
    /\ events \in Seq(Rows)
    /\ \A i \in 1 .. Len(events) : RowOK(events[i])

\* Until somebody edits the table, nothing in it looks edited.
Unforged ==
    tampered = "no" =>
        \A i \in 1 .. Len(events) : events[i].envelope.from \in People \cup {0}

\* The largest index of a transfer, and its receiver
Transfers == {i \in 1 .. Len(events) : events[i].envelope.type = "transfer"}
HolderInv ==
    tampered = "no" /\ Transfers # {} =>
        \E i \in Transfers :
            /\ \A j \in Transfers : j <= i
            /\ custodian = events[i].envelope.to

IInv == TypeInv /\ Unforged /\ VerifySound /\ HolderInv

\* The row that an append writes
Previous == IF events = <<>> THEN Row(Envelope("none", 0, <<>>, 0, 0, 0))
            ELSE Last(events)
Appended(r, to) ==
    Row(Envelope(request[r].type, Previous.envelope.sequence + 1,
        IF events = <<>> THEN ZeroDigest ELSE Previous.digest,
        EventTime(Previous.envelope, request[r].at), request[r].from, to))

-----------------------------------------------------------------------------
(* Sequences of rows *)

LEMMA RowFields ==
    ASSUME NEW e
    PROVE  Row(e).envelope = e /\ Row(e).digest = <<e>>
  BY DEF Row, Digest

LEMMA EnvelopeFields ==
    ASSUME NEW type, NEW sequence, NEW prev, NEW at, NEW from, NEW to
    PROVE  LET e == Envelope(type, sequence, prev, at, from, to)
           IN  /\ e.type = type /\ e.sequence = sequence /\ e.prev = prev
               /\ e.at = at /\ e.from = from /\ e.to = to
               /\ sequence \in Nat /\ at \in Nat => RowOK(Row(e))
  BY DEF Envelope, Row, Digest, RowOK, EnvelopeOK

\* A change of the table leaves a sequence of rows.
LEMMA RowsAgain ==
    ASSUME NEW S, NEW s \in Seq(S), events' = s
    PROVE  /\ events' \in Seq(Rows')
           /\ DOMAIN events' = 1 .. Len(events')
           /\ Len(events') \in Nat
  <1>1. Len(s) \in Nat /\ s \in [1 .. Len(s) -> S] /\ DOMAIN s = 1 .. Len(s)
    BY LenProperties
  <1>2. s \in [1 .. Len(s) -> {s[i] : i \in DOMAIN s}]
    BY <1>1
  <1>3. s \in Seq({s[i] : i \in DOMAIN s})
    BY <1>1, <1>2
  <1> QED
    BY <1>1, <1>3 DEF Rows

-----------------------------------------------------------------------------
(* The initial state *)

LEMMA InitInv == Init => IInv
  <1> SUFFICES ASSUME Init PROVE IInv
    OBVIOUS
  <1>1. events = <<>> /\ Len(events) = 0 /\ DOMAIN events = {}
    BY EmptySeq DEF Init
  <1>2. TypeInv
    BY <1>1, EmptySeq DEF Init, TypeInv, Idle, Loaded
  <1>3. VerifySound
    BY <1>1 DEF Init, VerifySound, Healthy
  <1>4. Unforged /\ HolderInv
    BY <1>1 DEF Unforged, HolderInv, Transfers
  <1> QED
    BY <1>2, <1>3, <1>4 DEF IInv

-----------------------------------------------------------------------------
(* An append *)

\* What the table is after an append
LEMMA AppendEffect ==
    ASSUME TypeInv, NEW r \in Requests, NEW to, AppendEvent(r, to)
    PROVE  LET e == Appended(r, to)
           IN  /\ Len(events') = Len(events) + 1
               /\ \A i \in 1 .. Len(events) : events'[i] = events[i]
               /\ events'[Len(events) + 1] = e
               /\ events' \in Seq(Rows')
               /\ DOMAIN events' = 1 .. Len(events')
               /\ RowOK(e)
  <1> DEFINE e == Appended(r, to)
  <1>1. events' = Append(events, e)
    BY DEF AppendEvent, Appended, Previous
  <1>2. Len(events) \in Nat /\ events \in Seq(Rows \cup {e})
    BY SeqMonotonic, LenProperties DEF TypeInv
  <1>3. events' \in Seq(Rows \cup {e})
    BY <1>1, <1>2
  <1>4. /\ events' \in Seq(Rows')
        /\ DOMAIN events' = 1 .. Len(events')
    BY <1>3, RowsAgain
  <1>5. /\ Len(events') = Len(events) + 1
        /\ \A i \in 1 .. Len(events) : events'[i] = events[i]
        /\ events'[Len(events) + 1] = e
    BY <1>1, <1>2
  <1>6. request[r].at \in Nat
    BY DEF TypeInv, Loaded
  <1>7. Previous.envelope.sequence \in Nat /\ Previous.envelope.at \in Nat
    <2>1. CASE events = <<>>
      <3>1. Previous.envelope = Envelope("none", 0, <<>>, 0, 0, 0)
        BY <2>1, RowFields DEF Previous
      <3> QED
        BY <3>1 DEF Envelope
    <2>2. CASE events # <<>>
      <3>1. Len(events) \in 1 .. Len(events)
        BY <1>2, <2>2, EmptySeq
      <3>2. RowOK(events[Len(events)])
        BY <3>1 DEF TypeInv
      <3> QED
        BY <2>2, <3>2 DEF Previous, Last, RowOK, EnvelopeOK
    <2> QED
      BY <2>1, <2>2
  <1>8. EventTime(Previous.envelope, request[r].at) \in Nat
    BY <1>6, <1>7 DEF EventTime
  <1>9. RowOK(e)
    BY <1>7, <1>8, EnvelopeFields DEF Appended
  <1> QED
    BY <1>4, <1>5, <1>9

LEMMA AppendType ==
    ASSUME TypeInv, NEW r \in Requests, NEW to \in People \cup {0},
           AppendEvent(r, to)
    PROVE  TypeInv'
  <1>1. /\ Len(events) \in Nat
        /\ Len(events') = Len(events) + 1
        /\ \A i \in 1 .. Len(events) : events'[i] = events[i]
        /\ RowOK(events'[Len(events) + 1])
        /\ events' \in Seq(Rows')
    BY AppendEffect, LenProperties DEF TypeInv
  <1>2. \A i \in 1 .. Len(events') : RowOK(events'[i])
    BY <1>1 DEF TypeInv
  <1>3. request' \in [Requests -> Loaded]
    BY DEF AppendEvent, TypeInv, Idle, Loaded
  <1> QED
    BY <1>1, <1>2, <1>3 DEF TypeInv, AppendEvent

LEMMA AppendVerify ==
    ASSUME TypeInv, VerifySound, NEW r \in Requests, NEW to \in People \cup {0},
           AppendEvent(r, to)
    PROVE  VerifySound'
  <1> DEFINE n == Len(events)
             e == Appended(r, to)
             at == EventTime(Previous.envelope, request[r].at)
  <1>1. /\ n \in Nat
        /\ DOMAIN events = 1 .. n
        /\ Len(events') = n + 1
        /\ DOMAIN events' = 1 .. n + 1
        /\ \A i \in 1 .. n : events'[i] = events[i]
        /\ events'[n + 1] = e
    BY AppendEffect, LenProperties DEF TypeInv
  <1>2. /\ e.digest = Digest(e.envelope)
        /\ e.envelope.sequence = Previous.envelope.sequence + 1
        /\ e.envelope.prev = IF events = <<>> THEN ZeroDigest ELSE Previous.digest
        /\ e.envelope.at = at
    BY RowFields, EnvelopeFields DEF Appended, Digest
  <1>3. tampered' = tampered
    BY DEF AppendEvent
  <1>4. CASE events = <<>>
    <2>1. n = 0
      BY <1>4
    <2>2. Previous.envelope.sequence = 0
      BY <1>4, RowFields DEF Previous, Envelope
    <2>3. Healthy /\ Healthy'
      BY <1>1, <1>2, <1>4, <2>1, <2>2 DEF Healthy, ZeroDigest
    <2> QED
      BY <1>3, <2>3 DEF VerifySound
  <1>5. CASE events # <<>>
    <2>1. n >= 1 /\ Previous = events[n] /\ RowOK(events[n])
      BY <1>1, <1>5, EmptySeq DEF Previous, Last, TypeInv
    <2>2. at >= events[n].envelope.at
      <3>1. request[r].at \in Nat /\ events[n].envelope.at \in Nat
        BY <2>1 DEF TypeInv, Loaded, RowOK, EnvelopeOK
      <3> QED
        BY <2>1, <3>1 DEF EventTime
    <2>3. events' # <<>>
      BY <1>1
    <2>4. Healthy => Healthy'
      <3> SUFFICES ASSUME Healthy PROVE Healthy'
        OBVIOUS
      <3>1. /\ events'[1].envelope.sequence = 1
            /\ events'[1].envelope.prev = ZeroDigest
        BY <1>1, <1>5, <2>1 DEF Healthy
      <3>2. ASSUME NEW i \in 1 .. n + 1
            PROVE  events'[i].digest = Digest(events'[i].envelope)
        <4>1. CASE i = n + 1
          BY <1>1, <1>2, <4>1
        <4>2. CASE i # n + 1
          <5>1. i \in DOMAIN events /\ events'[i] = events[i]
            BY <1>1, <4>2
          <5> QED
            BY <5>1 DEF Healthy
        <4> QED
          BY <4>1, <4>2
      <3>3. ASSUME NEW i \in 2 .. n + 1
            PROVE  /\ events'[i].envelope.sequence =
                          events'[i - 1].envelope.sequence + 1
                   /\ events'[i].envelope.prev = events'[i - 1].digest
                   /\ events'[i].envelope.at >= events'[i - 1].envelope.at
        <4>1. CASE i = n + 1
          <5>1. i - 1 = n /\ events'[i] = e /\ events'[i - 1] = events[n]
            BY <1>1, <2>1, <4>1
          <5> QED
            BY <1>2, <1>5, <2>1, <2>2, <5>1
        <4>2. CASE i # n + 1
          <5>1. i \in 2 .. n /\ events'[i] = events[i] /\ events'[i - 1] = events[i - 1]
            BY <1>1, <4>2
          <5> QED
            BY <5>1 DEF Healthy
        <4> QED
          BY <4>1, <4>2
      <3> QED
        BY <1>1, <3>1, <3>2, <3>3 DEF Healthy
    <2>5. Healthy' => Healthy
      <3> SUFFICES ASSUME Healthy' PROVE Healthy
        OBVIOUS
      <3>1. \A i \in 1 .. n : events'[i].digest = Digest(events'[i].envelope)
        BY <1>1 DEF Healthy
      <3>2. \A i \in 2 .. n :
                /\ events'[i].envelope.sequence = events'[i - 1].envelope.sequence + 1
                /\ events'[i].envelope.prev = events'[i - 1].digest
                /\ events'[i].envelope.at >= events'[i - 1].envelope.at
        BY <1>1 DEF Healthy
      <3>3. /\ events'[1].envelope.sequence = 1
            /\ events'[1].envelope.prev = ZeroDigest
        BY <2>3 DEF Healthy
      <3>4. \A i \in 2 .. n : events'[i] = events[i] /\ events'[i - 1] = events[i - 1]
        BY <1>1
      <3> QED
        BY <1>1, <2>1, <3>1, <3>2, <3>3, <3>4 DEF Healthy
    <2> QED
      BY <1>3, <2>4, <2>5 DEF VerifySound
  <1> QED
    BY <1>4, <1>5

LEMMA AppendHolder ==
    ASSUME TypeInv, Unforged, HolderInv, NEW r \in Requests,
           NEW to \in People \cup {0}, AppendEvent(r, to)
    PROVE  Unforged' /\ HolderInv'
  <1> DEFINE n == Len(events)
             e == Appended(r, to)
  <1>1. /\ n \in Nat
        /\ Len(events') = n + 1
        /\ \A i \in 1 .. n : events'[i] = events[i]
        /\ events'[n + 1] = e
        /\ tampered' = tampered
    BY AppendEffect, LenProperties DEF TypeInv, AppendEvent
  <1>2. /\ e.envelope.from = request[r].from
        /\ e.envelope.type = request[r].type
        /\ e.envelope.to = to
    BY RowFields, EnvelopeFields DEF Appended
  <1>3. request[r].from \in People \cup {0}
    BY DEF TypeInv, Loaded
  <1>4. Unforged'
    BY <1>1, <1>2, <1>3 DEF Unforged
  <1>5. CASE request[r].type = "transfer"
    <2>1. n + 1 \in Transfers' /\ \A j \in Transfers' : j <= n + 1
      BY <1>1, <1>2, <1>5 DEF Transfers
    <2>2. custodian' = events'[n + 1].envelope.to
      BY <1>1, <1>2, <1>5 DEF AppendEvent
    <2> QED
      BY <1>4, <2>1, <2>2 DEF HolderInv
  <1>6. CASE request[r].type # "transfer"
    <2>1. Transfers' = Transfers
      BY <1>1, <1>2, <1>6 DEF Transfers
    <2>2. custodian' = custodian
      BY <1>6 DEF AppendEvent
    <2>3. \A i \in Transfers : events'[i] = events[i]
      BY <1>1 DEF Transfers
    <2> QED
      BY <1>1, <1>4, <2>1, <2>2, <2>3 DEF HolderInv
  <1> QED
    BY <1>5, <1>6

-----------------------------------------------------------------------------
(* Edits from outside: each is of an intact chain *)

\* A chain without its last row is as healthy as before.
LEMMA DeletePreserves ==
    ASSUME IInv, NEW i \in DOMAIN events, Delete(i)
    PROVE  IInv'
  <1> DEFINE n == Len(events)
             before == SubSeq(events, 1, i - 1)
             after == SubSeq(events, i + 1, n)
  <1>1. /\ n \in Nat /\ events \in Seq(Rows) /\ DOMAIN events = 1 .. n
        /\ i \in 1 .. n
    BY LenProperties DEF IInv, TypeInv
  <1>2. /\ events' = before \o after
        /\ tampered = "no"
        /\ tampered' = IF i = n THEN "tail" ELSE "inner"
        /\ UNCHANGED <<clock, custodian, request>>
    BY DEF Delete, Tamper, RemoveAt
  <1>3. /\ before \in Seq(Rows) /\ Len(before) = i - 1
        /\ \A k \in 1 .. i - 1 : before[k] = events[k]
    <2>1. \A k \in 1 .. i - 1 : events[k] \in Rows
      BY <1>1 DEF Rows
    <2>2. /\ before \in Seq(Rows)
          /\ Len(before) = IF 1 <= i - 1 THEN (i - 1) - 1 + 1 ELSE 0
          /\ \A k \in 1 .. (i - 1) - 1 + 1 : before[k] = events[1 + k - 1]
      BY <1>1, <2>1, SubSeqProperties
    <2> QED
      BY <1>1, <2>2
  <1>4. /\ after \in Seq(Rows) /\ Len(after) = n - i
        /\ \A k \in 1 .. n - i : after[k] = events[k + i]
    <2>1. \A k \in i + 1 .. n : events[k] \in Rows
      BY <1>1 DEF Rows
    <2>2. /\ after \in Seq(Rows)
          /\ Len(after) = IF i + 1 <= n THEN n - (i + 1) + 1 ELSE 0
          /\ \A k \in 1 .. n - (i + 1) + 1 : after[k] = events[(i + 1) + k - 1]
      BY <1>1, <2>1, SubSeqProperties
    <2> QED
      BY <1>1, <2>2
  <1>5. /\ events' \in Seq(Rows)
        /\ Len(events') = n - 1
        /\ \A k \in 1 .. n - 1 :
               events'[k] = IF k <= i - 1 THEN events[k] ELSE events[k + 1]
    <2>1. /\ before \o after \in Seq(Rows)
          /\ Len(before \o after) = Len(before) + Len(after)
          /\ \A k \in 1 .. Len(before) + Len(after) : (before \o after)[k] =
                 IF k <= Len(before) THEN before[k] ELSE after[k - Len(before)]
      BY <1>3, <1>4, ConcatProperties
    <2>2. Len(before) + Len(after) = n - 1
      BY <1>1, <1>3, <1>4
    <2>3. ASSUME NEW k \in 1 .. n - 1
          PROVE  events'[k] = IF k <= i - 1 THEN events[k] ELSE events[k + 1]
      <3>1. CASE k <= i - 1
        BY <1>1, <1>2, <1>3, <2>1, <2>2, <3>1
      <3>2. CASE ~ (k <= i - 1)
        <4>1. k - (i - 1) \in 1 .. n - i /\ (k - (i - 1)) + i = k + 1
          BY <1>1, <3>2
        <4>2. events'[k] = after[k - (i - 1)]
          BY <1>1, <1>2, <1>3, <2>1, <2>2, <3>2
        <4> QED
          BY <1>4, <3>2, <4>1, <4>2
      <3> QED
        BY <3>1, <3>2
    <2> QED
      BY <1>2, <2>1, <2>2, <2>3
  <1>6. /\ events' \in Seq(Rows') /\ DOMAIN events' = 1 .. n - 1
    BY <1>5, RowsAgain
  <1>7. TypeInv'
    <2>1. \A k \in 1 .. n - 1 : RowOK(events'[k])
      BY <1>1, <1>5 DEF IInv, TypeInv
    <2> QED
      BY <1>2, <1>5, <1>6, <2>1 DEF IInv, TypeInv
  <1>8. Healthy
    BY <1>2 DEF IInv, VerifySound
  <1>9. VerifySound'
    <2>1. CASE i = n
      <3>1. \A k \in 1 .. n - 1 : events'[k] = events[k]
        BY <1>1, <1>5, <2>1
      <3>2. \A k \in 2 .. n - 1 :
                /\ events'[k] = events[k]
                /\ events'[k - 1] = events[k - 1]
        BY <1>1, <3>1
      <3>3. events' # <<>> => 1 \in 1 .. n - 1 /\ events # <<>>
        BY <1>1, <1>5, EmptySeq
      <3>4. Healthy'
        <4>1. \A k \in 1 .. n - 1 : events'[k].digest = Digest(events'[k].envelope)
          BY <1>1, <1>8, <3>1 DEF Healthy
        <4>2. \A k \in 2 .. n - 1 :
                  /\ events'[k].envelope.sequence = events'[k - 1].envelope.sequence + 1
                  /\ events'[k].envelope.prev = events'[k - 1].digest
                  /\ events'[k].envelope.at >= events'[k - 1].envelope.at
          BY <1>1, <1>8, <3>2 DEF Healthy
        <4>3. events' # <<>> => /\ events'[1].envelope.sequence = 1
                                /\ events'[1].envelope.prev = ZeroDigest
          BY <1>8, <3>1, <3>3 DEF Healthy
        <4> QED
          BY <1>5, <1>6, <4>1, <4>2, <4>3 DEF Healthy
      <3> QED
        BY <1>2, <2>1, <3>4 DEF VerifySound
    <2>2. CASE i # n
      <3>1. i \in 1 .. n - 1 /\ i + 1 \in 2 .. n /\ events' # <<>>
        BY <1>1, <1>5, <2>2
      <3>2. events'[i] = events[i + 1]
        BY <1>1, <1>5, <3>1
      <3>3. events[i + 1].envelope.sequence = events[i].envelope.sequence + 1
        BY <1>1, <1>8, <3>1 DEF Healthy
      <3>4. events[i].envelope.sequence \in Nat
        BY <1>1 DEF IInv, TypeInv, RowOK, EnvelopeOK
      <3>5. CASE i = 1
        <4>1. events[1].envelope.sequence = 1
          BY <1>1, <1>8, EmptySeq DEF Healthy
        <4>2. events'[1].envelope.sequence = 2
          BY <3>2, <3>3, <3>5, <4>1
        <4>3. ~ Healthy'
          BY <3>1, <4>2 DEF Healthy
        <4> QED
          BY <1>2, <2>2, <4>3 DEF VerifySound
      <3>6. CASE i # 1
        <4>1. /\ events'[i - 1] = events[i - 1]
              /\ i \in 2 .. n /\ i \in 2 .. Len(events')
          BY <1>1, <1>5, <3>1, <3>6
        <4>2. events[i].envelope.sequence = events[i - 1].envelope.sequence + 1
          BY <1>8, <4>1 DEF Healthy
        <4>3. events'[i].envelope.sequence # events'[i - 1].envelope.sequence + 1
          BY <3>2, <3>3, <3>4, <4>1, <4>2
        <4> QED
          BY <1>2, <2>2, <4>1, <4>3 DEF VerifySound, Healthy
      <3> QED
        BY <3>5, <3>6
    <2> QED
      BY <2>1, <2>2
  <1>10. Unforged' /\ HolderInv'
    BY <1>2 DEF Unforged, HolderInv
  <1> QED
    BY <1>7, <1>9, <1>10 DEF IInv

\* What one edit of row i leaves of the table
LEMMA EditEffect ==
    ASSUME TypeInv, NEW i \in DOMAIN events, NEW row, RowOK(row),
           events' = [events EXCEPT ![i] = row]
    PROVE  /\ events' \in Seq(Rows')
           /\ Len(events') = Len(events)
           /\ DOMAIN events' = 1 .. Len(events)
           /\ events'[i] = row
           /\ \A k \in 1 .. Len(events) : k # i => events'[k] = events[k]
           /\ \A k \in 1 .. Len(events) : RowOK(events'[k])
  <1>1. /\ Len(events) \in Nat /\ DOMAIN events = 1 .. Len(events)
        /\ i \in 1 .. Len(events)
        /\ events \in Seq(Rows \cup {row})
    BY LenProperties, SeqMonotonic DEF TypeInv
  <1>2. /\ events' \in Seq(Rows \cup {row})
        /\ Len(events') = Len(events)
        /\ \A k \in 1 .. Len(events) :
               events'[k] = IF k = i THEN row ELSE events[k]
    BY <1>1, ExceptSeq
  <1>3. events' \in Seq(Rows') /\ DOMAIN events' = 1 .. Len(events')
    BY <1>2, RowsAgain
  <1> QED
    BY <1>1, <1>2, <1>3 DEF TypeInv

\* A forged envelope differs from the one it replaces, and only in the giver.
LEMMA ForgedDiffers ==
    ASSUME IInv, tampered = "no", 9 \notin People, NEW i \in DOMAIN events
    PROVE  LET e == events[i].envelope
               f == Forged(events[i])
           IN  /\ f # e
               /\ f.sequence = e.sequence /\ f.prev = e.prev /\ f.at = e.at
               /\ EnvelopeOK(f)
  <1>1. /\ EnvelopeOK(events[i].envelope)
        /\ events[i].envelope.from \in People \cup {0}
    BY LenProperties DEF IInv, TypeInv, Unforged, RowOK
  <1> QED
    BY <1>1 DEF Forged, EnvelopeOK, Envelope

\* A forged row with a digest of its own betrays itself by the link of the row
\* that follows, if there is one.
LEMMA RecomputePreserves ==
    ASSUME IInv, 9 \notin People, NEW i \in DOMAIN events, Recompute(i)
    PROVE  IInv'
  <1> DEFINE n == Len(events)
             f == Forged(events[i])
  <1>1. /\ events' = [events EXCEPT ![i] = Row(f)]
        /\ tampered = "no"
        /\ tampered' = IF i = n THEN "tail" ELSE "inner"
        /\ UNCHANGED <<clock, custodian, request>>
    BY DEF Recompute, Tamper
  <1>2. /\ f # events[i].envelope
        /\ f.sequence = events[i].envelope.sequence
        /\ f.prev = events[i].envelope.prev
        /\ f.at = events[i].envelope.at
        /\ EnvelopeOK(f)
    BY <1>1, ForgedDiffers
  <1>3. RowOK(Row(f)) /\ Row(f).envelope = f /\ Row(f).digest = Digest(f)
    BY <1>2 DEF RowOK, Row
  <1>4. /\ events' \in Seq(Rows') /\ Len(events') = n /\ DOMAIN events' = 1 .. n
        /\ events'[i] = Row(f)
        /\ \A k \in 1 .. n : k # i => events'[k] = events[k]
        /\ \A k \in 1 .. n : RowOK(events'[k])
    BY <1>1, <1>3, EditEffect DEF IInv
  <1>5. n \in Nat /\ DOMAIN events = 1 .. n /\ i \in 1 .. n /\ events # <<>>
    BY LenProperties, EmptySeq DEF IInv, TypeInv
  <1>6. Healthy
    BY <1>1 DEF IInv, VerifySound
  <1>7. TypeInv'
    BY <1>1, <1>4 DEF IInv, TypeInv
  <1>8. VerifySound'
    <2>1. CASE i = n
      <3>1. \A k \in 1 .. n :
                /\ events'[k].envelope.sequence = events[k].envelope.sequence
                /\ events'[k].envelope.prev = events[k].envelope.prev
                /\ events'[k].envelope.at = events[k].envelope.at
                /\ events'[k].digest = Digest(events'[k].envelope)
                /\ k # n => events'[k].digest = events[k].digest
        BY <1>2, <1>3, <1>4, <1>5, <1>6, <2>1 DEF Healthy
      <3>2. \A k \in 2 .. n : k \in 1 .. n /\ k - 1 \in 1 .. n /\ k - 1 # n
        BY <1>5
      <3>3. /\ events'[1].envelope.sequence = 1
            /\ events'[1].envelope.prev = ZeroDigest
        <4>1. 1 \in 1 .. n
          BY <1>5
        <4>2. events[1].envelope.sequence = 1 /\ events[1].envelope.prev = ZeroDigest
          BY <1>5, <1>6 DEF Healthy
        <4> QED
          BY <3>1, <4>1, <4>2
      <3>4. \A k \in 2 .. n :
                /\ events'[k].envelope.sequence = events'[k - 1].envelope.sequence + 1
                /\ events'[k].envelope.prev = events'[k - 1].digest
                /\ events'[k].envelope.at >= events'[k - 1].envelope.at
        BY <1>6, <3>1, <3>2 DEF Healthy
      <3>5. Healthy'
        BY <1>4, <3>1, <3>3, <3>4 DEF Healthy
      <3> QED
        BY <1>1, <2>1, <3>5 DEF VerifySound
    <2>2. CASE i # n
      <3>1. i + 1 \in 2 .. n /\ i + 1 \in 1 .. n /\ i + 1 # i /\ (i + 1) - 1 = i
        BY <1>5, <2>2
      <3>2. events[i + 1].envelope.prev = events[i].digest
        BY <1>6, <3>1 DEF Healthy
      <3>3. events[i].digest = <<events[i].envelope>>
        BY <1>5, <1>6 DEF Healthy, Digest
      <3>4. events'[i + 1].envelope.prev = <<events[i].envelope>>
        BY <1>4, <3>1, <3>2, <3>3
      <3>5. events'[i].digest = <<f>>
        BY <1>3, <1>4 DEF Digest
      <3>6. <<f>>[1] # <<events[i].envelope>>[1]
        BY <1>2
      <3>7. events'[i + 1].envelope.prev # events'[i].digest
        BY <3>4, <3>5, <3>6
      <3>8. ~ Healthy'
        BY <1>4, <3>1, <3>7 DEF Healthy
      <3> QED
        BY <1>1, <2>2, <3>8 DEF VerifySound
    <2> QED
      BY <2>1, <2>2
  <1>9. Unforged' /\ HolderInv'
    BY <1>1 DEF Unforged, HolderInv
  <1> QED
    BY <1>7, <1>8, <1>9 DEF IInv

\* A row that was altered under its digest betrays itself.
LEMMA AlterPreserves ==
    ASSUME IInv, 9 \notin People, NEW i \in DOMAIN events, Alter(i)
    PROVE  IInv'
  <1> DEFINE n == Len(events)
             f == Forged(events[i])
             row == [events[i] EXCEPT !.envelope = f]
  <1>1. /\ events' = [events EXCEPT ![i] = row]
        /\ tampered = "no" /\ tampered' = "inner"
        /\ UNCHANGED <<clock, custodian, request>>
    BY DEF Alter
  <1>2. f # events[i].envelope /\ EnvelopeOK(f)
    BY <1>1, ForgedDiffers
  <1>3. n \in Nat /\ DOMAIN events = 1 .. n /\ i \in 1 .. n
    BY LenProperties DEF IInv, TypeInv
  <1>4. /\ RowOK(row) /\ row.envelope = f
        /\ row.digest = events[i].digest
    BY <1>2, <1>3 DEF IInv, TypeInv, RowOK
  <1>5. /\ events' \in Seq(Rows') /\ Len(events') = n /\ DOMAIN events' = 1 .. n
        /\ events'[i] = row
        /\ \A k \in 1 .. n : RowOK(events'[k])
    BY <1>1, <1>4, EditEffect DEF IInv
  <1>6. TypeInv'
    BY <1>1, <1>5 DEF IInv, TypeInv
  <1>7. events[i].digest = <<events[i].envelope>>
    BY <1>1, <1>3 DEF IInv, VerifySound, Healthy, Digest
  <1>8. <<f>>[1] # <<events[i].envelope>>[1]
    BY <1>2
  <1>9. events'[i].digest # Digest(events'[i].envelope)
    BY <1>4, <1>5, <1>7, <1>8 DEF Digest
  <1>10. VerifySound'
    BY <1>1, <1>3, <1>5, <1>9 DEF VerifySound, Healthy
  <1>11. Unforged' /\ HolderInv'
    BY <1>1 DEF Unforged, HolderInv
  <1> QED
    BY <1>6, <1>10, <1>11 DEF IInv

-----------------------------------------------------------------------------
(* What the service promises of a chain *)

LEMMA NextPreserves ==
    ASSUME 9 \notin People
    PROVE  IInv /\ [Next]_vars => IInv'
  <1> SUFFICES ASSUME IInv, [Next]_vars PROVE IInv'
    OBVIOUS
  <1>1. ASSUME NEW r \in Requests, NEW type \in {"note", "transfer"}, Begin(r, type)
        PROVE  IInv'
    <2>1. request' \in [Requests -> Loaded]
      BY <1>1 DEF IInv, TypeInv, Begin, Loaded
    <2>2. UNCHANGED <<clock, custodian, events, tampered>>
      BY <1>1 DEF Begin
    <2> QED
      BY <2>1, <2>2 DEF IInv, TypeInv, Rows, Unforged, VerifySound, Healthy, HolderInv,
         Transfers
  <1>2. ASSUME NEW r \in Requests, NEW to \in People \cup {0}, AppendEvent(r, to)
        PROVE  IInv'
    BY <1>2, AppendType, AppendVerify, AppendHolder DEF IInv
  <1>3. ASSUME NEW i \in DOMAIN events, Delete(i) \/ Recompute(i) \/ Alter(i)
        PROVE  IInv'
    BY <1>3, DeletePreserves, RecomputePreserves, AlterPreserves
  <1>4. CASE Tick
    <2>1. clock' \in Nat /\ UNCHANGED <<custodian, events, request, tampered>>
      BY <1>4 DEF Tick, IInv, TypeInv
    <2> QED
      BY <2>1 DEF IInv, TypeInv, Rows, Unforged, VerifySound, Healthy, HolderInv,
         Transfers
  <1>5. CASE UNCHANGED vars
    BY <1>5 DEF vars, IInv, TypeInv, Rows, Unforged, VerifySound, Healthy, HolderInv,
       Transfers
  <1> QED
    BY <1>1, <1>2, <1>3, <1>4, <1>5 DEF Next

\* Verify finds a chain intact exactly unless one of its rows was edited that
\* other rows follow, or its digest was left alone - for any number of requests
\* that append at once, before and after the edit (chain.go:110-293). A forged
\* giver is nobody of the case.
THEOREM VerifyIsTrue ==
    ASSUME 9 \notin People
    PROVE  Spec => []VerifySound
  <1>1. IInv => VerifySound
    BY DEF IInv
  <1> QED
    BY <1>1, InitInv, NextPreserves, PTL DEF Spec

LEMMA HolderIsReceiver == IInv => LastTransfer
  <1> SUFFICES ASSUME IInv, tampered = "no",
                      {i \in DOMAIN events : events[i].envelope.type = "transfer"} # {}
               PROVE  custodian = events[CHOOSE i \in {i \in DOMAIN events :
                          events[i].envelope.type = "transfer"} :
                              \A j \in {k \in DOMAIN events :
                                  events[k].envelope.type = "transfer"} : j <= i].envelope.to
    BY DEF LastTransfer
  <1>1. DOMAIN events = 1 .. Len(events) /\ Len(events) \in Nat
    BY LenProperties DEF IInv, TypeInv
  <1>2. Transfers = {i \in DOMAIN events : events[i].envelope.type = "transfer"}
    BY <1>1 DEF Transfers
  <1>3. PICK i \in Transfers :
                /\ \A j \in Transfers : j <= i
                /\ custodian = events[i].envelope.to
    BY <1>2 DEF IInv, HolderInv
  <1>4. \A j \in Transfers : (\A k \in Transfers : k <= j) => j = i
    BY <1>1, <1>3 DEF Transfers
  <1>5. (CHOOSE j \in Transfers : \A k \in Transfers : k <= j) = i
    BY <1>3, <1>4
  <1> QED
    BY <1>2, <1>3, <1>5

\* Whoever the case names as custodian received its last transfer, however many
\* transfers were prepared against an earlier one (chainops.go:36-59).
THEOREM CustodianReceived ==
    ASSUME 9 \notin People
    PROVE  Spec => []LastTransfer
  BY InitInv, NextPreserves, HolderIsReceiver, PTL DEF Spec

-----------------------------------------------------------------------------
(* The chain implements the log *)

AsLog == INSTANCE EvidenceLog WITH holder <- custodian

\* Without edits, rows are numbered by their place.
Numbered ==
    /\ tampered = "no"
    /\ \A i \in 1 .. Len(events) : events[i].envelope.sequence = i

LEMMA InitNumbered == Init => Numbered /\ AsLog!Init
  <1> SUFFICES ASSUME Init PROVE Numbered /\ AsLog!Init
    OBVIOUS
  <1>1. events = <<>> /\ Len(events) = 0 /\ DOMAIN events = {}
    BY EmptySeq DEF Init
  <1>2. log = <<>>
    BY <1>1 DEF log
  <1> QED
    BY <1>1, <1>2 DEF Init, Numbered, AsLog!Init

LEMMA AppendRecords ==
    ASSUME IInv, Numbered, NEW r \in Requests, NEW to \in People \cup {0},
           AppendEvent(r, to)
    PROVE  Numbered' /\ AsLog!Record
  <1> DEFINE n == Len(events)
             e == Appended(r, to)
             at == EventTime(Previous.envelope, request[r].at)
  <1>1. /\ n \in Nat
        /\ DOMAIN events = 1 .. n
        /\ Len(events') = n + 1
        /\ DOMAIN events' = 1 .. n + 1
        /\ \A i \in 1 .. n : events'[i] = events[i]
        /\ events'[n + 1] = e
        /\ tampered' = tampered
    BY AppendEffect, LenProperties DEF IInv, TypeInv, AppendEvent
  <1>2. /\ e.envelope.sequence = Previous.envelope.sequence + 1
        /\ e.envelope.type = request[r].type
        /\ e.envelope.at = at
        /\ e.envelope.to = to
    BY RowFields, EnvelopeFields DEF Appended
  <1>3. Previous.envelope.sequence = n
    <2>1. CASE events = <<>>
      <3>1. n = 0 /\ Previous.envelope = Envelope("none", 0, <<>>, 0, 0, 0)
        BY <2>1, RowFields DEF Previous
      <3> QED
        BY <3>1 DEF Envelope
    <2>2. CASE events # <<>>
      BY <1>1, <2>2, EmptySeq DEF IInv, TypeInv, Previous, Last, Numbered
    <2> QED
      BY <2>1, <2>2
  <1>4. Numbered'
    BY <1>1, <1>2, <1>3 DEF Numbered
  <1>5. /\ log = [i \in 1 .. n |-> events[i].envelope]
        /\ log' = [i \in 1 .. n + 1 |-> events'[i].envelope]
    BY <1>1 DEF log
  <1>6. Len(log) = n /\ Len(log') = n + 1
    BY <1>1, <1>5
  <1>7. SubSeq(log', 1, n) = log
    BY <1>1, <1>5
  <1>8. log'[n + 1] = e.envelope
    BY <1>1, <1>5
  <1>9. log # <<>> => e.envelope.at >= log[n].at
    <2> SUFFICES ASSUME log # <<>> PROVE at >= log[n].at
      BY <1>2
    <2>1. n \in 1 .. n
      BY <1>1, <1>5
    <2>2. /\ log[n] = events[n].envelope /\ Previous = events[n]
          /\ events[n].envelope.at \in Nat
      BY <1>1, <1>5, <2>1, EmptySeq DEF Previous, Last, IInv, TypeInv, RowOK, EnvelopeOK
    <2>3. request[r].at \in Nat
      BY DEF IInv, TypeInv, Loaded
    <2> QED
      BY <2>2, <2>3 DEF EventTime
  <1>10. custodian' = IF e.envelope.type = "transfer" THEN e.envelope.to ELSE custodian
    BY <1>2 DEF AppendEvent
  <1> QED
    BY <1>1, <1>2, <1>3, <1>4, <1>6, <1>7, <1>8, <1>9, <1>10 DEF AsLog!Record

LEMMA StepRecords ==
    ASSUME IInv, Numbered, Tampering = FALSE, [Next]_vars
    PROVE  Numbered' /\ [AsLog!Record]_<<log, custodian>>
  <1>1. ASSUME NEW r \in Requests, NEW to \in People \cup {0}, AppendEvent(r, to)
        PROVE  Numbered' /\ AsLog!Record
    BY <1>1, AppendRecords
  <1>2. ASSUME UNCHANGED <<custodian, events, tampered>>
        PROVE  Numbered' /\ UNCHANGED <<log, custodian>>
    BY <1>2 DEF Numbered, log
  <1>3. \A i \in DOMAIN events : ~ (Delete(i) \/ Recompute(i) \/ Alter(i))
    BY DEF Delete, Recompute, Alter, Tamper
  <1> QED
    BY <1>1, <1>2, <1>3 DEF Next, Begin, Tick, vars

\* Transactions that take their time and read their giver before the lock
\* implement a log that only grows, numbered and dated in order, whose holder
\* changes with the event that says so (chain.go, chainops.go).
THEOREM ImplementsLog ==
    ASSUME Tampering = FALSE, 9 \notin People
    PROVE  Spec => AsLog!Spec
  <1>1. Init => IInv /\ Numbered /\ AsLog!Init
    BY InitInv, InitNumbered
  <1>2. IInv /\ Numbered /\ [Next]_vars =>
            /\ IInv' /\ Numbered'
            /\ [AsLog!Record]_<<log, custodian>>
    BY NextPreserves, StepRecords
  <1> QED
    BY <1>1, <1>2, PTL DEF Spec, AsLog!Spec
=============================================================================
