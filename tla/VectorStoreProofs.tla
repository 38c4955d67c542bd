-------------------------- MODULE VectorStoreProofs --------------------------
(* What holds of VectorStore for every number of hosts and texts: under    *)
(* every fault, power failures and half-written indexes included, the      *)
(* index never names a record of another text; and as long as no rewriting *)
(* is cut short, the hosts share one vector per text and keep it.          *)
EXTENDS VectorStore, SequenceTheorems, TLAPS

USE StoreAssumption
USE DEF idx, records, files, mine

-----------------------------------------------------------------------------
(* Sequences.                                                              *)

Unique(s) == \A i, j \in 1..Len(s) : s[i] = s[j] => i = j

\* A prefix is a sequence of the same elements, no longer than asked for.
LEMMA PrefixProperties ==
  ASSUME NEW S, NEW s \in Seq(S), NEW n \in Nat
  PROVE  /\ Prefix(s, n) \in Seq(S)
         /\ Len(Prefix(s, n)) = (IF n < Len(s) THEN n ELSE Len(s))
         /\ \A i \in 1..Len(Prefix(s, n)) : i \in 1..Len(s) /\ Prefix(s, n)[i] = s[i]
<1> DEFINE k == IF n < Len(s) THEN n ELSE Len(s)
<1>1. k \in Nat /\ k <= Len(s) /\ Len(s) \in Nat
  OBVIOUS
<1>2. Prefix(s, n) = SubSeq(s, 1, k)
  BY DEF Prefix
<1>3. \A i \in 1..k : s[i] \in S
  BY <1>1
<1> HIDE DEF k
<1>4. /\ SubSeq(s, 1, k) \in Seq(S)
      /\ Len(SubSeq(s, 1, k)) = IF 1 <= k THEN k - 1 + 1 ELSE 0
      /\ \A i \in 1..(k - 1 + 1) : SubSeq(s, 1, k)[i] = s[1 + i - 1]
  BY <1>1, <1>3, SubSeqProperties
<1>5. Len(SubSeq(s, 1, k)) = k /\ \A i \in 1..k : SubSeq(s, 1, k)[i] = s[i]
  BY <1>1, <1>4
<1>6. QED
  BY <1>1, <1>2, <1>4, <1>5 DEF k

\* What is listed, and how much of it there are records for.
LEMMA ListedProperties ==
  ASSUME TypeOK, torn => lines # <<>>
  PROVE  /\ Listed \in Seq(Texts) /\ Len(Listed) = (IF torn THEN Len(lines) - 1 ELSE Len(lines))
         /\ \A i \in 1..Len(Listed) : i \in 1..Len(lines) /\ Listed[i] = lines[i]
<1>1. lines \in Seq(Texts) /\ Len(lines) \in Nat
  BY DEF TypeOK
<1>2. CASE torn
  <2>1. Len(lines) - 1 \in Nat
    BY <1>1, <1>2, EmptySeq
  <2>2. QED
    BY <1>1, <1>2, <2>1, PrefixProperties DEF Listed
<1>3. CASE ~torn
  BY <1>1, <1>3 DEF Listed
<1>4. QED
  BY <1>2, <1>3

LEMMA SizedProperties ==
  ASSUME TypeOK, NEW s \in Seq(Texts)
  PROVE  /\ Sized(s) \in Seq(Texts) /\ Len(Sized(s)) <= Len(bin) /\ Len(Sized(s)) <= Len(s)
         /\ \A i \in 1..Len(Sized(s)) : i \in 1..Len(s) /\ Sized(s)[i] = s[i]
<1>1. Len(bin) \in Nat
  BY DEF TypeOK
<1>2. QED
  BY <1>1, PrefixProperties DEF Sized

-----------------------------------------------------------------------------
(* The inductive invariant.                                                *)

\* The lock is held throughout a write.
LockInv == \A h \in Hosts : pc[h] \in Writes <=> lock = h

\* There are no hashes below a header that does not parse yet.
HeadInv ==
  /\ head \in {"absent", "empty", "partial", "open"} => lines = <<>>
  /\ torn => lines # <<>>

\* Every complete line with a record has the record of its text.
AlignedInv ==
  \A i \in 1..Len(lines) : \/ torn /\ i = Len(lines)
                           \/ i > Len(bin)
                           \/ bin[i].of = lines[i]

\* The writer knows what the files hold: it has cut the records to the hashes
\* it has read, appends one record at a time and lists that very record.
WriterOf(h) ==
  /\ pc[h] = "truncate" =>
       /\ head \in {"absent", "open", "whole"}
       /\ Len(view[h]) <= Len(bin)
       /\ IF torn THEN Len(view[h]) < Len(lines) ELSE Len(view[h]) <= Len(lines)
       /\ \A i \in 1..Len(view[h]) : view[h][i] = lines[i]
  /\ pc[h] \in Writes \ {"truncate"} =>
       /\ Unique(view[h])
       /\ \A i \in 1..Len(view[h]) : bin[i].of = view[h][i]
       /\ Len(bin) = Len(view[h]) + (IF pc[h] \in {"hash", "newline"} THEN 1 ELSE 0)
  /\ pc[h] = "create" => view[h] = <<>> /\ head \in {"absent", "empty", "partial", "open"}
  /\ pc[h] \in {"reheader", "relist"} => lines = <<>> /\ ~torn /\ idxSynced = -1
  /\ pc[h] = "relist" => head = "whole"
  /\ pc[h] \in {"batch", "put", "hash", "newline", "sync", "syncidx", "commit"} =>
       head \in {"open", "whole", "glued"}
  /\ pc[h] \in {"batch", "put", "hash", "sync", "syncidx", "commit"} => lines = view[h] /\ ~torn
  /\ pc[h] = "hash" => \A i \in 1..Len(view[h]) : view[h][i] # bin[Len(bin)].of
  /\ pc[h] = "newline" => lines = Append(view[h], bin[Len(bin)].of)

WriterInv == \A h \in Hosts : WriterOf(h)

IInv == TypeOK /\ LockInv /\ HeadInv /\ AlignedInv /\ WriterInv

-----------------------------------------------------------------------------
(* The steps of the hosts.                                                 *)

Move(h) == Step(h) \/ Stop(h) \/ Rebuild(h)

\* Only the host that acts moves.
LEMMA Frame ==
  ASSUME TypeOK, NEW h \in Hosts, Move(h)
  PROVE  \A g \in Hosts \ {h} : pc'[g] = pc[g] /\ view'[g] = view[g]
BY DEF TypeOK, Move, Step, Stop, Rebuild, Open, Size, Hydrate, Lock, Truncate, Repair, Create,
   Empty, WriteHeader, WriteHashes, NextBatch, Close, PutKnown, PutRecord, PutHash, PutNewline,
   BatchDone, SyncRecords, SyncIndex, Commit, Quit, Goto, Take

\* What is left of a run that ends.
LEMMA QuitEffect ==
  ASSUME TypeOK, NEW h \in Hosts, Quit(h)
  PROVE  /\ pc'[h] = "idle" /\ view'[h] = <<>>
         /\ lock' = IF lock = h THEN NoHost ELSE lock
         /\ pc' \in [Hosts -> {"idle"} \cup Reads \cup Writes]
         /\ view' \in [Hosts -> Seq(Texts)] /\ pending' \in [Hosts -> SUBSET Texts]
         /\ batch' \in [Hosts -> [Texts -> Records \cup {None}]]
         /\ lock' \in Hosts \cup {NoHost}
<1>1. pc' = [pc EXCEPT ![h] = "idle"] /\ view' = [view EXCEPT ![h] = <<>>]
      /\ pending' = [pending EXCEPT ![h] = {}] /\ batch' = [batch EXCEPT ![h] = Nothing]
      /\ lock' = IF lock = h THEN NoHost ELSE lock
  BY DEF Quit, Goto
<1>2. <<>> \in Seq(Texts)
  BY EmptySeq
<1>3. Nothing \in [Texts -> Records \cup {None}]
  BY DEF Nothing
<1>4. QED
  BY <1>1, <1>2, <1>3 DEF TypeOK

\* The lock is taken with the first step of a write and dropped with the last.
LEMMA LockStep ==
  ASSUME TypeOK, LockInv, NEW h \in Hosts, Move(h)
  PROVE  LockInv'
<1>1. \A g \in Hosts \ {h} : pc'[g] = pc[g]
  BY Frame
<1>2. CASE Quit(h)
  <2>1. /\ pc'[h] = "idle" /\ lock' = (IF lock = h THEN NoHost ELSE lock)
    BY <1>2, QuitEffect
  <2>2. QED
    BY <1>1, <2>1 DEF LockInv, Writes
<1>3. CASE Lock(h) /\ ~Quit(h)
  <2>1. lock = NoHost /\ lock' = h /\ pc'[h] = "truncate"
    BY <1>3 DEF Lock, Goto, TypeOK
  <2>2. QED
    BY <1>1, <2>1 DEF LockInv, Writes
<1>4. CASE \/ Open(h) \/ Size(h) \/ (Hydrate(h) /\ ~Quit(h)) \/ Rebuild(h)
  <2>1. lock' = lock /\ pc[h] \notin Writes /\ pc'[h] \notin Writes
    BY <1>4 DEF Open, Size, Hydrate, Rebuild, Goto, TypeOK, Writes
  <2>2. QED
    BY <1>1, <2>1 DEF LockInv
<1>5. CASE \/ Truncate(h) \/ Create(h) \/ Empty(h) \/ WriteHeader(h) \/ WriteHashes(h)
           \/ NextBatch(h) \/ (PutKnown(h) /\ ~Quit(h)) \/ PutRecord(h) \/ PutHash(h)
           \/ PutNewline(h) \/ BatchDone(h) \/ SyncRecords(h) \/ SyncIndex(h) \/ Commit(h)
  <2>1. lock' = lock /\ pc[h] \in Writes /\ pc'[h] \in Writes
    BY <1>5 DEF Truncate, Repair, Create, Empty, WriteHeader, WriteHashes, NextBatch, PutKnown,
       PutRecord, PutHash, PutNewline, BatchDone, SyncRecords, SyncIndex, Commit, Goto, TypeOK,
       Writes
  <2>2. QED
    BY <1>1, <2>1 DEF LockInv
<1>6. QED
  BY <1>2, <1>3, <1>4, <1>5 DEF Move, Step, Stop, Close

\* Two hosts never write together.
LEMMA OneWriter ==
  ASSUME LockInv, NEW g \in Hosts, NEW h \in Hosts, pc[g] \in Writes, pc[h] \in Writes
  PROVE  g = h
  BY DEF LockInv

\* Steps that leave the two files alone.
Still(h) == \/ Open(h) \/ Size(h) \/ Hydrate(h) \/ Lock(h) \/ NextBatch(h) \/ Close(h)
            \/ PutKnown(h) \/ BatchDone(h) \/ SyncRecords(h) \/ SyncIndex(h) \/ Commit(h)
            \/ Stop(h) \/ Rebuild(h)

LEMMA StillEffect ==
  ASSUME NEW h \in Hosts, Still(h)
  PROVE  /\ UNCHANGED <<head, lines, torn, bin>>
         /\ pc[h] # "syncidx" => idxSynced' = idxSynced
  BY DEF Still, Open, Size, Hydrate, Lock, NextBatch, Close, PutKnown, BatchDone, SyncRecords,
     SyncIndex, Commit, Stop, Rebuild

\* The record appended last is of some text.
LEMMA LastText ==
  ASSUME TypeOK, WriterInv, NEW h \in Hosts, pc[h] \in {"hash", "newline"}
  PROVE  /\ Len(bin) \in Nat \ {0} /\ bin[Len(bin)] \in Records /\ bin[Len(bin)].of \in Texts
         /\ Len(bin) = Len(view[h]) + 1
<1>1. Len(view[h]) \in Nat /\ Len(bin) = Len(view[h]) + 1 /\ bin \in Seq(Records)
  BY DEF TypeOK, WriterInv, WriterOf, Writes
<1>2. Len(bin) \in 1..Len(bin)
  BY <1>1
<1>3. bin[Len(bin)] \in Records
  BY <1>1, <1>2, ElementOfSeq
<1>4. QED
  BY <1>1, <1>3 DEF Records

\* A header that does not parse has no hashes below it, ever.
LEMMA HeadStep ==
  ASSUME TypeOK, HeadInv, WriterInv, NEW h \in Hosts, Move(h)
  PROVE  HeadInv'
<1>1. CASE Still(h)
  BY <1>1, StillEffect DEF HeadInv
<1>2. CASE Truncate(h) \/ PutRecord(h) \/ WriteHeader(h) \/ Empty(h) \/ PutNewline(h)
  BY <1>2 DEF Truncate, PutRecord, WriteHeader, Empty, PutNewline, HeadInv, WriterInv, WriterOf
<1>3. CASE Create(h)
  <2>1. lines = <<>> /\ lines' = lines /\ torn' = torn
    BY <1>3 DEF Create, HeadInv, WriterInv, WriterOf
  <2>2. QED
    BY <2>1 DEF HeadInv
<1>4. CASE WriteHashes(h)
  <2>1. torn' = torn /\ ~torn /\ head' = head /\ head = "whole"
    BY <1>4 DEF WriteHashes, WriterInv, WriterOf
  <2>2. QED
    BY <2>1 DEF HeadInv
<1>5. CASE PutHash(h)
  <2>1. lines' = Append(lines, bin[Len(bin)].of) /\ pc[h] = "hash"
        /\ head' = (IF head = "open" THEN "glued" ELSE head)
    BY <1>5 DEF PutHash
  <2>2. head' \in {"glued", "whole"}
    BY <2>1 DEF WriterInv, WriterOf
  <2>3. lines' # <<>>
    BY <2>1, LastText, AppendProperties DEF TypeOK
  <2>4. QED
    BY <2>2, <2>3 DEF HeadInv
<1>6. QED
  BY <1>1, <1>2, <1>3, <1>4, <1>5 DEF Move, Step, Still

\* Appending a new text leaves a list without repetitions.
LEMMA UniqueAppend ==
  ASSUME NEW S, NEW s \in Seq(S), NEW e \in S, Unique(s), \A i \in 1..Len(s) : s[i] # e
  PROVE  Unique(Append(s, e))
<1>1. /\ Len(s) \in Nat /\ Len(Append(s, e)) = Len(s) + 1
      /\ \A i \in 1..Len(s) : Append(s, e)[i] = s[i]
      /\ Append(s, e)[Len(s) + 1] = e
  BY AppendProperties
<1>2. QED
  BY <1>1 DEF Unique

\* What a truncated record file still holds.
LEMMA CutRecords ==
  ASSUME TypeOK, NEW n \in Nat, bin' = Prefix(bin, n)
  PROVE  /\ bin' \in Seq(Records) /\ Len(bin') = (IF n < Len(bin) THEN n ELSE Len(bin))
         /\ \A i \in 1..Len(bin') : i \in 1..Len(bin) /\ bin'[i] = bin[i]
  BY PrefixProperties DEF TypeOK

\* Whatever is appended, cut or rewritten, lines keep to their records.
LEMMA AlignedStep ==
  ASSUME TypeOK, HeadInv, AlignedInv, WriterInv, NEW h \in Hosts, Move(h)
  PROVE  AlignedInv'
<1>1. /\ lines \in Seq(Texts) /\ Len(lines) \in Nat /\ bin \in Seq(Records) /\ Len(bin) \in Nat
      /\ view[h] \in Seq(Texts) /\ Len(view[h]) \in Nat
  BY DEF TypeOK
<1>2. CASE Still(h) \/ Create(h) \/ WriteHeader(h)
  BY <1>2, StillEffect DEF AlignedInv, Create, WriteHeader
<1>3. CASE Truncate(h)
  <2>1. bin' = Prefix(bin, Len(view[h])) /\ UNCHANGED <<lines, torn>>
    BY <1>3 DEF Truncate
  <2>2. \A i \in 1..Len(bin') : i \in 1..Len(bin) /\ bin'[i] = bin[i]
    BY <1>1, <2>1, CutRecords
  <2>3. Len(bin') \in Nat
    BY <1>1, <2>1, CutRecords
  <2>4. QED
    BY <1>1, <2>1, <2>2, <2>3 DEF AlignedInv
<1>4. CASE Empty(h)
  <2>1. Len(lines') = 0
    BY <1>4 DEF Empty
  <2>2. QED
    BY <2>1 DEF AlignedInv
<1>5. CASE WriteHashes(h)
  <2>1. lines' = view[h] /\ bin' = bin /\ \A i \in 1..Len(view[h]) : bin[i].of = view[h][i]
    BY <1>5 DEF WriteHashes, WriterInv, WriterOf, Writes
  <2>2. QED
    BY <2>1 DEF AlignedInv
<1>6. CASE PutRecord(h)
  <2>1. PICK t \in Texts : bin' = Append(bin, OwnVector(h, t))
    BY <1>6 DEF PutRecord, TypeOK
  <2>2. Len(lines) = Len(bin) /\ ~torn /\ UNCHANGED <<lines, torn>>
    <3>1. pc[h] = "put" /\ UNCHANGED <<lines, torn>>
      BY <1>6 DEF PutRecord
    <3>2. lines = view[h] /\ ~torn /\ Len(bin) = Len(view[h]) + 0
      BY <3>1 DEF WriterInv, WriterOf, Writes
    <3>3. QED
      BY <1>1, <3>1, <3>2
  <2>3. OwnVector(h, t) \in Records
    BY DEF OwnVector, Records
  <2>4. \A i \in 1..Len(bin) : bin'[i] = bin[i]
    BY <1>1, <2>1, <2>3, AppendProperties
  <2>5. QED
    BY <1>1, <2>2, <2>4 DEF AlignedInv
<1>7. CASE PutHash(h)
  <2>1. pc[h] = "hash" /\ lines' = Append(lines, bin[Len(bin)].of) /\ torn' /\ bin' = bin /\ ~torn
    BY <1>7 DEF PutHash, WriterInv, WriterOf
  <2>2. /\ Len(lines') = Len(lines) + 1
        /\ \A i \in 1..Len(lines) : lines'[i] = lines[i]
    BY <1>1, <2>1, LastText, AppendProperties
  <2>3. QED
    BY <1>1, <2>1, <2>2 DEF AlignedInv
<1>8. CASE PutNewline(h)
  <2>1. /\ pc[h] = "newline" /\ lines = Append(view[h], bin[Len(bin)].of)
        /\ UNCHANGED <<lines, bin>>
    BY <1>8 DEF PutNewline, WriterInv, WriterOf
  <2>2. /\ Len(lines) = Len(view[h]) + 1 /\ Len(bin) = Len(view[h]) + 1
        /\ lines[Len(view[h]) + 1] = bin[Len(bin)].of
    BY <1>1, <2>1, LastText, AppendProperties
  <2>3. bin[Len(lines)].of = lines[Len(lines)]
    BY <2>2
  <2>4. QED
    BY <2>1, <2>3 DEF AlignedInv
<1>9. QED
  BY <1>2, <1>3, <1>4, <1>5, <1>6, <1>7, <1>8 DEF Move, Step, Still

\* A writer is not concerned by steps that leave it and the files alone.
LEMMA WriterFrame ==
  ASSUME NEW g \in Hosts, WriterOf(g), pc'[g] = pc[g], view'[g] = view[g],
         UNCHANGED <<head, lines, torn, bin, idxSynced>>
  PROVE  WriterOf(g)'
  BY DEF WriterOf, Unique

\* Nobody else writes while a host does, and its view is what it has written.
LEMMA WriterStep ==
  ASSUME TypeOK, LockInv, HeadInv, AlignedInv, WriterInv, NEW h \in Hosts, Move(h), WriterOf(h)'
  PROVE  WriterInv'
<1>1. \A g \in Hosts \ {h} : pc'[g] = pc[g] /\ view'[g] = view[g]
  BY Frame
<1>2. CASE pc[h] \in Writes
  <2>1. ASSUME NEW g \in Hosts \ {h} PROVE WriterOf(g)'
    <3>1. pc'[g] \notin Writes
      BY <1>1, <1>2, OneWriter
    <3>2. QED
      BY <3>1 DEF WriterOf, Writes
  <2>2. QED
    BY <2>1 DEF WriterInv
<1>3. CASE pc[h] \notin Writes
  <2>1. Still(h)
    BY <1>3 DEF Move, Step, Still, Writes, Truncate, Create, Empty, WriteHeader, WriteHashes, PutRecord,
       PutHash, PutNewline
  <2>2. UNCHANGED <<head, lines, torn, bin, idxSynced>>
    BY <1>3, <2>1, StillEffect DEF Writes
  <2>3. ASSUME NEW g \in Hosts \ {h} PROVE WriterOf(g)'
    <3>1. WriterOf(g) /\ pc'[g] = pc[g] /\ view'[g] = view[g]
      BY <1>1 DEF WriterInv
    <3>2. QED
      BY <2>2, <3>1, WriterFrame
  <2>4. QED
    BY <2>3 DEF WriterInv
<1>4. QED
  BY <1>2, <1>3

\* Each step of the writer itself.
LEMMA OwnStep ==
  ASSUME TypeOK, LockInv, HeadInv, AlignedInv, WriterInv, NEW h \in Hosts, Move(h)
  PROVE  WriterOf(h)'
<1> USE DEF Writes
<1>1. /\ lines \in Seq(Texts) /\ Len(lines) \in Nat /\ bin \in Seq(Records) /\ Len(bin) \in Nat
      /\ view[h] \in Seq(Texts) /\ Len(view[h]) \in Nat /\ Unique(lines)
      /\ DOMAIN view[h] = 1..Len(view[h])
  BY DEF TypeOK, Unique
<1>2. WriterOf(h)
  BY DEF WriterInv
<1>3. ASSUME pc'[h] \notin Writes PROVE WriterOf(h)'
  BY <1>3 DEF WriterOf
<1>4. CASE Quit(h) \/ Open(h) \/ Size(h) \/ (Hydrate(h) /\ ~Quit(h)) \/ Rebuild(h)
  <2>1. pc'[h] \in {"idle", "sizing", "hydrate", "lock"}
    BY <1>4, QuitEffect DEF Open, Size, Hydrate, Rebuild, Goto, TypeOK
  <2>2. QED
    BY <1>3, <2>1
<1>5. CASE Lock(h) /\ ~Quit(h)
  <2>1. /\ pc'[h] = "truncate" /\ view'[h] = Sized(Listed) /\ UNCHANGED <<head, lines, torn, bin>>
        /\ head \in {"absent", "open", "whole"}
    BY <1>5 DEF Lock, Readable, Goto, TypeOK
  <2>2. /\ Len(Sized(Listed)) <= Len(bin) /\ Len(Sized(Listed)) <= Len(Listed)
        /\ \A i \in 1..Len(Sized(Listed)) : i \in 1..Len(Listed) /\ Sized(Listed)[i] = Listed[i]
        /\ Len(Sized(Listed)) \in Nat
    BY ListedProperties, SizedProperties DEF HeadInv
  <2>3. /\ Len(Listed) = (IF torn THEN Len(lines) - 1 ELSE Len(lines))
        /\ \A i \in 1..Len(Listed) : Listed[i] = lines[i]
    BY ListedProperties DEF HeadInv
  <2>4. /\ IF torn THEN Len(Sized(Listed)) < Len(lines) ELSE Len(Sized(Listed)) <= Len(lines)
        /\ \A i \in 1..Len(Sized(Listed)) : Sized(Listed)[i] = lines[i]
    BY <1>1, <2>2, <2>3
  <2>5. QED
    BY <2>1, <2>2, <2>4 DEF WriterOf
<1>6. CASE Truncate(h)
  <2>1. /\ pc[h] = "truncate" /\ bin' = Prefix(bin, Len(view[h])) /\ view'[h] = view[h]
        /\ UNCHANGED <<head, lines, torn, idxSynced>>
        /\ pc'[h] = (IF head = "absent" THEN "create"
                     ELSE IF Len(lines) # Len(view[h]) THEN "rewrite" ELSE "batch")
    BY <1>6 DEF Truncate, Repair, Goto, TypeOK
  <2>2. /\ Len(view[h]) <= Len(bin) /\ head \in {"absent", "open", "whole"}
        /\ IF torn THEN Len(view[h]) < Len(lines) ELSE Len(view[h]) <= Len(lines)
        /\ \A i \in 1..Len(view[h]) : view[h][i] = lines[i]
    BY <1>2, <2>1 DEF WriterOf
  <2>3. /\ Len(bin') = Len(view[h])
        /\ \A i \in 1..Len(bin') : bin'[i] = bin[i]
    BY <1>1, <2>1, <2>2, CutRecords
  <2>4. Unique(view[h])
    BY <1>1, <2>2 DEF Unique
  <2>5. \A i \in 1..Len(view[h]) : bin[i].of = view[h][i]
    BY <1>1, <2>2 DEF AlignedInv
  <2>6. \A i \in 1..Len(view[h]) : bin'[i].of = view[h][i]
    BY <2>3, <2>5
  <2>7. head = "absent" => view[h] = <<>>
    <3>1. head = "absent" => Len(lines) = 0 /\ ~torn
      BY EmptySeq DEF HeadInv
    <3>2. head = "absent" => Len(view[h]) = 0
      BY <1>1, <2>2, <3>1
    <3>3. QED
      BY <1>1, <3>2, EmptySeq
  <2>8. Len(lines) = Len(view[h]) => ~torn /\ lines = view[h]
    <3>1. Len(lines) = Len(view[h]) => ~torn /\ \A i \in 1..Len(lines) : lines[i] = view[h][i]
      BY <1>1, <2>2
    <3>2. QED
      BY <1>1, <3>1, SeqEqual
  <2>9. CASE head = "absent"
    BY <2>1, <2>3, <2>4, <2>6, <2>7, <2>9, <1>1 DEF WriterOf, Unique
  <2>10. CASE head # "absent"
    BY <2>1, <2>2, <2>3, <2>4, <2>6, <2>8, <2>10, <1>1 DEF WriterOf, Unique
  <2>11. QED
    BY <2>9, <2>10
<1>7. CASE Create(h)
  <2>1. /\ pc[h] = "create" /\ view'[h] = view[h] /\ UNCHANGED <<lines, torn, bin, idxSynced>>
        /\ head' \in {"empty", "partial", "open", "whole"} /\ pc'[h] \in {"create", "batch"}
        /\ pc'[h] = "batch" => head' = "whole"
        /\ head # "open" => pc'[h] = "create"
        /\ head \in {"absent", "empty", "partial"} => head' \in {"empty", "partial", "open"}
        /\ head = "open" => pc'[h] = "batch"
    BY <1>7 DEF Create, Goto, TypeOK
  <2>2. /\ view[h] = <<>> /\ head \in {"absent", "empty", "partial", "open"}
        /\ Unique(view[h]) /\ Len(bin) = Len(view[h]) + 0
        /\ \A i \in 1..Len(view[h]) : bin[i].of = view[h][i]
    BY <1>2, <2>1 DEF WriterOf
  <2>3. lines = <<>> /\ ~torn
    BY <2>2 DEF HeadInv
  <2>4. CASE head = "open"
    BY <2>1, <2>2, <2>3, <2>4 DEF WriterOf, Unique
  <2>5. CASE head # "open"
    BY <2>1, <2>2, <2>5 DEF WriterOf, Unique
  <2>6. QED
    BY <2>4, <2>5
<1>8. CASE Empty(h)
  <2>1. /\ pc[h] = "rewrite" /\ pc'[h] = "reheader" /\ view'[h] = view[h] /\ bin' = bin
        /\ lines' = <<>> /\ ~torn' /\ idxSynced' = -1
    BY <1>8 DEF Empty, Goto, TypeOK
  <2>2. QED
    BY <1>2, <2>1 DEF WriterOf, Unique
<1>9. CASE WriteHeader(h)
  <2>1. /\ pc[h] = "reheader" /\ pc'[h] = "relist" /\ view'[h] = view[h] /\ head' = "whole"
        /\ UNCHANGED <<lines, torn, bin, idxSynced>>
    BY <1>9 DEF WriteHeader, Goto, TypeOK
  <2>2. QED
    BY <1>2, <2>1 DEF WriterOf, Unique
<1>10. CASE WriteHashes(h)
  <2>1. /\ pc[h] = "relist" /\ pc'[h] = "batch" /\ view'[h] = view[h] /\ lines' = view[h]
        /\ UNCHANGED <<head, torn, bin>>
    BY <1>10 DEF WriteHashes, Goto, TypeOK
  <2>2. QED
    BY <1>2, <2>1 DEF WriterOf, Unique
<1>11. CASE \/ NextBatch(h) \/ (PutKnown(h) /\ ~Quit(h)) \/ BatchDone(h) \/ SyncRecords(h)
            \/ SyncIndex(h) \/ Commit(h)
  <2>1. /\ pc[h] \in {"batch", "put", "sync", "syncidx", "commit"}
        /\ pc'[h] \in {"batch", "put", "sync", "syncidx", "commit"}
        /\ view'[h] = view[h] /\ UNCHANGED <<head, lines, torn, bin>>
    BY <1>11 DEF NextBatch, PutKnown, BatchDone, SyncRecords, SyncIndex, Commit, Goto, Take, TypeOK
  <2>2. QED
    BY <1>2, <2>1 DEF WriterOf, Unique
<1>12. CASE PutRecord(h)
  <2>1. PICK t \in pending[h] : ~Known(h, t) /\ bin' = Append(bin, OwnVector(h, t))
    BY <1>12 DEF PutRecord
  <2>2. /\ pc[h] = "put" /\ pc'[h] = "hash" /\ view'[h] = view[h] /\ UNCHANGED <<head, lines, torn>>
    BY <1>12 DEF PutRecord, Goto, TypeOK
  <2>3. t \in Texts /\ OwnVector(h, t) \in Records /\ OwnVector(h, t).of = t
    BY DEF OwnVector, Records, TypeOK
  <2>4. /\ Unique(view[h]) /\ Len(bin) = Len(view[h]) + 0 /\ lines = view[h] /\ ~torn
        /\ \A i \in 1..Len(view[h]) : bin[i].of = view[h][i]
        /\ head \in {"open", "whole", "glued"}
    BY <1>2, <2>2 DEF WriterOf
  <2>5. /\ Len(bin') = Len(bin) + 1 /\ bin'[Len(bin) + 1] = OwnVector(h, t)
        /\ \A i \in 1..Len(bin) : bin'[i] = bin[i]
    BY <1>1, <2>1, <2>3, AppendProperties
  <2>6. /\ \A i \in 1..Len(view[h]) : bin'[i].of = view[h][i]
        /\ Len(bin') = Len(view[h]) + 1 /\ bin'[Len(bin')].of = t
    BY <1>1, <2>3, <2>4, <2>5
  <2>7. \A i \in 1..Len(view[h]) : view[h][i] # t
    BY <1>1, <2>1 DEF Known
  <2>8. QED
    BY <2>2, <2>4, <2>6, <2>7 DEF WriterOf, Unique
<1>13. CASE PutHash(h)
  <2>1. /\ pc[h] = "hash" /\ pc'[h] = "newline" /\ view'[h] = view[h] /\ bin' = bin
        /\ lines' = Append(lines, bin[Len(bin)].of)
        /\ head' = (IF head = "open" THEN "glued" ELSE head)
    BY <1>13 DEF PutHash, Goto, TypeOK
  <2>2. QED
    BY <1>2, <2>1 DEF WriterOf, Unique
<1>14. CASE PutNewline(h)
  <2>1. /\ pc[h] = "newline" /\ pc'[h] = "put" /\ view'[h] = Append(view[h], bin[Len(bin)].of)
        /\ UNCHANGED <<head, lines, bin>> /\ ~torn'
    BY <1>14 DEF PutNewline, Goto, TypeOK
  <2>2. /\ Unique(view[h]) /\ Len(bin) = Len(view[h]) + 1
        /\ lines = Append(view[h], bin[Len(bin)].of)
        /\ \A i \in 1..Len(view[h]) : bin[i].of = view[h][i]
        /\ head \in {"open", "whole", "glued"}
    BY <1>2, <2>1 DEF WriterOf
  <2>3. /\ Len(view'[h]) = Len(view[h]) + 1 /\ view'[h][Len(view[h]) + 1] = bin[Len(bin)].of
        /\ \A i \in 1..Len(view[h]) : view'[h][i] = view[h][i]
    BY <1>1, <2>1, LastText, AppendProperties
  <2>4. \A i \in 1..Len(view'[h]) : bin'[i].of = view'[h][i]
    BY <1>1, <2>1, <2>2, <2>3
  <2>5. Unique(view'[h])
    BY <1>1, <2>1, <2>2 DEF Unique
  <2>6. QED
    BY <1>1, <2>1, <2>2, <2>3, <2>4, <2>5 DEF WriterOf, Unique
<1>15. QED
  BY <1>4, <1>5, <1>6, <1>7, <1>8, <1>9, <1>10, <1>11, <1>12, <1>13, <1>14
  DEF Move, Step, Stop, Close

-----------------------------------------------------------------------------
(* Types.                                                                  *)

\* The two files, and what each process holds in memory.
FilesOK ==
  /\ head \in Heads /\ torn \in BOOLEAN
  /\ lines \in Seq(Texts) /\ bin \in Seq(Records)
  /\ Unique(lines)
  /\ idxSynced \in -1..Len(lines) /\ binSynced \in 0..Len(bin)
MineOK ==
  /\ view \in [Hosts -> Seq(Texts)] /\ pending \in [Hosts -> SUBSET Texts]
  /\ batch \in [Hosts -> [Texts -> Records \cup {None}]]
ControlOK ==
  /\ lock \in Hosts \cup {NoHost}
  /\ pc \in [Hosts -> {"idle"} \cup Reads \cup Writes]
RestOK ==
  /\ cache \in [Hosts -> [Texts -> Records \cup {None}]]
  /\ flushed \subseteq Texts /\ faults \in Nat

LEMMA TypeParts == TypeOK <=> FilesOK /\ MineOK /\ ControlOK /\ RestOK
<1>1. lines \in Seq(Texts) => DOMAIN lines = 1..Len(lines)
  OBVIOUS
<1>2. QED
  BY <1>1 DEF TypeOK, FilesOK, MineOK, ControlOK, RestOK, Unique

\* The files hold hashes without repetition, and records.
LEMMA FilesStep ==
  ASSUME TypeOK, HeadInv, WriterInv, NEW h \in Hosts, Move(h)
  PROVE  FilesOK'
<1>1. FilesOK /\ view[h] \in Seq(Texts) /\ Len(view[h]) \in Nat /\ Len(lines) \in Nat
      /\ Len(bin) \in Nat
  BY TypeParts DEF TypeOK, FilesOK
<1>2. WriterOf(h)
  BY DEF WriterInv
<1>3. CASE \/ Open(h) \/ Size(h) \/ Hydrate(h) \/ Lock(h) \/ NextBatch(h) \/ Close(h)
           \/ PutKnown(h) \/ BatchDone(h) \/ Commit(h) \/ Stop(h) \/ Rebuild(h)
  <2>1. UNCHANGED files
    BY <1>3 DEF Open, Size, Hydrate, Lock, NextBatch, Close, PutKnown, BatchDone, Commit, Stop, Rebuild
  <2>2. QED
    BY <1>1, <2>1 DEF FilesOK, Unique
<1>4. CASE SyncRecords(h) \/ SyncIndex(h)
  BY <1>1, <1>4 DEF SyncRecords, SyncIndex, FilesOK, Unique
<1>5. CASE Truncate(h)
  <2>1. /\ bin' = Prefix(bin, Len(view[h])) /\ UNCHANGED <<head, lines, torn, idxSynced>>
        /\ binSynced' = IF Len(bin') < binSynced THEN Len(bin') ELSE binSynced
    BY <1>5 DEF Truncate
  <2>2. bin' \in Seq(Records) /\ Len(bin') \in Nat
    BY <1>1, <2>1, CutRecords
  <2>3. binSynced' \in 0..Len(bin')
    BY <1>1, <2>1, <2>2 DEF FilesOK
  <2>4. QED
    BY <1>1, <2>1, <2>2, <2>3 DEF FilesOK, Unique
<1>6. CASE Create(h) \/ WriteHeader(h)
  <2>1. UNCHANGED <<lines, torn, bin, idxSynced, binSynced>> /\ head' \in Heads
    BY <1>6 DEF Create, WriteHeader, Heads
  <2>2. QED
    BY <1>1, <2>1 DEF FilesOK, Unique
<1>7. CASE Empty(h)
  <2>1. head' = "empty" /\ lines' = <<>> /\ torn' = FALSE /\ idxSynced' = -1
        /\ UNCHANGED <<bin, binSynced>>
    BY <1>7 DEF Empty
  <2>2. lines' \in Seq(Texts) /\ Len(lines') = 0
    BY <2>1, EmptySeq
  <2>3. torn' \in BOOLEAN
    BY <2>1, Zenon
  <2>4. QED
    BY <1>1, <2>1, <2>2, <2>3 DEF FilesOK, Unique, Heads
<1>8. CASE WriteHashes(h)
  <2>1. lines' = view[h] /\ UNCHANGED <<head, torn, idxSynced, bin, binSynced>> /\ pc[h] = "relist"
    BY <1>8 DEF WriteHashes
  <2>2. Unique(view[h]) /\ idxSynced = -1
    BY <1>2, <2>1 DEF WriterOf, Writes
  <2>3. QED
    BY <1>1, <2>1, <2>2 DEF FilesOK, Unique
<1>9. CASE PutRecord(h)
  <2>1. PICK t \in pending[h] : bin' = Append(bin, OwnVector(h, t))
    BY <1>9 DEF PutRecord
  <2>2. t \in Texts /\ OwnVector(h, t) \in Records
    BY DEF OwnVector, Records, TypeOK
  <2>3. bin' \in Seq(Records) /\ Len(bin') = Len(bin) + 1
    BY <1>1, <2>1, <2>2, AppendProperties DEF FilesOK
  <2>4. UNCHANGED <<head, lines, torn, idxSynced, binSynced>>
    BY <1>9 DEF PutRecord
  <2>5. QED
    BY <1>1, <2>3, <2>4 DEF FilesOK, Unique
<1>10. CASE PutHash(h)
  <2>1. /\ pc[h] = "hash" /\ lines' = Append(lines, bin[Len(bin)].of) /\ torn' = TRUE
        /\ UNCHANGED <<bin, idxSynced, binSynced>>
        /\ head' = (IF head = "open" THEN "glued" ELSE head)
    BY <1>10 DEF PutHash
  <2>2. lines = view[h] /\ \A i \in 1..Len(view[h]) : view[h][i] # bin[Len(bin)].of
    BY <1>2, <2>1 DEF WriterOf
  <2>3. bin[Len(bin)].of \in Texts
    BY <2>1, LastText
  <2>4. Unique(lines')
    BY <1>1, <2>1, <2>2, <2>3, UniqueAppend DEF FilesOK
  <2>5. lines' \in Seq(Texts) /\ Len(lines') = Len(lines) + 1
    BY <1>1, <2>1, <2>3, AppendProperties DEF FilesOK
  <2>6. head' \in Heads
    BY <1>1, <2>1 DEF FilesOK, Heads
  <2>7. torn' \in BOOLEAN
    BY <2>1, Zenon
  <2>8. idxSynced' \in -1..Len(lines') /\ bin' \in Seq(Records) /\ binSynced' \in 0..Len(bin')
    BY <1>1, <2>1, <2>5 DEF FilesOK
  <2>9. QED
    BY <2>4, <2>5, <2>6, <2>7, <2>8 DEF FilesOK, Unique
<1>11. CASE PutNewline(h)
  <2>1. torn' = FALSE /\ UNCHANGED <<head, lines, idxSynced, bin, binSynced>>
    BY <1>11 DEF PutNewline
  <2>2. torn' \in BOOLEAN
    BY <2>1, Zenon
  <2>3. QED
    BY <1>1, <2>1, <2>2 DEF FilesOK, Unique
<1>12. QED
  BY <1>3, <1>4, <1>5, <1>6, <1>7, <1>8, <1>9, <1>10, <1>11 DEF Move, Step

\* A record sought by its position in the view is one of the file.
LEMMA RetainedRecord ==
  ASSUME TypeOK, NEW h \in Hosts, NEW t \in Texts, Sound(Position(h, t))
  PROVE  Retained(h, t) \in Records
<1>1. bin \in Seq(Records) /\ Position(h, t) \in 1..Len(bin)
  BY DEF TypeOK, Sound
<1>2. QED
  BY <1>1, ElementOfSeq DEF Retained

\* What a process holds in memory.
LEMMA MineStep ==
  ASSUME TypeOK, HeadInv, WriterInv, NEW h \in Hosts, Move(h)
  PROVE  MineOK'
<1>1. MineOK
  BY TypeParts
<1>2. CASE Quit(h)
  BY <1>2, QuitEffect DEF MineOK
<1>3. CASE \/ (Hydrate(h) /\ ~Quit(h)) \/ Rebuild(h) \/ Truncate(h) \/ Create(h) \/ Empty(h)
           \/ WriteHeader(h) \/ WriteHashes(h) \/ PutRecord(h) \/ PutHash(h) \/ BatchDone(h)
           \/ SyncRecords(h) \/ SyncIndex(h)
  <2>1. UNCHANGED mine
    BY <1>3 DEF Hydrate, Rebuild, Truncate, Create, Empty, WriteHeader, WriteHashes, PutRecord,
       PutHash, BatchDone, SyncRecords, SyncIndex
  <2>2. QED
    BY <1>1, <2>1 DEF MineOK
<1>4. CASE Open(h)
  BY <1>1, <1>4, ListedProperties DEF Open, MineOK, HeadInv
<1>5. CASE Size(h)
  <2>1. Sized(view[h]) \in Seq(Texts)
    BY <1>1, SizedProperties DEF MineOK
  <2>2. QED
    BY <1>1, <1>5, <2>1 DEF Size, MineOK
<1>6. CASE Lock(h) /\ ~Quit(h)
  <2>1. Sized(Listed) \in Seq(Texts)
    BY ListedProperties, SizedProperties DEF HeadInv
  <2>2. /\ view' = [view EXCEPT ![h] = Sized(Listed)]
        /\ pending' = pending /\ batch' = batch
    BY <1>6 DEF Lock
  <2>3. QED
    BY <1>1, <2>1, <2>2 DEF MineOK
<1>7. CASE NextBatch(h)
  <2>1. Missing(h) \subseteq Texts
    BY DEF Missing
  <2>2. QED
    BY <1>1, <1>7, <2>1 DEF NextBatch, MineOK
<1>8. ASSUME NEW t \in Texts, NEW r \in Records, Take(h, t, r)
      PROVE  /\ batch' \in [Hosts -> [Texts -> Records \cup {None}]]
             /\ pending' \in [Hosts -> SUBSET Texts]
  BY <1>1, <1>8 DEF Take, MineOK
<1>9. CASE PutKnown(h) /\ ~Quit(h)
  <2>1. PICK t \in pending[h] : Sound(Position(h, t)) /\ Take(h, t, Retained(h, t))
    BY <1>9 DEF PutKnown
  <2>2. t \in Texts /\ Retained(h, t) \in Records
    BY <1>1, <2>1, RetainedRecord DEF MineOK
  <2>3. view' = view
    BY <1>9 DEF PutKnown
  <2>4. QED
    BY <1>1, <1>8, <2>1, <2>2, <2>3 DEF MineOK
<1>10. CASE PutNewline(h)
  <2>1. /\ pc[h] = "newline" /\ view' = [view EXCEPT ![h] = Append(@, bin[Len(bin)].of)]
        /\ Take(h, bin[Len(bin)].of, OwnVector(h, bin[Len(bin)].of))
    BY <1>10 DEF PutNewline
  <2>2. bin[Len(bin)].of \in Texts
    BY <2>1, LastText
  <2>3. OwnVector(h, bin[Len(bin)].of) \in Records
    BY <2>2 DEF OwnVector, Records
  <2>4. Append(view[h], bin[Len(bin)].of) \in Seq(Texts)
    BY <1>1, <2>2, AppendProperties DEF MineOK
  <2>5. QED
    BY <1>1, <1>8, <2>1, <2>2, <2>3, <2>4 DEF MineOK
<1>11. CASE Commit(h)
  <2>1. Nothing \in [Texts -> Records \cup {None}]
    BY DEF Nothing
  <2>2. QED
    BY <1>1, <1>11, <2>1 DEF Commit, MineOK
<1>12. QED
  BY <1>2, <1>3, <1>4, <1>5, <1>6, <1>7, <1>9, <1>10, <1>11 DEF Move, Step, Stop, Close

\* Where the processes are, and who holds the lock.
LEMMA ControlStep ==
  ASSUME TypeOK, NEW h \in Hosts, Move(h)
  PROVE  ControlOK'
<1>1. ControlOK
  BY TypeParts
<1>2. CASE Quit(h)
  BY <1>2, QuitEffect DEF ControlOK
<1>3. CASE ~Quit(h)
  <2>1. lock' \in {lock, h}
    BY <1>3 DEF Move, Step, Stop, Rebuild, Open, Size, Hydrate, Lock, Truncate, Create, Empty, WriteHeader,
       WriteHashes, NextBatch, Close, PutKnown, PutRecord, PutHash, PutNewline, BatchDone, SyncRecords,
       SyncIndex, Commit
  <2>2. \/ UNCHANGED pc
        \/ \E label \in Reads \cup Writes : pc' = [pc EXCEPT ![h] = label]
    BY <1>3 DEF Move, Step, Stop, Rebuild, Open, Size, Hydrate, Lock, Truncate, Repair, Create, Empty,
       WriteHeader, WriteHashes, NextBatch, Close, PutKnown, PutRecord, PutHash, PutNewline, BatchDone,
       SyncRecords, SyncIndex, Commit, Goto, Reads, Writes
  <2>3. QED
    BY <1>1, <2>1, <2>2 DEF ControlOK
<1>4. QED
  BY <1>2, <1>3

\* The caches, and what is counted.
LEMMA RestStep ==
  ASSUME TypeOK, NEW h \in Hosts, Move(h)
  PROVE  RestOK'
<1>1. RestOK
  BY TypeParts
<1>2. CASE Hydrate(h)
  <2>1. \/ cache' = cache
        \/ cache' = [cache EXCEPT ![h] =
               [t \in Texts |-> IF t \in {u \in {v \in Missing(h) : Known(h, v)} : Sound(Position(h, u))}
                               THEN Retained(h, t) ELSE @[t]]]
    BY <1>2 DEF Hydrate
  <2>2. \A t \in Texts : t \in {u \in {v \in Missing(h) : Known(h, v)} : Sound(Position(h, u))}
                         => Retained(h, t) \in Records
    BY RetainedRecord
  <2>3. cache' \in [Hosts -> [Texts -> Records \cup {None}]]
    BY <1>1, <2>1, <2>2 DEF RestOK
  <2>4. UNCHANGED <<flushed, faults>>
    BY <1>2 DEF Hydrate
  <2>5. QED
    BY <1>1, <2>3, <2>4 DEF RestOK
<1>3. CASE SyncIndex(h)
  BY <1>1, <1>3 DEF SyncIndex, RestOK
<1>4. CASE Commit(h)
  <2>1. batch[h] \in [Texts -> Records \cup {None}]
    BY DEF TypeOK
  <2>2. QED
    BY <1>1, <1>4, <2>1 DEF Commit, RestOK
<1>5. CASE Stop(h) \/ Rebuild(h)
  <2>1. Nothing \in [Texts -> Records \cup {None}]
    BY DEF Nothing
  <2>2. QED
    BY <1>1, <1>5, <2>1 DEF Stop, Rebuild, Fault, RestOK
<1>6. CASE ~(Hydrate(h) \/ SyncIndex(h) \/ Commit(h) \/ Stop(h) \/ Rebuild(h))
  <2>1. UNCHANGED <<cache, flushed, faults>>
    BY <1>6 DEF Move, Step, Open, Size, Lock, Truncate, Create, Empty, WriteHeader, WriteHashes,
       NextBatch, Close, PutKnown, PutRecord, PutHash, PutNewline, BatchDone, SyncRecords
  <2>2. QED
    BY <1>1, <2>1 DEF RestOK
<1>7. QED
  BY <1>2, <1>3, <1>4, <1>5, <1>6

-----------------------------------------------------------------------------
(* The steps of the world.                                                 *)

\* A power failure takes lines and records from the end, no synced one, and
\* never turns an unfinished line into a finished one.
LEMMA OutageStep ==
  ASSUME IInv, Outage
  PROVE  IInv'
<1>1. /\ FilesOK /\ lines \in Seq(Texts) /\ Len(lines) \in Nat /\ bin \in Seq(Records) /\ Len(bin) \in Nat
      /\ idxSynced \in -1..Len(lines) /\ binSynced \in 0..Len(bin)
  BY TypeParts DEF IInv, FilesOK
<1>2. /\ pc' = [h \in Hosts |-> "idle"] /\ lock' = NoHost
      /\ view' = [h \in Hosts |-> <<>>] /\ pending' = [h \in Hosts |-> {}]
      /\ batch' = [h \in Hosts |-> Nothing]
      /\ UNCHANGED <<idxSynced, binSynced, cache, flushed>> /\ faults' = faults + 1
  BY DEF Outage, Fault
<1>3. PICK m \in binSynced..Len(bin) : bin' = Prefix(bin, m)
  BY DEF Outage
<1>4. /\ bin' \in Seq(Records) /\ Len(bin') = m
      /\ \A i \in 1..Len(bin') : i \in 1..Len(bin) /\ bin'[i] = bin[i]
  BY <1>1, <1>3, CutRecords DEF IInv
<1>5. /\ FilesOK' /\ HeadInv' /\ AlignedInv'
  <2>1. CASE \E n \in 0..Len(lines), cut \in BOOLEAN :
               /\ n >= idxSynced + (IF cut THEN 1 ELSE 0)
               /\ torn /\ n = Len(lines) => cut
               /\ cut => n > 0
               /\ lines' = Prefix(lines, n) /\ torn' = cut /\ UNCHANGED head
    <3>1. PICK n \in 0..Len(lines), cut \in BOOLEAN :
               /\ n >= idxSynced + (IF cut THEN 1 ELSE 0)
               /\ torn /\ n = Len(lines) => cut
               /\ cut => n > 0
               /\ lines' = Prefix(lines, n) /\ torn' = cut /\ UNCHANGED head
      BY <2>1
    <3>2. /\ lines' \in Seq(Texts) /\ Len(lines') = n
          /\ \A i \in 1..Len(lines') : i \in 1..Len(lines) /\ lines'[i] = lines[i]
      BY <1>1, <3>1, PrefixProperties
    <3>3. torn' \in BOOLEAN
      BY <3>1, Zenon
    <3>4. Unique(lines')
      BY <1>1, <3>2 DEF FilesOK, Unique
    <3>5. n >= idxSynced
      BY <1>1, <3>1
    <3>6. FilesOK'
      BY <1>1, <1>2, <1>4, <3>1, <3>2, <3>3, <3>4, <3>5 DEF FilesOK, Unique
    <3>7. HeadInv'
      <4>1. ASSUME lines = <<>> PROVE lines' = <<>>
        BY <3>1, <3>2, <4>1, EmptySeq
      <4>2. torn' => lines' # <<>>
        BY <3>1, <3>2, EmptySeq
      <4>3. QED
        BY <3>1, <4>1, <4>2 DEF IInv, HeadInv
    <3>8. AlignedInv'
      <4>1. ASSUME NEW i \in 1..Len(lines'), torn, i = Len(lines) PROVE torn' /\ i = Len(lines')
        BY <1>1, <3>1, <3>2, <4>1
      <4>2. QED
        BY <1>1, <1>4, <3>2, <4>1 DEF IInv, AlignedInv
    <3>9. QED
      BY <3>6, <3>7, <3>8
  <2>2. CASE /\ idxSynced = -1 /\ lines' = <<>> /\ torn' = FALSE
             /\ \E j \in DOMAIN Headers : head' = Headers[j]
    <3>1. head' \in Heads
      BY <2>2 DEF Headers, Heads
    <3>2. lines' \in Seq(Texts) /\ Len(lines') = 0
      BY <2>2, EmptySeq
    <3>3. torn' \in BOOLEAN
      BY <2>2, Zenon
    <3>4. FilesOK'
      BY <1>1, <1>2, <1>4, <2>2, <3>1, <3>2, <3>3 DEF FilesOK, Unique
    <3>5. HeadInv' /\ AlignedInv'
      BY <2>2, <3>2 DEF HeadInv, AlignedInv
    <3>6. QED
      BY <3>4, <3>5
  <2>3. QED
    BY <2>1, <2>2 DEF Outage
<1>6. MineOK' /\ ControlOK'
  <2>1. Nothing \in [Texts -> Records \cup {None}] /\ <<>> \in Seq(Texts)
    BY EmptySeq DEF Nothing
  <2>2. QED
    BY <1>2, <2>1 DEF MineOK, ControlOK
<1>7. RestOK'
  BY <1>2, TypeParts DEF IInv, RestOK
<1>8. LockInv'
  BY <1>2, StoreAssumption DEF LockInv, Writes
<1>9. WriterInv'
  BY <1>2 DEF WriterInv, WriterOf, Writes
<1>10. TypeOK'
  <2>1. lines' \in Seq(Texts) => DOMAIN (lines') = 1..Len(lines')
    OBVIOUS
  <2>2. QED
    BY <1>5, <1>6, <1>7, <2>1 DEF TypeOK, FilesOK, MineOK, ControlOK, RestOK, Unique
<1>11. QED
  BY <1>5, <1>8, <1>9, <1>10 DEF IInv

\* A flipped byte spoils a record, not what it is a record of.
LEMMA FlipStep ==
  ASSUME IInv, Flip
  PROVE  IInv'
<1>1. bin \in Seq(Records) /\ Len(bin) \in Nat
  BY DEF IInv, TypeOK
<1>2. PICK n \in DOMAIN bin : bin' = [bin EXCEPT ![n].ok = FALSE]
  BY DEF Flip
<1>3. /\ UNCHANGED <<head, lines, torn, idxSynced, binSynced, lock, pc, mine, cache, flushed>>
      /\ faults' = faults + 1
  BY DEF Flip, Fault
<1>4. bin[n] \in Records /\ n \in 1..Len(bin)
  BY <1>1, <1>2, ElementOfSeq
<1>5. [bin[n] EXCEPT !.ok = FALSE] \in Records /\ [bin[n] EXCEPT !.ok = FALSE].of = bin[n].of
  BY <1>4 DEF Records
<1>6. bin' = [bin EXCEPT ![n] = [bin[n] EXCEPT !.ok = FALSE]]
  BY <1>2
<1>7. /\ bin' \in Seq(Records) /\ Len(bin') = Len(bin)
      /\ \A i \in 1..Len(bin) : bin'[i].of = bin[i].of
  BY <1>1, <1>4, <1>5, <1>6, ExceptSeq
<1>8. TypeOK'
  BY <1>3, <1>7 DEF IInv, TypeOK
<1>9. LockInv' /\ HeadInv'
  BY <1>3 DEF IInv, LockInv, HeadInv
<1>10. AlignedInv'
  BY <1>1, <1>3, <1>7 DEF IInv, AlignedInv
<1>11. ASSUME NEW h \in Hosts PROVE WriterOf(h)'
  <2>1. WriterOf(h) /\ view[h] \in Seq(Texts) /\ Len(view[h]) \in Nat
    BY DEF IInv, WriterInv, TypeOK
  <2>2. CASE pc[h] \in {"hash", "newline"}
    <3>1. Len(bin) \in 1..Len(bin)
      BY <2>2, LastText DEF IInv
    <3>2. bin'[Len(bin')].of = bin[Len(bin)].of
      BY <1>7, <3>1
    <3>3. \A i \in 1..Len(view[h]) : i \in 1..Len(bin)
      BY <1>1, <2>1, <2>2 DEF WriterOf, Writes
    <3>4. QED
      BY <1>3, <1>7, <2>1, <2>2, <3>2, <3>3 DEF WriterOf, Writes, Unique
  <2>3. CASE pc[h] \in Writes \ {"truncate", "hash", "newline"}
    <3>1. Len(bin) = Len(view[h]) + (IF pc[h] \in {"hash", "newline"} THEN 1 ELSE 0)
      BY <2>1, <2>3 DEF WriterOf, Writes
    <3>2. Len(bin) = Len(view[h])
      <4>1. pc[h] \notin {"hash", "newline"}
        BY <2>3
      <4>2. QED
        BY <2>1, <3>1, <4>1
    <3>3. QED
      BY <1>3, <1>7, <2>1, <2>3, <3>2 DEF WriterOf, Writes, Unique
  <2>4. CASE pc[h] = "truncate" \/ pc[h] \notin Writes
    BY <1>3, <1>7, <2>1, <2>4 DEF WriterOf, Writes
  <2>5. QED
    BY <2>2, <2>3, <2>4
<1>12. QED
  BY <1>8, <1>9, <1>10, <1>11 DEF IInv, WriterInv

LEMMA InitIInv == Init => IInv
<1> SUFFICES ASSUME Init PROVE IInv
  OBVIOUS
<1>1. /\ head = "absent" /\ lines = <<>> /\ torn = FALSE /\ bin = <<>>
      /\ idxSynced = -1 /\ binSynced = 0 /\ lock = NoHost
      /\ pc = [h \in Hosts |-> "idle"]
      /\ view = [h \in Hosts |-> <<>>] /\ pending = [h \in Hosts |-> {}]
      /\ batch = [h \in Hosts |-> Nothing] /\ cache = [h \in Hosts |-> Nothing]
      /\ flushed = {} /\ faults = 0
  BY DEF Init
<1>2. /\ <<>> \in Seq(Texts) /\ <<>> \in Seq(Records) /\ Len(<<>>) = 0
      /\ Nothing \in [Texts -> Records \cup {None}]
  BY EmptySeq DEF Nothing
<1>3. torn \in BOOLEAN
  BY <1>1, Zenon
<1>4. FilesOK
  BY <1>1, <1>2, <1>3 DEF FilesOK, Heads, Unique
<1>5. MineOK /\ ControlOK /\ RestOK
  BY <1>1, <1>2 DEF MineOK, ControlOK, RestOK
<1>6. LockInv
  BY <1>1, StoreAssumption DEF LockInv, Writes
<1>7. HeadInv /\ AlignedInv /\ WriterInv
  BY <1>1, <1>2 DEF HeadInv, AlignedInv, WriterInv, WriterOf, Writes
<1>8. QED
  BY <1>4, <1>5, <1>6, <1>7, TypeParts DEF IInv

LEMMA NextIInv == IInv /\ [Next]_vars => IInv'
<1> SUFFICES ASSUME IInv, [Next]_vars PROVE IInv'
  OBVIOUS
<1>1. ASSUME NEW h \in Hosts, Move(h) PROVE IInv'
  <2>1. FilesOK' /\ MineOK' /\ ControlOK' /\ RestOK'
    BY <1>1, FilesStep, MineStep, ControlStep, RestStep DEF IInv
  <2>2. lines' \in Seq(Texts) => DOMAIN (lines') = 1..Len(lines')
    OBVIOUS
  <2>3. TypeOK'
    BY <2>1, <2>2 DEF TypeOK, FilesOK, MineOK, ControlOK, RestOK, Unique
  <2>4. LockInv' /\ HeadInv' /\ AlignedInv'
    BY <1>1, LockStep, HeadStep, AlignedStep DEF IInv
  <2>5. WriterInv'
    BY <1>1, OwnStep, WriterStep DEF IInv
  <2>6. QED
    BY <2>3, <2>4, <2>5 DEF IInv
<1>2. CASE Outage
  BY <1>2, OutageStep
<1>3. CASE Flip
  BY <1>3, FlipStep
<1>4. CASE UNCHANGED vars
  <2>1. UNCHANGED <<head, lines, torn, bin, idxSynced, binSynced, lock, pc, view, pending, batch,
                    cache, flushed, faults>>
    BY <1>4 DEF vars
  <2>2. TypeOK' /\ LockInv' /\ HeadInv' /\ AlignedInv'
    BY <2>1 DEF IInv, TypeOK, LockInv, HeadInv, AlignedInv
  <2>3. ASSUME NEW h \in Hosts PROVE WriterOf(h)'
    BY <2>1, WriterFrame DEF IInv, WriterInv
  <2>4. QED
    BY <2>2, <2>3 DEF IInv, WriterInv
<1>5. QED
  BY <1>1, <1>2, <1>3, <1>4 DEF Next, Move

LEMMA Invariant == Spec => []IInv
  BY InitIInv, NextIInv, PTL DEF Spec

-----------------------------------------------------------------------------
(* The theorems.                                                           *)

\* Whatever fails, the two files keep their form, and no hash is ever listed
\* twice: put refuses to derive again an artifact that the group has.
THEOREM TypeCorrect == Spec => []TypeOK
<1>1. IInv => TypeOK
  BY DEF IInv
<1>2. QED
  BY <1>1, Invariant, PTL

\* begin_write, put and flush only ever leave records that nobody lists, never
\* a line that names the record of another text: not after a run killed at any
\* point, a half-written index or a power failure.
THEOREM LinesKeepToRecords == Spec => []Aligned
<1>1. IInv => Aligned
  <2> SUFFICES ASSUME IInv, NEW i \in DOMAIN Listed, i \in DOMAIN bin
               PROVE  bin[i].of = Listed[i]
    BY DEF Aligned
  <2>1. /\ Listed \in Seq(Texts) /\ Len(Listed) = (IF torn THEN Len(lines) - 1 ELSE Len(lines))
        /\ \A k \in 1..Len(Listed) : k \in 1..Len(lines) /\ Listed[k] = lines[k]
    BY ListedProperties DEF IInv, HeadInv
  <2>2. /\ lines \in Seq(Texts) /\ Len(lines) \in Nat /\ bin \in Seq(Records) /\ Len(bin) \in Nat
    BY DEF IInv, TypeOK
  <2>3. i \in 1..Len(Listed) /\ i \in 1..Len(bin)
    BY <2>1, <2>2
  <2>4. QED
    BY <2>1, <2>2, <2>3 DEF IInv, AlignedInv
<1>2. QED
  BY <1>1, Invariant, PTL
-----------------------------------------------------------------------------
(* What a storage group is for, for every number of hosts and texts: its   *)
(* hosts share one vector per text, of that text, and what was flushed      *)
(* stays.  It holds while processes stop anywhere but inside the creation   *)
(* or the rewriting of the index, and while caches are lost: a half-written *)
(* index or a power failure may shorten what the group has.                 *)

Benign == Faults \subseteq {"stop", "rebuild"}

-----------------------------------------------------------------------------
(* The invariant.                                                          *)

\* The texts the group has agreed on: what the index lists, or what the host
\* that is about to rewrite or extend it knows.
Agreed == IF lock = NoHost THEN Listed ELSE view[lock]

Extends(s, t) == Len(t) <= Len(s) /\ \A i \in 1..Len(t) : t[i] = s[i]

\* Each of them has its one record, and it is sound.
RecordsInv ==
  /\ Len(Agreed) <= Len(bin)
  /\ \A i \in 1..Len(bin) : bin[i].ok
  /\ \A i \in 1..Len(Agreed) : bin[i].of = Agreed[i]
  /\ Unique(Agreed)

\* The index says the same, except while it is rewritten: then it says less.
Rewriting == lock # NoHost /\ pc[lock] \in {"reheader", "relist"}
IndexInv ==
  /\ Len(Listed) <= Len(bin)
  /\ Extends(Agreed, Listed)
  /\ ~Rewriting => Agreed = Listed

\* Nobody leaves an index that does not parse.
HeaderInv ==
  /\ lock = NoHost => head \in {"absent", "whole"}
  /\ \A h \in Hosts :
       /\ pc[h] \in {"truncate", "rewrite"} => head \in {"absent", "whole"}
       /\ pc[h] = "rewrite" => head = "whole"
       /\ pc[h] \in {"relist", "batch", "put", "hash", "newline", "sync", "syncidx", "commit"} =>
            head = "whole"

\* A reader's list may be old, never different.
ReaderInv == \A h \in Hosts : pc[h] \in {"sizing", "hydrate"} => Extends(Agreed, view[h])

\* A writer is the one that derived the record it is about to list.
OwnInv ==
  \A h \in Hosts : pc[h] \in {"hash", "newline"} =>
     bin[Len(bin)] = OwnVector(h, bin[Len(bin)].of)

\* Every copy of a vector is the group's.
Shared(t, v) == \E i \in 1..Len(Agreed) : Agreed[i] = t /\ v = bin[i]
CopyInv ==
  \A h \in Hosts, t \in Texts :
     /\ cache[h][t] # None => Shared(t, cache[h][t])
     /\ batch[h][t] # None => Shared(t, batch[h][t])

FlushInv == \A t \in flushed : \E i \in 1..Len(Agreed) : Agreed[i] = t

GInv == /\ RecordsInv /\ IndexInv /\ HeaderInv /\ ReaderInv /\ OwnInv
        /\ CopyInv /\ FlushInv

-----------------------------------------------------------------------------
(* What the group has only grows.                                          *)

LEMMA AgreedType ==
  ASSUME IInv
  PROVE  /\ Agreed \in Seq(Texts) /\ Len(Agreed) \in Nat
         /\ Listed \in Seq(Texts) /\ Len(Listed) \in Nat
         /\ bin \in Seq(Records) /\ Len(bin) \in Nat
         /\ lines \in Seq(Texts) /\ Len(lines) \in Nat
         /\ \A h \in Hosts : view[h] \in Seq(Texts) /\ Len(view[h]) \in Nat
<1>1. Listed \in Seq(Texts)
  BY ListedProperties DEF IInv, HeadInv
<1>2. \A h \in Hosts : view[h] \in Seq(Texts)
  BY DEF IInv, TypeOK
<1>3. Agreed \in Seq(Texts)
  BY <1>1, <1>2 DEF Agreed, IInv, TypeOK
<1>4. QED
  BY <1>1, <1>2, <1>3 DEF IInv, TypeOK

\* There is a record for every line.
LEMMA SizedListed ==
  ASSUME IInv, IndexInv
  PROVE  Sized(Listed) = Listed
<1>1. Listed \in Seq(Texts) /\ Len(Listed) \in Nat /\ Len(bin) \in Nat /\ Len(Listed) <= Len(bin)
  BY AgreedType DEF IndexInv
<1>2. /\ Sized(Listed) \in Seq(Texts)
      /\ Len(Sized(Listed)) = (IF Len(bin) < Len(Listed) THEN Len(bin) ELSE Len(Listed))
      /\ \A i \in 1..Len(Sized(Listed)) : Sized(Listed)[i] = Listed[i]
  BY <1>1, PrefixProperties DEF Sized
<1>3. Len(Sized(Listed)) = Len(Listed)
  BY <1>1, <1>2
<1>4. QED
  BY <1>1, <1>2, <1>3, SeqEqual

\* Of what can go wrong, only this does.
LEMMA BenignSteps ==
  ASSUME Benign
  PROVE  ~Outage /\ ~Flip /\ \A h \in Hosts : Stop(h) => ~HalfWritten(h)
  BY DEF Benign, Outage, Flip, Stop, Fault

\* Nobody quits in the middle of a rewriting.
LEMMA QuitAgrees ==
  ASSUME IInv, IndexInv, Benign, NEW h \in Hosts, Move(h), Quit(h), lock = h
  PROVE  Agreed = Listed
<1>1. pc[h] \in Writes
  BY DEF IInv, LockInv
<1>2. Close(h) \/ PutKnown(h) \/ Stop(h)
  BY <1>1, QuitEffect DEF IInv, Move, Step, Open, Size, Hydrate, Lock, Truncate, Repair, Create, Empty,
     WriteHeader, WriteHashes, NextBatch, PutRecord, PutHash, PutNewline, BatchDone, SyncRecords,
     SyncIndex, Commit, Rebuild, Goto, TypeOK, Writes
<1>3. pc[h] \notin {"reheader", "relist"}
  BY <1>2, BenignSteps DEF Close, PutKnown, HalfWritten
<1>4. QED
  BY <1>3 DEF IndexInv, Rewriting

\* A step leaves what the group has as it is, or adds one text to it.
LEMMA AgreedEffect ==
  ASSUME IInv, IndexInv, Benign, NEW h \in Hosts, Move(h)
  PROVE  \/ ~PutNewline(h) /\ Agreed' = Agreed
         \/ PutNewline(h) /\ Agreed' = Append(Agreed, bin[Len(bin)].of)
<1>1. lock \in Hosts \cup {NoHost} /\ NoHost \notin Hosts
  BY StoreAssumption DEF IInv, TypeOK
<1>2. CASE pc[h] \notin Writes /\ ~(Lock(h) /\ ~Quit(h))
  <2>1. Still(h) /\ ~PutNewline(h) /\ lock # h
    BY <1>2 DEF IInv, LockInv, Move, Step, Still, Writes, Truncate, Create, Empty, WriteHeader, WriteHashes,
       PutRecord, PutHash, PutNewline
  <2>2. UNCHANGED <<lines, torn>>
    BY <2>1, StillEffect
  <2>3. lock' = lock
    <3>1. CASE Quit(h)
      BY <2>1, <3>1, QuitEffect DEF IInv
    <3>2. CASE ~Quit(h)
      BY <1>2, <2>1, <3>2 DEF Move, Step, Stop, Rebuild, Open, Size, Hydrate, Lock, Truncate, Create, Empty,
         WriteHeader, WriteHashes, NextBatch, Close, PutKnown, PutRecord, PutHash, PutNewline,
         BatchDone, SyncRecords, SyncIndex, Commit
    <3>3. QED
      BY <3>1, <3>2
  <2>4. lock # NoHost => view'[lock] = view[lock]
    BY <1>1, <2>1, Frame DEF IInv
  <2>5. QED
    BY <2>1, <2>2, <2>3, <2>4 DEF Agreed, Listed
<1>3. CASE Lock(h) /\ ~Quit(h)
  <2>1. lock = NoHost /\ lock' = h /\ view'[h] = Sized(Listed) /\ ~PutNewline(h)
    BY <1>3 DEF Lock, PutNewline, IInv, TypeOK
  <2>2. QED
    BY <1>1, <2>1, SizedListed DEF Agreed
<1>4. CASE pc[h] \in Writes /\ Quit(h)
  <2>1. lock = h
    BY <1>4 DEF IInv, LockInv
  <2>2. lock' = NoHost /\ pc'[h] = "idle"
    BY <1>4, <2>1, QuitEffect DEF IInv
  <2>3. Still(h) /\ ~PutNewline(h)
    BY <1>4, <2>2 DEF IInv, TypeOK, Move, Step, Still, Writes, Truncate, Repair, Create, Empty, WriteHeader,
       WriteHashes, PutRecord, PutHash, PutNewline, Goto
  <2>4. Agreed = Listed
    BY <1>4, <2>1, QuitAgrees
  <2>5. UNCHANGED <<lines, torn>>
    BY <2>3, StillEffect
  <2>6. QED
    BY <2>2, <2>3, <2>4, <2>5 DEF Agreed, Listed
<1>5. CASE pc[h] \in Writes /\ ~Quit(h) /\ ~PutNewline(h)
  <2>1. lock = h
    BY <1>5 DEF IInv, LockInv
  <2>2. pc[h] \notin {"idle", "sizing", "hydrate", "lock"}
    BY <1>5 DEF Writes
  <2>3. \/ Truncate(h) \/ Create(h) \/ Empty(h) \/ WriteHeader(h) \/ WriteHashes(h)
        \/ NextBatch(h) \/ (PutKnown(h) /\ ~Quit(h)) \/ PutRecord(h) \/ PutHash(h)
        \/ BatchDone(h) \/ SyncRecords(h) \/ SyncIndex(h) \/ Commit(h)
    BY <1>5, <2>2 DEF Move, Step, Stop, Rebuild, Open, Size, Hydrate, Lock, Close
  <2>4. lock' = lock /\ view' = view
    <3>1. CASE PutKnown(h) /\ ~Quit(h)
      BY <3>1 DEF PutKnown
    <3>2. CASE \/ Truncate(h) \/ Create(h) \/ Empty(h) \/ WriteHeader(h) \/ WriteHashes(h)
      BY <3>2 DEF Truncate, Create, Empty, WriteHeader, WriteHashes
    <3>3. CASE \/ NextBatch(h) \/ PutRecord(h) \/ PutHash(h) \/ BatchDone(h) \/ SyncRecords(h)
               \/ SyncIndex(h) \/ Commit(h)
      BY <3>3 DEF NextBatch, PutRecord, PutHash, BatchDone, SyncRecords, SyncIndex, Commit
    <3>4. QED
      BY <2>3, <3>1, <3>2, <3>3
  <2>5. QED
    BY <1>1, <1>5, <2>1, <2>4 DEF Agreed
<1>6. CASE PutNewline(h)
  <2>1. lock = h /\ lock' = h /\ view'[h] = Append(view[h], bin[Len(bin)].of)
    BY <1>6 DEF IInv, LockInv, TypeOK, PutNewline, Writes
  <2>2. QED
    BY <1>1, <1>6, <2>1 DEF Agreed
<1>7. QED
  BY <1>2, <1>3, <1>4, <1>5, <1>6

LEMMA AgreedNext ==
  ASSUME IInv, IndexInv, Benign, NEW h \in Hosts, Move(h)
  PROVE  Agreed' \in Seq(Texts) /\ Len(Agreed') \in Nat
<1>1. CASE Agreed' = Agreed
  BY <1>1, AgreedType
<1>2. CASE PutNewline(h) /\ Agreed' = Append(Agreed, bin[Len(bin)].of)
  <2>1. bin[Len(bin)].of \in Texts
    BY <1>2, LastText DEF IInv, PutNewline
  <2>2. Append(Agreed, bin[Len(bin)].of) \in Seq(Texts)
    BY <2>1, AgreedType, AppendProperties
  <2>3. QED
    BY <1>2, <2>2
<1>3. QED
  BY <1>1, <1>2, AgreedEffect

\* Whoever holds the lock knows all of it.
LEMMA HolderKnows ==
  ASSUME IInv, NEW h \in Hosts, pc[h] \in Writes
  PROVE  lock = h /\ Agreed = view[h]
  BY StoreAssumption DEF IInv, LockInv, Agreed

\* Records are appended, and dropped only beyond what is agreed.
LEMMA RecordsEffect ==
  ASSUME IInv, GInv, NEW h \in Hosts, Move(h)
  PROVE  /\ Len(Agreed) <= Len(bin')
         /\ \A i \in 1..Len(Agreed) : bin'[i] = bin[i]
         /\ \A i \in 1..Len(bin') : bin'[i].ok
         /\ Len(bin') \in Nat
<1>1. /\ bin \in Seq(Records) /\ Len(bin) \in Nat /\ Len(Agreed) \in Nat
      /\ Len(Agreed) <= Len(bin) /\ \A i \in 1..Len(bin) : bin[i].ok
  BY AgreedType DEF GInv, RecordsInv
<1>2. CASE Truncate(h)
  <2>1. bin' = Prefix(bin, Len(view[h])) /\ Agreed = view[h]
    BY <1>2, HolderKnows DEF Truncate, Writes
  <2>2. QED
    BY <1>1, <2>1, CutRecords DEF IInv
<1>3. CASE PutRecord(h)
  <2>1. PICK t \in pending[h] : bin' = Append(bin, OwnVector(h, t))
    BY <1>3 DEF PutRecord
  <2>2. OwnVector(h, t) \in Records /\ OwnVector(h, t).ok
    BY DEF OwnVector, Records, IInv, TypeOK
  <2>3. /\ Len(bin') = Len(bin) + 1 /\ bin'[Len(bin) + 1] = OwnVector(h, t)
        /\ \A i \in 1..Len(bin) : bin'[i] = bin[i]
    BY <1>1, <2>1, <2>2, AppendProperties
  <2>4. QED
    BY <1>1, <2>2, <2>3
<1>4. CASE ~(Truncate(h) \/ PutRecord(h))
  <2>1. CASE Still(h)
    <3>1. bin' = bin
      BY <2>1, StillEffect
    <3>2. QED
      BY <1>1, <3>1
  <2>2. CASE \/ Create(h) \/ Empty(h) \/ WriteHeader(h) \/ WriteHashes(h) \/ PutHash(h)
             \/ PutNewline(h)
    BY <2>2, <1>1 DEF Create, Empty, WriteHeader, WriteHashes, PutHash, PutNewline
  <2>3. QED
    BY <1>4, <2>1, <2>2 DEF Move, Step, Still
<1>5. QED
  BY <1>2, <1>3, <1>4

LEMMA Grows ==
  ASSUME IInv, GInv, Benign, NEW h \in Hosts, Move(h)
  PROVE  Extends(Agreed', Agreed)
<1>1. CASE Agreed' = Agreed
  BY <1>1, AgreedType DEF Extends
<1>2. CASE PutNewline(h) /\ Agreed' = Append(Agreed, bin[Len(bin)].of)
  <2>1. bin[Len(bin)].of \in Texts
    BY <1>2, LastText DEF IInv, PutNewline
  <2>2. QED
    BY <1>2, <2>1, AgreedType, AppendProperties DEF Extends
<1>3. QED
  BY <1>1, <1>2, AgreedEffect DEF GInv

\* So what a host took from the group stays the group's.
LEMMA SharedStays ==
  ASSUME IInv, GInv, Benign, NEW h \in Hosts, Move(h), NEW t, NEW v, Shared(t, v)
  PROVE  Shared(t, v)'
<1>1. PICK i \in 1..Len(Agreed) : Agreed[i] = t /\ v = bin[i]
  BY DEF Shared
<1>2. bin'[i] = bin[i]
  BY RecordsEffect
<1>3. i \in 1..Len(Agreed') /\ Agreed'[i] = Agreed[i]
  <2>1. Extends(Agreed', Agreed)
    BY Grows
  <2>2. Len(Agreed) \in Nat /\ Len(Agreed') \in Nat
    BY AgreedType, AgreedNext DEF GInv
  <2>3. QED
    BY <2>1, <2>2 DEF Extends
<1>4. QED
  BY <1>1, <1>2, <1>3 DEF Shared

-----------------------------------------------------------------------------
(* The steps.                                                              *)

\* The text listed last is new, and its record is the last one.
LEMMA NewText ==
  ASSUME IInv, NEW h \in Hosts, pc[h] = "newline"
  PROVE  /\ lines = Append(view[h], bin[Len(bin)].of) /\ bin[Len(bin)].of \in Texts
         /\ Len(bin) = Len(view[h]) + 1 /\ Len(lines) = Len(bin) /\ Unique(lines)
         /\ \A i \in 1..Len(view[h]) : lines[i] = view[h][i]
         /\ lines[Len(bin)] = bin[Len(bin)].of
<1>1. /\ lines = Append(view[h], bin[Len(bin)].of) /\ Len(bin) = Len(view[h]) + 1
      /\ bin[Len(bin)].of \in Texts
  BY LastText DEF IInv, WriterInv, WriterOf
<1>2. view[h] \in Seq(Texts) /\ Len(view[h]) \in Nat /\ Unique(lines)
  BY TypeParts DEF IInv, TypeOK, FilesOK
<1>3. /\ Len(lines) = Len(view[h]) + 1 /\ lines[Len(view[h]) + 1] = bin[Len(bin)].of
      /\ \A i \in 1..Len(view[h]) : lines[i] = view[h][i]
  BY <1>1, <1>2, AppendProperties
<1>4. QED
  BY <1>1, <1>2, <1>3

LEMMA RecordsStep ==
  ASSUME IInv, GInv, Benign, NEW h \in Hosts, Move(h)
  PROVE  RecordsInv'
<1>1. /\ Len(Agreed) <= Len(bin') /\ \A i \in 1..Len(bin') : bin'[i].ok
      /\ \A i \in 1..Len(Agreed) : bin'[i] = bin[i]
  BY RecordsEffect
<1>2. CASE Agreed' = Agreed
  BY <1>1, <1>2 DEF GInv, RecordsInv, Unique
<1>3. CASE PutNewline(h) /\ Agreed' = Append(Agreed, bin[Len(bin)].of)
  <2>1. pc[h] = "newline" /\ bin' = bin
    BY <1>3 DEF PutNewline
  <2>2. Agreed = view[h]
    BY <2>1, HolderKnows DEF Writes
  <2>3. Agreed' = lines
    BY <1>3, <2>1, <2>2, NewText
  <2>4. \A i \in 1..Len(lines) : bin[i].of = lines[i]
    <3>1. \A i \in 1..Len(view[h]) : bin[i].of = view[h][i]
      BY <2>2 DEF GInv, RecordsInv
    <3>2. Len(view[h]) \in Nat
      BY AgreedType
    <3>3. QED
      BY <2>1, <3>1, <3>2, NewText
  <2>5. Unique(lines) /\ Len(lines) = Len(bin)
    BY <2>1, NewText
  <2>6. Len(Agreed') <= Len(bin')
    BY <2>1, <2>3, <2>5, AgreedType
  <2>7. \A i \in 1..Len(Agreed') : bin'[i].of = Agreed'[i]
    BY <2>1, <2>3, <2>4
  <2>8. Unique(Agreed')
    BY <2>3, <2>5
  <2>9. QED
    BY <1>1, <2>6, <2>7, <2>8 DEF RecordsInv, Unique
<1>4. QED
  BY <1>2, <1>3, AgreedEffect DEF GInv

LEMMA IndexStep ==
  ASSUME IInv, GInv, Benign, NEW h \in Hosts, Move(h)
  PROVE  IndexInv'
<1> USE DEF GInv
<1>1. /\ Listed \in Seq(Texts) /\ Len(Listed) \in Nat /\ Len(bin) \in Nat /\ Len(Listed) <= Len(bin)
      /\ lines \in Seq(Texts) /\ Len(lines) \in Nat /\ view[h] \in Seq(Texts) /\ Len(view[h]) \in Nat
      /\ Agreed \in Seq(Texts) /\ Len(Agreed) \in Nat
  BY AgreedType DEF IndexInv
<1>2. /\ Len(Agreed) <= Len(bin') /\ Len(bin') \in Nat
  BY RecordsEffect
<1>3. ~PutNewline(h) => Agreed' = Agreed
  BY AgreedEffect
<1>4. pc[h] \in Writes => lock = h /\ Agreed = view[h]
  BY HolderKnows
<1>5. ASSUME Agreed' = Listed' PROVE IndexInv'
  <2>1. Len(Listed') <= Len(bin') /\ Len(Listed') \in Nat
    <3>1. RecordsInv'
      BY RecordsStep
    <3>2. Len(Agreed') \in Nat /\ Len(Agreed') <= Len(bin')
      BY <3>1, AgreedNext DEF RecordsInv
    <3>3. QED
      BY <1>5, <3>2
  <2>2. QED
    BY <1>5, <2>1 DEF IndexInv, Extends
<1>6. CASE Still(h)
  <2>1. UNCHANGED <<lines, torn, bin>> /\ ~PutNewline(h)
    BY <1>6, StillEffect DEF PutNewline, Still, Open, Size, Hydrate, Lock, NextBatch, Close, PutKnown,
       BatchDone, SyncRecords, SyncIndex, Commit, Stop, Rebuild, IInv, TypeOK, Goto, Quit
  <2>2. Listed' = Listed /\ Agreed' = Agreed
    BY <1>3, <2>1 DEF Listed
  <2>3. CASE ~Rewriting
    BY <1>5, <2>2, <2>3 DEF IndexInv
  <2>4. CASE Rewriting
    <3>1. IndexInv
      OBVIOUS
    <3>2. Rewriting'
      <4>1. lock \in Hosts /\ pc[lock] \in {"reheader", "relist"}
        BY <2>4 DEF Rewriting, IInv, TypeOK
      <4>2. lock # h
        BY <1>6, <4>1, BenignSteps DEF Still, Open, Size, Hydrate, Lock, NextBatch, Close, PutKnown,
           BatchDone, SyncRecords, SyncIndex, Commit, Stop, Rebuild, HalfWritten
      <4>3. pc'[lock] = pc[lock]
        BY <4>1, <4>2, Frame DEF IInv
      <4>4. lock' = lock
        <5>1. pc'[lock] \in Writes /\ LockInv'
          BY <4>1, <4>3, LockStep DEF IInv, Writes
        <5>2. QED
          BY <4>1, <5>1 DEF LockInv
      <4>5. QED
        BY <2>4, <4>3, <4>4 DEF Rewriting
    <3>3. QED
      BY <2>1, <2>2, <3>1, <3>2 DEF IndexInv, Extends
  <2>5. QED
    BY <2>3, <2>4
<1>7. CASE Truncate(h) \/ Create(h) \/ PutRecord(h)
  <2>1. UNCHANGED <<lines, torn>> /\ ~PutNewline(h) /\ pc[h] \in {"truncate", "create", "put"}
    BY <1>7 DEF Truncate, Create, PutRecord, PutNewline
  <2>2. Listed' = Listed /\ Agreed' = Agreed
    BY <1>3, <2>1 DEF Listed
  <2>3. ~Rewriting
    BY <1>4, <2>1 DEF Rewriting, Writes
  <2>4. QED
    BY <1>5, <2>2, <2>3 DEF IndexInv
<1>8. CASE Empty(h) \/ WriteHeader(h)
  <2>1. /\ lines' = <<>> /\ ~torn' /\ ~PutNewline(h) /\ pc[h] \in Writes
        /\ lock' = lock /\ pc'[h] \in {"reheader", "relist"}
    <3>1. CASE Empty(h)
      BY <3>1 DEF Empty, Goto, PutNewline, Writes, IInv, TypeOK
    <3>2. CASE WriteHeader(h)
      <4>1. pc[h] = "reheader" /\ UNCHANGED <<lines, torn, lock>> /\ pc'[h] = "relist" /\ ~PutNewline(h)
        BY <3>2 DEF WriteHeader, Goto, PutNewline, IInv, TypeOK
      <4>2. lines = <<>> /\ ~torn
        BY <4>1 DEF IInv, WriterInv, WriterOf
      <4>3. QED
        BY <4>1, <4>2 DEF Writes
    <3>3. QED
      BY <1>8, <3>1, <3>2
  <2>2. Listed' = <<>> /\ Agreed' = Agreed
    BY <1>3, <2>1 DEF Listed
  <2>3. Rewriting'
    BY <1>4, <2>1, StoreAssumption DEF Rewriting
  <2>4. QED
    BY <1>1, <1>2, <2>2, <2>3 DEF IndexInv, Extends
<1>9. CASE WriteHashes(h)
  <2>1. lines' = view[h] /\ torn' = torn /\ pc[h] = "relist" /\ ~PutNewline(h)
    BY <1>9 DEF WriteHashes, PutNewline
  <2>2. ~torn /\ Agreed = view[h]
    BY <1>4, <2>1 DEF IInv, WriterInv, WriterOf, Writes
  <2>3. QED
    BY <1>3, <1>5, <2>1, <2>2 DEF Listed
<1>10. CASE PutHash(h)
  <2>1. lines' = Append(lines, bin[Len(bin)].of) /\ torn' /\ pc[h] = "hash" /\ ~PutNewline(h)
    BY <1>10 DEF PutHash, PutNewline
  <2>2. bin[Len(bin)].of \in Texts /\ lines = view[h] /\ ~torn
    BY <2>1, LastText DEF IInv, WriterInv, WriterOf
  <2>3. /\ lines' \in Seq(Texts) /\ Len(lines') = Len(lines) + 1
        /\ \A i \in 1..Len(lines) : lines'[i] = lines[i]
    BY <1>1, <2>1, <2>2, AppendProperties
  <2>4. Listed' = Prefix(lines', Len(lines))
    BY <1>1, <2>1, <2>3 DEF Listed
  <2>5. /\ Listed' \in Seq(Texts) /\ Len(Listed') = Len(lines)
        /\ \A i \in 1..Len(lines) : Listed'[i] = lines[i]
    BY <1>1, <2>3, <2>4, PrefixProperties
  <2>6. Listed' = lines
    BY <1>1, <2>5, SeqEqual
  <2>7. QED
    BY <1>3, <1>4, <1>5, <2>1, <2>2, <2>6 DEF Writes
<1>11. CASE PutNewline(h)
  <2>1. pc[h] = "newline" /\ lines' = lines /\ ~torn'
    BY <1>11 DEF PutNewline
  <2>2. Agreed' = lines
    BY <1>4, <1>11, <2>1, NewText, AgreedEffect DEF Writes
  <2>3. QED
    BY <1>5, <2>1, <2>2 DEF Listed
<1>12. QED
  BY <1>6, <1>7, <1>8, <1>9, <1>10, <1>11 DEF Move, Step, Still

LEMMA HeaderStep ==
  ASSUME IInv, GInv, Benign, NEW h \in Hosts, Move(h)
  PROVE  HeaderInv'
<1> DEFINE
  Fits(p, x) ==
    /\ p \in {"truncate", "rewrite"} => x \in {"absent", "whole"}
    /\ p = "rewrite" => x = "whole"
    /\ p \in {"relist", "batch", "put", "hash", "newline", "sync", "syncidx", "commit"} => x = "whole"
<1>1. /\ lock = NoHost => head \in {"absent", "whole"}
      /\ \A g \in Hosts : Fits(pc[g], head)
  BY DEF GInv, HeaderInv
<1>2. pc[h] \in Writes <=> lock = h
  BY DEF IInv, LockInv
<1>3. LockInv'
  BY LockStep DEF IInv
<1>4. \A g \in Hosts \ {h} : pc'[g] = pc[g]
  BY Frame DEF IInv
<1>5. ASSUME Fits(pc'[h], head'), lock' = NoHost => head' \in {"absent", "whole"},
             head' # head => pc'[h] \in Writes
      PROVE  HeaderInv'
  <2>1. ASSUME NEW g \in Hosts \ {h} PROVE Fits(pc'[g], head')
    <3>1. CASE head' = head
      BY <1>1, <1>4, <3>1
    <3>2. CASE head' # head
      <4>1. pc'[g] \notin Writes
        BY <1>3, <1>5, <3>2 DEF LockInv
      <4>2. QED
        BY <4>1 DEF Writes
    <3>3. QED
      BY <3>1, <3>2
  <2>2. QED
    BY <1>5, <2>1 DEF HeaderInv
<1>6. CASE Still(h) /\ Quit(h)
  <2>1. head' = head /\ pc'[h] = "idle"
    BY <1>6, StillEffect, QuitEffect DEF IInv
  <2>2. lock' = NoHost => head \in {"absent", "whole"}
    <3>1. CASE lock = NoHost
      BY <1>1, <3>1
    <3>2. CASE lock = h
      <4>1. pc[h] \in Writes \ {"reheader", "relist"} /\ (pc[h] = "create" => head = "absent")
        <5>1. pc[h] \in Writes
          BY <1>2, <3>2
        <5>2. Stop(h) \/ Close(h) \/ PutKnown(h)
          BY <1>6, <2>1, <5>1 DEF Still, Open, Size, Hydrate, Lock, NextBatch, BatchDone, SyncRecords, SyncIndex,
             Commit, Rebuild, Goto, IInv, TypeOK, Writes
        <5>3. QED
          BY <5>1, <5>2, BenignSteps DEF HalfWritten, Close, PutKnown
      <4>2. QED
        BY <1>1, <4>1 DEF Writes
    <3>3. CASE lock \in Hosts \ {h}
      BY <1>6, <3>3, QuitEffect, StoreAssumption DEF IInv
    <3>4. QED
      BY <3>1, <3>2, <3>3 DEF IInv, TypeOK
  <2>3. QED
    BY <1>5, <2>1, <2>2
<1>7. CASE Lock(h) /\ ~Quit(h)
  <2>1. lock = NoHost /\ lock' = h /\ pc'[h] = "truncate" /\ head' = head
    BY <1>7 DEF Lock, Goto, IInv, TypeOK
  <2>2. QED
    BY <1>1, <1>5, <2>1, StoreAssumption
<1>8. CASE Open(h) \/ Size(h) \/ (Hydrate(h) /\ ~Quit(h)) \/ Rebuild(h)
  <2>1. pc'[h] \in {"idle", "sizing", "hydrate", "lock"} /\ lock' = lock /\ head' = head
    BY <1>8 DEF Open, Size, Hydrate, Rebuild, Goto, IInv, TypeOK
  <2>2. QED
    BY <1>1, <1>5, <2>1
<1>9. CASE \/ NextBatch(h) \/ (PutKnown(h) /\ ~Quit(h)) \/ PutRecord(h) \/ PutHash(h) \/ PutNewline(h)
           \/ BatchDone(h) \/ SyncRecords(h) \/ SyncIndex(h) \/ Commit(h) \/ WriteHashes(h)
  <2>1. /\ pc[h] \in {"relist", "batch", "put", "hash", "newline", "sync", "syncidx", "commit"}
        /\ pc'[h] \in {"batch", "put", "hash", "newline", "sync", "syncidx", "commit"}
        /\ lock' = lock /\ head' = (IF pc[h] = "hash" /\ head = "open" THEN "glued" ELSE head)
    BY <1>9 DEF NextBatch, PutKnown, PutRecord, PutHash, PutNewline, BatchDone, SyncRecords, SyncIndex,
       Commit, WriteHashes, Goto, Take, IInv, TypeOK
  <2>2. head = "whole" /\ lock = h
    BY <1>1, <1>2, <2>1 DEF Writes
  <2>3. QED
    BY <1>5, <2>1, <2>2, StoreAssumption
<1>10. CASE Truncate(h)
  <2>1. /\ pc[h] = "truncate" /\ lock' = lock /\ head' = head
        /\ pc'[h] \in {"create", "rewrite", "batch"} /\ (head = "absent" => pc'[h] = "create")
    BY <1>10 DEF Truncate, Repair, Goto, IInv, TypeOK
  <2>2. lock = h /\ head \in {"absent", "whole"}
    BY <1>1, <1>2, <2>1 DEF Writes
  <2>3. QED
    BY <1>5, <2>1, <2>2, StoreAssumption
<1>11. CASE Create(h)
  <2>1. /\ pc[h] = "create" /\ lock' = lock /\ pc'[h] \in {"create", "batch"}
        /\ pc'[h] = "batch" => head = "open"
        /\ head = "open" => head' = "whole"
    BY <1>11 DEF Create, Goto, IInv, TypeOK
  <2>2. lock = h
    BY <1>2, <2>1 DEF Writes
  <2>3. QED
    BY <1>5, <2>1, <2>2, StoreAssumption DEF Writes
<1>12. CASE Empty(h) \/ WriteHeader(h)
  <2>1. /\ pc[h] \in Writes /\ lock' = lock /\ pc'[h] \in {"reheader", "relist"}
        /\ pc'[h] = "relist" => head' = "whole"
    BY <1>12 DEF Empty, WriteHeader, Goto, IInv, TypeOK, Writes
  <2>2. lock = h
    BY <1>2, <2>1
  <2>3. QED
    BY <1>5, <2>1, <2>2, StoreAssumption DEF Writes
<1>13. QED
  BY <1>6, <1>7, <1>8, <1>9, <1>10, <1>11, <1>12 DEF Move, Step, Still, Stop, Close

LEMMA ExtendsTransitive ==
  ASSUME NEW r \in Seq(Texts), NEW s \in Seq(Texts), NEW t \in Seq(Texts),
         Extends(r, s), Extends(s, t)
  PROVE  Extends(r, t)
  BY DEF Extends

LEMMA ReaderStep ==
  ASSUME IInv, GInv, Benign, NEW h \in Hosts, Move(h)
  PROVE  ReaderInv'
<1>1. Extends(Agreed', Agreed) /\ Agreed' \in Seq(Texts) /\ Agreed \in Seq(Texts)
      /\ Listed \in Seq(Texts) /\ \A g \in Hosts : view[g] \in Seq(Texts) /\ view'[g] \in Seq(Texts)
  <2>1. IInv'
    BY NextIInv DEF Next, Move
  <2>2. \A g \in Hosts : view'[g] \in Seq(Texts)
    BY <2>1 DEF IInv, TypeOK
  <2>3. Agreed' \in Seq(Texts)
    BY AgreedNext DEF GInv
  <2>4. QED
    BY <2>2, <2>3, AgreedType, Grows
<1>2. \A g \in Hosts \ {h} : pc'[g] = pc[g] /\ view'[g] = view[g]
  BY Frame DEF IInv
<1>3. ASSUME NEW g \in Hosts, pc[g] \in {"sizing", "hydrate"}, view'[g] = view[g]
      PROVE  Extends(Agreed', view'[g])
  <2>1. Extends(Agreed, view[g])
    BY <1>3 DEF GInv, ReaderInv
  <2>2. QED
    BY <1>1, <1>3, <2>1, ExtendsTransitive
<1>4. ASSUME pc'[h] \in {"sizing", "hydrate"} PROVE Extends(Agreed', view'[h])
  <2>1. Open(h) \/ Size(h)
    BY <1>4, QuitEffect DEF IInv, Move, Step, Open, Size, Hydrate, Lock, Truncate, Repair, Create, Empty, WriteHeader,
       WriteHashes, NextBatch, Close, PutKnown, PutRecord, PutHash, PutNewline, BatchDone, SyncRecords,
       SyncIndex, Commit, Stop, Rebuild, Goto, Take, TypeOK
  <2>2. CASE Open(h)
    <3>1. view'[h] = Listed
      BY <2>2 DEF Open, IInv, TypeOK
    <3>2. QED
      BY <1>1, <3>1, ExtendsTransitive DEF GInv, IndexInv
  <2>3. CASE Size(h)
    <3>1. pc[h] = "sizing" /\ view'[h] = Sized(view[h])
      BY <2>3 DEF Size, IInv, TypeOK
    <3>2. Extends(Agreed, view[h])
      BY <3>1 DEF GInv, ReaderInv
    <3>3. Extends(view[h], Sized(view[h]))
      BY <1>1, SizedProperties DEF Extends, IInv
    <3>4. QED
      BY <1>1, <3>1, <3>2, <3>3, ExtendsTransitive
  <2>4. QED
    BY <2>1, <2>2, <2>3
<1>5. QED
  BY <1>2, <1>3, <1>4 DEF ReaderInv

LEMMA OwnRecordStep ==
  ASSUME IInv, GInv, Benign, NEW h \in Hosts, Move(h)
  PROVE  OwnInv'
<1>1. \A g \in Hosts \ {h} : pc'[g] = pc[g]
  BY Frame DEF IInv
<1>2. ASSUME NEW g \in Hosts \ {h}, pc'[g] \in {"hash", "newline"}
      PROVE  bin'[Len(bin')] = OwnVector(g, bin'[Len(bin')].of)
  <2>1. pc[h] \notin Writes
    BY <1>1, <1>2, OneWriter DEF IInv, Writes
  <2>2. bin' = bin
    <3>1. Still(h)
      BY <2>1 DEF Move, Step, Still, Writes, Truncate, Create, Empty, WriteHeader, WriteHashes,
         PutRecord, PutHash, PutNewline
    <3>2. QED
      BY <3>1, StillEffect
  <2>3. QED
    BY <1>1, <1>2, <2>2 DEF GInv, OwnInv
<1>3. ASSUME pc'[h] \in {"hash", "newline"}
      PROVE  bin'[Len(bin')] = OwnVector(h, bin'[Len(bin')].of)
  <2>1. PutRecord(h) \/ PutHash(h)
    BY <1>3, QuitEffect DEF IInv, Move, Step, Open, Size, Hydrate, Lock, Truncate, Repair, Create, Empty, WriteHeader,
       WriteHashes, NextBatch, Close, PutKnown, PutRecord, PutHash, PutNewline, BatchDone, SyncRecords,
       SyncIndex, Commit, Stop, Rebuild, Goto, Take, TypeOK
  <2>2. CASE PutRecord(h)
    <3>1. PICK t \in pending[h] : bin' = Append(bin, OwnVector(h, t))
      BY <2>2 DEF PutRecord
    <3>2. OwnVector(h, t) \in Records /\ OwnVector(h, t).of = t
      BY DEF OwnVector, Records, IInv, TypeOK
    <3>3. Len(bin') = Len(bin) + 1 /\ bin'[Len(bin) + 1] = OwnVector(h, t)
      BY <3>1, <3>2, AgreedType, AppendProperties
    <3>4. QED
      BY <3>2, <3>3
  <2>3. CASE PutHash(h)
    BY <2>3 DEF PutHash, GInv, OwnInv
  <2>4. QED
    BY <2>1, <2>2, <2>3
<1>4. QED
  BY <1>2, <1>3 DEF OwnInv

\* The record at the position of a text in a list the group has agreed on.
LEMMA RetainedShared ==
  ASSUME IInv, NEW h \in Hosts, NEW t \in Texts, Known(h, t), Extends(Agreed, view[h])
  PROVE  Shared(t, Retained(h, t))
<1>1. view[h] \in Seq(Texts) /\ Len(view[h]) \in Nat /\ Len(Agreed) \in Nat
  BY AgreedType
<1>2. Position(h, t) \in 1..Len(view[h]) /\ view[h][Position(h, t)] = t
  BY <1>1 DEF Position, Known
<1>3. QED
  BY <1>1, <1>2 DEF Shared, Retained, Extends

\* Whatever vector a host takes, and wherever it keeps it, the group has it.
LEMMA CopyStep ==
  ASSUME IInv, GInv, Benign, NEW h \in Hosts, Move(h)
  PROVE  CopyInv'
<1> DEFINE After(t, v) == \E i \in 1..Len(Agreed') : Agreed'[i] = t /\ v = bin'[i]
<1>1. /\ cache \in [Hosts -> [Texts -> Records \cup {None}]]
      /\ batch \in [Hosts -> [Texts -> Records \cup {None}]]
      /\ view \in [Hosts -> Seq(Texts)] /\ pending \in [Hosts -> SUBSET Texts]
  BY DEF IInv, TypeOK
<1>2. \A t, v : Shared(t, v) => After(t, v)
  BY SharedStays DEF Shared
<1>3. \A g \in Hosts, t \in Texts : /\ cache[g][t] # None => After(t, cache[g][t])
                                    /\ batch[g][t] # None => After(t, batch[g][t])
  BY <1>2 DEF GInv, CopyInv
<1> HIDE DEF After
<1>4. ASSUME \A g \in Hosts, t \in Texts :
               /\ cache'[g][t] \in {None, cache[g][t], batch[g][t]} \/ After(t, cache'[g][t])
               /\ batch'[g][t] \in {None, batch[g][t]} \/ After(t, batch'[g][t])
      PROVE  CopyInv'
  <2>1. \A g \in Hosts, t \in Texts : /\ cache'[g][t] # None => After(t, cache'[g][t])
                                      /\ batch'[g][t] # None => After(t, batch'[g][t])
    BY <1>3, <1>4
  <2>2. QED
    BY <2>1 DEF CopyInv, Shared, After
<1>5. ASSUME Quit(h) PROVE \A g \in Hosts, t \in Texts : batch'[g][t] \in {None, batch[g][t]}
  BY <1>1, <1>5 DEF Quit, Nothing
<1>6. ASSUME NEW u \in Texts, NEW r \in Records, Take(h, u, r), After(u, r)
      PROVE  \A g \in Hosts, t \in Texts : batch'[g][t] = batch[g][t] \/ After(t, batch'[g][t])
  <2>1. \A g \in Hosts, t \in Texts : batch'[g][t] = (IF g = h /\ t = u THEN r ELSE batch[g][t])
    BY <1>1, <1>6 DEF Take
  <2>2. QED
    BY <1>6, <2>1
<1>7. CASE Hydrate(h)
  <2>1. pc[h] = "hydrate"
    BY <1>7 DEF Hydrate
  <2>2. \A t \in Texts : Known(h, t) => After(t, Retained(h, t))
    BY <1>2, <2>1, RetainedShared DEF GInv, ReaderInv
  <2>3. \A g \in Hosts, t \in Texts : cache'[g][t] = cache[g][t] \/ After(t, cache'[g][t])
    <3>1. CASE cache' = cache
      BY <3>1
    <3>2. CASE cache' = [cache EXCEPT ![h] =
             [t \in Texts |-> IF t \in {u \in {v \in Missing(h) : Known(h, v)} : Sound(Position(h, u))}
                             THEN Retained(h, t) ELSE @[t]]]
      <4>1. \A g \in Hosts, t \in Texts :
               cache'[g][t] = cache[g][t] \/ (Known(h, t) /\ cache'[g][t] = Retained(h, t))
        BY <1>1, <3>2
      <4>2. QED
        BY <2>2, <4>1
    <3>3. QED
      BY <1>7, <3>1, <3>2 DEF Hydrate
  <2>4. \A g \in Hosts, t \in Texts : batch'[g][t] \in {None, batch[g][t]}
    BY <1>5, <1>7 DEF Hydrate
  <2>5. QED
    BY <1>4, <2>3, <2>4
<1>8. CASE PutKnown(h)
  <2>1. cache' = cache
    BY <1>8 DEF PutKnown
  <2>2. CASE Quit(h)
    BY <1>4, <1>5, <2>1, <2>2
  <2>3. CASE ~Quit(h)
    <3>1. PICK u \in pending[h] : Known(h, u) /\ Sound(Position(h, u)) /\ Take(h, u, Retained(h, u))
      BY <1>8, <2>3 DEF PutKnown
    <3>2. u \in Texts /\ Retained(h, u) \in Records
      BY <1>1, <3>1, RetainedRecord DEF IInv
    <3>3. Agreed = view[h]
      BY <1>8, HolderKnows DEF PutKnown, Writes
    <3>4. Extends(Agreed, view[h])
      BY <3>3, AgreedType DEF Extends
    <3>5. After(u, Retained(h, u))
      BY <1>2, <3>1, <3>2, <3>4, RetainedShared
    <3>6. QED
      BY <1>4, <1>6, <2>1, <3>1, <3>2, <3>5
  <2>4. QED
    BY <2>2, <2>3
<1>9. CASE PutNewline(h)
  <2>1. /\ pc[h] = "newline" /\ cache' = cache /\ bin' = bin
        /\ Take(h, bin[Len(bin)].of, OwnVector(h, bin[Len(bin)].of))
    BY <1>9 DEF PutNewline
  <2>2. bin[Len(bin)].of \in Texts /\ OwnVector(h, bin[Len(bin)].of) \in Records
    <3>1. bin[Len(bin)].of \in Texts
      BY <2>1, NewText
    <3>2. QED
      BY <3>1 DEF OwnVector, Records
  <2>3. bin[Len(bin)] = OwnVector(h, bin[Len(bin)].of)
    BY <2>1 DEF GInv, OwnInv
  <2>4. Agreed = view[h]
    BY <2>1, HolderKnows DEF Writes
  <2>5. Agreed' = lines
    BY <1>9, <2>1, <2>4, NewText, AgreedEffect DEF GInv
  <2>6. Len(bin) \in 1..Len(lines) /\ lines[Len(bin)] = bin[Len(bin)].of
    BY <2>1, NewText, AgreedType
  <2>7. After(bin[Len(bin)].of, OwnVector(h, bin[Len(bin)].of))
    BY <2>1, <2>3, <2>5, <2>6 DEF After
  <2>8. QED
    BY <1>4, <1>6, <2>1, <2>2, <2>7
<1>10. CASE Commit(h)
  <2>1. \A g \in Hosts, t \in Texts : /\ cache'[g][t] \in {cache[g][t], batch[g][t]}
                                      /\ batch'[g][t] \in {None, batch[g][t]}
    BY <1>1, <1>10 DEF Commit, Nothing
  <2>2. QED
    BY <1>4, <2>1
<1>11. CASE Rebuild(h)
  <2>1. \A g \in Hosts, t \in Texts : cache'[g][t] \in {None, cache[g][t]} /\ batch'[g][t] = batch[g][t]
    BY <1>1, <1>11 DEF Rebuild, Nothing
  <2>2. QED
    BY <1>4, <2>1
<1>12. CASE Lock(h) \/ Stop(h) \/ Close(h)
  <2>1. cache' = cache /\ (batch' = batch \/ Quit(h))
    BY <1>12 DEF Lock, Stop, Close
  <2>2. QED
    BY <1>4, <1>5, <2>1
<1>13. CASE \/ Open(h) \/ Size(h) \/ Truncate(h) \/ Create(h) \/ Empty(h) \/ WriteHeader(h)
            \/ WriteHashes(h) \/ NextBatch(h) \/ PutRecord(h) \/ PutHash(h) \/ BatchDone(h)
            \/ SyncRecords(h) \/ SyncIndex(h)
  <2>1. cache' = cache /\ batch' = batch
    BY <1>13 DEF Open, Size, Truncate, Create, Empty, WriteHeader, WriteHashes, NextBatch, PutRecord,
       PutHash, BatchDone, SyncRecords, SyncIndex
  <2>2. QED
    BY <1>4, <2>1
<1>14. QED
  BY <1>7, <1>8, <1>9, <1>10, <1>11, <1>12, <1>13 DEF Move, Step

LEMMA FlushStep ==
  ASSUME IInv, GInv, Benign, NEW h \in Hosts, Move(h)
  PROVE  FlushInv'
<1>1. \A t \in flushed' : \E i \in 1..Len(Agreed) : Agreed[i] = t
  <2>1. CASE SyncIndex(h)
    <3>1. flushed' = flushed \cup {t \in Texts : batch[h][t] # None}
      BY <2>1 DEF SyncIndex
    <3>2. QED
      BY <3>1 DEF GInv, FlushInv, CopyInv, Shared
  <2>2. CASE ~SyncIndex(h)
    <3>1. flushed' = flushed
      BY <2>2 DEF Move, Step, Open, Size, Hydrate, Lock, Truncate, Create, Empty, WriteHeader, WriteHashes,
         NextBatch, Close, PutKnown, PutRecord, PutHash, PutNewline, BatchDone, SyncRecords, Commit,
         Stop, Rebuild
    <3>2. QED
      BY <3>1 DEF GInv, FlushInv
  <2>3. QED
    BY <2>1, <2>2
<1>2. Extends(Agreed', Agreed)
  BY Grows
<1>3. Len(Agreed) \in Nat /\ Len(Agreed') \in Nat
  BY AgreedNext, AgreedType DEF GInv
<1>4. QED
  BY <1>1, <1>2, <1>3 DEF FlushInv, Extends

-----------------------------------------------------------------------------
LEMMA InitGInv == Init => GInv
<1> SUFFICES ASSUME Init PROVE GInv
  OBVIOUS
<1>1. /\ head = "absent" /\ lines = <<>> /\ ~torn /\ bin = <<>> /\ lock = NoHost
      /\ pc = [h \in Hosts |-> "idle"] /\ flushed = {}
      /\ batch = [h \in Hosts |-> Nothing] /\ cache = [h \in Hosts |-> Nothing]
  BY DEF Init
<1>2. Listed = <<>> /\ Agreed = <<>> /\ Len(Agreed) = 0 /\ Len(bin) = 0
  BY <1>1 DEF Listed, Agreed
<1>3. RecordsInv /\ IndexInv /\ HeaderInv
  BY <1>1, <1>2 DEF RecordsInv, IndexInv, HeaderInv, Extends, Unique
<1>4. ReaderInv /\ OwnInv /\ FlushInv
  BY <1>1 DEF ReaderInv, OwnInv, FlushInv
<1>5. CopyInv
  BY <1>1 DEF CopyInv, Nothing
<1>6. QED
  BY <1>3, <1>4, <1>5 DEF GInv

LEMMA NextGInv == Benign /\ IInv /\ GInv /\ [Next]_vars => GInv'
<1> SUFFICES ASSUME Benign, IInv, GInv, [Next]_vars PROVE GInv'
  OBVIOUS
<1>1. ASSUME NEW h \in Hosts, Move(h) PROVE GInv'
  BY <1>1, RecordsStep, IndexStep, HeaderStep, ReaderStep, OwnRecordStep, CopyStep, FlushStep DEF GInv
<1>2. CASE UNCHANGED vars
  <2>1. UNCHANGED <<head, lines, torn, bin, lock, pc, view, batch, cache, flushed>>
    BY <1>2 DEF vars
  <2>2. Listed' = Listed /\ Agreed' = Agreed
    BY <2>1 DEF Listed, Agreed
  <2>3. RecordsInv' /\ IndexInv' /\ HeaderInv'
    BY <2>1, <2>2 DEF GInv, RecordsInv, IndexInv, HeaderInv, Rewriting, Unique, Extends
  <2>4. ReaderInv' /\ OwnInv'
    BY <2>1, <2>2 DEF GInv, ReaderInv, OwnInv, OwnVector, Extends
  <2>5. CopyInv' /\ FlushInv'
    BY <2>1, <2>2 DEF GInv, CopyInv, FlushInv, Shared
  <2>6. QED
    BY <2>3, <2>4, <2>5 DEF GInv
<1>3. QED
  BY <1>1, <1>2, BenignSteps DEF Next, Move

LEMMA GroupInvariant == ASSUME Benign PROVE Spec => [](IInv /\ GInv)
<1>1. IInv /\ GInv /\ [Next]_vars => (IInv /\ GInv)'
  BY NextIInv, NextGInv
<1>2. QED
  BY <1>1, InitIInv, InitGInv, PTL DEF Spec

-----------------------------------------------------------------------------
(* The theorems.                                                           *)

\* No host ever ranks a text by the vector of another one: hydrate reads by
\* position in a list that may be older than the file, and lists only grow.
THEOREM VectorsAreRight == ASSUME Faults \subseteq {"stop", "rebuild"} PROVE Spec => []RightVector
<1>1. IInv /\ GInv => RightVector
  BY DEF GInv, CopyInv, RecordsInv, Shared, RightVector
<1>2. QED
  BY <1>1, GroupInvariant, PTL DEF Benign

\* The group derives once: begin_write reloads under the lock and put takes
\* the vector of another host where there is one, so all caches agree.
THEOREM DerivedOnce == ASSUME Faults \subseteq {"stop", "rebuild"} PROVE Spec => []DeriveOnce
<1>1. IInv /\ GInv => DeriveOnce
  BY DEF GInv, CopyInv, RecordsInv, Shared, Unique, DeriveOnce
<1>2. QED
  BY <1>1, GroupInvariant, PTL DEF Benign

\* What a flush has returned for is there for the next run of any host: no
\* repair that begin_write makes after a killed run loses a listed record.
THEOREM FlushedStays == ASSUME Faults \subseteq {"stop", "rebuild"} PROVE Spec => []Kept
<1>1. IInv /\ GInv => Kept
  <2> SUFFICES ASSUME IInv, GInv, lock = NoHost, NEW t \in flushed
               PROVE  Readable /\ \E i \in DOMAIN Sized(Listed) : Listed[i] = t
    BY DEF Kept
  <2>1. Readable
    BY DEF GInv, HeaderInv, Readable
  <2>2. Agreed = Listed /\ Sized(Listed) = Listed
    BY SizedListed DEF Agreed, GInv
  <2>3. \E i \in 1..Len(Listed) : Listed[i] = t
    BY <2>2 DEF GInv, FlushInv
  <2>4. DOMAIN Listed = 1..Len(Listed)
    BY AgreedType
  <2>5. QED
    BY <2>1, <2>2, <2>3, <2>4
<1>2. QED
  BY <1>1, GroupInvariant, PTL DEF Benign
=============================================================================
