----------------------------- MODULE VectorStore -----------------------------
(***************************************************************************)
(* The shared vector store of a storage group: an append-only file of      *)
(* records (.bin) and an index file (.idx) naming record i on line i,      *)
(* written by one host at a time under store.lock and read by every host   *)
(* without it, and each host's local cache of the same vectors.            *)
(*                                                                         *)
(* vectors.rs (reload, begin_write, put_encoded, flush, hydrate), embed.rs *)
(* (run, sync_configured) and vector_worker.rs (the retry of a failed run).*)
(*                                                                         *)
(* One embedding profile, the canonical one.  A record cut short counts as *)
(* absent, as it does in the code (length / stride), and so does a hash    *)
(* without its newline.  Truncations reach the disk in order.              *)
(***************************************************************************)
EXTENDS Integers, Sequences, FiniteSets

CONSTANTS
  Hosts,      \* each runs one process at a time on the store
  Embedders,  \* the hosts that can derive vectors, the others only read
  Texts,      \* content hashes of the blocks every host has in its tree
  Batch,      \* texts embedded per request
  SeekUntil,  \* SEEK_UNTIL: up to so many records are read one by one
  None,       \* no vector
  Faults,     \* what goes wrong: any of FaultKinds
  MaxFaults   \* bound: so many times

FaultKinds == {"stop", "tear", "outage", "flip", "rebuild"}
NoHost == "nobody"

ASSUME StoreAssumption ==
  /\ NoHost \notin Hosts /\ None \notin [of : Texts, by : Hosts, ok : BOOLEAN]
  /\ Embedders \subseteq Hosts
  /\ Batch \in Nat \ {0} /\ SeekUntil \in Nat
  /\ Faults \subseteq FaultKinds /\ MaxFaults \in Nat

VARIABLES
  \* ---- the two files
  head,      \* the index header, and how much of it is there
  lines,     \* the hashes listed after it
  torn,      \* the last of them lacks its newline
  bin,       \* the records
  idxSynced, \* lines known to be on disk, or -1: not even the header
  binSynced, \* records known to be on disk
  lock,      \* who holds store.lock
  \* ---- each host's process
  pc,
  view,      \* store.hashes, the records it knows of
  pending,   \* the texts of the batch still to be put
  batch,     \* the vectors to cache once the batch is flushed
  cache,     \* the host's own index.db
  \* ---- history
  flushed,   \* texts some flush has returned for
  faults

idx == <<head, lines, torn, idxSynced>>
records == <<bin, binSynced>>
files == <<idx, records>>
mine == <<view, pending, batch>>
vars == <<files, lock, pc, mine, cache, flushed, faults>>

Records == [of : Texts, by : Hosts, ok : BOOLEAN]

\* The header of a file created but not written, or only in part, does not
\* parse.  It does without its last newline, until a hash is glued onto it.
Heads == {"absent", "empty", "partial", "open", "whole", "glued"}
Reads  == {"sizing", "hydrate", "lock"}
Writes == {"truncate", "create", "rewrite", "reheader", "relist", "batch",
           "put", "hash", "newline", "sync", "syncidx", "commit"}

\* No hash is listed twice: an artifact that exists is never derived again.
TypeOK ==
  /\ head \in Heads /\ torn \in BOOLEAN
  /\ lines \in Seq(Texts) /\ bin \in Seq(Records)
  /\ \A i, j \in DOMAIN lines : lines[i] = lines[j] => i = j
  /\ idxSynced \in -1..Len(lines) /\ binSynced \in 0..Len(bin)
  /\ lock \in Hosts \cup {NoHost}
  /\ pc \in [Hosts -> {"idle"} \cup Reads \cup Writes]
  /\ view \in [Hosts -> Seq(Texts)] /\ pending \in [Hosts -> SUBSET Texts]
  /\ batch \in [Hosts -> [Texts -> Records \cup {None}]]
  /\ cache \in [Hosts -> [Texts -> Records \cup {None}]]
  /\ flushed \subseteq Texts /\ faults \in Nat

Nothing == [t \in Texts |-> None]

\* A group without artifacts.
Init ==
  /\ head = "absent" /\ lines = <<>> /\ torn = FALSE /\ bin = <<>>
  /\ idxSynced = -1 /\ binSynced = 0
  /\ lock = NoHost
  /\ pc = [h \in Hosts |-> "idle"]
  /\ view = [h \in Hosts |-> <<>>] /\ pending = [h \in Hosts |-> {}]
  /\ batch = [h \in Hosts |-> Nothing] /\ cache = [h \in Hosts |-> Nothing]
  /\ flushed = {} /\ faults = 0

Prefix(s, n) == SubSeq(s, 1, IF n < Len(s) THEN n ELSE Len(s))
Missing(h) == {t \in Texts : cache[h][t] = None}
Goto(h, label) == pc' = [pc EXCEPT ![h] = label]

\* What reload makes of the index: an absent one is an empty store.
Readable == head \in {"absent", "open", "whole"}
Listed == IF torn THEN Prefix(lines, Len(lines) - 1) ELSE lines
Sized(listed) == Prefix(listed, Len(bin))

\* The record a view has for a text, if it can be read and validates.
Position(h, t) == CHOOSE i \in DOMAIN view[h] : view[h][i] = t
Known(h, t) == \E i \in DOMAIN view[h] : view[h][i] = t
Sound(i) == i \in DOMAIN bin /\ bin[i].ok
Retained(h, t) == bin[Position(h, t)]

\* The process is gone, or its run has failed: only the files stay.
Quit(h) ==
  /\ Goto(h, "idle")
  /\ lock' = IF lock = h THEN NoHost ELSE lock
  /\ view' = [view EXCEPT ![h] = <<>>] /\ pending' = [pending EXCEPT ![h] = {}]
  /\ batch' = [batch EXCEPT ![h] = Nothing]

-----------------------------------------------------------------------------
(* Reading: VectorStore::open and hydrate.                                 *)

\* A run starts with the index file as it is.
Open(h) ==
  /\ pc[h] = "idle" /\ Missing(h) # {}
  /\ Readable
  /\ view' = [view EXCEPT ![h] = Listed]
  /\ Goto(h, "sizing")
  /\ UNCHANGED <<files, lock, pending, batch, cache, flushed, faults>>

SizeShort(h) ==
  /\ pc[h] = "sizing"
  /\ view' = [view EXCEPT ![h] = Prefix(@, Len(bin) - 1)]
  /\ Goto(h, "hydrate")
  /\ UNCHANGED <<files, lock, pending, batch, cache, flushed, faults>>

\* Only records that are both listed and present count.
Size(h) ==
  /\ pc[h] = "sizing"
  /\ view' = [view EXCEPT ![h] = Sized(@)]
  /\ Goto(h, "hydrate")
  /\ UNCHANGED <<files, lock, pending, batch, cache, flushed, faults>>

\* A few records are sought one by one and a bad one is skipped; more are
\* streamed, and a bad one, wanted or not, fails the whole run.
Hydrate(h) ==
  LET wanted == {t \in Missing(h) : Known(h, t)}
      sound == {t \in wanted : Sound(Position(h, t))}
  IN
  /\ pc[h] = "hydrate"
  /\ \/ /\ Cardinality(wanted) <= SeekUntil \/ \A i \in DOMAIN view[h] : Sound(i)
        /\ cache' = [cache EXCEPT ![h] =
             [t \in Texts |-> IF t \in sound THEN Retained(h, t) ELSE @[t]]]
        /\ IF h \in Embedders /\ Missing(h) # sound
             THEN Goto(h, "lock") /\ UNCHANGED <<lock, mine>>
             ELSE Quit(h)
     \/ /\ Cardinality(wanted) > SeekUntil /\ \E i \in DOMAIN view[h] : ~Sound(i)
        /\ Quit(h) /\ UNCHANGED cache
  /\ UNCHANGED <<files, flushed, faults>>

-----------------------------------------------------------------------------
(* begin_write.                                                            *)

LockStale(h) ==
  /\ pc[h] = "lock" /\ lock = NoHost
  /\ lock' = h /\ Goto(h, "truncate") /\ UNCHANGED mine
  /\ UNCHANGED <<files, cache, flushed, faults>>

\* Another writer may have appended: reload under the lock.
Lock(h) ==
  /\ pc[h] = "lock" /\ lock = NoHost
  /\ \/ /\ Readable
        /\ lock' = h
        /\ view' = [view EXCEPT ![h] = Sized(Listed)]
        /\ Goto(h, "truncate") /\ UNCHANGED <<pending, batch>>
     \/ ~Readable /\ Quit(h)
  /\ UNCHANGED <<files, cache, flushed, faults>>

\* An absent index is created.  One that lists more than there is, or whose
\* last line is torn, is rewritten.
Repair(h) ==
  Goto(h, IF head = "absent" THEN "create"
          ELSE IF Len(lines) # Len(view[h]) THEN "rewrite" ELSE "batch")

KeepOrphans(h) ==
  /\ pc[h] = "truncate"
  /\ Repair(h)
  /\ UNCHANGED <<files, lock, mine, cache, flushed, faults>>

\* bin.set_len: a record nobody lists is dropped.
Truncate(h) ==
  /\ pc[h] = "truncate"
  /\ bin' = Prefix(bin, Len(view[h]))
  /\ binSynced' = IF Len(bin') < binSynced THEN Len(bin') ELSE binSynced
  /\ Repair(h)
  /\ UNCHANGED <<idx, lock, mine, cache, flushed, faults>>

\* The header goes to a new file by several writes.
Create(h) ==
  /\ pc[h] = "create"
  /\ head' = CASE head = "absent" -> "empty" [] head = "empty" -> "partial"
               [] head = "partial" -> "open" [] OTHER -> "whole"
  /\ IF head = "open" THEN Goto(h, "batch") ELSE UNCHANGED pc
  /\ UNCHANGED <<lines, torn, idxSynced, records, lock, mine, cache, flushed, faults>>

\* idx.set_len(0), and then the header and the hashes, one write each.
Empty(h) ==
  /\ pc[h] = "rewrite"
  /\ head' = "empty" /\ lines' = <<>> /\ torn' = FALSE /\ idxSynced' = -1
  /\ Goto(h, "reheader")
  /\ UNCHANGED <<records, lock, mine, cache, flushed, faults>>

WriteHeader(h) ==
  /\ pc[h] = "reheader"
  /\ head' = "whole"
  /\ Goto(h, "relist")
  /\ UNCHANGED <<lines, torn, idxSynced, records, lock, mine, cache, flushed, faults>>

WriteHashes(h) ==
  /\ pc[h] = "relist"
  /\ lines' = view[h]
  /\ Goto(h, "batch")
  /\ UNCHANGED <<head, torn, idxSynced, records, lock, mine, cache, flushed, faults>>

-----------------------------------------------------------------------------
(* The loop of embed::run.                                                 *)

\* hashes_without_vectors, up to a batch of them, which are then embedded.
NextBatch(h) ==
  /\ pc[h] = "batch" /\ Missing(h) # {}
  /\ \E some \in SUBSET Missing(h) :
       /\ Cardinality(some) = IF Batch < Cardinality(Missing(h)) THEN Batch
                              ELSE Cardinality(Missing(h))
       /\ pending' = [pending EXCEPT ![h] = some]
  /\ Goto(h, "put")
  /\ UNCHANGED <<files, lock, view, batch, cache, flushed, faults>>

Close(h) ==
  /\ pc[h] = "batch" /\ Missing(h) = {}
  /\ Quit(h)
  /\ UNCHANGED <<files, cache, flushed, faults>>

Take(h, t, record) ==
  /\ batch' = [batch EXCEPT ![h][t] = record]
  /\ pending' = [pending EXCEPT ![h] = @ \ {t}]

OwnVector(h, t) == [of |-> t, by |-> h, ok |-> TRUE]

PutOwn(h) ==
  /\ pc[h] = "put"
  /\ \E t \in pending[h] : Known(h, t) /\ Take(h, t, OwnVector(h, t))
  /\ UNCHANGED <<files, lock, pc, view, cache, flushed, faults>>

\* put finds the hash: get_retained fetches the vector the group already has,
\* and a record that does not validate fails the run.
PutKnown(h) ==
  /\ pc[h] = "put"
  /\ \E t \in pending[h] :
       /\ Known(h, t)
       /\ \/ /\ Sound(Position(h, t)) /\ Take(h, t, Retained(h, t))
             /\ UNCHANGED <<lock, pc, view>>
          \/ ~Sound(Position(h, t)) /\ Quit(h)
  /\ UNCHANGED <<files, cache, flushed, faults>>

\* The record first ...
PutRecord(h) ==
  /\ pc[h] = "put"
  /\ \E t \in pending[h] : ~Known(h, t) /\ bin' = Append(bin, OwnVector(h, t))
  /\ Goto(h, "hash")
  /\ UNCHANGED <<idx, binSynced, lock, mine, cache, flushed, faults>>

\* ... then its line, by two writes: the hash, right behind what is there, ...
PutHash(h) ==
  /\ pc[h] = "hash"
  /\ head' = IF head = "open" THEN "glued" ELSE head
  /\ lines' = Append(lines, bin[Len(bin)].of) /\ torn' = TRUE
  /\ Goto(h, "newline")
  /\ UNCHANGED <<idxSynced, records, lock, mine, cache, flushed, faults>>

\* ... and the newline.
PutNewline(h) ==
  LET t == bin[Len(bin)].of IN
  /\ pc[h] = "newline"
  /\ torn' = FALSE
  /\ view' = [view EXCEPT ![h] = Append(@, t)]
  /\ Take(h, t, OwnVector(h, t))
  /\ Goto(h, "put")
  /\ UNCHANGED <<head, lines, idxSynced, records, lock, cache, flushed, faults>>

BatchDone(h) ==
  /\ pc[h] = "put" /\ pending[h] = {}
  /\ Goto(h, "sync")
  /\ UNCHANGED <<files, lock, mine, cache, flushed, faults>>

\* flush: the records first, then the index.
SyncRecords(h) ==
  /\ pc[h] = "sync"
  /\ binSynced' = Len(bin)
  /\ Goto(h, "syncidx")
  /\ UNCHANGED <<idx, bin, lock, mine, cache, flushed, faults>>

SyncIndex(h) ==
  /\ pc[h] = "syncidx"
  /\ idxSynced' = Len(lines)
  /\ flushed' = flushed \cup {t \in Texts : batch[h][t] # None}
  /\ Goto(h, "commit")
  /\ UNCHANGED <<head, lines, torn, records, lock, mine, cache, faults>>

\* Record first, cache second.
Commit(h) ==
  /\ pc[h] = "commit"
  /\ cache' = [cache EXCEPT ![h] =
       [t \in Texts |-> IF batch[h][t] # None THEN batch[h][t] ELSE @[t]]]
  /\ batch' = [batch EXCEPT ![h] = Nothing]
  /\ Goto(h, "batch")
  /\ UNCHANGED <<files, lock, view, pending, flushed, faults>>

-----------------------------------------------------------------------------
(* What goes wrong.                                                        *)

Fault(kind) == kind \in Faults /\ faults < MaxFaults /\ faults' = faults + 1

\* The process is killed, the embedding service fails, the lock stays busy or a
\* write fails: the run ends here, the files as they are.
HalfWritten(h) ==
  pc[h] \in {"reheader", "relist"} \/ (pc[h] = "create" /\ head # "absent")

Stop(h) ==
  /\ pc[h] # "idle"
  /\ Fault(IF HalfWritten(h) THEN "tear" ELSE "stop")
  /\ Quit(h)
  /\ UNCHANGED <<files, cache, flushed>>

\* The machine the store is on loses power: what was not synced may be gone,
\* from the end, of each of the two files for itself.
Headers == <<"absent", "empty", "partial", "open", "whole">>
Outage ==
  /\ Fault("outage")
  /\ pc' = [h \in Hosts |-> "idle"] /\ lock' = NoHost
  /\ view' = [h \in Hosts |-> <<>>] /\ pending' = [h \in Hosts |-> {}]
  /\ batch' = [h \in Hosts |-> Nothing]
  /\ \E n \in binSynced..Len(bin) : bin' = Prefix(bin, n)
  /\ \/ \E n \in 0..Len(lines), cut \in BOOLEAN :
          /\ n >= idxSynced + (IF cut THEN 1 ELSE 0)
          /\ torn /\ n = Len(lines) => cut
          /\ cut => n > 0
          /\ lines' = Prefix(lines, n) /\ torn' = cut /\ UNCHANGED head
     \/ /\ idxSynced = -1
        /\ \E i, j \in DOMAIN Headers :
             j < i /\ Headers[i] = (IF head = "glued" THEN "whole" ELSE head) /\ head' = Headers[j]
        /\ lines' = <<>> /\ torn' = FALSE
  /\ UNCHANGED <<idxSynced, binSynced, cache, flushed>>

\* A flipped byte on disk, of the kind validation notices.
Flip ==
  /\ Fault("flip")
  /\ \E i \in DOMAIN bin : bin[i].ok /\ bin' = [bin EXCEPT ![i].ok = FALSE]
  /\ UNCHANGED <<idx, binSynced, lock, pc, mine, cache, flushed>>

\* A daemon that starts with an index.db of another schema, or a corrupt one,
\* deletes it, and the host's cached vectors are gone with it.
Rebuild(h) ==
  /\ pc[h] = "idle"
  /\ Fault("rebuild")
  /\ cache' = [cache EXCEPT ![h] = Nothing]
  /\ UNCHANGED <<files, lock, pc, mine, flushed>>

-----------------------------------------------------------------------------
Step(h) ==
  \/ Open(h) \/ Size(h) \/ Hydrate(h)
  \/ Lock(h) \/ Truncate(h) \/ Create(h) \/ Empty(h) \/ WriteHeader(h) \/ WriteHashes(h)
  \/ NextBatch(h) \/ Close(h) \/ PutKnown(h) \/ PutRecord(h) \/ PutHash(h) \/ PutNewline(h)
  \/ BatchDone(h) \/ SyncRecords(h) \/ SyncIndex(h) \/ Commit(h)

Next == Outage \/ Flip \/ \E h \in Hosts : Step(h) \/ Stop(h) \/ Rebuild(h)

Spec == Init /\ [][Next]_vars

\* The vector worker of every daemon retries a run that failed, and a run that
\* succeeds leaves nothing missing.
Fairness == \A h \in Hosts : WF_vars(Step(h))
FairSpec == Spec /\ Fairness

-----------------------------------------------------------------------------
(* Properties.  SizeShort, LockStale, KeepOrphans and PutOwn above are not *)
(* part of the system: each is a bug one of them would expose.             *)

\* The index never names a record of another text, whatever is cut short.
Aligned == \A i \in DOMAIN Listed : i \in DOMAIN bin => bin[i].of = Listed[i]

\* No host ever ranks a text by the vector of another one.
RightVector ==
  \A h \in Hosts, t \in Texts : cache[h][t] # None => cache[h][t].of = t

\* The group derives once: two hosts never hold different vectors of a text.
DeriveOnce ==
  \A g, h \in Hosts, t \in Texts :
     cache[g][t] # None /\ cache[h][t] # None => cache[g][t] = cache[h][t]

\* Committed work is there for the next run, on whatever host.
Kept ==
  lock = NoHost =>
    \A t \in flushed : Readable /\ \E i \in DOMAIN Sized(Listed) : Listed[i] = t

\* Every host ends up with a vector of every text.
Covered == <>[](\A h \in Hosts : Missing(h) = {})
=============================================================================
