------------------------------ MODULE Freshness ------------------------------
(***************************************************************************)
(* The serving daemon's freshness machinery: the source tree that anybody  *)
(* may edit, the catalog (index.db) one worker thread derives from it, the *)
(* watcher events and wake-ups that drive that worker, and the queries     *)
(* that wait on a barrier before they pin a snapshot of the catalog.       *)
(*                                                                         *)
(* serve.rs (ServeState, worker, apply), index.rs (staleness,              *)
(* rescan_changed, scan) and daemon.rs (serve_snapshot).                   *)
(*                                                                         *)
(* A file's content, and the (mtime, size) pair the code compares, are one *)
(* version number: 0 is "no such file", and every write gets a number of   *)
(* its own (stat_of reads nanoseconds so that an edit moves the stat).     *)
(***************************************************************************)
EXTENDS Integers, FiniteSets

CONSTANTS
  Files,           \* indexable source files
  Queries,         \* connection threads that serve memory queries
  Policies,        \* the freshness policies they ask for
  MaxEdits,        \* bound: version numbers handed out
  MaxFailures,     \* bound: failed reads and failed transactions
  IncrementalMax,  \* INCREMENTAL_MAX_CHANGES: larger diffs take the full scan
  SideScan,        \* TRUE: ensure_fresh may scan beside the worker
  Backstops,       \* FALSE: the 60 s timer never fires (to isolate wake-ups)
  Timeouts         \* FALSE: no barrier runs into its 5 s deadline

Absent == 0
NoPolicy == "none"
Version == 0..MaxEdits

ASSUME FreshnessAssumption ==
  /\ Policies \subseteq {"strict", "default", "cached"}
  /\ MaxEdits \in Nat \ {0}
  /\ MaxFailures \in Nat
  /\ IncrementalMax \in Nat
  /\ SideScan \in BOOLEAN /\ Backstops \in BOOLEAN /\ Timeouts \in BOOLEAN

VARIABLES
  tree,       \* [Files -> Version]: the source tree as it is now
  edits,      \* the last version number handed out
  events,     \* watcher notifications not yet delivered
  failures,   \* failures so far (bounds the environment)
  \* ---- index.db, as last committed
  scanned,    \* a scan was ever committed (generation # 0)
  row,        \* [Files -> Version]: content each file is indexed with
  stat,       \* [Files -> Version]: stat stored beside those rows
  fp,         \* [Files -> Version]: the stored source fingerprint
  unread,     \* files whose last read failed: ScanReport.unreadable
  mixed,      \* history: files the last commit left as it found them although
              \* another scan had replaced their rows since it compared them
  predates,   \* history: queries in flight that the rows may be too old for:
              \* the scan that stored them began before the query entered
  \* ---- ServeState
  pending, applied, settled, watchesReady, lastError,
  covered,    \* queries that entered before applied_walk_start
  wake,       \* kinds of message in the wake channel
  refreshQueued,
  \* ---- the rebuild worker's pass
  wpc, opened, forced, target,
  covers,     \* queries that had entered when this pass started
  seen,       \* stats this pass's latest walk has taken
  body,       \* contents this pass has read
  todo,       \* files the current walk or read loop has still to visit
  failed,     \* files whose body this pass could not read
  basis,      \* the stored stats rescan_changed diffed its walk against
  \* ---- query threads
  qpc, policy, qtarget, fresh,
  since,      \* history: every content a file had since the query entered
  \* ---- another scan of the same index.db (index::ensure_fresh)
  spc, sseen, sbody, stodo,
  scovers     \* history: queries in flight since before its walk

treeVars  == <<tree, edits, events>>
catalog   == <<scanned, row, stat, fp, unread, mixed>>
dbVars    == <<catalog, predates>>
serveVars == <<pending, applied, settled, watchesReady, lastError, covered>>
wakeVars  == <<wake, refreshQueued>>
passVars  == <<opened, forced, target, covers>>
walkVars  == <<seen, body, todo, failed, basis>>
queryVars == <<qpc, policy, qtarget, fresh, since>>
scanVars  == <<spc, sseen, sbody, stodo>>
sideVars  == <<scanVars, scovers>>
vars == <<treeVars, failures, dbVars, serveVars, wakeVars, wpc, passVars,
          walkVars, queryVars, sideVars>>

WorkerStates == {"startup", "recv", "drained", "stat", "restat", "read",
                 "fullstat", "fullread", "mark"}
QueryStates  == {"idle", "request", "send", "wait", "answer"}
SideStates   == {"off", "check", "stat", "read"}

\* Every variable ranges over the values the code can store in it.
TypeOK ==
  /\ tree \in [Files -> Version] /\ edits \in Version /\ events \in Nat
  /\ failures \in Nat
  /\ scanned \in BOOLEAN
  /\ row \in [Files -> Version] /\ stat \in [Files -> Version]
  /\ fp \in [Files -> Version] /\ unread \subseteq Files
  /\ mixed \subseteq Files /\ predates \subseteq Queries
  /\ pending \in Nat /\ applied \in Nat
  /\ settled \in BOOLEAN /\ watchesReady \in BOOLEAN /\ lastError \in BOOLEAN
  /\ covered \subseteq Queries
  /\ wake \subseteq {"Event", "Barrier"} /\ refreshQueued \in BOOLEAN
  /\ wpc \in WorkerStates /\ opened \in BOOLEAN /\ forced \in BOOLEAN /\ target \in Nat
  /\ covers \subseteq Queries
  /\ seen \in [Files -> Version] /\ body \in [Files -> Version]
  /\ todo \subseteq Files /\ failed \subseteq Files /\ basis \in [Files -> Version]
  /\ qpc \in [Queries -> QueryStates] /\ policy \in [Queries -> Policies \cup {NoPolicy}]
  /\ qtarget \in [Queries -> Nat] /\ fresh \in [Queries -> BOOLEAN]
  /\ since \in [Queries -> [Files -> SUBSET Version]]
  /\ spc \in SideStates /\ sseen \in [Files -> Version]
  /\ sbody \in [Files -> Version] /\ stodo \subseteq Files /\ scovers \subseteq Queries

NoFiles == [f \in Files |-> Absent]
\* The tree and the catalog a daemon may find when it starts: a first start,
\* or a catalog some earlier daemon left behind.
FirstTree == [f \in Files |-> 1]

Init ==
  /\ tree = FirstTree /\ edits = 1 /\ events = 0 /\ failures = 0
  /\ \/ scanned = FALSE /\ row = NoFiles /\ stat = NoFiles /\ fp = NoFiles
     \/ scanned = TRUE /\ row = FirstTree /\ stat = FirstTree /\ fp = FirstTree
  /\ unread = {} /\ mixed = {} /\ predates = {}
  /\ pending = 0 /\ applied = 0
  /\ settled = FALSE /\ watchesReady = FALSE /\ lastError = FALSE
  /\ covered = {}
  /\ wake = {} /\ refreshQueued = FALSE
  /\ wpc = "startup" /\ opened = FALSE /\ forced = TRUE /\ target = 0 /\ covers = {}
  /\ seen = NoFiles /\ body = NoFiles /\ todo = {} /\ failed = {} /\ basis = NoFiles
  /\ qpc = [q \in Queries |-> "idle"]
  /\ policy = [q \in Queries |-> NoPolicy]
  /\ qtarget = [q \in Queries |-> 0]
  /\ fresh = [q \in Queries |-> FALSE]
  /\ since = [q \in Queries |-> [f \in Files |-> {}]]
  /\ spc = "off" /\ sseen = NoFiles /\ sbody = NoFiles /\ stodo = {}
  /\ scovers = {}

MaxOf(a, b) == IF a > b THEN a ELSE b

-----------------------------------------------------------------------------
(* The source tree and its watcher.                                        *)

\* Content v appears in file f: every query in flight may report it.  A
\* directory without a watch, or an overflowing queue, raises no event.
Put(f, v) ==
  /\ tree' = [tree EXCEPT ![f] = v]
  /\ since' = [q \in Queries |->
                 [since[q] EXCEPT ![f] = IF qpc[q] = "idle" THEN @ ELSE @ \cup {v}]]
  /\ events' \in {events, events + 1}
  /\ UNCHANGED <<failures, dbVars, serveVars, wakeVars, wpc, passVars, walkVars,
                 qpc, policy, qtarget, fresh, sideVars>>

Edit(f) ==
  /\ edits < MaxEdits
  /\ edits' = edits + 1
  /\ Put(f, edits + 1)

Delete(f) ==
  /\ tree[f] # Absent
  /\ edits < MaxEdits
  /\ edits' = edits + 1
  /\ Put(f, Absent)

\* on_event: the dirty marker first, then the wake-up.
DeliverEvent ==
  /\ events > 0
  /\ events' = events - 1
  /\ pending' = pending + 1
  /\ wake' = wake \cup {"Event"}
  /\ UNCHANGED <<tree, edits, failures, dbVars, applied, settled, watchesReady,
                 lastError, covered, refreshQueued, wpc, passVars, walkVars,
                 queryVars, sideVars>>

\* The registration thread started by serve::start.
RegisterWatches ==
  /\ ~watchesReady
  /\ watchesReady' = TRUE
  /\ wake' = wake \cup {"Event"}
  /\ UNCHANGED <<treeVars, failures, dbVars, pending, applied, settled,
                 lastError, covered, refreshQueued, wpc, passVars, walkVars,
                 queryVars, sideVars>>

-----------------------------------------------------------------------------
(* The rebuild worker (serve.rs: worker, apply).  The startup pass and the *)
(* backstop force a stat walk; a message forces one when it is a Barrier.  *)

worksOnly == <<treeVars, queryVars, sideVars>>

\* The pass returns to the loop and its locals are gone.
PassEnds ==
  /\ wpc' = "recv"
  /\ forced' = FALSE /\ target' = 0 /\ covers' = {}
  /\ seen' = NoFiles /\ body' = NoFiles /\ todo' = {} /\ failed' = {}
  /\ basis' = NoFiles

\* recv_timeout returned a message; the channel is drained before the pass.
Drain ==
  /\ wpc = "recv" /\ wake # {}
  /\ forced' = ("Barrier" \in wake)
  /\ wake' = {}
  /\ wpc' = "drained"
  /\ UNCHANGED <<worksOnly, failures, dbVars, serveVars, refreshQueued, opened,
                 target, covers, walkVars>>

\* The 60 s fingerprint sweep.
Backstop ==
  /\ Backstops
  /\ wpc = "recv"
  /\ forced' = TRUE
  /\ wpc' = "startup"
  /\ UNCHANGED <<worksOnly, failures, dbVars, serveVars, wakeVars, opened,
                 target, covers, walkVars>>

KeepQueued == UNCHANGED refreshQueued

\* A drain that found a Barrier clears the flag before the pass starts.
ClearQueued == refreshQueued' = (refreshQueued /\ ~(wpc = "drained" /\ forced))

\* apply, up to the decision to walk: pass_start is now, so the pass covers
\* exactly the queries that have entered.
BeginPass ==
  /\ wpc \in {"startup", "drained"}
  /\ ClearQueued
  /\ opened' = TRUE
  /\ \/ /\ forced \/ pending > applied
        /\ wpc' = IF forced THEN "stat" ELSE "restat"
        /\ todo' = Files
        /\ target' = pending
        /\ covers' = {q \in Queries : qpc[q] # "idle"}
        /\ UNCHANGED <<serveVars, forced, seen, body, failed, basis>>
     \/ /\ ~forced /\ pending <= applied
        /\ PassEnds
        /\ settled' = TRUE
        /\ lastError' = (lastError /\ settled /\ watchesReady)
        /\ UNCHANGED <<pending, applied, watchesReady, covered>>
  /\ UNCHANGED <<worksOnly, failures, dbVars, wake>>

\* index::open or ensure_schema failed: mark_error, and no connection is kept.
OpenFails ==
  /\ wpc \in {"startup", "drained"} /\ ~opened
  /\ failures < MaxFailures
  /\ failures' = failures + 1
  /\ ClearQueued
  /\ lastError' = TRUE
  /\ PassEnds
  /\ UNCHANGED <<worksOnly, dbVars, pending, applied, settled, watchesReady,
                 covered, wake, opened>>

\* One file of a stat walk (collect_files).
StatFile(f) ==
  /\ wpc \in {"stat", "restat", "fullstat"}
  /\ f \in todo
  /\ seen' = [seen EXCEPT ![f] = tree[f]]
  /\ todo' = todo \ {f}
  /\ UNCHANGED <<worksOnly, failures, dbVars, serveVars, wakeVars, wpc, passVars,
                 body, failed, basis>>

DecideByEvents ==
  /\ wpc = "stat" /\ todo = {}
  /\ IF scanned /\ target <= applied
       THEN wpc' = "mark" /\ todo' = {}
       ELSE wpc' = "restat" /\ todo' = Files
  /\ UNCHANGED <<worksOnly, failures, dbVars, serveVars, wakeVars, passVars,
                 seen, body, failed, basis>>

\* The backstop's staleness decision; a dirty marker forces the rescan too.
DecideStale ==
  /\ wpc = "stat" /\ todo = {}
  /\ IF scanned /\ fp = seen /\ target <= applied
       THEN wpc' = "mark" /\ todo' = {}
       ELSE wpc' = "restat" /\ todo' = Files
  /\ UNCHANGED <<worksOnly, failures, dbVars, serveVars, wakeVars, passVars,
                 seen, body, failed, basis>>

\* A read of the stored fingerprint that fails counts as stale.
StalenessFails ==
  /\ wpc = "stat" /\ todo = {}
  /\ failures < MaxFailures
  /\ failures' = failures + 1
  /\ wpc' = "restat" /\ todo' = Files
  /\ UNCHANGED <<worksOnly, dbVars, serveVars, wakeVars, passVars, seen, body, failed,
                 basis>>

ForgetVanished(stored) == {}

\* The walk's stats against the stored ones.
Changed(stored)  == {f \in Files : seen[f] # Absent /\ stored[f] # seen[f]}
Vanished(stored) == {f \in Files : seen[f] = Absent /\ stored[f] # Absent}

\* rescan_changed: no basis or a large diff goes to the full scan, a diff
\* that is empty by fingerprint commits nothing, any other is read.
DecideRescan ==
  /\ wpc = "restat" /\ todo = {}
  /\ failed' = {}
  /\ LET diff == Changed(stat) \cup Vanished(stat) IN
       \/ /\ scanned /\ fp = seen
          /\ wpc' = "mark" /\ todo' = {} /\ UNCHANGED basis
       \/ /\ scanned /\ fp # seen /\ Cardinality(diff) <= IncrementalMax
          /\ wpc' = "read" /\ todo' = Changed(stat) /\ basis' = stat
       \/ /\ ~scanned \/ (fp # seen /\ Cardinality(diff) > IncrementalMax)
          /\ wpc' = "fullstat" /\ todo' = Files /\ UNCHANGED basis
  /\ UNCHANGED <<worksOnly, failures, dbVars, serveVars, wakeVars, passVars,
                 seen, body>>

\* index::scan reads every file it has a stat for.
BeginFullRead ==
  /\ wpc = "fullstat" /\ todo = {}
  /\ wpc' = "fullread"
  /\ todo' = {f \in Files : seen[f] # Absent}
  /\ failed' = {}
  /\ UNCHANGED <<worksOnly, failures, dbVars, serveVars, wakeVars, passVars,
                 seen, body, basis>>

\* read_to_string, before the write transaction.
ReadFile(f) ==
  /\ wpc \in {"read", "fullread"}
  /\ f \in todo /\ tree[f] # Absent
  /\ body' = [body EXCEPT ![f] = tree[f]]
  /\ todo' = todo \ {f}
  /\ UNCHANGED <<worksOnly, failures, dbVars, serveVars, wakeVars, wpc, passVars,
                 seen, failed, basis>>

\* The read failed: the file has vanished, or an editor holds it.
ReadFails(f) ==
  /\ wpc \in {"read", "fullread"}
  /\ f \in todo
  /\ \/ tree[f] = Absent /\ UNCHANGED failures
     \/ tree[f] # Absent /\ failures < MaxFailures /\ failures' = failures + 1
  /\ failed' = failed \cup {f}
  /\ todo' = todo \ {f}
  /\ UNCHANGED <<worksOnly, dbVars, serveVars, wakeVars, wpc, passVars, seen, body,
                 basis>>

\* rescan_changed's transaction: an unreadable file keeps the rows it has, and
\* so does every file the diff did not name, whoever stored them meanwhile.
CommitRescan ==
  /\ wpc = "read" /\ todo = {}
  /\ LET reread == Changed(basis) \ failed  gone == Vanished(basis) IN
       /\ row' = [f \in Files |-> IF f \in reread THEN body[f]
                                  ELSE IF f \in gone THEN Absent ELSE row[f]]
       /\ stat' = [f \in Files |-> IF f \in reread THEN seen[f]
                                   ELSE IF f \in gone THEN Absent ELSE stat[f]]
       /\ mixed' = {f \in Files : stat[f] # basis[f]} \ (reread \cup gone)
  /\ fp' = seen
  /\ unread' = failed
  /\ predates' = predates \ covers
  /\ wpc' = "mark"
  /\ UNCHANGED <<worksOnly, failures, scanned, serveVars, wakeVars, passVars, walkVars>>

\* scan's transaction: delete everything, insert what could be read.
CommitScan ==
  /\ wpc = "fullread" /\ todo = {}
  /\ LET readable == {f \in Files : seen[f] # Absent} \ failed IN
       /\ row' = [f \in Files |-> IF f \in readable THEN body[f] ELSE Absent]
       /\ stat' = [f \in Files |-> IF f \in readable THEN seen[f] ELSE Absent]
  /\ fp' = seen
  /\ scanned' = TRUE
  /\ unread' = failed /\ mixed' = {}
  /\ predates' = predates \ covers
  /\ wpc' = "mark"
  /\ UNCHANGED <<worksOnly, failures, serveVars, wakeVars, passVars, walkVars>>

\* rescan_changed could not read the stored stats, or its transaction failed:
\* fall back to the full scan.
RescanFails ==
  /\ wpc \in {"restat", "read"} /\ todo = {}
  /\ failures < MaxFailures
  /\ failures' = failures + 1
  /\ wpc' = "fullstat" /\ todo' = Files
  /\ UNCHANGED <<worksOnly, dbVars, serveVars, wakeVars, passVars, seen, body, failed,
                 basis>>

\* The full scan's transaction failed: mark_error.
ScanFails ==
  /\ wpc = "fullread" /\ todo = {}
  /\ failures < MaxFailures
  /\ failures' = failures + 1
  /\ lastError' = TRUE
  /\ PassEnds
  /\ UNCHANGED <<worksOnly, dbVars, pending, applied, settled, watchesReady,
                 covered, wakeVars, opened>>

\* mark_pass of a pass that walked the whole tree.
MarkPass ==
  /\ wpc = "mark"
  /\ applied' = MaxOf(applied, target)
  /\ covered' = covered \cup covers
  /\ settled' = TRUE
  /\ lastError' = FALSE
  /\ PassEnds
  /\ UNCHANGED <<worksOnly, failures, dbVars, pending, watchesReady, wakeVars,
                 opened>>

Worker ==
  \/ Drain \/ Backstop \/ BeginPass \/ OpenFails
  \/ DecideStale \/ StalenessFails \/ DecideRescan \/ BeginFullRead
  \/ CommitRescan \/ CommitScan \/ RescanFails \/ ScanFails \/ MarkPass
  \/ \E f \in Files : StatFile(f) \/ ReadFile(f) \/ ReadFails(f)

-----------------------------------------------------------------------------
(* Queries (daemon.rs serve_snapshot over serve.rs barrier and cached).    *)

queriesOnly == <<treeVars, failures, catalog, pending, applied, settled,
                 watchesReady, lastError, wpc, opened, forced, target,
                 walkVars, scanVars>>
coverVars == <<covered, covers, scovers, predates>>

\* Nothing that began so far covers the query, and nothing is held against it.
Uncover(q) ==
  /\ covered' = covered \ {q} /\ covers' = covers \ {q}
  /\ scovers' = scovers \ {q} /\ predates' = predates \ {q}

\* start = now: no pass so far began after it; the pending mark comes next.
Enter(q, p) ==
  /\ qpc[q] = "idle"
  /\ qpc' = [qpc EXCEPT ![q] = "request"]
  /\ policy' = [policy EXCEPT ![q] = p]
  /\ qtarget' = [qtarget EXCEPT ![q] = pending]
  /\ fresh' = [fresh EXCEPT ![q] = FALSE]
  /\ since' = [since EXCEPT ![q] = [f \in Files |-> {tree[f]}]]
  /\ Uncover(q)
  /\ UNCHANGED <<queriesOnly, wakeVars>>

\* What a query does once its request for a pass is out.
AfterRequest(q) == IF policy[q] = "cached" THEN "answer" ELSE "wait"

\* request_pass: the swap ...
RequestPass(q) ==
  /\ qpc[q] = "request"
  /\ refreshQueued' = TRUE
  /\ qpc' = [qpc EXCEPT ![q] = IF refreshQueued THEN AfterRequest(q) ELSE "send"]
  /\ UNCHANGED <<queriesOnly, coverVars, wake, policy, qtarget, fresh, since>>

\* ... and the send, only by whoever found the flag clear.
SendBarrier(q) ==
  /\ qpc[q] = "send"
  /\ wake' = wake \cup {"Barrier"}
  /\ qpc' = [qpc EXCEPT ![q] = AfterRequest(q)]
  /\ UNCHANGED <<queriesOnly, coverVars, refreshQueued, policy, qtarget, fresh, since>>

CoveredByEvents(q) == settled /\ watchesReady /\ ~lastError /\ applied >= qtarget[q]

\* The condition barrier_unordered waits for.
Covered(q) ==
  /\ settled /\ watchesReady /\ ~lastError
  /\ applied >= qtarget[q]
  /\ q \in covered

BarrierPasses(q) ==
  /\ qpc[q] = "wait" /\ Covered(q)
  /\ fresh' = [fresh EXCEPT ![q] = TRUE]
  /\ qpc' = [qpc EXCEPT ![q] = "answer"]
  /\ UNCHANGED <<queriesOnly, coverVars, wakeVars, policy, qtarget, since>>

\* The thread is done with the request, and what it remembered is gone.
QueryEnds(q) ==
  /\ qpc' = [qpc EXCEPT ![q] = "idle"]
  /\ policy' = [policy EXCEPT ![q] = NoPolicy]
  /\ qtarget' = [qtarget EXCEPT ![q] = 0]
  /\ fresh' = [fresh EXCEPT ![q] = FALSE]
  /\ since' = [since EXCEPT ![q] = [f \in Files |-> {}]]
  /\ Uncover(q)
  /\ UNCHANGED <<queriesOnly, wakeVars>>

\* A strict query fails here; the default policy answers with fresh = false.
BarrierTimesOut(q) ==
  /\ Timeouts
  /\ qpc[q] = "wait" /\ ~Covered(q)
  /\ \/ /\ policy[q] = "strict"
        /\ QueryEnds(q)
     \/ /\ policy[q] = "default"
        /\ qpc' = [qpc EXCEPT ![q] = "answer"]
        /\ UNCHANGED <<queriesOnly, coverVars, wakeVars, policy, qtarget, fresh, since>>

\* open_ro, the read transaction and the answer: one committed catalog.
Answer(q) == qpc[q] = "answer" /\ QueryEnds(q)

Query(q) ==
  \/ \E p \in Policies : Enter(q, p)
  \/ RequestPass(q) \/ SendBarrier(q)
  \/ BarrierPasses(q) \/ BarrierTimesOut(q) \/ Answer(q)

-----------------------------------------------------------------------------
(* index::ensure_fresh, as the vector worker and other processes call it:  *)
(* a full scan under scan.lock, which the rebuild worker does not take.    *)

besides == <<treeVars, serveVars, wakeVars, wpc, passVars, walkVars, queryVars>>
sideOnly == <<besides, failures>>

\* stale ...
SideBegin ==
  /\ SideScan
  /\ spc = "off"
  /\ ~scanned \/ fp # tree
  /\ spc' = "check"
  /\ UNCHANGED <<sideOnly, dbVars, sseen, sbody, stodo, scovers>>

\* ... and stale again under the lock, or nothing to do.
SideRecheck ==
  /\ spc = "check"
  /\ IF ~scanned \/ fp # tree
       THEN spc' = "stat" /\ stodo' = Files /\ scovers' = {q \in Queries : qpc[q] # "idle"}
       ELSE spc' = "off" /\ UNCHANGED <<stodo, scovers>>
  /\ UNCHANGED <<sideOnly, dbVars, sseen, sbody>>

SideStat(f) ==
  /\ spc = "stat" /\ f \in stodo
  /\ sseen' = [sseen EXCEPT ![f] = tree[f]]
  /\ stodo' = stodo \ {f}
  /\ UNCHANGED <<sideOnly, dbVars, spc, sbody, scovers>>

SideBeginRead ==
  /\ spc = "stat" /\ stodo = {}
  /\ spc' = "read" /\ stodo' = {f \in Files : sseen[f] # Absent}
  /\ UNCHANGED <<sideOnly, dbVars, sseen, sbody, scovers>>

\* A file that has vanished by now, or that an editor holds, has no body.
SideRead(f) ==
  /\ spc = "read" /\ f \in stodo
  /\ \/ sbody' = [sbody EXCEPT ![f] = tree[f]] /\ UNCHANGED failures
     \/ failures < MaxFailures /\ failures' = failures + 1 /\ UNCHANGED sbody
  /\ stodo' = stodo \ {f}
  /\ UNCHANGED <<besides, dbVars, spc, sseen, scovers>>

\* ensure_fresh returns, and the scan's locals are gone.
SideEnds ==
  spc' = "off" /\ sseen' = NoFiles /\ sbody' = NoFiles /\ stodo' = {} /\ scovers' = {}

SideCommit ==
  /\ spc = "read" /\ stodo = {}
  /\ row' = sbody
  /\ stat' = [f \in Files |-> IF sbody[f] = Absent THEN Absent ELSE sseen[f]]
  /\ fp' = sseen
  /\ scanned' = TRUE
  /\ unread' = {f \in Files : sseen[f] # Absent /\ sbody[f] = Absent}
  /\ mixed' = {}
  /\ predates' = {q \in Queries : qpc[q] # "idle"} \ scovers
  /\ SideEnds
  /\ UNCHANGED sideOnly

\* The transaction failed, and the caller gets the error.
SideFails ==
  /\ spc = "read" /\ stodo = {}
  /\ failures < MaxFailures
  /\ failures' = failures + 1
  /\ SideEnds
  /\ UNCHANGED <<besides, dbVars>>

Side ==
  \/ SideBegin \/ SideRecheck \/ SideBeginRead \/ SideCommit \/ SideFails
  \/ \E f \in Files : SideStat(f) \/ SideRead(f)

-----------------------------------------------------------------------------
Environment == DeliverEvent \/ \E f \in Files : Edit(f) \/ Delete(f)

Next ==
  \/ Environment \/ RegisterWatches \/ Worker \/ Side
  \/ \E q \in Queries : Query(q)

Spec == Init /\ [][Next]_vars

\* The threads run: the worker, the registration thread, every query thread
\* inside a request, and a side scan once begun.  Nobody has to edit, and
\* nobody has to ask.
InRequest(q) == RequestPass(q) \/ SendBarrier(q) \/ BarrierPasses(q) \/ Answer(q)
SideRuns ==
  \/ SideRecheck \/ SideBeginRead \/ SideCommit \/ SideFails
  \/ \E f \in Files : SideStat(f) \/ SideRead(f)

FairSpec ==
  /\ Spec
  /\ WF_vars(Worker) /\ WF_vars(RegisterWatches) /\ WF_vars(SideRuns)
  /\ \A q \in Queries : WF_vars(InRequest(q))

-----------------------------------------------------------------------------
(* Properties.  KeepQueued, DecideByEvents, ForgetVanished and             *)
(* CoveredByEvents above are not part of the system: each is a bug the     *)
(* properties below are known to catch.                                    *)

\* An answer labelled fresh reports, for every file the last scan could read, a
\* content the file had at some moment after the query entered: every edit
\* completed before the query is in it (serve_snapshot under barrier).  Two
\* windows are excepted, both open because scan.lock does not bind the worker:
\* another scan that began before the query has committed since, and another
\* scan's rows mixed into those of an incremental rescan.
FreshIsCurrent ==
  \A q \in Queries \ predates : qpc[q] = "answer" /\ fresh[q] =>
     \A f \in Files \ (unread \cup mixed) : row[f] \in since[q][f]

\* Between passes, a fingerprint that is the tree's hides no stale row, except
\* of a file whose last read failed and of one an incremental rescan left with
\* rows another scan had slipped under it: the backstop, which compares nothing
\* else, leaves no other row behind.
FingerprintTrue ==
  wpc = "recv" /\ scanned /\ fp = tree =>
     \A f \in Files \ (unread \cup mixed) : row[f] = tree[f]

\* Once nobody edits any more, the catalog comes to describe the tree, except
\* for files whose last read failed, whatever notifications were lost: the
\* backstop's fingerprint comparison.  (Another scan that commits between
\* rescan_changed's diff and its transaction breaks it for good.)
Converges == <>[](\A f \in Files \ unread : row[f] = tree[f])

\* A query that waits on the barrier gets its pass: no wake-up is lost between
\* refresh_queued, the channel and the drain, and no other scan's commits keep
\* the worker from finishing it.
BarrierAnswered ==
  \A q \in Queries : qpc[q] = "wait" ~> qpc[q] # "wait"
=============================================================================
