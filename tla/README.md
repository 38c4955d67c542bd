# A TLA+ model of cfetch

cfetch keeps a searchable memory over a tree of Markdown files.  A daemon on
every host derives a catalog (`index.db`, SQLite) from the tree, answers queries
from it, fetches or derives embedding vectors that the hosts of a group share as
files, runs native inference under a host-wide governor, synchronises the git
checkouts the tree consists of, and maintains the memory with the help of a
model.  Hooks of coding agents record what their sessions do and remind them of
what the memory says.  This directory models the parts whose correctness depends
on the order in which threads, processes, hosts, crashes and retries act, checks
them with TLC on small instances and proves the main safety properties with
TLAPS for every instance.

Paths below are relative to the repository; `src/` is its Rust crate.

## Inventory

| Part | State it keeps | Operations | Interacts by | Hard because |
| --- | --- | --- | --- | --- |
| Rebuild worker (`serve.rs`: `worker`, `apply`) | one connection, `ServeState.progress` | drain, backstop, pass, mark | wake channel, condition variable, `index.db` | edits, events and queries arrive during a pass; reads and transactions fail |
| Watcher (`serve.rs`: `start`, `on_event`) | the set of watches | register, notify | `pending` counter, wake channel | notifications get lost |
| Query threads (`daemon.rs`: `serve_snapshot`; `serve.rs`: `barrier`, `cached`) | policy, entry time, target | request a pass, wait, pin a snapshot | `refresh_queued`, wake channel | lost wake-ups, deadlines, passes that began too early |
| Catalog (`index.rs`) | rows, stored stats, fingerprint, generation | `staleness`, `rescan_changed`, `scan`, `ensure_fresh` | transactions on `index.db`, `scan.lock` | the walk, the reads and the commit are three moments |
| Inference governor (`inference_governor.rs`) | `operation.lock`, `state.json`, `intent.json` | `begin`, `supervise`, `complete` | flock, files in one directory | crashes, torn writes, reboots, callers that time out |
| Native adapter and worker (`native_adapter.rs`, `native_worker.rs`) | a child process, a latch | spawn, execute, settle, stop | pipes, signals | a child may outlive the lease it was started for |
| Native serving (`native_serving.rs`, `native_http.rs`) | one cached worker, stop flag, one slot, one channel | handle, serve, shut down | HTTP, standard input, the adapter | two threads; a request dropped half way; calls that never return |
| Client and supervisor (`embed.rs`: `embed_local`; `local_adapter.rs`) | selected and disabled scopes, a latch, an owned process | endpoint, request, fall back, abort | HTTP, pipes, signals | uncertain outcomes; deaths that cannot be confirmed |
| Shared vector store (`vectors.rs`) | `.bin` records, `.idx` lines, `store.lock` | `open`, `begin_write`, `put`, `flush`, `hydrate` | files on shared storage | readers take no lock; writers die between two writes |
| Embedding runs (`embed.rs`, `vector_worker.rs`) | cached vectors in `index.db` | `run`, `sync_configured`, retry | the store, the catalog | two hosts derive the same text |
| Memory maintenance (`maintenance.rs`, `maintenance_worker.rs`, `staging.rs`) | candidates, proposals by state directory, reviews, history, `pause` | submit, review, apply, automatic_apply, revert, finalize, reject, cycle | files and renames under a lock | a change is several file operations; users edit meanwhile |
| Schedules (`maintenance_worker.rs`, `vector_worker.rs`) | local variables of two loops | poll, decide, run, retry | candidates, the catalog's generation | what is read and what is used are moments apart; a restart forgets |
| Repositories (`repositories.rs`) | a directory lock | synchronize, run, worker | git commands | other writers of the checkout; commands fail and are killed |
| Logs and ledger (`jsonl.rs`, `ledger.rs`, `exhaust.rs`, `heartbeat.rs`) | append-only streams of three generations | append, rotate, tail, book | files | hooks of two sessions, killed anywhere |
| Hooks and sessions (`hooks.rs`, `session_state.rs`, `staging.rs`) | one state file per session, staged candidates | session start, prompt, pre and post tool, precompact, stop | files, the harness | read-modify-write beside other hooks and maintenance |
| Code index (`code.rs`, `graph.rs`; `daemon.rs`: `scan_cadence`) | `code_files`, symbols, import edges and ranks in `index.db` | scan: keys, walk, parse, drain, sweep, commit; path, impact, context | the write lock of `index.db`, the file system | many walkers and one writer; two scans; users edit meanwhile |
| Ranking, front ends, configuration, installation | files of their own, or none | - | the control channel | sequential |

What makes each part correct:

* **Freshness.** An answer labelled *fresh* contains every edit that was
  completed before the query; a fingerprint that says "up to date" hides no
  stale row, but for named windows; the catalog converges to the tree even if
  every notification is lost; a query that waits is answered.
* **Governor.** Never two native calls at once on a host; a call that was begun
  and never settled keeps the device closed; budget and duty cycle hold over any
  sequence of crashes; and the record the governor writes is one it accepts.
* **Serving.** One native process at a time; a caller gets its own vectors, in
  order; it falls back only from a scope whose process is dead; after an
  uncertain outcome nothing starts by itself; and a vendor call that never
  returns costs an error, not the daemon.
* **Vector store.** No text is ever ranked by another text's vector; a text is
  derived once in the group; what was flushed stays; every host ends up covered.
* **Maintenance.** A change to the memory, the state of its proposal and its
  history agree, whatever fails or dies; no edit of a user is overwritten
  unseen; a candidate is settled only with a decision.
* **Schedules.** No evidence is stranded, the vectors follow the catalog, and the
  clock alone never starts anything twice.
* **Code index.** What a scan skips as unchanged is true; the index comes to
  follow the code; and what is answered of the import graph is true of it.
* **Repositories.** No conflict markers in a live tree; "synchronized" is true;
  a checkout that cannot be synchronised does not hold up its peers.
* **Streams and sessions.** What was appended stays; a turn is not billed twice;
  a warning is true; a reminder is given once; a settled candidate stays settled.

## Modules

| Module | Models | Composition | Proofs |
| --- | --- | --- | --- |
| `Freshness` | `serve.rs`, the scans of `index.rs`, `serve_snapshot` | | `FreshnessProofs` |
| `InferenceGovernor` | `inference_governor.rs`, `native_adapter.rs`, the child of `native_worker.rs` | | `InferenceGovernorProofs` |
| `VectorStore` | `vectors.rs`, `embed::run` | | `VectorStoreProofs` |
| `Maintenance` | `maintenance.rs`, `staging.rs` | implements `MemoryChange` | `MaintenanceProofs` |
| `MemoryChange` | what maintenance promises about the memory | abstract | |
| `NativeServing` | `native_http.rs`, `native_serving.rs`, the adapter's outcomes | extended by `LocalBackend` | |
| `LocalBackend` | `embed_local`, `local_adapter.rs` | client and supervisor of `NativeServing` | `LocalBackendProofs` |
| `Streams` | `jsonl.rs` | operators used by `Sessions` | |
| `Sessions` | `hooks.rs`, `session_state.rs`, `exhaust.rs`, `ledger.rs`, `staging.rs` | over `Streams` | `SessionsProofs` |
| `Upkeep` | `maintenance_worker.rs`, `vector_worker.rs`, `run_once_with`, `sync_configured` | the chain from a candidate to its vectors; extended by `Background` | `BackgroundProofs` |
| `CodeGraph` | the path, impact and context queries of `graph.rs` | operators used by `CodeIndex` | |
| `CodeIndex` | the scans of `code.rs` with the edges and ranks of `graph.rs` | over `CodeGraph`; extended by `Background` | `BackgroundProofs` |
| `Background` | what the daemon runs beside its queries: `Upkeep` and `CodeIndex` in one process over one `index.db` | `Upkeep` and `CodeIndex` | `BackgroundProofs` |
| `Repositories` | `repositories.rs`; git, its users and the network as environment | | `RepositoriesProofs` |

The `MC...` modules extend them with model values and symmetry sets.  A few
definitions of each module are not part of the system and say so ("a plausible
bug"): each is a dropped guard, a missing reset or a swapped order that one of
the properties is known to catch.

### Freshness

A file's content and its `(mtime, size)` pair are one version number.  `tree` is
the source tree, changed by `Edit` and `Delete` at any time; each raises a
watcher event or not.  The catalog is `row` (what each file is indexed with),
`stat` (the stats stored beside the rows), `fp` (the stored fingerprint, as the
map of stats it hashes) and `unread` (`ScanReport.unreadable`).

The worker's program counter `wpc` follows `apply`: `stat` is the walk of
`staleness`, `restat` the walk of `rescan_changed`, `read` its reads, `fullstat`
and `fullread` those of `scan`, `mark` the call of `mark_pass`.  Walks and reads
take one file per step.  A query follows `serve_snapshot`: `request`, `send`
(the winner of the swap on `refresh_queued`), `wait`, `answer`.

Instants are not numbers here.  `barrier_unordered` compares the start of the
last finished pass with its own entry; a pass covers exactly the queries that
were in flight when it began, so `covers` collects those, `mark_pass` moves them
to `covered`, and a query that enters or leaves is removed from both.

`Side` is another scan of the same `index.db`: `ensure_fresh`, called by the
vector worker of the same daemon through `embed::sync_configured`, and by other
commands.  It holds `scan.lock`, which the rebuild worker does not take.  Its two
staleness checks are one step each; the safety properties do not depend on what
they find.

`staleness` cannot return an error as it is written (every read of the database
in it is taken for an absent value, index.rs:941-949), so the branch
`Err(_) => true` of `apply` (serve.rs:1064) is never taken; a failed read has the
same effect, and that is `StalenessFails`.

`FreshIsCurrent` and `FingerprintTrue` name what they except:

* `unread`, files whose last read failed: `rescan_changed` keeps their old rows and
  stores the new fingerprint all the same, so that the doc of `catalog_checksum`
  (index.rs:1493-1496) is not met until the tree changes again.  The comment at
  the failing read says why the rows are kept;
* `mixed`, files an incremental rescan left alone although another scan had
  replaced their rows since the comparison: the window of the finding below, and
  nothing more, as a file is mixed only if its stored stat differs from the one
  it was compared with;
* `predates`, queries that entered after another scan began and before it
  committed, for as long as no pass of theirs commits: what it stores may be
  older than they are.  An answer in that window is labelled fresh all the same.

Without any one of the three TLC finds `FreshIsCurrent` violated, and without
`mixed` also `FingerprintTrue`.

### InferenceGovernor

An adapter is one incarnation of a process with its child.  `pc` follows
`begin`, `supervise`, `settle_response` and `complete`; the writes of the intent
and of the state are steps of their own, a crash in the middle of the latter may
leave it unparsable, and a child may run on after its owner has crashed, timed
out or given up on killing it.  `Valid` is `State::validate` without the
comparison of identities, and `PolicyValidated` is what `Policy::validate`
demands of the cooldown.  Dropping the check of the intent alone would not break
`OneNative`: a charged operation without a completion does not validate either.

### VectorStore

`head`, `lines` and `torn` are the index file, `bin` the records, and
`idxSynced`, `binSynced` how much of them a power loss cannot take.  Each host
runs one process at a time (`pc`), with its view of the index, the texts of its
batch and its own cache.  `writeln!` is two writes, as the code's comment says,
and creating or rewriting the index is several.  `Faults` selects what may go
wrong: `stop` (the process ends anywhere else), `tear` (it ends while the index
is being created or rewritten), `outage`, `flip` and `rebuild` (a daemon that
starts with an `index.db` of another schema deletes it).

### Maintenance and MemoryChange

A proposal's id hashes its content, so a proposal *is* its id, and `file` counts
its copies by state directory.  One operation at a time holds `maintenance.lock`
(`op`); its steps are the file operations in the order of the code: write the
target, move the proposal, write history, settle the candidates, and the
roll-backs of each (`undo`, `back`, `redo`), any of which may fail or be the last
thing the process does.  `worker` is the daemon's cycle through its candidates;
`by` says whether an operation is the cycle's or a command's.  `maintain run` is
a sequence of the modelled commands.

Checks against the clock, the log, the catalog or git may fail at any time.
Submissions of one id have distinct times.  Exceptions in history and the
reports are left out.

`MemoryChange` is what the whole amounts to: users write whenever they like, a
proposal is claimed when the bytes are as it says, and then bytes and fate change
in *one* step.  `Implements` maps the files to fates (`Fate`): between the write
and the move of an operation the bytes already say what the directories do not
say yet, and an operation that is cut short there leaves its proposal in
`adrift`, the `severed` of the abstract module.  That is the exact extent of the
disagreement a crash leaves.

### NativeServing and LocalBackend

`NativeServing` is the adapter process: the main thread (`http`), which serves
one connection at a time, and the owner thread (`pc`), which runs the workers,
share the stop flag, a channel of one job, the slot and the reply.  A native call
ends well, controlled, hard, or never; what the governor says is in
`InferenceGovernor`.  `LocalBackend` adds the caller that holds the client's lock
(`at`), the scopes it has yet to try, and the supervisor with its latch
(`failed`) and its process (`running`: none, owned, or one whose death is not
confirmed).  A connection may break, the adapter may crash, and so may cfetch,
whose death the adapter sees as the end of its input.

Left out: connections beyond the one the client opens, accept errors, malformed
requests, panics of the owner.

### Streams and Sessions

`Streams` has the operators of `jsonl.rs` on a stream of three generations of
lines: a line is one write, a process killed in it leaves a line cut short, one
killed while it rotates leaves the rotation half done.  `Sessions` has the hooks
as processes that the harness starts at an event and waits for, side by side for
different sessions; an append holds the stream's lock and an update the
session's, so each is one step, and everything between two of them interleaves.
`Kill` ends a hook between two steps or inside of an append.

Simplifications: the `exists` checks of `record_stop` and of `staging::write`
are one step; a Stop reads the transcript's counter when it begins; locks are
obtained within their two seconds; sessions are younger than seven days; the
state directory can be read and written.  Subagents, condensed output, budget and
status reminders and the heartbeat are left out.

The file has a `version`, which is its text, and an `mtime`.  `file_mtime` is in
whole seconds (session_state.rs:282-290), so a save gets a new mtime or one the
file had before (`Saved`).  `HonestWarning` excepts two cases, each kept by the
step where it happens: a file edited between a Read tool and its hook
(`misread`), and one saved to the very mtime its session has recorded
(`resaved`).  Without either, TLC finds a false warning.

### Upkeep

What makes the daemon's two background workers run.  `mpc` follows the loop of
`maintenance_worker::run`: the revision, the count and the marker of a pause are
three reads (`look`, `count`, `decide`), a cycle lists and examines one candidate
after the other, and what remains and the revision are two more (`recount`,
`observe`).  `vpc` follows `vector_worker::run` with the steps of
`sync_configured`: refresh, list, derive, list again.  A deadline is there or
not, and has passed or not; how long it is does not matter.  Candidates are
their time stamps, the newest goes first.

The two are chained: what is staged, settled, recorded or paused is a document
of the tree, so it makes the catalog `stale`, a commit (`Rebuild`, or `Refresh`
inside of a run) advances `generation`, and that is what the vector worker
polls.  A commit is one step that sees everything before it, `covered` is the
last catalog all of whose texts have vectors, `missed` and `done` are history.

The staging directory and `index.db` are readable, generations only grow, and no
text is over the limit of the profile: `embed::run` fails as long as there is
one, and the vector worker tries again every five minutes.

### CodeGraph, CodeIndex and Background

`CodeIndex` has the steps of `scan_code_in`: a scan reads the keys of all
complete rows (`known`), then walkers stat each file (`Visit`), skip or read,
parse and resolve it (`Parse`), and the one writer drains their messages into a
transaction (`Drain`; `tx`), which at the end drops the rows of files the walk
has not seen, prunes edges and recomputes ranks (`Commit`).  `found` is what a
walk has done with each file, `writer` the scanner that holds the write lock.
The daemon scans once a minute and one scan at a time, a command at most `runs`
times beside it; whoever does not get the lock gives up (`Busy`).  A scan may
fail anywhere, and so may one read; the program may be replaced by one whose
grammars choke on less (`Upgrade`).

A stat stands for the mtime, in whole seconds (code.rs:527), and the size.  A save
gets a new one or one that a row of the file, or a scan under way, has of it
(`Familiar`): a save of the same size within the second keeps the stat.  A file
saved under the stat of a complete row of an older text is `veiled`: every scan
skips it (code.rs:530) until it is written again.  `AnswersTrue` excepts what the
rows of veiled files say, and `CodeFollows` their texts, but neither the
existence of their rows nor those of other files.  Without either exception TLC
finds the old row.  Of a text the model keeps what it imports and whether the old grammars
choke on it; symbols and uses go with the row.  PageRank is a function of the
graph.  `apart` is history: the imports whose target was away, or in the eyes of
one walk absent, since the importer was written; the code says that these heal
when the importer changes.

`CodeGraph` has the three searches as the code does them, a queue, depths and
hops, neighbours in the order of their paths, and below them what they promise,
without a search.  The queue keeps what was taken off it: turn `i` takes its
`i`-th node, which is the head of the code's queue, as no file is queued twice.
`Sorted` is a CHOOSE over sequences, so that a reader of the proofs sees what a
sort is.

`Background` puts both beside each other: a restart of the daemon ends its scan
with its workers, an upgrade is a restart, and a commit to the catalog needs the
write lock that a scan holds for as long as it drains.  A refresh that waits for
it in vain fails, and the run is retried.

### Repositories

A process, the daemon's worker or a command, goes through the checkouts it
discovers (`Roots`): lock, inspect, fetch, recheck, preview, merge, push, report.
Each step stands for the git commands it makes; one of them may fail or be killed
when its time is up, and then the checkout's status is an error, the lock is
dropped and the next one gets its turn.  A process that dies leaves its lock for
a user to remove and its git command running.  That git ends before the next
step of anybody else: a push that arrives much later is not modelled.

What git does is external: a branch is the set of commits it reaches, two sides
conflict when both have touched one file, the upstream takes fast-forwards.
Users write, commit, merge by hand, abandon merges and switch branches.
`cooperative` users leave a locked checkout alone, as
`docs/repositories.md:32-33` asks; the others do not, and only `PeersConverge` is
claimed for them.  The inspections are one step each, although they are several
git commands: with cooperative users nothing changes between those.

## Runs

| Run | Shows | Bounds | States |
| --- | --- | --- | --- |
| `FreshnessSafety` | a fresh answer is current and the fingerprint hides nothing, beside another scan, with failures and lost events | 2 files, 1 query that waits, 1 edit or deletion, 1 failure, diffs of 1 file, no backstop | 4,689,679 |
| `FreshnessConverges` | the catalog converges when editing stops | 2 files, 2 edits, 1 failure | 341,590 |
| `FreshnessWake` | no wake-up is lost between two queries of any policy and the worker, beside another scan | 1 file, 1 edit or deletion at most, 2 queries that may give up and come back, no backstop | 400,952 |
| `FreshnessDiverges` | **violated**: a foreign commit inside a rescan | 1 file, 1 deletion, no failure | |
| `InferenceGovernor` | the seven properties of the governor | 2 adapters, 6 ticks, 1 reboot, budget of 2 compiles | 1,708,772 |
| `VectorStore` | right vectors, derived once, kept, and covered everywhere | 3 hosts, 2 of them deriving, 2 texts, 2 faults | 380,604 |
| `VectorStoreDisrupted` | the index stays aligned under every fault | 2 hosts, 3 texts, batches of 2, 2 faults | 391,559 |
| `Maintenance` | memory, proposals, history and candidates agree, and `MemoryChange` is implemented | 1 candidate, 1 target, 2 contents of which one pauses, 3 proposals, 2 copies of each, 2 submissions, 1 edit, 2 faults, crashes | 399,194 |
| `LocalBackend` | one child, confirmed fallback, right vectors, finality of doubt, and both liveness properties | 2 scopes, 2 lengths and an overlong one, 3 batches, 2 workers | 260,874 |
| `Sessions` | streams, bills, warnings, reminders and candidates | 2 sessions, seven workloads, a Stop that sees 3 lines, 1 staged candidate | 1,123,835 |
| `Background` | no evidence stranded, vectors follow, nothing run twice; the code index is true, follows the code and answers rightly | three workloads of `Upkeep`: 2 candidates in batches of 1 with 2 faults, 2 edits with 2 faults, 1 candidate with 1 fault and embedding; one with code scans beside embedding; four of `CodeIndex`: 2 scanners, 2 files, 1 failure and 1 edit, or 2 edits; gaps and an upgrade; every graph on 4 files with at most 5 edges | 405,667 |
| `Repositories` | no markers, true answers, convergence | 2 checkouts of one upstream, a daemon and a command, 1 file, 2 writes, 1 switch, 1 fault, both kinds of users | 265,101 |

Why the bounds are enough:

* *Freshness.*  With `IncrementalMax = 1`, two files give all three outcomes of
  the diff (none, incremental, full scan), and one query meets passes that began
  before and after it.  A lost wake-up takes two parties, or one that comes
  back, and a drain.  Version numbers begin at 1, so `MaxEdits = 2` is one
  further change; a failed read of the other scan is the second thing that tells
  two commits apart.  The safety run leaves out the backstop, whose passes are
  those of a barrier, and time-outs, whose answers are not labelled fresh; the
  other two runs have them.
* *Governor.*  The clock is long enough for an operation, its deadline, its
  cooldown and the next one; the budget is reached.
* *Vector store.*  Two hosts that derive are what an append race takes, and a
  third only reads.
* *Maintenance.*  One target and a candidate with an addition, a replacement by
  hand and a dismissal give every kind of twin and of sequence: a second copy of
  an id that was applied, rejected or reverted, two owners of one target, an
  edit between any two steps.  Two faults are what a roll-back that fails takes.
* *Serving.*  Batches in which a length comes back after another one, one that
  fits the cached worker, and one that nothing fits; two worker names, so that
  `OneChild` can fail.  Relaunches are not bounded.
* *Sessions.*  Each workload exercises one mechanism to its limit: the cap of a
  stream, the window, the number of staged candidates.  Together in one run they
  would only multiply.
* *Background.*  A batch that leaves a candidate behind, a set that changes in any
  step, a pause and a failure, a commit in any step of a run, and a source that
  goes and comes back; generations are not bounded beyond that.  The workloads
  are apart because the two workers would only multiply; the third has both.
  A row goes wrong by an edit between two steps of a scan, or by a message that
  overtakes the commit of another scan: two scanners and one edit.  A target
  that is created takes a second one, of its importer.  Four files and five edges
  have two shortest paths of two hops with an edge more than these take.
* *Repositories.*  A conflict takes two checkouts and two writes; contention
  takes two processes at one checkout; a fault is a failure, a crash or a lost
  network.

Faults are bounded because each of them may repeat for ever otherwise.  Deadlock
is checked where somebody can always act (the freshness runs); the others stop
when their bounds are used up or nothing is left to do.  `FileSymmetry`,
`AdapterSymmetry` and `TextSymmetry` are used only where no liveness property is
checked.  Type
invariants are proved for every instance and not repeated by the runs; that of
`Sessions` documents its state.

### Fairness

* `Freshness`: the worker, the registration thread, a side scan once begun and
  every query thread inside a request run on: they are threads that nothing
  suspends.  Nobody has to edit or to ask, an event need never be delivered, and
  a time-out need never fire.
* `VectorStore`: every host runs.  The vector worker retries a failed run after
  five minutes for as long as the daemon lives (`vector_worker.rs`), and locks
  are released by the end of their holder.
* `LocalBackend`: the thread that holds the client's lock goes on as long as
  cfetch lives, the main thread of the adapter serves (its time limit included),
  an adapter that was launched becomes ready or fails, and one that was told to
  stop shuts down and exits.  None for the owner thread: a vendor call may never
  return; none for the client's time-out, a broken connection or the lifeline.
* `Background`: both workers are threads that poll for as long as the daemon lives,
  deadlines pass, and somebody commits to a stale catalog, which is what
  `Freshness` shows.  The daemon scans the code once a minute, and who scans goes
  on.  All of it is weak fairness: nothing ensures that a commit to the catalog
  finds the write lock free if scans take it again and again, and where
  embedding and scans run beside each other no file has a gap, because one that
  has is written by every scan.  Nobody has to stage, to edit, to resume or to withdraw; the
  model, the endpoint and the disk fail at most as often as the bound says.
* `Repositories`: the daemon's worker begins again and again, and a step once
  begun ends: `git_output` kills a command that takes too long.  Nobody has to
  write, commit, resolve or remove a lock, and no network has to come back.

## What the violated run says

* **A catalog that is wrong for good** (`FreshnessDiverges`).  `rescan_changed`
  reads the stored stats, reads files, and only then opens its transaction.  A
  scan that commits in between is not seen: the worker stores the fingerprint of
  its walk over rows it did not look at.  From then on the fingerprint says the
  catalog describes the tree and no backstop repairs it.  In the trace a file is
  deleted while a side scan holds its content, and stays in the catalog.
  `FreshIsCurrent` and `FingerprintTrue` except this window by name (`mixed`), and
  the one in which an older scan commits under a query (`predates`); outside of
  them they hold whoever commits.

Seen on the way, without a run:

* *Vector store.*  `begin_write` rewrites the index in place (`set_len(0)`, the
  header, the hashes): a process killed in between leaves an index without
  hashes, and the next writer truncates the records of all of them.  A process
  killed while it creates the file leaves a header that never parses again, or
  one onto which the first hash is glued.  `Kept` fails as soon as `tear` is
  allowed, where the comment of `flush` says that an interrupted run leaves
  committed work behind (vectors.rs:620-621).  A damaged record is skipped by readers with the words
  "re-embedding will replace them" (vectors.rs:692), but the writer finds its
  hash present, cannot validate it, and the run fails, as does every later one
  (`Covered` fails as soon as `flip` is allowed).  After a power loss a reader
  may hold a record that the disk never got, and `DeriveOnce` fails.
* *Freshness.*  A file that vanishes between stat and read keeps its rows until
  the next pass, where `rescan_changed` says it is treated as deleted.
* *Maintenance.*  After a failed settlement of a finalized dismissal the next
  cycle writes a pending twin of it, although the comment at
  maintenance.rs:1322-1329 means to prevent that (it looks for rejected and
  reverted ones only).  The message of a revert (main.rs:1991-1997) says that the
  candidates are still pending, which `automatic_apply` has settled.  `pause` is
  looked at once per cycle (maintenance.rs:2205).  A candidate that is restored
  to a revision observed before is never scheduled again
  (maintenance_worker.rs:34-46), and candidates that keep failing can starve
  older ones beyond `max_candidates`.
* *Upkeep.*  After a cycle the maintenance worker counts what remains and then
  reads the revision (maintenance_worker.rs:72-73).  A candidate staged in
  between is taken for observed while nothing is due: it waits until the set
  changes again, somebody pauses, or the daemon restarts, where the comment at
  maintenance_worker.rs:3-6 says that a change of the set causes the next call.
  `EvidenceSettled` fails without its exception for this (`missed`).
  `pending_count` takes a directory it cannot read for an empty one, with the
  same effect.  Everything maintenance writes, the journal and the pause marker
  included, is in the tree and advances the generation, so that the vector worker
  runs and finds nothing to do.  Of two daemons started at once each may probe
  the socket, find none, and remove the other's (ipc.rs:124-138), and the workers
  start before the channel is bound.
* *Serving.*  The owner replies before it drops the job and its slot
  (native_http.rs:494-501): the next request may get "busy", which `embed_local`
  takes for a hard failure and latches the supervisor.  The comment at
  local_adapter.rs:140 speaks of a clean exit, but `terminate` kills at once.
  After a compile that failed and a stop that was not confirmed the worker is
  forgotten, and a later stop reports success.
* *Sessions.*  The warning of a breach is queued with its text and repeated at
  the next prompt, where the comment (hooks.rs:828-840) says the queue only holds
  its key: `ToldOnce` excepts it.  `session_state` removes lock files of more
  than seven days, held or not (355-385), which `lockfile.rs:1-9` calls
  permanent.  A ledger that cannot be read counts as absent (ledger.rs:324), and
  the turn is booked again.  A rotation can drop a cost line while its savings
  line stays (hooks.rs:550-553).  A mark that is rotated away between the reads
  of the three generations lets an old turn be billed again; what can be read
  afterwards never exceeds what was spent (`NeverOverbooked`).  An edit between a
  Read tool and its hook makes a later warning false, and so does one within the
  second of the recorded read, as mtimes are kept in whole seconds
  (session_state.rs:282-290): the agent is told that a file it has not seen is
  unchanged, where the module says that "a changed file is a legitimate re-read"
  (session_state.rs:7) and the comment at 109-111 speaks of an unchanged mtime.
  `HonestWarning` excepts both (`misread`, `resaved`).  Two Stops that overlap may bring back a candidate
  settled between the check and the rename of one of them
  (staging.rs:100-111): `SettledStays` speaks of Stops that begin later.
* *Code index.*  The key of a file has its mtime in whole seconds (code.rs:527),
  that of the catalog in nanoseconds (index.rs:651): after a second save of the
  same size within a second the old row stays, and every scan skips the file
  until it is written again (`veiled`).  A target that is unreadable, missing or
  swept during one scan loses its inbound edges until every importer is written
  again, where the comment at code.rs:538-540 speaks of targets added later.
  The comment at graph.rs:1646 calls the largest end line the innermost scope; it is
  the outermost.
* *Repositories.*  Users who do not respect the lock can still get markers: a
  commit between the preview and the merge, or a branch switched in between.
  "synchronized" is said although something was committed after the push.

## Proofs

All theorems hold for every value of the constants under the named assumptions
of each module (`FreshnessAssumption`, `GovernorAssumption` with
`PolicyValidated`, `StoreAssumption`, `MaintenanceAssumption`,
`NativeAssumption` with `BackendAssumption`, `SessionsAssumption`,
`UpkeepAssumption` and `CodeAssumption` with `DaysAssumption`,
`RepositoriesAssumption`).

* `FreshnessProofs`: `TypeCorrect`; `FreshAnswersAreCurrent` and
  `FingerprintHidesNothing`, with other scans of the catalog beside the worker.
  The invariant says of the pass in progress what it has walked and read, and that
  a row under the stat it has walked is recent enough for its queries
  (`WalkFinds`); of another scan what it has found (`SideFinds`), and that where
  both have taken the same stat of a file, the body it would store is recent
  enough too (`Meets`: this is why a commit between walk and transaction does no
  more harm than `mixed` says).  Rows whose stat is not their own belong to a
  file that has moved on (`RowsOrMoved`), the fingerprint speaks of the stored
  stats (`Fingerprint`), and queries covered before stay covered by the pass in
  progress (`Coverage`).
* `InferenceGovernorProofs`: `TypeCorrect` and the six safety properties, from
  one invariant.  The holder of the lock is the only adapter between `admit` and
  `clear`; a native call that runs without the lock implies a pending intent;
  the charges on disk count every call entered; and the busy time up to a point
  is bounded by the completed operations and their cooldowns.
* `VectorStoreProofs`: `TypeCorrect`, with no hash listed twice, and
  `LinesKeepToRecords`, under every kind of fault.  The invariant relates the
  index, the records and the view of whoever holds the lock at each step of a
  repair and of a put, and what has been synced of both files.
  `VectorsAreRight`, `DerivedOnce` and `FlushedStays`
  for `Faults \subseteq {"stop", "rebuild"}`: with torn rewrites, power losses and
  flipped bytes they are false.  Their invariant is about the texts the group has
  agreed on (`Agreed`: what the index lists, or what the host that holds the lock
  knows).  They only grow, each has its one sound record (`RecordsInv`), the index
  says the same or, while it is rewritten, less (`IndexInv`), what a reader has
  listed is a prefix of them (`ReaderInv`), and every copy in a cache or a batch is
  the group's record (`CopyInv`).  The three theorems follow from that alone.
* `MaintenanceProofs`: `TypeCorrect`, the five invariants of the run,
  `UsersAreSafe` and the refinement `Refines`.  The invariant adds to them that a
  copy lies in one directory (`CopyOnce`), that what was accepted keeps its
  review (`ReviewKept`), where the operation in progress has its files
  (`Position`), that it is the only one (`Alone`), that decisions are not taken
  back (`DecidedKept`), that history ends with what the directories say
  (`HistoryLast`), who wrote the bytes of a target (`Authorship`) and that they
  are those of the proposal in progress (`BytesKnown`).  `Refines` maps every
  step to a step of `MemoryChange` or a stutter.
* `LocalBackendProofs`: `TypeCorrect`, `OneNative`, `FallbackIsConfirmed`,
  `VectorsAreRight`, `DoubtIsFinal`.  The invariant says that there is one
  request and that flag, slot, channel, reply and both threads agree on where it
  is (`OneRequest`, `Awaited`), that an adapter without a request is idle
  (`Untouched`), which workers are resident (`Resident`), what rows have been
  computed (`Vectors`), what the client has been told of a scope (`Told`), and
  that a doubt leaves the adapter on its way out or the supervisor latched
  (`Doubted`, `Latched`).
* `SessionsProofs`: `TypeCorrect`, `NothingLost`, `BilledOnce`, `WarningsTrue`,
  `RemindersOnce` and `SettledStay`, from one invariant (`IndInv`).  For the
  streams it says that the lines that parse ascend without a gap up to the last,
  whatever a rotation or a crash in it has carried along (`Numbered`); for the
  ledger, that what is billed, and what the counter has above the newest mark, was
  spent (`Covers`), and that a Stop which has not found a mark yet can still find
  it in the files it has not read (`Looks`); for reminders and reads, that what a
  state file says was told and read was, in this conversation (`Reminded`), and
  that an mtime recorded by a session that is neither `misread` nor `resaved`
  stands for the version that was read (`Remembered`); for candidates, what a Stop in progress knows (`Kept`).  The bill
  of a session is a sum over a sequence; that it only changes by what is appended
  or dropped is shown by the least length at which it would not, as the induction
  theorems cannot be used.
* `BackgroundProofs`: `TypeCorrect`, `GenerationOnce`, `SkippedIsTrue` and
  `AnswersHold`.  What is
  scheduled is later than what was completed, and the catalog is at least as late
  (`Later`).  For the code index the invariant says of every row, committed, in
  a transaction or in a message, that if it is complete and has the stat of its
  file, which is not veiled, it has the file's text and leads where that text does, except to what was away (`Sound`);
  that what is away, or overlooked by a walk under way, is known to be apart
  (`AwayIsApart`), which is what a commit that drops rows relies on; that what a
  walk has seen was indexed when it began or is in its transaction
  (`SeenIsKept`).  A write keeps `Sound` because what it finds under its stat makes
  the file veiled (`TruthStays`).
  `AnswersHold` adds what is answered about the graph, for every finite graph,
  depth and limit (theorems `PathLeast` and `ReportTrue`).  The invariant of a search turn by
  turn (`Queued`) has for each place of the queue the place of its hop: a file is
  queued once, its hop is a neighbour one step nearer, places ascend by the place
  of the hop and then by path, and where the search went on all neighbours are
  queued.  So depths are distances as far as the search goes (`Measured`), the
  hops back are a shortest path (`BackIs`), and a path as short that came before
  it would step by step have been queued before it, and yet end in the same place
  (`NoneBefore`).  A report cuts the sorted files, which are a bijection with
  their places.  Steps along a recursive function are counted by the least number
  at which a claim would fail (`Climb`, `Iterates`).
* `RepositoriesProofs`: `TypeCorrect`, `WorkingTreesAreSpared`, `AnswerIsTrue`.
  The lock of a checkout belongs to the one process at work on it (`Locked`);
  what was fetched stays part of the upstream (`Fetched`); so under the lock the
  preview answers for the merge (`Clean`), the merge for the push (`Merges`) and
  the push for the report (`Published`).

Only model-checked: the liveness properties (the prover has neither fairness nor
ENABLED), `CodeFollows` among them.

## Not modelled

Parsing, ranking and rendering are functions of a file's content.  The control
channels, front ends, configuration and installation keep no state another part
relies on, or run once.  The clients of maintenance's model and its inbox are
requests and views.  The ordered barrier of `serve.rs` is kept by the code as a
regression fixture.  Over-limit texts in `embed::run`, remote endpoints and an
`index.db` deleted under a live daemon are left out.
`PROJECT.json` lists every component and every hazard,
those without a property with the reason.

## Plan

1. Done: `Freshness`, `InferenceGovernor`, `VectorStore` with their proofs: a
   wrong fresh label, two native calls at once and a vector of the wrong text are
   the failures nobody would notice.
2. Done: `Maintenance` with `MemoryChange`, `NativeServing` with `LocalBackend`,
   `Sessions` with `Streams`, and `Repositories`.
3. Done: the proofs of what a storage group promises, and `Upkeep`, the schedules
   that drive maintenance and embedding, with its proof.
4. Done: the proofs of `Sessions`; the code index with its graph, and the whole
   of the background work, with the proofs that what a scan skips is true and that
   the searches find what they promise in every graph.
5. Left: an `index.db` that another version recreates, under the vector worker's
   generations and the daemon's connections; over-limit texts.
