-------------------------------- MODULE Upkeep --------------------------------
(***************************************************************************)
(* The schedules of the daemon: what makes its two background workers run. *)
(*                                                                         *)
(* Hooks stage candidates; the maintenance worker (maintenance_worker.rs)  *)
(* polls the revision of the candidate set and runs a cycle over it once   *)
(* it has been quiet for a while.  What the cycle writes, like what users  *)
(* write, makes the catalog stale; a commit to the catalog advances its    *)
(* generation, and the vector worker (vector_worker.rs) polls that and     *)
(* brings the vectors up to it.  Both keep what they have seen in local    *)
(* variables, read the world in several steps, and lose everything when    *)
(* the daemon restarts.                                                    *)
(*                                                                         *)
(* How a cycle changes the memory is in Maintenance, how the catalog       *)
(* converges in Freshness, how vectors are shared in VectorStore: here     *)
(* each of them is one step with its outcomes.                             *)
(***************************************************************************)
EXTENDS Integers, FiniteSets

CONSTANTS Candidates,  \* candidates by the time they are flagged at (their ts)
          Limit,       \* maintenance.max_candidates
          Workloads    \* what hooks, users, peers and failures may do in a run

ASSUME UpkeepAssumption ==
  /\ Candidates \subseteq Nat /\ IsFiniteSet(Candidates)
  /\ Limit \in Nat \ {0}
  /\ Workloads \subseteq [candidates : SUBSET Candidates, edits : Nat, faults : Nat,
                           sources : (SUBSET BOOLEAN) \ {{}}]

VARIABLES
  staged,      \* candidates that are pending
  settled,     \* candidates in dismissed/: they never come back
  paused,      \* PAUSED.md exists
  \* the maintenance worker
  mpc,         \* where it is in its loop
  revision,    \* the candidate set it has read
  counted,     \* whether it has counted any candidate
  observed,    \* observed_revision, or Unseen
  due,         \* due: no deadline, one to come, one that has passed
  batch,       \* the candidates left in this cycle
  missed,      \* history: the worker has observed candidates nobody counted
  \* the catalog
  stale,       \* the tree has changed since the last commit
  generation,  \* meta.generation of index.db
  \* the vector worker
  sources,     \* sources_available
  vpc,         \* where it is in its loop
  completed,   \* completed_generation, 0 for none
  vdue,        \* due: scheduled generation (0 for none) and whether it is time
  wanted,      \* the catalog whose missing texts are being derived
  covered,     \* the latest catalog all of whose texts have vectors
  done,        \* history: the latest generation completed by this daemon
  \* bounds
  load,        \* one of Workloads
  edits, faults

memory  == <<staged, settled, paused>>
worker  == <<mpc, revision, counted, observed, due, batch, missed>>
catalog == <<stale, generation>>
vectors == <<sources, vpc, completed, vdue, wanted, covered, done>>
bounds  == <<load, edits, faults>>
vars    == <<memory, worker, catalog, vectors, bounds>>

Unseen == {-1}
NoRun  == [gen |-> 0, ripe |-> FALSE]

MemoryOK ==
  /\ staged \subseteq Candidates /\ settled \subseteq Candidates
  /\ paused \in BOOLEAN

WorkerOK ==
  /\ mpc \in {"look", "count", "decide", "due", "open", "examine", "recount", "observe"}
  /\ revision \subseteq Candidates /\ counted \in BOOLEAN
  /\ observed \subseteq Candidates \/ observed = Unseen
  /\ due \in {"none", "waiting", "ripe"}
  /\ batch \subseteq Candidates /\ missed \in BOOLEAN

VectorsOK ==
  /\ stale \in BOOLEAN /\ generation \in Nat
  /\ sources \in BOOLEAN
  /\ vpc \in {"poll", "due", "refresh", "list", "derive", "done"}
  /\ completed \in Nat /\ vdue \in [gen : Nat, ripe : BOOLEAN]
  /\ wanted \in Nat /\ covered \in Nat /\ done \in Nat

BoundsOK == load \in Workloads /\ edits \in 0..load.edits /\ faults \in 0..load.faults

TypeOK == MemoryOK /\ WorkerOK /\ VectorsOK /\ BoundsOK

Init ==
  /\ staged = {} /\ settled = {} /\ paused = FALSE
  /\ mpc = "look" /\ revision = {} /\ counted = FALSE
  /\ observed = Unseen /\ due = "none" /\ batch = {}
  /\ missed = FALSE
  /\ stale = TRUE /\ generation = 0
  /\ load \in Workloads /\ sources \in load.sources
  /\ vpc = "poll" /\ completed = 0 /\ vdue = NoRun
  /\ wanted = 0 /\ covered = 0 /\ done = 0
  /\ edits = 0 /\ faults = 0

-----------------------------------------------------------------------------
(* The world around the workers.                                           *)

Fault == faults < load.faults /\ faults' = faults + 1

\* A hook flags a candidate (staging::write): new, neither pending nor settled.
Stage(c) ==
  /\ c \in load.candidates /\ c \notin staged \cup settled
  /\ staged' = staged \cup {c}
  /\ stale' = TRUE
  /\ UNCHANGED <<settled, paused, worker, generation, vectors, bounds>>

\* Somebody else settles one: the curator, or `maintain run` in a shell.
Settle(c) ==
  /\ c \in staged
  /\ staged' = staged \ {c}
  /\ settled' = settled \cup {c}
  /\ stale' = TRUE
  /\ UNCHANGED <<paused, worker, generation, vectors, bounds>>

\* The marker of a pause is a document of the tree as well.
Pause ==
  /\ ~paused /\ Fault
  /\ paused' = TRUE
  /\ stale' = TRUE
  /\ UNCHANGED <<staged, settled, worker, generation, vectors, load, edits>>

Resume ==
  /\ paused
  /\ paused' = FALSE
  /\ stale' = TRUE
  /\ UNCHANGED <<staged, settled, worker, generation, vectors, bounds>>

Edit ==
  /\ edits < load.edits
  /\ edits' = edits + 1
  /\ stale' = TRUE
  /\ UNCHANGED <<memory, worker, generation, vectors, load, faults>>

\* A pass of the rebuild worker, or of any other scan.
Rebuild ==
  /\ stale
  /\ stale' = FALSE
  /\ generation' = generation + 1
  /\ UNCHANGED <<memory, worker, vectors, bounds>>

\* Peers join or leave, a shared store appears or cannot be read.
SourcesChange ==
  /\ Fault
  /\ (~sources) \in load.sources
  /\ sources' = ~sources
  /\ UNCHANGED <<memory, worker, catalog, vpc, completed, vdue, wanted, covered, done, load, edits>>

\* The daemon stops or dies, and is started again: the workers begin anew.
Restart ==
  /\ Fault
  /\ mpc' = "look" /\ revision' = {} /\ counted' = FALSE
  /\ observed' = Unseen /\ due' = "none" /\ batch' = {}
  /\ missed' = FALSE
  /\ vpc' = "poll" /\ completed' = 0 /\ vdue' = NoRun /\ wanted' = 0 /\ done' = 0
  /\ UNCHANGED <<memory, catalog, sources, covered, load, edits>>

-----------------------------------------------------------------------------
(* The maintenance worker.                                                 *)

Elapse ==
  /\ due = "waiting"
  /\ due' = "ripe"
  /\ UNCHANGED <<memory, mpc, revision, counted, observed, batch, missed,
                 catalog, vectors, bounds>>

Look ==
  /\ mpc = "look"
  /\ revision' = staged
  /\ mpc' = "count"
  /\ UNCHANGED <<memory, counted, observed, due, batch, missed, catalog, vectors, bounds>>

Count ==
  /\ mpc = "count"
  /\ counted' = (staged # {})
  /\ mpc' = "decide"
  /\ UNCHANGED <<memory, revision, observed, due, batch, missed, catalog, vectors, bounds>>

\* A plausible bug: a pause forgets the deadline and not the revision.
PausedKeepsRevision ==
  /\ paused
  /\ due' = "none"
  /\ UNCHANGED <<observed, missed>>

\* What was observed before a pause has to be scheduled again after it.
WhilePaused ==
  /\ paused
  /\ observed' = Unseen /\ due' = "none" /\ missed' = FALSE

NothingPending ==
  /\ ~paused /\ ~counted
  /\ due' = "none"
  /\ UNCHANGED <<observed, missed>>

\* Every change of the set starts the quiet period again.
NewRevision ==
  /\ ~paused /\ counted /\ observed # revision
  /\ observed' = revision /\ due' = "waiting" /\ missed' = FALSE

SameRevision ==
  /\ ~paused /\ counted /\ observed = revision
  /\ UNCHANGED <<observed, due, missed>>

Decide ==
  /\ mpc = "decide"
  /\ WhilePaused \/ NothingPending \/ NewRevision \/ SameRevision
  /\ mpc' = "due"
  /\ revision' = {} /\ counted' = FALSE   \* locals of an iteration
  /\ UNCHANGED <<memory, batch, catalog, vectors, bounds>>

NotDue ==
  /\ mpc = "due" /\ due # "ripe"
  /\ mpc' = "look"
  /\ UNCHANGED <<memory, revision, counted, observed, due, batch, missed,
                 catalog, vectors, bounds>>

\* It is time: the client can be made, or the worker retries later.
Begin ==
  /\ mpc = "due" /\ due = "ripe"
  /\ \/ mpc' = "open" /\ UNCHANGED <<due, load, faults>>
     \/ Fault /\ due' = "waiting" /\ mpc' = "look"
  /\ UNCHANGED <<memory, revision, counted, observed, batch, missed,
                 catalog, vectors, load, edits>>

\* The newest candidates, up to the limit of a cycle.
Newest(S) == {c \in S : Cardinality({d \in S : d > c}) < Limit}

\* run_once_with looks at the marker once more, and lists what is there.
Open ==
  /\ mpc = "open"
  /\ batch' = IF paused THEN {} ELSE Newest(staged)
  /\ mpc' = "examine"
  /\ UNCHANGED <<memory, revision, counted, observed, due, missed, catalog, vectors, bounds>>

\* A proposal is applied, or the candidate dismissed, and that settles it.
Accepted(c) ==
  /\ c \in staged
  /\ staged' = staged \ {c} /\ settled' = settled \cup {c}
  /\ stale' = TRUE
  /\ UNCHANGED faults

\* The proposal is final, its candidate could not be settled: that is ignored.
Unsettled(c) ==
  /\ c \in staged /\ Fault
  /\ stale' = TRUE
  /\ UNCHANGED <<staged, settled>>

\* The model, a check or the review fails, or the candidate has gone.
Exception(c) ==
  /\ \/ c \in staged /\ Fault
     \/ c \notin staged /\ UNCHANGED faults
  /\ stale' = TRUE
  /\ UNCHANGED <<staged, settled>>

Examine(c) ==
  /\ mpc = "examine"
  /\ c \in batch /\ \A d \in batch : d <= c
  /\ Accepted(c) \/ Unsettled(c) \/ Exception(c)
  /\ batch' = batch \ {c}
  /\ UNCHANGED <<paused, mpc, revision, counted, observed, due, missed,
                 generation, vectors, load, edits>>

CycleEnds ==
  /\ mpc = "examine" /\ batch = {}
  /\ mpc' = "recount"
  /\ UNCHANGED <<memory, revision, counted, observed, due, batch, missed,
                 catalog, vectors, bounds>>

\* remaining is counted first, and the revision read after it.
Recount ==
  /\ mpc = "recount"
  /\ counted' = (staged # {})
  /\ mpc' = "observe"
  /\ UNCHANGED <<memory, revision, observed, due, batch, missed, catalog, vectors, bounds>>

Observe ==
  /\ mpc = "observe"
  /\ observed' = staged
  /\ due' = IF counted THEN "waiting" ELSE "none"
  /\ missed' = (~counted /\ staged # {})
  /\ counted' = FALSE
  /\ mpc' = "look"
  /\ UNCHANGED <<memory, revision, batch, catalog, vectors, bounds>>

Maintain ==
  \/ Look \/ Count \/ Decide \/ NotDue \/ Begin \/ Open
  \/ \E c \in Candidates : Examine(c)
  \/ CycleEnds \/ Recount \/ Observe

-----------------------------------------------------------------------------
(* The vector worker.                                                      *)

VElapse ==
  /\ vdue.gen # 0 /\ ~vdue.ripe
  /\ vdue' = [vdue EXCEPT !.ripe = TRUE]
  /\ UNCHANGED <<memory, worker, catalog, sources, vpc, completed, wanted, covered, done, bounds>>

\* Without a source a run is not due: nothing is written and nothing derived.
NoSource ==
  /\ vpc = "poll" /\ ~sources
  /\ vdue' = NoRun
  /\ UNCHANGED <<memory, worker, catalog, sources, vpc, completed, wanted, covered, done, bounds>>

\* A generation that is neither completed nor scheduled is scheduled.
IsNews == generation # 0 /\ completed # generation /\ vdue.gen # generation

Poll ==
  /\ vpc = "poll" /\ sources
  /\ vdue' = IF IsNews THEN [gen |-> generation, ripe |-> FALSE] ELSE vdue
  /\ vpc' = "due"
  /\ UNCHANGED <<memory, worker, catalog, sources, completed, wanted, covered, done, bounds>>

RunBegins ==
  /\ vpc = "due"
  /\ vpc' = IF vdue.gen # 0 /\ vdue.ripe THEN "refresh" ELSE "poll"
  /\ UNCHANGED <<memory, worker, catalog, sources, completed, vdue, wanted, covered, done, bounds>>

\* A run that fails anywhere is retried, for the generation it was due for.
RunFails ==
  /\ vpc \in {"refresh", "list", "derive"}
  /\ Fault
  /\ vdue' = [vdue EXCEPT !.ripe = FALSE]
  /\ wanted' = 0
  /\ vpc' = "poll"
  /\ UNCHANGED <<memory, worker, catalog, sources, completed, covered, done, load, edits>>

\* ensure_fresh commits, if it has to, a generation of its own.
Refresh ==
  /\ vpc = "refresh"
  /\ generation' = IF stale THEN generation + 1 ELSE generation
  /\ stale' = FALSE
  /\ vpc' = "list"
  /\ UNCHANGED <<memory, worker, sources, completed, vdue, wanted, covered, done, bounds>>

\* hashes_without_vectors, which the run asks again after every batch.
List ==
  /\ vpc = "list"
  /\ \/ covered # generation /\ wanted' = generation /\ vpc' = "derive"
     \/ covered = generation /\ wanted' = 0 /\ vpc' = "done"
  /\ UNCHANGED <<memory, worker, catalog, sources, completed, vdue, covered, done, bounds>>

Derive ==
  /\ vpc = "derive"
  /\ covered' = wanted
  /\ wanted' = 0
  /\ vpc' = "list"
  /\ UNCHANGED <<memory, worker, catalog, sources, completed, vdue, done, bounds>>

Latest(m, n) == IF m < n THEN n ELSE m

\* A plausible bug: a successful run stays due.
DeadlineStays ==
  /\ vpc = "done"
  /\ completed' = vdue.gen
  /\ done' = Latest(done, vdue.gen)
  /\ vpc' = "poll"
  /\ UNCHANGED <<memory, worker, catalog, sources, vdue, wanted, covered, bounds>>

\* A plausible bug: the generation is read again when the run has ended.
CompletesTheLatest ==
  /\ vpc = "done"
  /\ completed' = generation
  /\ done' = Latest(done, vdue.gen)
  /\ vdue' = NoRun
  /\ vpc' = "poll"
  /\ UNCHANGED <<memory, worker, catalog, sources, wanted, covered, bounds>>

\* What was attempted is completed: the catalog may have moved on since.
RunEnds ==
  /\ vpc = "done"
  /\ completed' = vdue.gen
  /\ done' = Latest(done, vdue.gen)
  /\ vdue' = NoRun
  /\ vpc' = "poll"
  /\ UNCHANGED <<memory, worker, catalog, sources, wanted, covered, bounds>>

Embed == NoSource \/ Poll \/ RunBegins \/ RunFails \/ Refresh \/ List \/ Derive \/ RunEnds

-----------------------------------------------------------------------------
Next ==
  \/ \E c \in Candidates : Stage(c) \/ Settle(c)
  \/ Pause \/ Resume \/ Edit \/ Rebuild \/ SourcesChange \/ Restart
  \/ Elapse \/ Maintain \/ VElapse \/ Embed

\* The two workers are threads that poll for as long as the daemon lives, time
\* passes, and the rebuild worker commits (Freshness).  Nobody has to stage, to
\* edit, to pause or to resume.
Fairness ==
  /\ WF_vars(Maintain) /\ WF_vars(Elapse)
  /\ WF_vars(Embed) /\ WF_vars(VElapse)
  /\ WF_vars(Rebuild)

Spec == Init /\ [][Next]_vars /\ Fairness

-----------------------------------------------------------------------------
(* Properties.                                                             *)

\* Evidence is not left stranded: once hooks, users and failures have come to
\* rest, every candidate gets settled, unless maintenance is paused.  The
\* exception is real: after a cycle the worker counts what remains and then
\* reads the revision, so a candidate staged in between is taken for observed
\* and waits for another one, a pause or a restart.
EvidenceSettled == <>[](staged = {} \/ paused \/ missed)

\* The vectors follow the catalog and the catalog the tree, however commits,
\* failures, losses of the source and restarts fall into the steps of a run.
VectorsFollow == <>[](sources => ~stale /\ covered = generation)

\* The clock only retries failures: within the life of a daemon no run begins
\* for a generation that one has completed.
OncePerGeneration ==
  [][vpc = "due" /\ vpc' = "refresh" => vdue.gen > done]_vars

=============================================================================
