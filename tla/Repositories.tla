----------------------------- MODULE Repositories -----------------------------
(***************************************************************************)
(* Synchronisation of git checkouts (repositories.rs).  A process, the     *)
(* daemon's worker or a command, goes through the checkouts it discovers,  *)
(* one after the other: it takes the directory that serves as the lock,    *)
(* inspects, fetches, looks again, previews, merges, pushes and reports,   *)
(* each by git commands that may fail, or be killed when their time is up. *)
(*                                                                         *)
(* What git does with a merge or a push is external.  A branch is the set  *)
(* of commits that it reaches; two sides conflict when both have touched   *)
(* one file.  Users write, commit, resolve, switch branches and remove     *)
(* abandoned locks; cooperative ones leave a locked checkout alone, as     *)
(* docs/repositories.md asks of other writers.                             *)
(***************************************************************************)
EXTENDS Integers, Sequences, FiniteSets

CONSTANTS
  Checkouts,
  Upstreams, Upstream,  \* the remote branches, and that of each checkout
  Processes, Roots,     \* the checkouts a process goes through, in order
  Daemons,
  Files, NoFile, NoOne,
  MaxEdits,    \* bound: changes by users
  MaxSwitches, \* bound: branch switches
  MaxFaults    \* bound: commands that fail, crashes, lost networks

Branches == {"main", "other"}   \* the second has no upstream
Commits == [by : Checkouts, n : Nat, file : Files \cup {NoFile}]

ASSUME RepositoriesAssumption ==
  /\ Upstream \in [Checkouts -> Upstreams]
  /\ Roots \in [Processes -> Seq(Checkouts)]
  /\ Daemons \subseteq Processes
  /\ NoFile \notin Files /\ NoOne \notin Processes \cup {"abandoned"} /\ "abandoned" \notin Processes
  /\ MaxEdits \in Nat /\ MaxSwitches \in Nat /\ MaxFaults \in Nat

VARIABLES
  remote,     \* by upstream: its commits
  heads,      \* by checkout and branch
  branch,     \* that is checked out
  edit,       \* a file with uncommitted changes, or NoFile
  mid,        \* whether a merge is unfinished: no, with markers, or torn (killed)
  lock,       \* who has created the directory
  offline,    \* checkouts that do not reach their upstream
  at, i,      \* of a process: its step, and which of its roots
  seen, fetched, \* what it has found: branch and head, and the upstream
  cooperative,   \* whether users respect the lock
  edits, switches, faults

checkout == <<heads, branch, edit, mid>>
process == <<at, i, seen, fetched>>
world == <<offline, cooperative>>
bounds == <<edits, switches, faults>>
vars == <<remote, checkout, lock, process, world, bounds>>

Steps == {"idle", "lock", "inspect", "fetch", "recheck", "preview", "merge", "push", "report"}
NotSeen == [branch |-> "main", head |-> {}]

TypeOK ==
  /\ remote \in [Upstreams -> SUBSET Commits]
  /\ heads \in [Checkouts -> [Branches -> SUBSET Commits]]
  /\ branch \in [Checkouts -> Branches]
  /\ edit \in [Checkouts -> Files \cup {NoFile}]
  /\ mid \in [Checkouts -> {"no", "markers", "torn"}]
  /\ lock \in [Checkouts -> Processes \cup {NoOne, "abandoned"}]
  /\ offline \subseteq Checkouts /\ cooperative \in BOOLEAN
  /\ at \in [Processes -> Steps] /\ i \in [Processes -> Nat \ {0}]
  /\ \A p \in Processes : at[p] \notin {"idle", "lock"} => i[p] \in 1..Len(Roots[p])
  /\ seen \in [Processes -> [branch : Branches, head : SUBSET Commits]]
  /\ fetched \in [Processes -> SUBSET Commits]
  /\ edits \in 0..MaxEdits /\ switches \in 0..MaxSwitches /\ faults \in 0..MaxFaults

Init ==
  /\ remote = [u \in Upstreams |-> {}]
  /\ heads = [c \in Checkouts |-> [b \in Branches |-> {}]]
  /\ branch = [c \in Checkouts |-> "main"] /\ edit = [c \in Checkouts |-> NoFile]
  /\ mid = [c \in Checkouts |-> "no"] /\ lock = [c \in Checkouts |-> NoOne]
  /\ offline = {} /\ cooperative \in BOOLEAN
  /\ at = [p \in Processes |-> "idle"] /\ i = [p \in Processes |-> 1]
  /\ seen = [p \in Processes |-> NotSeen] /\ fetched = [p \in Processes |-> {}]
  /\ edits = 0 /\ switches = 0 /\ faults = 0

Fault == faults < MaxFaults /\ faults' = faults + 1 /\ UNCHANGED <<edits, switches>>
NoFault == UNCHANGED bounds
-----------------------------------------------------------------------------
(* Git, as far as the synchroniser and its users rely on it.               *)

HeadOf(c) == heads[c][branch[c]]
Dirty(c) == edit[c] # NoFile
InProgress(c) == mid[c] # "no"

Conflict(ours, theirs) ==
  \E a \in ours \ theirs, b \in theirs \ ours : a.file = b.file /\ a.file # NoFile

\* A merge commit is of its checkout; heads only grow, so no two of a branch are alike.
Merged(c, theirs) ==
  IF HeadOf(c) \subseteq theirs THEN theirs
  ELSE HeadOf(c) \cup theirs \cup
       {[by |-> c, n |-> Cardinality(HeadOf(c) \cup theirs), file |-> NoFile]}

\* Git refuses to merge over an unfinished merge or an uncommitted change.
Overwrites(c, theirs) == Dirty(c) /\ \E b \in theirs \ HeadOf(c) : b.file = edit[c]
Refuses(c, theirs) == InProgress(c) \/ Overwrites(c, theirs)

SetHead(c, commits) == heads' = [heads EXCEPT ![c][branch[c]] = commits]

\* git merge, when it runs to its end; done tells its status.
MergeRuns(c, theirs, done) ==
  \/ /\ theirs \subseteq HeadOf(c) /\ done /\ UNCHANGED <<heads, mid>>
  \/ /\ ~(theirs \subseteq HeadOf(c)) /\ ~Refuses(c, theirs)
     /\ \/ /\ ~Conflict(HeadOf(c), theirs) /\ done
           /\ SetHead(c, Merged(c, theirs)) /\ UNCHANGED mid
        \/ /\ Conflict(HeadOf(c), theirs) /\ ~done
           /\ mid' = [mid EXCEPT ![c] = "markers"] /\ UNCHANGED heads
  \/ /\ ~(theirs \subseteq HeadOf(c)) /\ (Refuses(c, theirs) \/ Dirty(c))
     /\ ~done /\ UNCHANGED <<heads, mid>>

\* What a merge may leave that is killed, or that outlives its parent.
MergeInterrupted(c, theirs) ==
  \/ UNCHANGED <<heads, mid>>
  \/ \E done \in BOOLEAN : MergeRuns(c, theirs, done)
  \/ /\ ~(theirs \subseteq HeadOf(c)) /\ ~Refuses(c, theirs)
     /\ mid' = [mid EXCEPT ![c] = "torn"] /\ UNCHANGED heads

\* The upstream takes fast-forwards.
Accepts(c, b) == c \notin offline /\ remote[Upstream[c]] \subseteq heads[c][b]
Publish(c, b) == remote' = [remote EXCEPT ![Upstream[c]] = heads[c][b]]
-----------------------------------------------------------------------------
(* run, and synchronize for one checkout.                                  *)

Here(p) == Roots[p][i[p]]
Goes(p, from, to) == at[p] = from /\ at' = [at EXCEPT ![p] = to]

\* discover; a root that cannot be read ends the run before it begins.
Discover(p) ==
  /\ Goes(p, "idle", "lock") /\ i' = [i EXCEPT ![p] = 1]
  /\ UNCHANGED <<remote, checkout, lock, seen, fetched, world, bounds>>

Finished(p) ==
  /\ at[p] = "lock" /\ i[p] > Len(Roots[p]) /\ at' = [at EXCEPT ![p] = "idle"]
  /\ i' = [i EXCEPT ![p] = 1]
  /\ UNCHANGED <<remote, checkout, lock, seen, fetched, world, bounds>>

NextRoot(p) ==
  /\ at' = [at EXCEPT ![p] = "lock"] /\ i' = [i EXCEPT ![p] = @ + 1]
  /\ seen' = [seen EXCEPT ![p] = NotSeen] /\ fetched' = [fetched EXCEPT ![p] = {}]

EndRun(p) ==
  /\ at' = [at EXCEPT ![p] = "idle"] /\ i' = [i EXCEPT ![p] = 1]
  /\ seen' = [seen EXCEPT ![p] = NotSeen] /\ fetched' = [fetched EXCEPT ![p] = {}]

\* A plausible bug: the error of one checkout ends the run.
ErrorOfAll(p) == EndRun(p)

\* An error is the status of its checkout, and the run goes on.
Error(p) == NextRoot(p)

Unlocked(p) == lock' = [lock EXCEPT ![Here(p)] = NoOne]
Failed(p) == Unlocked(p) /\ Error(p)
Done(p) == Unlocked(p) /\ NextRoot(p)

\* A plausible bug: a directory that exists already will do.
CreatesAnyway(p) == lock' = [lock EXCEPT ![Here(p)] = p]

\* create_dir: the one who creates it has it.
Creates(p) == lock[Here(p)] = NoOne /\ lock' = [lock EXCEPT ![Here(p)] = p]

Lock(p) ==
  /\ at[p] = "lock" /\ i[p] <= Len(Roots[p])
  /\ \/ Creates(p) /\ Goes(p, "lock", "inspect") /\ UNCHANGED <<i, seen, fetched>> /\ NoFault
     \/ /\ (lock[Here(p)] # NoOne /\ NoFault) \/ Fault
        /\ Error(p) /\ UNCHANGED lock
  /\ UNCHANGED <<remote, checkout, world>>

\* Only committed work, on a branch with an upstream.
Idle(c) == ~InProgress(c) /\ ~Dirty(c)

Inspect(p) ==
  /\ at[p] = "inspect"
  /\ LET c == Here(p)
     IN  \/ /\ Idle(c) /\ branch[c] = "main" /\ Goes(p, "inspect", "fetch")
            /\ seen' = [seen EXCEPT ![p] = [branch |-> branch[c], head |-> HeadOf(c)]]
            /\ UNCHANGED <<lock, i, fetched>> /\ NoFault
         \/ ~(Idle(c) /\ branch[c] = "main") /\ Done(p) /\ NoFault
         \/ Fault /\ Failed(p)
  /\ UNCHANGED <<remote, checkout, world>>

Fetch(p) ==
  /\ at[p] = "fetch"
  /\ \/ /\ Here(p) \notin offline /\ Goes(p, "fetch", "recheck") /\ NoFault
        /\ fetched' = [fetched EXCEPT ![p] = remote[Upstream[Here(p)]]]
        /\ UNCHANGED <<lock, i, seen>>
     \/ ((Here(p) \in offline /\ NoFault) \/ Fault) /\ Failed(p)
  /\ UNCHANGED <<remote, checkout, world>>

\* After the wait for the network: somebody may have started to work.
Recheck(p) ==
  /\ at[p] = "recheck"
  /\ LET c == Here(p)
         same == Idle(c) /\ seen[p] = [branch |-> branch[c], head |-> HeadOf(c)]
     IN  \/ same /\ Goes(p, "recheck", "preview") /\ UNCHANGED <<lock, i, seen, fetched>> /\ NoFault
         \/ ~same /\ Done(p) /\ NoFault
         \/ Fault /\ Failed(p)
  /\ UNCHANGED <<remote, checkout, world>>

\* A plausible bug: git is left to find out whether it can merge.
PreviewSkipped(p) ==
  /\ at[p] = "preview"
  /\ Goes(p, "preview", IF fetched[p] \subseteq HeadOf(Here(p)) THEN "push" ELSE "merge")
  /\ UNCHANGED <<lock, i, seen, fetched, remote, checkout, world, bounds>>

\* merge-tree, when both sides have commits of their own.
Preview(p) ==
  /\ at[p] = "preview"
  /\ LET c == Here(p)
     IN  \/ /\ ~Conflict(HeadOf(c), fetched[p]) /\ NoFault
            /\ Goes(p, "preview", IF fetched[p] \subseteq HeadOf(c) THEN "push" ELSE "merge")
            /\ UNCHANGED <<lock, i, seen, fetched>>
         \/ Conflict(HeadOf(c), fetched[p]) /\ Done(p) /\ NoFault
         \/ Fault /\ Failed(p)
  /\ UNCHANGED <<remote, checkout, world>>

Merge(p) ==
  /\ at[p] = "merge"
  /\ \/ /\ MergeRuns(Here(p), fetched[p], TRUE) /\ Goes(p, "merge", "push")
        /\ UNCHANGED <<lock, i, seen, fetched>> /\ NoFault
     \/ MergeRuns(Here(p), fetched[p], FALSE) /\ Failed(p) /\ NoFault
     \/ Fault /\ MergeInterrupted(Here(p), fetched[p]) /\ Failed(p)
  /\ UNCHANGED <<remote, branch, edit, world>>

\* Commits that the fetched side has not; the branch that was inspected is
\* pushed.  A push that is killed may have arrived.
Push(p) ==
  /\ at[p] = "push"
  /\ LET c == Here(p)
         b == seen[p].branch
     IN  \/ /\ HeadOf(c) \subseteq fetched[p] /\ UNCHANGED remote
            /\ Goes(p, "push", "report") /\ UNCHANGED <<lock, i, seen, fetched>> /\ NoFault
         \/ /\ ~(HeadOf(c) \subseteq fetched[p]) /\ Accepts(c, b) /\ Publish(c, b)
            /\ Goes(p, "push", "report") /\ UNCHANGED <<lock, i, seen, fetched>> /\ NoFault
         \/ /\ ~(HeadOf(c) \subseteq fetched[p]) /\ ~Accepts(c, b) /\ UNCHANGED remote
            /\ Failed(p) /\ NoFault
         \/ /\ Fault /\ Failed(p)
            /\ \/ UNCHANGED remote
               \/ ~(HeadOf(c) \subseteq fetched[p]) /\ Accepts(c, b) /\ Publish(c, b)
  /\ UNCHANGED <<checkout, world>>

\* The status is "synchronized", nothing ahead and nothing behind.
Report(p) ==
  /\ at[p] = "report"
  /\ (Done(p) /\ NoFault) \/ (Fault /\ Failed(p))
  /\ UNCHANGED <<remote, checkout, world>>

Step(p) ==
  \/ Finished(p) \/ Lock(p) \/ Inspect(p) \/ Fetch(p) \/ Recheck(p)
  \/ Preview(p) \/ Merge(p) \/ Push(p) \/ Report(p)

\* The process dies, not the git that it waits for; the directory stays.
Crash(p) ==
  /\ at[p] # "idle" /\ Fault /\ EndRun(p)
  /\ lock' = IF at[p] = "lock" THEN lock ELSE [lock EXCEPT ![Here(p)] = "abandoned"]
  /\ IF at[p] = "merge" THEN MergeInterrupted(Here(p), fetched[p]) ELSE UNCHANGED <<heads, mid>>
  /\ \/ UNCHANGED remote
     \/ /\ at[p] = "push" /\ ~(HeadOf(Here(p)) \subseteq fetched[p])
        /\ Accepts(Here(p), seen[p].branch) /\ Publish(Here(p), seen[p].branch)
  /\ UNCHANGED <<branch, edit, world>>
-----------------------------------------------------------------------------
(* Users and the network.                                                  *)

Allowed(c) == cooperative => lock[c] = NoOne

Acts == edits < MaxEdits /\ edits' = edits + 1 /\ UNCHANGED <<switches, faults>>

Write(c, f) ==
  /\ Allowed(c) /\ Idle(c) /\ Acts /\ edit' = [edit EXCEPT ![c] = f]
  /\ UNCHANGED <<remote, heads, branch, mid, lock, process, world>>

Commit(c) ==
  /\ Allowed(c) /\ Dirty(c) /\ ~InProgress(c) /\ edit' = [edit EXCEPT ![c] = NoFile]
  /\ SetHead(c, HeadOf(c) \cup {[by |-> c, n |-> Cardinality(HeadOf(c)), file |-> edit[c]]})
  /\ UNCHANGED <<remote, branch, mid, lock, process, world, bounds>>

\* What a synchroniser refuses to merge is merged by hand.
Resolve(c) ==
  /\ Allowed(c) /\ c \notin offline /\ ~Dirty(c) /\ branch[c] = "main" /\ mid[c] # "torn"
  /\ Conflict(HeadOf(c), remote[Upstream[c]]) /\ SetHead(c, Merged(c, remote[Upstream[c]]))
  /\ mid' = [mid EXCEPT ![c] = "no"]
  /\ UNCHANGED <<remote, branch, edit, lock, process, world, bounds>>

\* An unfinished merge is undone.
Undo(c) ==
  /\ Allowed(c) /\ InProgress(c) /\ mid' = [mid EXCEPT ![c] = "no"]
  /\ UNCHANGED <<remote, heads, branch, edit, lock, process, world, bounds>>

Switch(c) ==
  /\ Allowed(c) /\ Idle(c) /\ switches < MaxSwitches /\ switches' = switches + 1
  /\ branch' = [branch EXCEPT ![c] = IF @ = "main" THEN "other" ELSE "main"]
  /\ UNCHANGED <<remote, heads, edit, mid, lock, process, world, edits, faults>>

\* Nobody steals a lock; one whose holder is gone is removed by hand.
RemoveLock(c) ==
  /\ lock[c] = "abandoned" /\ lock' = [lock EXCEPT ![c] = NoOne]
  /\ UNCHANGED <<remote, checkout, process, world, bounds>>

Network(c) ==
  /\ \/ c \notin offline /\ Fault /\ offline' = offline \cup {c}
     \/ c \in offline /\ offline' = offline \ {c} /\ NoFault
  /\ UNCHANGED <<remote, checkout, lock, process, cooperative>>

User(c) ==
  \/ \E f \in Files : Write(c, f)
  \/ Commit(c) \/ Resolve(c) \/ Undo(c) \/ Switch(c) \/ RemoveLock(c)

Next ==
  \/ \E p \in Processes : Discover(p) \/ Step(p) \/ Crash(p)
  \/ \E c \in Checkouts : User(c) \/ Network(c)

\* The daemon's worker begins again and again, and what has begun goes on:
\* no command outlives its time.  Nobody has to write, to commit, to resolve
\* or to remove a lock, and no network has to come back.
Fairness ==
  /\ \A p \in Daemons : WF_vars(Discover(p))
  /\ \A p \in Processes : WF_vars(Step(p))

Spec == Init /\ [][Next]_vars /\ Fairness
-----------------------------------------------------------------------------
\* As long as users leave locked checkouts alone, no conflict markers are
\* written into a working tree: every conflict is found by the preview.
NoMarkers == cooperative => \A c \in Checkouts : mid[c] # "markers"

\* "synchronized" is true, again for cooperative users: all that the checkout
\* has is published, and all that was fetched is in it.
SynchronizedTrue ==
  \A p \in Processes : cooperative /\ at[p] = "report" =>
    /\ heads[Here(p)]["main"] \subseteq remote[Upstream[Here(p)]]
    /\ fetched[p] \subseteq heads[Here(p)]["main"]

\* What keeps a checkout from being synchronised, all of it for a user.
Stuck(c) ==
  \/ lock[c] = "abandoned" \/ c \in offline \/ branch[c] # "main" \/ Dirty(c) \/ InProgress(c)
  \/ Conflict(HeadOf(c), remote[Upstream[c]])

\* In the end every checkout has what its upstream has, but for those that
\* wait for a user; and those do not hold up the others.
PeersConverge ==
  <>[](\A c \in Checkouts : Stuck(c) \/ heads[c]["main"] = remote[Upstream[c]])
=============================================================================
