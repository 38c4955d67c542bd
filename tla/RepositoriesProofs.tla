--------------------------- MODULE RepositoriesProofs ---------------------------
(* Proofs about Repositories, for any set of checkouts, upstreams, files   *)
(* and processes and any bounds: the types, that cooperative users never   *)
(* find conflict markers, and that "synchronized" is true.                 *)
EXTENDS Repositories, FiniteSetTheorems, TLAPS

\* The numbers of commits are sizes of branches.
Finite ==
  /\ \A u \in Upstreams : IsFiniteSet(remote[u])
  /\ \A c \in Checkouts, b \in Branches : IsFiniteSet(heads[c][b])
  /\ \A p \in Processes : IsFiniteSet(fetched[p])

Typed == TypeOK /\ Finite

\* At work on one of its checkouts.
Holds(p) == at[p] \notin {"idle", "lock"}

\* Who is at work on a checkout holds its lock: there is one at a time.
Locked(p) == Holds(p) => lock[Here(p)] = p

\* What has been fetched is part of the upstream, which only grows.
Fetched(p) ==
  at[p] \in {"recheck", "preview", "merge", "push", "report"} =>
    fetched[p] \subseteq remote[Upstream[Here(p)]]

\* Under the lock the checkout stays as it was inspected ...
Same(p) ==
  Holds(p) /\ at[p] # "inspect" => branch[Here(p)] = "main" /\ seen[p].branch = "main"

\* ... the preview answers for the merge ...
Clean(p) == at[p] = "merge" => ~Conflict(heads[Here(p)]["main"], fetched[p])

\* ... the merge for the push ...
Merges(p) ==
  at[p] \in {"push", "report"} => fetched[p] \subseteq heads[Here(p)]["main"]

\* ... and the push for the report.
Published(p) ==
  at[p] = "report" => heads[Here(p)]["main"] \subseteq remote[Upstream[Here(p)]]

Work(p) ==
  /\ Locked(p) /\ Fetched(p)
  /\ cooperative => Same(p) /\ Clean(p) /\ Merges(p) /\ Published(p)

IndInv == Typed /\ NoMarkers /\ \A p \in Processes : Work(p)
-----------------------------------------------------------------------------
(* What git leaves behind.                                                 *)

LEMMA MergedTyped ==
  ASSUME NEW c \in Checkouts, Typed, NEW theirs \in SUBSET Commits, IsFiniteSet(theirs)
  PROVE  /\ Merged(c, theirs) \in SUBSET Commits /\ IsFiniteSet(Merged(c, theirs))
         /\ theirs \subseteq Merged(c, theirs)
<1> DEFINE all == HeadOf(c) \cup theirs
           commit == [by |-> c, n |-> Cardinality(all), file |-> NoFile]
<1>1. branch[c] \in Branches /\ HeadOf(c) \in SUBSET Commits /\ IsFiniteSet(HeadOf(c))
  BY DEF Typed, TypeOK, Finite, HeadOf
<1>2. IsFiniteSet(all) /\ Cardinality(all) \in Nat
  BY <1>1, FS_Union, FS_CardinalityType
<1>3. commit \in Commits
  BY <1>2 DEF Commits
<1>4. IsFiniteSet(all \cup {commit})
  BY <1>2, FS_AddElement
<1> QED BY <1>1, <1>3, <1>4 DEF Merged

\* What a merge may do, whether it ends or not, as far as others rely on it.
Kept(c, theirs) ==
  /\ heads' \in [Checkouts -> [Branches -> SUBSET Commits]]
  /\ mid' \in [Checkouts -> {"no", "markers", "torn"}]
  /\ \A d \in Checkouts, b \in Branches : IsFiniteSet(heads'[d][b])
  /\ \A d \in Checkouts \ {c} : heads'[d] = heads[d] /\ mid'[d] = mid[d]
  /\ mid'[c] # "markers" \/ mid[c] = "markers" \/ Conflict(HeadOf(c), theirs)

LEMMA MergeKeeps ==
  ASSUME NEW c \in Checkouts, Typed, NEW theirs \in SUBSET Commits, IsFiniteSet(theirs),
         NEW done \in BOOLEAN, MergeRuns(c, theirs, done)
  PROVE  /\ Kept(c, theirs)
         /\ done => theirs \subseteq heads'[c][branch[c]]
<1>1. branch[c] \in Branches
  BY DEF Typed, TypeOK
<1>2. CASE UNCHANGED heads /\ (~done \/ theirs \subseteq HeadOf(c))
          /\ (UNCHANGED mid \/ (mid' = [mid EXCEPT ![c] = "markers"] /\ Conflict(HeadOf(c), theirs)))
  BY <1>2 DEF Typed, TypeOK, Finite, Kept, HeadOf
<1>3. CASE SetHead(c, Merged(c, theirs)) /\ UNCHANGED mid
  <2> DEFINE m == Merged(c, theirs)
  <2>1. m \in SUBSET Commits /\ IsFiniteSet(m) /\ theirs \subseteq m
    BY MergedTyped
  <2> HIDE DEF m
  <2>2. heads' = [heads EXCEPT ![c][branch[c]] = m] /\ UNCHANGED mid
    BY <1>3 DEF m, SetHead
  <2> QED BY <1>1, <2>1, <2>2 DEF Typed, TypeOK, Finite, Kept
<1> QED BY <1>2, <1>3 DEF MergeRuns

LEMMA InterruptionKeeps ==
  ASSUME NEW c \in Checkouts, Typed, NEW theirs \in SUBSET Commits, IsFiniteSet(theirs),
         MergeInterrupted(c, theirs)
  PROVE  Kept(c, theirs)
<1>1. CASE UNCHANGED <<heads, mid>>
  BY <1>1 DEF Typed, TypeOK, Finite, Kept
<1>2. CASE \E done \in BOOLEAN : MergeRuns(c, theirs, done)
  BY <1>2, MergeKeeps
<1>3. CASE mid' = [mid EXCEPT ![c] = "torn"] /\ UNCHANGED heads
  BY <1>3 DEF Typed, TypeOK, Finite, Kept
<1> QED BY <1>1, <1>2, <1>3 DEF MergeInterrupted
-----------------------------------------------------------------------------
(* A process: what its step leaves alone, and so what others rely on.      *)

LEMMA HereTyped ==
  ASSUME Typed, NEW p \in Processes
  PROVE  /\ Holds(p) => Here(p) \in Checkouts
         /\ at[p] = "lock" /\ i[p] <= Len(Roots[p]) => Here(p) \in Checkouts
         /\ \A c \in Checkouts : Upstream[c] \in Upstreams
<1>1. i[p] \in Nat \ {0} /\ Roots[p] \in Seq(Checkouts) /\ Upstream \in [Checkouts -> Upstreams]
  BY RepositoriesAssumption DEF Typed, TypeOK
<1>2. Holds(p) => i[p] \in 1..Len(Roots[p])
  BY DEF Typed, TypeOK, Holds
<1> QED BY <1>1, <1>2 DEF Here

Alone(p) ==
  /\ \A q \in Processes \ {p} :
       at'[q] = at[q] /\ i'[q] = i[q] /\ seen'[q] = seen[q] /\ fetched'[q] = fetched[q]
  /\ UNCHANGED <<branch, cooperative>>
  /\ \A u \in Upstreams : remote[u] \subseteq remote'[u]
  /\ \A c \in Checkouts : (Holds(p) /\ c = Here(p)) \/ heads'[c] = heads[c]
  /\ \A c \in Checkouts :
       (Holds(p) /\ c = Here(p)) \/ lock'[c] = lock[c] \/ lock[c] = NoOne

LEMMA OthersWork ==
  ASSUME IndInv, NEW p \in Processes, NEW q \in Processes \ {p}, Alone(p)
  PROVE  Work(q)'
<1>1. at'[q] = at[q] /\ i'[q] = i[q] /\ seen'[q] = seen[q] /\ fetched'[q] = fetched[q]
  BY DEF Alone
<1>2. Here(q)' = Here(q) /\ Holds(q)' = Holds(q)
  BY <1>1 DEF Here, Holds
<1>3. CASE ~Holds(q)
  BY <1>1, <1>2, <1>3 DEF Work, Locked, Fetched, Same, Clean, Merges, Published, Holds
<1>4. CASE Holds(q)
  <2>1. Here(q) \in Checkouts /\ Upstream[Here(q)] \in Upstreams
    BY <1>4, HereTyped DEF IndInv
  <2>2. lock[Here(q)] = q /\ (Holds(p) => lock[Here(p)] = p) /\ q # NoOne
    BY <1>4, RepositoriesAssumption DEF IndInv, Work, Locked
  <2>3. heads'[Here(q)] = heads[Here(q)] /\ lock'[Here(q)] = lock[Here(q)]
    BY <2>1, <2>2 DEF Alone
  <2>4. remote[Upstream[Here(q)]] \subseteq remote'[Upstream[Here(q)]]
    BY <2>1 DEF Alone
  <2>5. UNCHANGED <<branch, cooperative>>
    BY DEF Alone
  <2>6. Work(q)
    BY DEF IndInv
  <2> QED BY <1>1, <1>2, <2>2, <2>3, <2>4, <2>5, <2>6
          DEF Work, Locked, Fetched, Same, Clean, Merges, Published, Conflict
<1> QED BY <1>3, <1>4

Git ==
  /\ remote \in [Upstreams -> SUBSET Commits]
  /\ heads \in [Checkouts -> [Branches -> SUBSET Commits]]
  /\ mid \in [Checkouts -> {"no", "markers", "torn"}]
  /\ \A u \in Upstreams : IsFiniteSet(remote[u])
  /\ \A c \in Checkouts, b \in Branches : IsFiniteSet(heads[c][b])

\* What a process does to repositories: it grows upstreams, and works on
\* the checkout whose lock it holds.
Grows(p) ==
  /\ Git'
  /\ \A u \in Upstreams : remote[u] \subseteq remote'[u]
  /\ \A c \in Checkouts : (Holds(p) /\ c = Here(p)) \/ heads'[c] = heads[c]

Safe(p) == Typed' /\ Alone(p) /\ Work(p)'

\* Ending the work on a checkout, with an error, an answer or a crash.
LEMMA Leaving ==
  ASSUME Typed, NEW p \in Processes, Holds(p),
         NEW left \in {NoOne, "abandoned"}, lock' = [lock EXCEPT ![Here(p)] = left],
         NextRoot(p) \/ EndRun(p), Grows(p), UNCHANGED <<branch, edit, world>>,
         NoFault \/ Fault
  PROVE  Safe(p)
<1>1. Here(p) \in Checkouts
  BY HereTyped
<1>2. PICK to \in {"idle", "lock"}, n \in Nat \ {0} :
        /\ at' = [at EXCEPT ![p] = to] /\ i' = [i EXCEPT ![p] = n]
        /\ seen' = [seen EXCEPT ![p] = NotSeen] /\ fetched' = [fetched EXCEPT ![p] = {}]
  <2>1. i[p] \in Nat \ {0} /\ i[p] + 1 \in Nat \ {0}
    BY DEF Typed, TypeOK
  <2> QED BY <2>1 DEF NextRoot, EndRun
<1>3. TypeOK'
  <2>1. /\ remote' \in [Upstreams -> SUBSET Commits]
        /\ heads' \in [Checkouts -> [Branches -> SUBSET Commits]]
        /\ mid' \in [Checkouts -> {"no", "markers", "torn"}]
    BY DEF Grows, Git
  <2>2. /\ branch' \in [Checkouts -> Branches] /\ edit' \in [Checkouts -> Files \cup {NoFile}]
        /\ offline' \subseteq Checkouts /\ cooperative' \in BOOLEAN
        /\ edits' \in 0..MaxEdits /\ switches' \in 0..MaxSwitches
    BY DEF Typed, TypeOK, NoFault, Fault, world, bounds
  <2>3. faults' \in 0..MaxFaults
    BY RepositoriesAssumption DEF Typed, TypeOK, NoFault, Fault, bounds
  <2>4. lock' \in [Checkouts -> Processes \cup {NoOne, "abandoned"}]
    BY <1>1 DEF Typed, TypeOK
  <2>5. /\ at' \in [Processes -> Steps] /\ i' \in [Processes -> Nat \ {0}]
        /\ \A q \in Processes : at'[q] \notin {"idle", "lock"} => i'[q] \in 1..Len(Roots[q])
    BY <1>2 DEF Typed, TypeOK, Steps
  <2>6. /\ seen' \in [Processes -> [branch : Branches, head : SUBSET Commits]]
        /\ fetched' \in [Processes -> SUBSET Commits]
    <3>1. NotSeen \in [branch : Branches, head : SUBSET Commits]
      BY DEF NotSeen, Branches
    <3> QED BY <1>2, <3>1 DEF Typed, TypeOK
  <2> QED BY <2>1, <2>2, <2>3, <2>4, <2>5, <2>6 DEF TypeOK
<1>4. Finite'
  BY <1>2, FS_EmptySet DEF Typed, TypeOK, Finite, Grows, Git
<1>5. Alone(p)
  BY <1>1, <1>2 DEF Typed, TypeOK, Alone, Grows, world
<1>6. Work(p)'
  <2>1. at'[p] \in {"idle", "lock"}
    BY <1>2 DEF Typed, TypeOK
  <2> QED BY <2>1 DEF Work, Locked, Fetched, Same, Clean, Merges, Published, Holds
<1> QED BY <1>3, <1>4, <1>5, <1>6 DEF Typed, Safe

LEMMA Quiet ==
  ASSUME Typed, NEW p \in Processes, UNCHANGED <<remote, checkout>>
  PROVE  Grows(p) /\ UNCHANGED <<branch, edit>>
BY DEF Typed, TypeOK, Finite, Grows, Git, checkout

\* The same, when the step leaves the repositories alone.
LEMMA Giving ==
  ASSUME Typed, NEW p \in Processes, Holds(p), Failed(p) \/ Done(p),
         UNCHANGED <<remote, checkout, world>>, NoFault \/ Fault
  PROVE  Safe(p)
<1>1. Grows(p) /\ UNCHANGED <<branch, edit>>
  BY Quiet
<1> QED BY <1>1, Leaving DEF Failed, Done, Error, Unlocked

\* Going on with the checkout.
LEMMA Going ==
  ASSUME Typed, NEW p \in Processes, NEW from, NEW to \in Steps \ {"idle", "lock"},
         Goes(p, from, to), from \notin {"idle", "lock"}, Grows(p), UNCHANGED <<lock, i, branch, edit, world>>,
         seen' \in [Processes -> [branch : Branches, head : SUBSET Commits]],
         fetched' \in [Processes -> SUBSET Commits], IsFiniteSet(fetched'[p]),
         \A q \in Processes \ {p} : seen'[q] = seen[q] /\ fetched'[q] = fetched[q],
         NoFault \/ Fault
  PROVE  /\ Typed' /\ Alone(p) /\ at'[p] = to /\ Here(p)' = Here(p) /\ Here(p) \in Checkouts
         /\ \A c \in Checkouts : Upstream[c] \in Upstreams
<1>1. Holds(p) /\ Here(p) \in Checkouts /\ \A c \in Checkouts : Upstream[c] \in Upstreams
  BY HereTyped DEF Goes, Holds
<1>2. at' = [at EXCEPT ![p] = to] /\ at'[p] = to
  BY DEF Typed, TypeOK, Goes
<1>3. TypeOK'
  <2>1. /\ remote' \in [Upstreams -> SUBSET Commits]
        /\ heads' \in [Checkouts -> [Branches -> SUBSET Commits]]
        /\ mid' \in [Checkouts -> {"no", "markers", "torn"}]
    BY DEF Grows, Git
  <2>2. /\ branch' \in [Checkouts -> Branches] /\ edit' \in [Checkouts -> Files \cup {NoFile}]
        /\ offline' \subseteq Checkouts /\ cooperative' \in BOOLEAN
        /\ lock' \in [Checkouts -> Processes \cup {NoOne, "abandoned"}]
        /\ edits' \in 0..MaxEdits /\ switches' \in 0..MaxSwitches
    BY DEF Typed, TypeOK, NoFault, Fault, world, bounds
  <2>3. faults' \in 0..MaxFaults
    BY RepositoriesAssumption DEF Typed, TypeOK, NoFault, Fault, bounds
  <2>4. /\ at' \in [Processes -> Steps] /\ i' \in [Processes -> Nat \ {0}]
        /\ \A q \in Processes : at'[q] \notin {"idle", "lock"} => i'[q] \in 1..Len(Roots[q])
    BY <1>1, <1>2 DEF Typed, TypeOK, Holds
  <2> QED BY <2>1, <2>2, <2>3, <2>4 DEF TypeOK
<1>4. Finite'
  BY DEF Typed, TypeOK, Finite, Grows, Git
<1>5. Alone(p)
  BY <1>1, <1>2 DEF Typed, TypeOK, Alone, Grows, world
<1> QED BY <1>1, <1>2, <1>3, <1>4, <1>5 DEF Typed, Here
-----------------------------------------------------------------------------
(* The steps of a process.                                                 *)

LEMMA AwayKeeps ==
  ASSUME IndInv, NEW p \in Processes, Discover(p) \/ Finished(p)
  PROVE  Safe(p) /\ UNCHANGED mid
<1>1. PICK to \in {"idle", "lock"} : at' = [at EXCEPT ![p] = to]
  BY DEF Discover, Finished, Goes
<1>2. /\ i' = [i EXCEPT ![p] = 1]
      /\ UNCHANGED <<remote, checkout, lock, seen, fetched, world, bounds>>
  BY DEF Discover, Finished
<1>3. Typed'
  BY <1>1, <1>2 DEF IndInv, Typed, TypeOK, Finite, Steps, checkout, world, bounds
<1>4. Alone(p)
  BY <1>1, <1>2 DEF IndInv, Typed, TypeOK, Alone, checkout, world
<1>5. at'[p] \in {"idle", "lock"}
  BY <1>1 DEF IndInv, Typed, TypeOK
<1>6. Work(p)'
  BY <1>5 DEF Work, Locked, Fetched, Same, Clean, Merges, Published, Holds
<1> QED BY <1>2, <1>3, <1>4, <1>6 DEF Safe, checkout

LEMMA LockKeeps ==
  ASSUME IndInv, NEW p \in Processes, Lock(p)
  PROVE  Safe(p) /\ UNCHANGED mid
<1>1. /\ at[p] = "lock" /\ Here(p) \in Checkouts /\ ~Holds(p)
      /\ UNCHANGED <<remote, checkout, world>>
  BY HereTyped DEF IndInv, Lock, Holds
<1>2. CASE Creates(p) /\ Goes(p, "lock", "inspect") /\ UNCHANGED <<i, seen, fetched>> /\ NoFault
  <2>1. at' = [at EXCEPT ![p] = "inspect"] /\ lock[Here(p)] = NoOne /\ lock' = [lock EXCEPT ![Here(p)] = p]
    BY <1>2 DEF Goes, Creates
  <2>2. i[p] \in 1..Len(Roots[p])
    BY RepositoriesAssumption DEF IndInv, Typed, TypeOK, Lock
  <2>3. Typed'
    BY <1>1, <1>2, <2>1, <2>2
       DEF IndInv, Typed, TypeOK, Finite, Steps, checkout, world, bounds, NoFault
  <2>4. Alone(p)
    BY <1>1, <1>2, <2>1 DEF IndInv, Typed, TypeOK, Alone, checkout, world
  <2>5. at'[p] = "inspect" /\ Here(p)' = Here(p) /\ lock'[Here(p)] = p
    BY <1>1, <1>2, <2>1 DEF IndInv, Typed, TypeOK, Here
  <2>6. Work(p)'
    BY <2>5 DEF Work, Locked, Fetched, Same, Clean, Merges, Published, Holds
  <2> QED BY <1>1, <2>3, <2>4, <2>6 DEF Safe, checkout
<1>3. CASE Error(p) /\ UNCHANGED lock /\ (NoFault \/ Fault)
  <2>1. PICK n \in Nat \ {0} :
          /\ at' = [at EXCEPT ![p] = "lock"] /\ i' = [i EXCEPT ![p] = n]
          /\ seen' = [seen EXCEPT ![p] = NotSeen] /\ fetched' = [fetched EXCEPT ![p] = {}]
    <3>1. i[p] + 1 \in Nat \ {0}
      BY DEF IndInv, Typed, TypeOK
    <3> QED BY <1>3, <3>1 DEF Error, NextRoot
  <2>2. NotSeen \in [branch : Branches, head : SUBSET Commits]
    BY DEF NotSeen, Branches
  <2>3. /\ at' \in [Processes -> Steps] /\ i' \in [Processes -> Nat \ {0}]
        /\ \A q \in Processes : at'[q] \notin {"idle", "lock"} => i'[q] \in 1..Len(Roots[q])
    BY <2>1 DEF IndInv, Typed, TypeOK, Steps
  <2>4. /\ edits' \in 0..MaxEdits /\ switches' \in 0..MaxSwitches /\ faults' \in 0..MaxFaults
    BY <1>3, RepositoriesAssumption DEF IndInv, Typed, TypeOK, NoFault, Fault, bounds
  <2>5. /\ seen' \in [Processes -> [branch : Branches, head : SUBSET Commits]]
        /\ fetched' \in [Processes -> SUBSET Commits]
    BY <2>1, <2>2 DEF IndInv, Typed, TypeOK
  <2>6. Finite'
    BY <1>1, <2>1, FS_EmptySet DEF IndInv, Typed, TypeOK, Finite, checkout
  <2>7. TypeOK'
    BY <1>1, <1>3, <2>3, <2>4, <2>5 DEF IndInv, Typed, TypeOK, checkout, world
  <2>8. Alone(p)
    BY <1>1, <1>3, <2>1 DEF IndInv, Typed, TypeOK, Alone, checkout, world
  <2>9. at'[p] = "lock"
    BY <2>1 DEF IndInv, Typed, TypeOK
  <2>10. Work(p)'
    BY <2>9 DEF Work, Locked, Fetched, Same, Clean, Merges, Published, Holds
  <2> QED BY <1>1, <2>6, <2>7, <2>8, <2>10 DEF Safe, Typed, checkout
<1> QED BY <1>2, <1>3 DEF Lock

LEMMA InspectKeeps ==
  ASSUME IndInv, NEW p \in Processes, Inspect(p)
  PROVE  Safe(p) /\ UNCHANGED mid
<1>1. Typed /\ Holds(p) /\ Here(p) \in Checkouts /\ UNCHANGED <<remote, checkout, world>> /\ UNCHANGED mid
  BY HereTyped DEF IndInv, Inspect, Holds, checkout
<1>2. CASE (Failed(p) \/ Done(p)) /\ (NoFault \/ Fault)
  BY <1>1, <1>2, Giving
<1>3. CASE /\ branch[Here(p)] = "main" /\ Goes(p, "inspect", "fetch")
           /\ seen' = [seen EXCEPT ![p] = [branch |-> branch[Here(p)], head |-> HeadOf(Here(p))]]
           /\ UNCHANGED <<lock, i, fetched>> /\ NoFault
  <2>1. Grows(p) /\ UNCHANGED <<branch, edit>>
    BY <1>1, Quiet
  <2>2. [branch |-> branch[Here(p)], head |-> HeadOf(Here(p))] \in [branch : Branches, head : SUBSET Commits]
    BY <1>1 DEF Typed, TypeOK, HeadOf
  <2>3. /\ seen' \in [Processes -> [branch : Branches, head : SUBSET Commits]]
        /\ \A q \in Processes \ {p} : seen'[q] = seen[q]
        /\ seen'[p].branch = "main"
    BY <1>1, <1>3, <2>2 DEF Typed, TypeOK
  <2>4. fetched' \in [Processes -> SUBSET Commits] /\ IsFiniteSet(fetched'[p])
    BY <1>1, <1>3 DEF Typed, TypeOK, Finite
  <2>5. Typed' /\ Alone(p) /\ at'[p] = "fetch" /\ Here(p)' = Here(p)
    BY <1>1, <1>3, <2>1, <2>3, <2>4, Going DEF Steps
  <2>6. lock[Here(p)] = p
    BY <1>1 DEF IndInv, Work, Locked
  <2>7. Work(p)'
    BY <1>1, <1>3, <2>1, <2>3, <2>5, <2>6 DEF Work, Locked, Fetched, Same, Clean, Merges, Published, Holds
  <2> QED BY <1>1, <2>5, <2>7 DEF Safe
<1> QED BY <1>2, <1>3 DEF Inspect

LEMMA FetchKeeps ==
  ASSUME IndInv, NEW p \in Processes, Fetch(p)
  PROVE  Safe(p) /\ UNCHANGED mid
<1>1. Typed /\ Holds(p) /\ Here(p) \in Checkouts /\ UNCHANGED <<remote, checkout, world>> /\ UNCHANGED mid
  BY HereTyped DEF IndInv, Fetch, Holds, checkout
<1>2. CASE Failed(p) /\ (NoFault \/ Fault)
  BY <1>1, <1>2, Giving
<1>3. CASE /\ Goes(p, "fetch", "recheck") /\ NoFault
           /\ fetched' = [fetched EXCEPT ![p] = remote[Upstream[Here(p)]]]
           /\ UNCHANGED <<lock, i, seen>>
  <2>1. Grows(p) /\ UNCHANGED <<branch, edit>>
    BY <1>1, Quiet
  <2>2. Upstream[Here(p)] \in Upstreams
    BY <1>1, RepositoriesAssumption
  <2>3. PICK theirs \in SUBSET Commits :
          /\ IsFiniteSet(theirs) /\ theirs = remote[Upstream[Here(p)]]
          /\ fetched' = [fetched EXCEPT ![p] = theirs]
    BY <1>1, <1>3, <2>2 DEF Typed, TypeOK, Finite
  <2>4. /\ fetched' \in [Processes -> SUBSET Commits] /\ IsFiniteSet(fetched'[p])
        /\ \A q \in Processes \ {p} : fetched'[q] = fetched[q]
        /\ fetched'[p] = remote[Upstream[Here(p)]]
    <3>1. fetched \in [Processes -> SUBSET Commits]
      BY <1>1 DEF Typed, TypeOK
    <3>2. fetched'[p] = theirs
      BY <2>3, <3>1
    <3>3. IsFiniteSet(fetched'[p])
      BY <2>3, <3>2, Zenon
    <3>4. fetched' \in [Processes -> SUBSET Commits]
      BY <2>3, <3>1
    <3>5. \A q \in Processes \ {p} : fetched'[q] = fetched[q]
      BY <2>3, <3>1
    <3>6. fetched'[p] = remote[Upstream[Here(p)]]
      BY <2>3, <3>2, Zenon
    <3> QED BY <3>3, <3>4, <3>5, <3>6
  <2>5. Typed' /\ Alone(p) /\ at'[p] = "recheck" /\ Here(p)' = Here(p)
    <3>1. /\ seen' \in [Processes -> [branch : Branches, head : SUBSET Commits]]
          /\ \A q \in Processes \ {p} : seen'[q] = seen[q] /\ fetched'[q] = fetched[q]
      BY <1>1, <1>3, <2>4 DEF Typed, TypeOK
    <3>2. "recheck" \in Steps \ {"idle", "lock"}
      BY DEF Steps
    <3>3. Goes(p, "fetch", "recheck") /\ UNCHANGED <<lock, i, branch, edit, world>> /\ NoFault
      BY <1>1, <1>3, <2>1
    <3> QED BY <1>1, <2>1, <2>4, <3>1, <3>2, <3>3, Going
  <2>6. Work(p) /\ at[p] = "fetch"
    BY <1>3 DEF IndInv, Goes
  <2>7. Work(p)'
    BY <1>1, <1>3, <2>1, <2>4, <2>5, <2>6
       DEF Work, Locked, Fetched, Same, Clean, Merges, Published, Holds, world
  <2> QED BY <1>1, <2>5, <2>7 DEF Safe
<1> QED BY <1>2, <1>3 DEF Fetch

LEMMA RecheckKeeps ==
  ASSUME IndInv, NEW p \in Processes, Recheck(p)
  PROVE  Safe(p) /\ UNCHANGED mid
<1>1. Typed /\ Holds(p) /\ Here(p) \in Checkouts /\ UNCHANGED <<remote, checkout, world>> /\ UNCHANGED mid
  BY HereTyped DEF IndInv, Recheck, Holds, checkout
<1>2. CASE (Failed(p) \/ Done(p)) /\ (NoFault \/ Fault)
  BY <1>1, <1>2, Giving
<1>3. CASE Goes(p, "recheck", "preview") /\ UNCHANGED <<lock, i, seen, fetched>> /\ NoFault
  <2>1. Grows(p) /\ UNCHANGED <<branch, edit>>
    BY <1>1, Quiet
  <2>2. Typed' /\ Alone(p) /\ at'[p] = "preview" /\ Here(p)' = Here(p)
    BY <1>1, <1>3, <2>1, Going DEF Steps, Typed, TypeOK, Finite
  <2>3. Work(p) /\ at[p] = "recheck"
    BY <1>3 DEF IndInv, Goes
  <2>4. Work(p)'
    BY <1>1, <1>3, <2>1, <2>2, <2>3
       DEF Work, Locked, Fetched, Same, Clean, Merges, Published, Holds, world
  <2> QED BY <1>1, <2>2, <2>4 DEF Safe
<1> QED BY <1>2, <1>3 DEF Recheck

\* Nothing to merge or no conflict: what the next step relies on.
LEMMA PreviewKeeps ==
  ASSUME IndInv, NEW p \in Processes, Preview(p)
  PROVE  Safe(p) /\ UNCHANGED mid
<1>1. Typed /\ Holds(p) /\ Here(p) \in Checkouts /\ UNCHANGED <<remote, checkout, world>> /\ UNCHANGED mid
  BY HereTyped DEF IndInv, Preview, Holds, checkout
<1>2. CASE (Failed(p) \/ Done(p)) /\ (NoFault \/ Fault)
  BY <1>1, <1>2, Giving
<1>3. CASE /\ ~Conflict(HeadOf(Here(p)), fetched[p]) /\ NoFault
           /\ Goes(p, "preview", IF fetched[p] \subseteq HeadOf(Here(p)) THEN "push" ELSE "merge")
           /\ UNCHANGED <<lock, i, seen, fetched>>
  <2> DEFINE to == IF fetched[p] \subseteq HeadOf(Here(p)) THEN "push" ELSE "merge"
  <2>1. Grows(p) /\ UNCHANGED <<branch, edit>>
    BY <1>1, Quiet
  <2>2. to \in Steps \ {"idle", "lock"}
    BY DEF Steps
  <2>3. Typed' /\ Alone(p) /\ at'[p] = to /\ Here(p)' = Here(p)
    BY <1>1, <1>3, <2>1, <2>2, Going DEF Typed, TypeOK, Finite
  <2>4. Work(p) /\ at[p] = "preview"
    BY <1>3 DEF IndInv, Goes
  <2>5. cooperative => HeadOf(Here(p)) = heads[Here(p)]["main"]
    BY <2>4 DEF Work, Same, HeadOf, Holds
  <2>6. UNCHANGED <<remote, heads, branch, lock, seen, fetched, cooperative>>
    BY <1>1, <1>3 DEF checkout, world
  <2>7. /\ at'[p] = "merge" \/ (at'[p] = "push" /\ fetched[p] \subseteq HeadOf(Here(p)))
    BY <2>3
  <2>8. Work(p)'
    BY <1>3, <2>3, <2>4, <2>5, <2>6, <2>7
       DEF Work, Locked, Fetched, Same, Clean, Merges, Published, Holds, Conflict
  <2> QED BY <1>1, <2>3, <2>8 DEF Safe
<1> QED BY <1>2, <1>3 DEF Preview

LEMMA MergeStepKeeps ==
  ASSUME IndInv, NEW p \in Processes, Merge(p)
  PROVE  Safe(p) /\ Kept(Here(p), fetched[p])
<1>1. /\ Typed /\ Holds(p) /\ Here(p) \in Checkouts /\ Upstream[Here(p)] \in Upstreams
      /\ UNCHANGED <<remote, branch, edit, world>>
  BY HereTyped DEF IndInv, Merge, Holds
<1>2. fetched[p] \in SUBSET Commits /\ IsFiniteSet(fetched[p])
  BY <1>1 DEF Typed, TypeOK, Finite
<1>3. Kept(Here(p), fetched[p])
  BY <1>1, <1>2, MergeKeeps, InterruptionKeeps DEF Merge
<1>4. Grows(p)
  BY <1>1, <1>3 DEF Grows, Git, Kept, Typed, TypeOK, Finite
<1>5. CASE Failed(p) /\ (NoFault \/ Fault)
  <2>1. Safe(p)
    BY <1>1, <1>4, <1>5, Leaving DEF Failed, Error, Unlocked
  <2> QED BY <1>3, <2>1
<1>6. CASE /\ MergeRuns(Here(p), fetched[p], TRUE) /\ Goes(p, "merge", "push")
           /\ UNCHANGED <<lock, i, seen, fetched>> /\ NoFault
  <2>1. fetched[p] \subseteq heads'[Here(p)][branch[Here(p)]]
    BY <1>1, <1>2, <1>6, MergeKeeps
  <2>2. Typed' /\ Alone(p) /\ at'[p] = "push" /\ Here(p)' = Here(p)
    BY <1>1, <1>2, <1>4, <1>6, Going DEF Steps, Typed, TypeOK, Finite
  <2>3. Work(p) /\ at[p] = "merge"
    BY <1>6 DEF IndInv, Goes
  <2>4. UNCHANGED <<remote, branch, lock, seen, fetched, cooperative>>
    BY <1>1, <1>6 DEF world
  <2>5. Work(p)'
    BY <2>1, <2>2, <2>3, <2>4
       DEF Work, Locked, Fetched, Same, Clean, Merges, Published, Holds
  <2> QED BY <1>3, <2>2, <2>5 DEF Safe
<1> QED BY <1>5, <1>6 DEF Merge

\* A push that arrives makes the upstream grow to what the checkout has.
LEMMA PublishGrows ==
  ASSUME IndInv, NEW p \in Processes, Holds(p), NEW b \in Branches,
         UNCHANGED remote \/ (Accepts(Here(p), b) /\ Publish(Here(p), b)), UNCHANGED checkout
  PROVE  Grows(p) /\ UNCHANGED <<branch, edit>>
<1>1. Here(p) \in Checkouts /\ Upstream[Here(p)] \in Upstreams
  BY HereTyped DEF IndInv
<1>2. CASE UNCHANGED remote
  BY <1>2, Quiet DEF IndInv
<1>3. CASE Accepts(Here(p), b) /\ Publish(Here(p), b)
  <2> DEFINE ours == heads[Here(p)][b]
             up == Upstream[Here(p)]
  <2>1. ours \in SUBSET Commits /\ IsFiniteSet(ours) /\ up \in Upstreams
    BY <1>1 DEF IndInv, Typed, TypeOK, Finite
  <2>2. remote[up] \subseteq ours /\ remote' = [remote EXCEPT ![up] = ours]
    BY <1>3 DEF Accepts, Publish
  <2>3. remote \in [Upstreams -> SUBSET Commits] /\ \A u \in Upstreams : IsFiniteSet(remote[u])
    BY DEF IndInv, Typed, TypeOK, Finite
  <2> HIDE DEF ours, up
  <2>4. /\ remote' \in [Upstreams -> SUBSET Commits] /\ \A u \in Upstreams : IsFiniteSet(remote'[u])
        /\ \A u \in Upstreams : remote[u] \subseteq remote'[u]
    BY <2>1, <2>2, <2>3
  <2> QED BY <2>4 DEF IndInv, Typed, TypeOK, Finite, Grows, Git, checkout
<1> QED BY <1>2, <1>3

LEMMA PushKeeps ==
  ASSUME IndInv, NEW p \in Processes, Push(p)
  PROVE  Safe(p) /\ UNCHANGED mid
<1> DEFINE b == seen[p].branch
<1>1. /\ Typed /\ Holds(p) /\ Here(p) \in Checkouts /\ Upstream[Here(p)] \in Upstreams
      /\ UNCHANGED <<checkout, world>> /\ UNCHANGED <<mid, heads, branch>>
  BY HereTyped DEF IndInv, Push, Holds, checkout
<1>2. b \in Branches
  BY <1>1 DEF Typed, TypeOK
<1>3. UNCHANGED remote \/ (Accepts(Here(p), b) /\ Publish(Here(p), b))
  BY DEF Push
<1>4. Grows(p) /\ UNCHANGED <<branch, edit>>
  BY <1>1, <1>2, <1>3, PublishGrows
<1>5. CASE Failed(p) /\ (NoFault \/ Fault)
  BY <1>1, <1>4, <1>5, Leaving DEF Failed, Error, Unlocked
<1>6. CASE /\ Goes(p, "push", "report") /\ UNCHANGED <<lock, i, seen, fetched>> /\ NoFault
           /\ \/ HeadOf(Here(p)) \subseteq fetched[p] /\ UNCHANGED remote
              \/ Accepts(Here(p), b) /\ Publish(Here(p), b)
  <2>1. Typed' /\ Alone(p) /\ at'[p] = "report" /\ Here(p)' = Here(p)
    BY <1>1, <1>4, <1>6, Going DEF Steps, Typed, TypeOK, Finite
  <2>2. Work(p) /\ at[p] = "push"
    BY <1>6 DEF IndInv, Goes
  <2>3. cooperative => b = "main" /\ HeadOf(Here(p)) = heads[Here(p)]["main"]
    BY <2>2 DEF Work, Same, HeadOf, Holds
  <2>4. fetched[p] \subseteq remote[Upstream[Here(p)]]
    BY <2>2 DEF Work, Fetched
  <2>5. remote[Upstream[Here(p)]] \subseteq remote'[Upstream[Here(p)]]
    BY <1>1, <1>4 DEF Grows
  <2>6. cooperative => heads[Here(p)]["main"] \subseteq remote'[Upstream[Here(p)]]
    BY <1>1, <1>6, <2>3, <2>4, <2>5 DEF Publish, Typed, TypeOK
  <2>7. UNCHANGED <<heads, branch, lock, seen, fetched, cooperative>>
    BY <1>1, <1>6 DEF checkout, world
  <2>8. Work(p)'
    BY <2>1, <2>2, <2>4, <2>5, <2>6, <2>7
       DEF Work, Locked, Fetched, Same, Clean, Merges, Published, Holds
  <2> QED BY <1>1, <2>1, <2>8 DEF Safe
<1> QED BY <1>5, <1>6 DEF Push

LEMMA ReportKeeps ==
  ASSUME IndInv, NEW p \in Processes, Report(p)
  PROVE  Safe(p) /\ UNCHANGED mid
<1>1. Typed /\ Holds(p) /\ UNCHANGED <<remote, checkout, world>> /\ UNCHANGED mid
  BY DEF IndInv, Report, Holds, checkout
<1> QED BY <1>1, Giving DEF Report

LEMMA CrashKeeps ==
  ASSUME IndInv, NEW p \in Processes, Crash(p)
  PROVE  Safe(p) /\ (UNCHANGED mid \/ (at[p] = "merge" /\ Kept(Here(p), fetched[p])))
<1>1. CASE ~Holds(p)
  <2>1. UNCHANGED <<remote, heads, mid, branch, edit, world, lock>>
    BY <1>1 DEF Crash, Holds
  <2>2. /\ at' = [at EXCEPT ![p] = "idle"] /\ i' = [i EXCEPT ![p] = 1]
        /\ seen' = [seen EXCEPT ![p] = NotSeen] /\ fetched' = [fetched EXCEPT ![p] = {}]
    BY DEF Crash, EndRun
  <2>3. NotSeen \in [branch : Branches, head : SUBSET Commits]
    BY DEF NotSeen, Branches
  <2>4. /\ at' \in [Processes -> Steps] /\ i' \in [Processes -> Nat \ {0}]
        /\ \A q \in Processes : at'[q] \notin {"idle", "lock"} => i'[q] \in 1..Len(Roots[q])
    BY <2>2 DEF IndInv, Typed, TypeOK, Steps
  <2>5. edits' \in 0..MaxEdits /\ switches' \in 0..MaxSwitches /\ faults' \in 0..MaxFaults
    BY RepositoriesAssumption DEF IndInv, Typed, TypeOK, Fault, Crash
  <2>6. /\ seen' \in [Processes -> [branch : Branches, head : SUBSET Commits]]
        /\ fetched' \in [Processes -> SUBSET Commits]
    BY <2>2, <2>3 DEF IndInv, Typed, TypeOK
  <2>7. Finite'
    BY <2>1, <2>2, FS_EmptySet DEF IndInv, Typed, TypeOK, Finite
  <2>8. TypeOK'
    BY <2>1, <2>4, <2>5, <2>6 DEF IndInv, Typed, TypeOK, world
  <2>9. Alone(p)
    BY <2>1, <2>2 DEF IndInv, Typed, TypeOK, Alone, world
  <2>10. at'[p] = "idle"
    BY <2>2 DEF IndInv, Typed, TypeOK
  <2>11. Work(p)'
    BY <2>10 DEF Work, Locked, Fetched, Same, Clean, Merges, Published, Holds
  <2> QED BY <2>1, <2>7, <2>8, <2>9, <2>11 DEF Safe, Typed
<1>2. CASE Holds(p)
  <2>1. /\ Typed /\ Here(p) \in Checkouts /\ UNCHANGED <<branch, edit, world>> /\ Fault
        /\ EndRun(p) /\ lock' = [lock EXCEPT ![Here(p)] = "abandoned"]
    BY <1>2, HereTyped DEF IndInv, Crash, Holds
  <2>2. CASE at[p] = "merge"
    <3>1. fetched[p] \in SUBSET Commits /\ IsFiniteSet(fetched[p])
      BY <2>1 DEF Typed, TypeOK, Finite
    <3>2. Kept(Here(p), fetched[p]) /\ UNCHANGED remote
      BY <2>1, <2>2, <3>1, InterruptionKeeps DEF Crash
    <3>3. Grows(p)
      BY <1>2, <2>1, <3>2 DEF Grows, Git, Kept, Typed, TypeOK, Finite
    <3>4. Safe(p)
      BY <1>2, <2>1, <3>3, Leaving
    <3> QED BY <2>2, <3>2, <3>4
  <2>3. CASE at[p] # "merge"
    <3>1. UNCHANGED checkout /\ UNCHANGED mid
      BY <2>1, <2>3 DEF Crash, checkout
    <3>2. seen[p].branch \in Branches
      BY <2>1 DEF Typed, TypeOK
    <3>3. UNCHANGED remote \/ (Accepts(Here(p), seen[p].branch) /\ Publish(Here(p), seen[p].branch))
      BY DEF Crash
    <3>4. Grows(p)
      BY <1>2, <3>1, <3>2, <3>3, PublishGrows
    <3>5. Safe(p)
      BY <1>2, <2>1, <3>4, Leaving
    <3> QED BY <3>1, <3>5
  <2> QED BY <2>2, <2>3
<1> QED BY <1>1, <1>2

\* A merge finds a conflict only if the preview has not.
LEMMA ProcessKeeps ==
  ASSUME IndInv, NEW p \in Processes, Discover(p) \/ Step(p) \/ Crash(p)
  PROVE  Safe(p) /\ NoMarkers'
<1>1. UNCHANGED mid \/ (at[p] = "merge" /\ Kept(Here(p), fetched[p]))
  BY AwayKeeps, LockKeeps, InspectKeeps, FetchKeeps, RecheckKeeps, PreviewKeeps,
     MergeStepKeeps, PushKeeps, ReportKeeps, CrashKeeps DEF Step, Merge
<1>2. Safe(p)
  BY AwayKeeps, LockKeeps, InspectKeeps, FetchKeeps, RecheckKeeps, PreviewKeeps,
     MergeStepKeeps, PushKeeps, ReportKeeps, CrashKeeps DEF Step
<1>3. UNCHANGED cooperative
  BY <1>2 DEF Safe, Alone
<1>4. CASE UNCHANGED mid
  BY <1>2, <1>3, <1>4, Zenon DEF IndInv, NoMarkers
<1>5. CASE at[p] = "merge" /\ Kept(Here(p), fetched[p])
  <2>1. Work(p) /\ Here(p) \in Checkouts
    BY <1>5, HereTyped DEF IndInv, Holds
  <2>2. cooperative => ~Conflict(HeadOf(Here(p)), fetched[p])
    BY <1>5, <2>1 DEF Work, Clean, Same, Holds, HeadOf
  <2>3. NoMarkers
    BY DEF IndInv
  <2>4. cooperative => \A c \in Checkouts : mid'[c] # "markers"
    BY <1>5, <2>1, <2>2, <2>3 DEF NoMarkers, Kept
  <2> QED BY <1>2, <1>3, <2>4, Zenon DEF NoMarkers
<1> QED BY <1>1, <1>2, <1>4, <1>5
-----------------------------------------------------------------------------
(* Users and the network.                                                  *)

\* What a user changes: a checkout, and one that nobody works on, if users
\* cooperate; or a lock whose holder is gone.
Aside(c) ==
  /\ UNCHANGED <<remote, process, cooperative>>
  /\ \A d \in Checkouts : d # c => heads'[d] = heads[d] /\ branch'[d] = branch[d]
  /\ Allowed(c) \/ UNCHANGED <<heads, branch>>
  /\ UNCHANGED lock \/ (lock[c] = "abandoned" /\ lock' = [lock EXCEPT ![c] = NoOne])
  /\ NoMarkers'

LEMMA AsideWorks ==
  ASSUME IndInv, NEW c \in Checkouts, Aside(c), NEW p \in Processes
  PROVE  Work(p)'
<1>1. Work(p) /\ Here(p)' = Here(p) /\ Holds(p)' = Holds(p) /\ UNCHANGED <<remote, process, cooperative>>
  BY DEF IndInv, Aside, Here, Holds, process
<1>2. CASE ~Holds(p)
  BY <1>1, <1>2 DEF Work, Locked, Fetched, Same, Clean, Merges, Published, Holds, process
<1>3. CASE Holds(p)
  <2>1. lock[Here(p)] = p /\ p # NoOne /\ p # "abandoned" /\ Here(p) \in Checkouts
    BY <1>1, <1>3, HereTyped, RepositoriesAssumption DEF IndInv, Work, Locked
  <2>2. lock'[Here(p)] = p
    BY <2>1 DEF IndInv, Typed, TypeOK, Aside
  <2>3. cooperative => heads'[Here(p)] = heads[Here(p)] /\ branch'[Here(p)] = branch[Here(p)]
    BY <2>1 DEF Aside, Allowed
  <2> QED BY <1>1, <2>2, <2>3
          DEF Work, Locked, Fetched, Same, Clean, Merges, Published, Conflict, Holds, process
<1> QED BY <1>2, <1>3

LEMMA UserKeeps ==
  ASSUME IndInv, NEW c \in Checkouts, User(c) \/ Network(c)
  PROVE  Typed' /\ Aside(c)
<1> USE RepositoriesAssumption DEF bounds
<1>1. CASE \E f \in Files : Write(c, f)
  BY <1>1 DEF IndInv, Typed, TypeOK, Finite, Aside, NoMarkers, Write, Acts, process, world
<1>2. CASE Commit(c)
  <2> DEFINE commit == [by |-> c, n |-> Cardinality(HeadOf(c)), file |-> edit[c]]
             new == HeadOf(c) \cup {commit}
  <2>1. branch[c] \in Branches /\ HeadOf(c) \in SUBSET Commits /\ IsFiniteSet(HeadOf(c)) /\ edit[c] \in Files \cup {NoFile}
    BY DEF IndInv, Typed, TypeOK, Finite, HeadOf
  <2>2. commit \in Commits
    BY <2>1, FS_CardinalityType DEF Commits
  <2>3. new \in SUBSET Commits /\ IsFiniteSet(new)
    BY <2>1, <2>2, FS_AddElement
  <2> HIDE DEF new
  <2>4. heads' = [heads EXCEPT ![c][branch[c]] = new]
    BY <1>2 DEF Commit, SetHead, new
  <2> QED BY <1>2, <2>1, <2>3, <2>4
          DEF IndInv, Typed, TypeOK, Finite, Aside, NoMarkers, Commit, process, world
<1>3. CASE Resolve(c)
  <2> DEFINE new == Merged(c, remote[Upstream[c]])
  <2>1. branch[c] \in Branches /\ remote[Upstream[c]] \in SUBSET Commits /\ IsFiniteSet(remote[Upstream[c]])
    BY DEF IndInv, Typed, TypeOK, Finite
  <2>2. new \in SUBSET Commits /\ IsFiniteSet(new)
    BY <2>1, MergedTyped DEF IndInv
  <2> HIDE DEF new
  <2>3. heads' = [heads EXCEPT ![c][branch[c]] = new]
    BY <1>3 DEF Resolve, SetHead, new
  <2> QED BY <1>3, <2>1, <2>2, <2>3
          DEF IndInv, Typed, TypeOK, Finite, Aside, NoMarkers, Resolve, process, world
<1>4. CASE Undo(c)
  BY <1>4 DEF IndInv, Typed, TypeOK, Finite, Aside, NoMarkers, Undo, process, world
<1>5. CASE Switch(c)
  BY <1>5 DEF IndInv, Typed, TypeOK, Finite, Aside, NoMarkers, Switch, process, world, Branches
<1>6. CASE RemoveLock(c)
  BY <1>6 DEF IndInv, Typed, TypeOK, Finite, Aside, NoMarkers, RemoveLock, process, world, checkout
<1>7. CASE Network(c)
  BY <1>7 DEF IndInv, Typed, TypeOK, Finite, Aside, NoMarkers, Network, process, checkout, Fault, NoFault
<1> QED BY <1>1, <1>2, <1>3, <1>4, <1>5, <1>6, <1>7 DEF User
-----------------------------------------------------------------------------
(* The theorems.                                                           *)

LEMMA InitWorks == Init => IndInv
<1> SUFFICES ASSUME Init PROVE IndInv
  OBVIOUS
<1>1. Finite
  BY FS_EmptySet DEF Init, Finite
<1>2. TypeOK
  BY RepositoriesAssumption DEF Init, TypeOK, Branches, Steps, NotSeen
<1>3. NoMarkers /\ \A p \in Processes : Work(p)
  BY DEF Init, NoMarkers, Work, Locked, Fetched, Same, Clean, Merges, Published, Holds
<1> QED BY <1>1, <1>2, <1>3 DEF IndInv, Typed

LEMMA Inductive == IndInv /\ [Next]_vars => IndInv'
<1> SUFFICES ASSUME IndInv, [Next]_vars PROVE IndInv'
  OBVIOUS
<1>1. ASSUME NEW p \in Processes, Discover(p) \/ Step(p) \/ Crash(p) PROVE IndInv'
  <2>1. Safe(p) /\ NoMarkers'
    BY <1>1, ProcessKeeps
  <2>2. ASSUME NEW q \in Processes PROVE Work(q)'
    <3>1. CASE q = p
      BY <2>1, <3>1 DEF Safe
    <3>2. CASE q # p
      BY <2>1, <3>2, OthersWork DEF Safe
    <3> QED BY <3>1, <3>2
  <2> QED BY <2>1, <2>2 DEF IndInv, Safe
<1>2. ASSUME NEW c \in Checkouts, User(c) \/ Network(c) PROVE IndInv'
  <2>1. Typed' /\ Aside(c)
    BY <1>2, UserKeeps
  <2>2. ASSUME NEW q \in Processes PROVE Work(q)'
    BY <2>1, AsideWorks
  <2> QED BY <2>1, <2>2 DEF IndInv, Aside
<1>3. CASE UNCHANGED vars
  <2> USE <1>3 DEF vars, checkout, process, world, bounds
  <2>1. Typed'
    BY DEF IndInv, Typed, TypeOK, Finite
  <2>2. NoMarkers'
    BY Zenon DEF IndInv, NoMarkers
  <2>3. ASSUME NEW q \in Processes PROVE Work(q)'
    <3>1. Work(q) /\ Here(q)' = Here(q)
      BY DEF IndInv, Here
    <3> QED BY <3>1 DEF Work, Locked, Fetched, Same, Clean, Merges, Published, Holds, Conflict
  <2> QED BY <2>1, <2>2, <2>3 DEF IndInv
<1> QED BY <1>1, <1>2, <1>3 DEF Next

\* Types, and the numbers of commits that git gives: every branch is finite.
THEOREM TypeCorrect == Spec => []TypeOK
<1>1. IndInv => TypeOK
  BY DEF IndInv, Typed
<1> QED BY <1>1, InitWorks, Inductive, PTL DEF Spec

\* Whatever fails or crashes, synchronize (repositories.rs:274-373) leaves
\* conflict markers in no working tree of cooperative users.
THEOREM WorkingTreesAreSpared == Spec => []NoMarkers
<1>1. IndInv => NoMarkers
  BY DEF IndInv
<1> QED BY <1>1, InitWorks, Inductive, PTL DEF Spec

\* When synchronize answers "synchronized" (repositories.rs:366-373), what the
\* checkout has is published, and it has what was fetched.
THEOREM AnswerIsTrue == Spec => []SynchronizedTrue
<1>1. IndInv => SynchronizedTrue
  <2> SUFFICES ASSUME IndInv, NEW p \in Processes, cooperative, at[p] = "report"
               PROVE  /\ heads[Here(p)]["main"] \subseteq remote[Upstream[Here(p)]]
                      /\ fetched[p] \subseteq heads[Here(p)]["main"]
    BY DEF SynchronizedTrue
  <2> QED BY DEF IndInv, Work, Merges, Published
<1> QED BY <1>1, InitWorks, Inductive, PTL DEF Spec
=============================================================================
