--------------------------- MODULE BackgroundProofs ---------------------------
(* For every set of candidates, every workload and every code tree: the     *)
(* variables stay in their ranges, a daemon runs once per generation of the *)
(* catalog, what a scan of the code skips as unchanged is true, and so is   *)
(* what is answered about the import graph, whatever graph it is.           *)
EXTENDS Background, FiniteSetTheorems, SequenceTheorems, TLAPS

-----------------------------------------------------------------------------
(* The two workers of Upkeep, one of which may find index.db locked.       *)

Works == Next \/ RefreshBusy

\* Each part of the type, through every action.
LEMMA MemoryKept == TypeOK /\ [Works]_vars => MemoryOK'
<1> SUFFICES ASSUME TypeOK, [Works]_vars PROVE MemoryOK'
  OBVIOUS
<1> USE DEF TypeOK, MemoryOK
<1>1. ASSUME NEW c \in Candidates, Stage(c) \/ Settle(c) \/ Examine(c) PROVE MemoryOK'
  BY <1>1 DEF Stage, Settle, Examine, Accepted, Unsettled, Exception
<1>2. CASE Pause \/ Resume
  BY <1>2 DEF Pause, Resume
<1>3. CASE Edit \/ Rebuild \/ SourcesChange \/ Restart
  BY <1>3 DEF Edit, Rebuild, SourcesChange, Restart, memory
<1>4. CASE Elapse \/ Look \/ Count \/ Decide \/ NotDue \/ Begin \/ Open \/ CycleEnds
           \/ Recount \/ Observe
  BY <1>4 DEF Elapse, Look, Count, Decide, NotDue, Begin, Open, CycleEnds, Recount, Observe, memory
<1>5. CASE VElapse \/ Embed
  BY <1>5 DEF VElapse, Embed, NoSource, Poll, RunBegins, RunFails, Refresh, List, Derive,
              RunEnds, memory
<1>6. CASE RefreshBusy \/ UNCHANGED vars
  BY <1>6 DEF RefreshBusy, vars, memory
<1> QED
  BY <1>1, <1>2, <1>3, <1>4, <1>5, <1>6 DEF Works, Next, Maintain

LEMMA WorkerKept == TypeOK /\ [Works]_vars => WorkerOK'
<1> SUFFICES ASSUME TypeOK, [Works]_vars PROVE WorkerOK'
  OBVIOUS
<1> USE DEF TypeOK, WorkerOK, MemoryOK
<1>1. ASSUME NEW c \in Candidates, Stage(c) \/ Settle(c) PROVE WorkerOK'
  BY <1>1 DEF Stage, Settle, worker
<1>2. ASSUME NEW c \in Candidates, Examine(c) PROVE WorkerOK'
  BY <1>2 DEF Examine
<1>3. CASE Pause \/ Resume \/ Edit \/ Rebuild \/ SourcesChange
  BY <1>3 DEF Pause, Resume, Edit, Rebuild, SourcesChange, worker
<1>4. CASE Restart
  BY <1>4 DEF Restart, Unseen
<1>5. CASE Elapse \/ Look \/ Count \/ NotDue \/ Begin \/ CycleEnds \/ Recount \/ Observe
  BY <1>5 DEF Elapse, Look, Count, NotDue, Begin, CycleEnds, Recount, Observe
<1>6. CASE Decide
  BY <1>6 DEF Decide, WhilePaused, NothingPending, NewRevision, SameRevision
<1>7. CASE Open
  BY <1>7 DEF Open, Newest
<1>8. CASE VElapse \/ Embed
  BY <1>8 DEF VElapse, Embed, NoSource, Poll, RunBegins, RunFails, Refresh, List, Derive,
              RunEnds, worker
<1>9. CASE RefreshBusy \/ UNCHANGED vars
  BY <1>9 DEF RefreshBusy, vars, worker
<1> QED
  BY <1>1, <1>2, <1>3, <1>4, <1>5, <1>6, <1>7, <1>8, <1>9 DEF Works, Next, Maintain

LEMMA VectorsKept == TypeOK /\ [Works]_vars => VectorsOK'
<1> SUFFICES ASSUME TypeOK, [Works]_vars PROVE VectorsOK'
  OBVIOUS
<1> USE DEF TypeOK, VectorsOK, catalog, vectors
<1>1. ASSUME NEW c \in Candidates, Stage(c) \/ Settle(c) PROVE VectorsOK'
  BY <1>1 DEF Stage, Settle
<1>2. CASE Pause \/ Resume \/ Edit
  BY <1>2 DEF Pause, Resume, Edit
<1>3. CASE Rebuild
  <2>1. generation' \in Nat
    BY <1>3 DEF Rebuild
  <2> QED BY <1>3, <2>1, Zenon DEF Rebuild
<1>4. CASE SourcesChange
  BY <1>4, Zenon DEF SourcesChange
<1>5. CASE Restart
  <2>1. completed' \in Nat /\ wanted' \in Nat /\ done' \in Nat /\ vdue' \in [gen : Nat, ripe : BOOLEAN]
    BY <1>5 DEF Restart, NoRun
  <2> QED BY <1>5, <2>1, Zenon DEF Restart
<1>6. ASSUME NEW c \in Candidates, Examine(c) PROVE VectorsOK'
  BY <1>6 DEF Examine, Accepted, Unsettled, Exception
<1>7. CASE Elapse \/ Look \/ Count \/ Decide \/ NotDue \/ Begin \/ Open \/ CycleEnds
           \/ Recount \/ Observe
  BY <1>7 DEF Elapse, Look, Count, Decide, NotDue, Begin, Open, CycleEnds, Recount, Observe
<1>8. CASE VElapse \/ NoSource \/ Poll \/ RunBegins
  <2>1. CASE VElapse
    BY <2>1 DEF VElapse
  <2>2. CASE NoSource
    <3>1. vdue' \in [gen : Nat, ripe : BOOLEAN]
      BY <2>2 DEF NoSource, NoRun
    <3> QED BY <2>2, <3>1, Zenon DEF NoSource
  <2>3. CASE Poll
    <3>1. vdue' \in [gen : Nat, ripe : BOOLEAN]
      BY <2>3 DEF Poll
    <3> QED BY <2>3, <3>1, Zenon DEF Poll
  <2>4. CASE RunBegins
    <3>1. vpc' \in {"refresh", "poll"}
      BY <2>4 DEF RunBegins
    <3> QED BY <2>4, <3>1 DEF RunBegins
  <2> QED BY <1>8, <2>1, <2>2, <2>3, <2>4
<1>9. CASE RunFails \/ Refresh \/ List \/ Derive
  <2>1. CASE Refresh
    <3>1. generation' \in Nat
      BY <2>1 DEF Refresh
    <3> QED BY <2>1, <3>1, Zenon DEF Refresh
  <2>2. CASE RunFails
    BY <2>2 DEF RunFails
  <2>3. CASE List \/ Derive
    BY <2>3 DEF List, Derive
  <2> QED BY <1>9, <2>1, <2>2, <2>3
<1>10. CASE RunEnds
  BY <1>10 DEF RunEnds, Latest, NoRun
<1>11. CASE RefreshBusy
  BY <1>11 DEF RefreshBusy
<1>12. CASE UNCHANGED vars
  BY <1>12 DEF vars
<1> QED
  BY <1>1, <1>2, <1>3, <1>4, <1>5, <1>6, <1>7, <1>8, <1>9, <1>10, <1>11, <1>12
     DEF Works, Next, Maintain, Embed

LEMMA BoundsKept == TypeOK /\ [Works]_vars => BoundsOK'
<1> SUFFICES ASSUME TypeOK, [Works]_vars PROVE BoundsOK'
  OBVIOUS
<1>0. load.edits \in Nat /\ load.faults \in Nat
  BY UpkeepAssumption DEF TypeOK, BoundsOK
<1> USE DEF TypeOK, BoundsOK, Fault, bounds
<1>1. ASSUME NEW c \in Candidates, Stage(c) \/ Settle(c) \/ Examine(c) PROVE BoundsOK'
  BY <1>0, <1>1 DEF Stage, Settle, Examine, Accepted, Unsettled, Exception
<1>2. CASE Pause \/ Resume \/ Edit \/ Rebuild \/ SourcesChange \/ Restart
  BY <1>0, <1>2 DEF Pause, Resume, Edit, Rebuild, SourcesChange, Restart
<1>3. CASE Elapse \/ Look \/ Count \/ Decide \/ NotDue \/ Begin \/ Open \/ CycleEnds
           \/ Recount \/ Observe
  BY <1>0, <1>3 DEF Elapse, Look, Count, Decide, NotDue, Begin, Open, CycleEnds, Recount, Observe
<1>4. CASE VElapse \/ Embed
  BY <1>0, <1>4 DEF VElapse, Embed, NoSource, Poll, RunBegins, RunFails, Refresh, List, Derive, RunEnds
<1>5. CASE RefreshBusy \/ UNCHANGED vars
  BY <1>5 DEF RefreshBusy, vars
<1> QED
  BY <1>1, <1>2, <1>3, <1>4, <1>5 DEF Works, Next, Maintain

LEMMA TypeKept == TypeOK /\ [Works]_vars => TypeOK'
  BY MemoryKept, WorkerKept, VectorsKept, BoundsKept DEF TypeOK

LEMMA TypeInit == Init => TypeOK
<1> SUFFICES ASSUME Init PROVE TypeOK
  OBVIOUS
<1>1. load.edits \in Nat /\ load.faults \in Nat /\ sources \in BOOLEAN
  BY UpkeepAssumption DEF Init
<1>2. MemoryOK /\ WorkerOK
  BY DEF Init, MemoryOK, WorkerOK
<1>3. VectorsOK
  BY <1>1 DEF Init, VectorsOK, NoRun
<1>4. BoundsOK
  BY <1>1 DEF Init, BoundsOK
<1> QED
  BY <1>2, <1>3, <1>4 DEF TypeOK

-----------------------------------------------------------------------------
\* What is scheduled is news: nothing scheduled has been completed, and the
\* catalog never goes back to a generation that has.
Later ==
  /\ done = completed /\ completed <= generation /\ vdue.gen <= generation
  /\ vdue.gen # 0 => completed < vdue.gen
  /\ vpc \in {"refresh", "list", "derive", "done"} => vdue.gen # 0

LEMMA LaterKept == TypeOK /\ Later /\ [Works]_vars => Later'
<1> SUFFICES ASSUME TypeOK, Later, [Works]_vars PROVE Later'
  OBVIOUS
<1> USE DEF TypeOK, VectorsOK, Later, NoRun
<1>1. ASSUME NEW c \in Candidates, Stage(c) \/ Settle(c) PROVE Later'
  BY <1>1 DEF Stage, Settle, vectors
<1>2. CASE Pause \/ Resume \/ Edit \/ Rebuild
  BY <1>2 DEF Pause, Resume, Edit, Rebuild, vectors
<1>3. CASE SourcesChange \/ Restart
  BY <1>3 DEF SourcesChange, Restart, catalog
<1>4. CASE Elapse \/ Maintain
  BY <1>4 DEF Elapse, Maintain, Look, Count, Decide, NotDue, Begin, Open, Examine,
              CycleEnds, Recount, Observe, catalog, vectors
<1>5. CASE VElapse \/ NoSource \/ RunBegins
  BY <1>5 DEF VElapse, NoSource, RunBegins, catalog
<1>6. CASE Poll
  BY <1>6 DEF Poll, IsNews, catalog
<1>7. CASE RunFails \/ Refresh \/ List \/ Derive
  BY <1>7 DEF RunFails, Refresh, List, Derive, catalog
<1>8. CASE RunEnds
  BY <1>8 DEF RunEnds, Latest, catalog
<1>9. CASE RefreshBusy
  BY <1>9 DEF RefreshBusy, catalog
<1>10. CASE UNCHANGED vars
  BY <1>10 DEF vars, catalog, vectors
<1> QED
  BY <1>1, <1>2, <1>3, <1>4, <1>5, <1>6, <1>7, <1>8, <1>9, <1>10 DEF Works, Next, Embed

\* A run begins only for what is scheduled and has come due.
LEMMA BeginsForNews ==
  TypeOK /\ Later /\ [Works]_vars => [vpc = "due" /\ vpc' = "refresh" => vdue.gen > done]_vars
<1> SUFFICES ASSUME TypeOK, Later, [Works]_vars, vpc = "due", vpc' = "refresh"
             PROVE  vdue.gen > done
  OBVIOUS
<1> USE DEF TypeOK, VectorsOK, Later
<1>1. CASE RunBegins
  BY <1>1 DEF RunBegins
<1>2. CASE RefreshBusy \/ Restart \/ Embed
  BY <1>1, <1>2 DEF RefreshBusy, Restart, Embed, NoSource, Poll, RunFails, Refresh, List, Derive, RunEnds
<1>3. ASSUME NEW c \in Candidates, Stage(c) \/ Settle(c) PROVE FALSE
  BY <1>3 DEF Stage, Settle, vectors
<1>4. CASE Pause \/ Resume \/ Edit \/ Rebuild \/ SourcesChange \/ VElapse \/ UNCHANGED vars
  BY <1>4 DEF Pause, Resume, Edit, Rebuild, SourcesChange, VElapse, vectors, vars
<1>5. CASE Elapse \/ Maintain
  BY <1>5 DEF Elapse, Maintain, Look, Count, Decide, NotDue, Begin, Open, Examine,
              CycleEnds, Recount, Observe, vectors
<1> QED
  BY <1>1, <1>2, <1>3, <1>4, <1>5 DEF Works, Next

LEMMA UpkeepSteps == [BackNext]_backVars => [Works]_vars
  BY DEF BackNext, backVars, Upkeeps, Maintains, DaemonRestarts, DaemonUpgraded, Works, Next


-----------------------------------------------------------------------------
(* The code index.  What a step of the whole means for it.                 *)

\* The scan of s is over, and with it what it had begun to write.
GivenUp(s) == Over(s) /\ UNCHANGED <<codeWorld, db, codeLoad, changes>> /\ runs' \in Nat /\ failures' \in Nat

CodeStep ==
  \/ Users
  \/ \E s \in Scanners :
       \/ ScanBegins(s) \/ GivenUp(s) \/ Commit(s)
       \/ \E f \in Paths : Visit(s, f) \/ Parse(s, f) \/ Drain(s, f) \/ ReadFails(s, f)
  \/ Upgrade

LEMMA CodeSteps == CodeTypeOK /\ [BackNext]_backVars => [CodeStep]_codeVars
<1> SUFFICES ASSUME CodeTypeOK, [BackNext]_backVars PROVE [CodeStep]_codeVars
  OBVIOUS
<1>0. runs \in Nat /\ failures \in Nat /\ "daemon" \in Scanners
  BY DEF CodeTypeOK, Scanners
<1>1. CASE UNCHANGED codeVars
  BY <1>1
<1>2. CASE DaemonRestarts
  <2>1. GivenUp("daemon")
    BY <1>0, <1>2 DEF DaemonRestarts, GivenUp, codeBounds
  <2> QED BY <1>0, <2>1 DEF CodeStep
<1>3. CASE DaemonUpgraded
  BY <1>3 DEF DaemonUpgraded, CodeStep
<1>4. CASE Users
  BY <1>4 DEF CodeStep
<1>5. CASE Scans
  <2>1. ASSUME NEW s \in Scanners, Busy(s) \/ ScanFails(s) PROVE GivenUp(s)
    BY <1>0, <2>1 DEF Busy, ScanFails, Failure, GivenUp, codeBounds
  <2> QED BY <1>5, <2>1 DEF Scans, ScanWork, CodeStep
<1> QED
  BY <1>1, <1>2, <1>3, <1>4, <1>5 DEF BackNext, backVars, codeVars

\* A walk has done one thing more with one file.
LEMMA OneFound ==
  CodeTypeOK => \A s \in Scanners, f \in Paths : \A did : found' = [found EXCEPT ![s][f] = did] =>
    /\ DOMAIN found' = Scanners
    /\ \A t \in Scanners :
         /\ DOMAIN found'[t] = Paths
         /\ \A g \in Paths : found'[t][g] = IF t = s /\ g = f THEN did ELSE found[t][g]
  BY DEF CodeTypeOK

\* What is left when a scan is over.
LEMMA OverLeaves ==
  CodeTypeOK => \A s \in Scanners : Over(s) =>
    /\ DOMAIN found' = Scanners /\ found'[s] = NoneSeen
    /\ DOMAIN known' = Scanners /\ known'[s] = <<>>
    /\ \A t \in Scanners \ {s} : found'[t] = found[t] /\ known'[t] = known[t]
    /\ active' = active \ {s} /\ s \notin active' /\ writer' \in active' \cup {"none"}
    /\ \/ writer = s /\ writer' = "none" /\ tx' = EmptyDb
       \/ writer # s /\ writer' = writer /\ tx' = tx
  BY DEF CodeTypeOK, Over, Scanners

LEMMA EmptyIndex == IndexOK(EmptyDb) /\ DOMAIN EmptyDb.rows = {}
<1>1. DOMAIN EmptyDb.rows = {}
  BY DEF EmptyDb
<1> QED BY <1>1 DEF IndexOK, EmptyDb

\* The index a transaction starts from.
LEMMA BaseIsIndex ==
  CodeTypeOK => \A s \in Scanners : IndexOK(Base(s)) /\ (Base(s) = db \/ (writer = s /\ Base(s) = tx))
  BY DEF CodeTypeOK, Base

\* What a message makes of it.
Drained(index, f, did) ==
  [rows |-> Put(index.rows, f, did.row),
   edges |-> {e \in index.edges : e[1] # f} \cup ({f} \X did.imports),
   ranks |-> index.ranks]

Replaces(index, f, did, new) ==
  /\ DOMAIN new.rows = {f} \cup DOMAIN index.rows /\ new.rows[f] = did.row
  /\ \A g \in DOMAIN index.rows \ {f} : new.rows[g] = index.rows[g]
  /\ \A g \in Paths : <<f, g>> \in new.edges <=> g \in did.imports
  /\ \A h \in Paths \ {f}, g \in Paths : <<h, g>> \in new.edges <=> <<h, g>> \in index.edges

LEMMA DrainedIndex ==
  ASSUME NEW index, IndexOK(index), NEW f \in Paths, NEW did, did.row \in Rows, did.imports \subseteq Paths
  PROVE  IndexOK(Drained(index, f, did)) /\ Replaces(index, f, did, Drained(index, f, did))
<1> DEFINE new == Drained(index, f, did)
<1>1. new.rows = Put(index.rows, f, did.row)
  BY DEF Drained
<1>2. new.edges = {e \in index.edges : e[1] # f} \cup ({f} \X did.imports)
  BY DEF Drained
<1> HIDE DEF new
<1>3. DOMAIN new.rows = {f} \cup DOMAIN index.rows
  BY <1>1 DEF Put
<1>4. new.rows[f] = did.row /\ \A g \in DOMAIN index.rows \ {f} : new.rows[g] = index.rows[g]
  BY <1>1 DEF Put
<1>5. \A h, g \in Paths : <<h, g>> \in new.edges <=>
         (h # f /\ <<h, g>> \in index.edges) \/ (h = f /\ g \in did.imports)
  BY <1>2
<1>6. new.edges \subseteq Paths \X Paths
  BY <1>2 DEF IndexOK
<1>7. IndexOK(new)
  BY <1>3, <1>4, <1>6 DEF IndexOK
<1>8. Replaces(index, f, did, new)
  BY <1>3, <1>4, <1>5 DEF Replaces
<1> QED
  BY <1>7, <1>8 DEF new

\* What a commit makes of it.
LEMMA RankedIndex ==
  ASSUME NEW rows, NEW edges, NEW left, left \subseteq DOMAIN rows
  PROVE  /\ DOMAIN Ranked(Restrict(rows, left), edges).rows = left
         /\ \A f \in left : Ranked(Restrict(rows, left), edges).rows[f] = rows[f]
         /\ \A f, g : <<f, g>> \in Ranked(Restrict(rows, left), edges).edges <=>
                        <<f, g>> \in edges /\ f \in left /\ g \in left
         /\ Ranked(Restrict(rows, left), edges).edges \subseteq left \X left
  BY DEF Ranked, Restrict, Joined

-----------------------------------------------------------------------------
(* Its type, action by action.                                             *)

LEMMA CodeTypeInit == BackInit => CodeTypeOK
<1> SUFFICES ASSUME CodeInit PROVE CodeTypeOK
  BY DEF BackInit
<1>1. PICK tree \in codeLoad.trees :
        /\ disk = [f \in Paths |-> IF f \in DOMAIN tree THEN [text |-> tree[f], stat |-> 1] ELSE NoFile]
        /\ apart = Paths \X (Paths \ DOMAIN tree)
        /\ db = IF codeLoad.built THEN Built(tree) ELSE EmptyDb
  BY DEF CodeInit
<1>2. codeLoad \in CodeLoads /\ DOMAIN tree \subseteq Paths /\ \A f \in DOMAIN tree : tree[f] \in CodeTexts(Paths)
  BY CodeAssumption DEF CodeInit, Paths
<1>3. disk \in [Paths -> [text : CodeTexts(Paths), stat : Nat]]
  <2>1. NoFile \in [text : CodeTexts(Paths), stat : Nat]
    BY DEF NoFile, NoText, CodeTexts
  <2>2. \A f \in DOMAIN tree : [text |-> tree[f], stat |-> 1] \in [text : CodeTexts(Paths), stat : Nat]
    BY <1>2
  <2> QED BY <1>1, <2>1, <2>2
<1>4. IndexOK(Built(tree))
  <2> DEFINE rows  == [f \in DOMAIN tree |-> [text |-> tree[f], stat |-> 1, gap |-> tree[f].hard]]
             edges == {e \in (DOMAIN tree) \X (DOMAIN tree) : e[2] \in tree[e[1]].imports \ {e[1]}}
  <2>1. Built(tree).rows = rows /\ Built(tree).edges = Joined(DOMAIN rows, edges)
    BY DEF Built, Ranked
  <2>2. \A f \in DOMAIN tree : rows[f] \in Rows
    BY <1>2 DEF Rows, CodeTexts
  <2>3. Joined(DOMAIN rows, edges) \subseteq Paths \X Paths
    BY <1>2 DEF Joined
  <2> QED BY <1>2, <2>1, <2>2, <2>3 DEF IndexOK
<1>5. IndexOK(db) /\ IndexOK(tx)
  BY <1>1, <1>4, EmptyIndex DEF CodeInit
<1>6. \A s \in Scanners : DOMAIN known[s] = {} /\ DOMAIN found[s] = Paths /\ \A f \in Paths : FoundOK(found[s][f])
  BY DEF CodeInit, NoneSeen, FoundOK
<1>7. DOMAIN known = Scanners /\ DOMAIN found = Scanners /\ apart \subseteq Paths \X Paths
  BY <1>1 DEF CodeInit
<1> QED
  BY <1>2, <1>3, <1>5, <1>6, <1>7 DEF CodeInit, CodeTypeOK

LEMMA LoadStays == CodeTypeOK /\ [CodeStep]_codeVars => codeLoad' = codeLoad /\ Paths' = Paths /\ changes' \in Nat
<1> SUFFICES ASSUME CodeTypeOK, [CodeStep]_codeVars PROVE codeLoad' = codeLoad /\ changes' \in Nat
  BY DEF Paths
<1> USE DEF CodeTypeOK, codeBounds
<1>1. CASE Users
  BY <1>1 DEF Users, Write, Delete, Change
<1>2. ASSUME NEW s \in Scanners, ScanBegins(s) \/ GivenUp(s) \/ Commit(s) PROVE codeLoad' = codeLoad /\ changes' = changes
  BY <1>2 DEF ScanBegins, GivenUp, Commit
<1>3. ASSUME NEW s \in Scanners, NEW f \in Paths, Visit(s, f) \/ Parse(s, f) \/ Drain(s, f) \/ ReadFails(s, f)
      PROVE  codeLoad' = codeLoad /\ changes' = changes
  BY <1>3 DEF Visit, Parse, Drain, ReadFails
<1>4. CASE Upgrade
  BY <1>4 DEF Upgrade
<1>5. CASE UNCHANGED codeVars
  BY <1>5 DEF codeVars
<1> QED
  BY <1>1, <1>2, <1>3, <1>4, <1>5 DEF CodeStep

LEMMA TypesOfUsers == CodeTypeOK /\ Users => CodeTypeOK'
<1> SUFFICES ASSUME CodeTypeOK, NEW f \in Paths, Delete(f) \/ \E text \in codeLoad.texts : Write(f, text)
             PROVE  CodeTypeOK'
  BY DEF Users
<1>0. codeLoad' = codeLoad /\ changes' = changes + 1
  BY DEF Delete, Write, Change
<1>1. codeLoad' = codeLoad /\ Paths' = Paths /\ changes' \in Nat /\ Rows' = Rows
  BY <1>0 DEF CodeTypeOK, Paths, Rows
<1>2. disk' \in [Paths -> [text : CodeTexts(Paths), stat : Nat]]
  <2>1. CASE Delete(f)
    BY <2>1 DEF Delete, CodeTypeOK, NoFile, NoText, CodeTexts
  <2>2. ASSUME NEW text \in codeLoad.texts, Write(f, text) PROVE disk' \in [Paths -> [text : CodeTexts(Paths), stat : Nat]]
    <3>1. text \in CodeTexts(Paths)
      BY CodeAssumption DEF CodeTypeOK, Paths
    <3>2. PICK stat \in Nat : disk' = [disk EXCEPT ![f] = [text |-> text, stat |-> stat]]
      <4>1. 1..NextStat \subseteq Nat
        BY DEF NextStat, CodeTypeOK
      <4> HIDE DEF NextStat
      <4> QED BY <2>2, <4>1 DEF Write
    <3> QED BY <3>1, <3>2 DEF CodeTypeOK
  <2> QED BY <2>1, <2>2
<1>3. apart' \subseteq Paths \X Paths /\ veiled' \subseteq Paths
  BY DEF Delete, Write, Missing, CodeTypeOK
<1>4. UNCHANGED <<grammar, scanVars, runs, failures>>
  BY DEF Delete, Write
<1> QED
  BY <1>1, <1>2, <1>3, <1>4 DEF CodeTypeOK, IndexOK, FoundOK, scanVars

LEMMA TypesOfScans ==
  ASSUME CodeTypeOK, NEW s \in Scanners,
         ScanBegins(s) \/ GivenUp(s) \/ Commit(s)
  PROVE  CodeTypeOK'
<1>1. codeLoad' = codeLoad /\ Paths' = Paths /\ Rows' = Rows /\ NoneSeen' = NoneSeen
  BY DEF ScanBegins, GivenUp, Commit, codeBounds, Paths, Rows, NoneSeen
<1>2. CASE ScanBegins(s)
  <2>1. DOMAIN known' = Scanners /\ \A t \in Scanners :
          DOMAIN known'[t] \subseteq Paths /\ \A f \in DOMAIN known'[t] : known'[t][f] \in Nat
    BY <1>2 DEF ScanBegins, CodeTypeOK, IndexOK, Rows
  <2>2. active' \subseteq codeLoad.scanners /\ writer' \in active' \cup {"none"} /\ runs' \in Nat
    BY <1>2 DEF ScanBegins, CodeTypeOK
  <2> QED BY <1>1, <1>2, <2>1, <2>2, ZenonT(30) DEF ScanBegins, CodeTypeOK, IndexOK, FoundOK, codeWorld
<1>3. CASE GivenUp(s) \/ Commit(s)
  <2>0. Over(s)
    BY <1>3 DEF GivenUp, Commit
  <2>1. active' \subseteq codeLoad.scanners /\ writer' \in active' \cup {"none"}
    BY <2>0, OverLeaves DEF CodeTypeOK
  <2>2. \A t \in Scanners : DOMAIN known'[t] \subseteq Paths /\ \A f \in DOMAIN known'[t] : known'[t][f] \in Nat
    BY <2>0, OverLeaves DEF CodeTypeOK
  <2>3. \A t \in Scanners : DOMAIN found'[t] = Paths /\ \A f \in Paths : FoundOK(found'[t][f])
    BY <2>0, OverLeaves DEF CodeTypeOK, NoneSeen, FoundOK
  <2>4. IndexOK(tx')
    BY <2>0, OverLeaves, EmptyIndex DEF CodeTypeOK
  <2>5. IndexOK(db')
    <3>1. CASE GivenUp(s)
      BY <3>1 DEF GivenUp, CodeTypeOK
    <3>2. CASE Commit(s)
      <4> DEFINE left == {f \in DOMAIN Base(s).rows : found[s][f] = Seen}
      <4>1. db' = Ranked(Restrict(Base(s).rows, left), Base(s).edges)
        BY <3>2 DEF Commit
      <4>2. IndexOK(Base(s))
        BY BaseIsIndex
      <4>3. left \subseteq DOMAIN Base(s).rows
        OBVIOUS
      <4> HIDE DEF left
      <4> QED BY <4>1, <4>2, <4>3, RankedIndex DEF IndexOK
    <3> QED BY <1>3, <3>1, <3>2
  <2>6. UNCHANGED <<disk, apart, veiled, grammar, changes>> /\ runs' \in Nat /\ failures' \in Nat
    BY <1>3 DEF GivenUp, Commit, codeWorld, codeBounds, CodeTypeOK
  <2>7. DOMAIN known' = Scanners /\ DOMAIN found' = Scanners
    BY <2>0, OverLeaves
  <2> QED
    BY <1>1, <2>1, <2>2, <2>3, <2>4, <2>5, <2>6, <2>7 DEF CodeTypeOK, IndexOK, FoundOK
<1> QED
  BY <1>2, <1>3

LEMMA TypesOfWalks ==
  ASSUME CodeTypeOK, NEW s \in Scanners, NEW f \in Paths,
         Visit(s, f) \/ Parse(s, f) \/ Drain(s, f) \/ ReadFails(s, f)
  PROVE  CodeTypeOK'
<1>1. codeLoad' = codeLoad /\ Paths' = Paths /\ Rows' = Rows /\ UNCHANGED <<disk, veiled, grammar, db, active, known, changes, runs>>
  BY DEF Visit, Parse, Drain, ReadFails, codeBounds, codeWorld, Paths, Rows
<1>2. apart' \subseteq Paths \X Paths /\ failures' \in Nat
  BY DEF Visit, Parse, Drain, ReadFails, codeBounds, codeWorld, Failure, CodeTypeOK
<1>3. \E did : FoundOK(did) /\ found' = [found EXCEPT ![s][f] = did]
  <2>1. CASE Visit(s, f)
    <3>1. disk[f].stat \in Nat
      BY DEF CodeTypeOK
    <3>2. FoundOK(Absent) /\ FoundOK(Seen) /\ FoundOK([at |-> "stat", stat |-> disk[f].stat])
      BY <3>1 DEF FoundOK
    <3> QED BY <2>1, <3>2 DEF Visit
  <2>2. CASE Parse(s, f)
    <3>1. disk[f].text \in CodeTexts(Paths) /\ Gap(disk[f].text) \in BOOLEAN
      BY DEF CodeTypeOK, Gap, CodeTexts
    <3>2. found[s][f].stat \in Nat
      BY <2>2 DEF Parse, CodeTypeOK, FoundOK, Idle, Seen, Absent
    <3>3. Resolved(f) \subseteq Paths
      BY <3>1 DEF Resolved, CodeTexts
    <3>4. FoundOK(Absent) /\ FoundOK([at |-> "sent",
             row |-> [text |-> disk[f].text, stat |-> found[s][f].stat, gap |-> Gap(disk[f].text)],
             imports |-> Resolved(f)])
      BY <3>1, <3>2, <3>3 DEF FoundOK, Rows
    <3> QED BY <2>2, <3>4 DEF Parse
  <2>3. CASE Drain(s, f) \/ ReadFails(s, f)
    <3>1. FoundOK(Seen) /\ FoundOK(Absent)
      BY DEF FoundOK
    <3> QED BY <2>3, <3>1 DEF Drain, ReadFails
  <2> QED BY <2>1, <2>2, <2>3
<1>4. DOMAIN found' = Scanners /\ \A t \in Scanners : DOMAIN found'[t] = Paths /\ \A g \in Paths : FoundOK(found'[t][g])
  BY <1>3, OneFound DEF CodeTypeOK
<1>5. IndexOK(tx') /\ writer' \in active' \cup {"none"}
  <2>1. CASE Drain(s, f)
    <3>1. tx' = Drained(Base(s), f, found[s][f])
      BY <2>1 DEF Drain, Drained
    <3>2. found[s][f].row \in Rows /\ found[s][f].imports \subseteq Paths
      BY <2>1 DEF Drain, CodeTypeOK, FoundOK, Idle, Seen, Absent
    <3>3. IndexOK(Drained(Base(s), f, found[s][f]))
      BY <3>2, BaseIsIndex, DrainedIndex
    <3> QED BY <2>1, <3>1, <3>3 DEF Drain
  <2>2. CASE ~Drain(s, f)
    BY <2>2 DEF Visit, Parse, ReadFails, CodeTypeOK
  <2> QED BY <2>1, <2>2
<1> QED
  BY <1>1, <1>2, <1>4, <1>5 DEF CodeTypeOK, IndexOK, FoundOK

LEMMA CodeTypeKept == CodeTypeOK /\ [CodeStep]_codeVars => CodeTypeOK'
<1> SUFFICES ASSUME CodeTypeOK, [CodeStep]_codeVars PROVE CodeTypeOK'
  OBVIOUS
<1>1. CASE Upgrade
  BY <1>1 DEF Upgrade, Failure, scanVars, CodeTypeOK, IndexOK, FoundOK, Paths, Rows
<1>2. CASE UNCHANGED codeVars
  BY <1>2 DEF codeVars, codeWorld, scanVars, codeBounds, CodeTypeOK, IndexOK, FoundOK, Paths, Rows
<1> QED
  BY <1>1, <1>2, TypesOfUsers, TypesOfScans, TypesOfWalks DEF CodeStep

-----------------------------------------------------------------------------
(* What a scan believes is true, or will be seen not to be.                *)

\* A complete row with the stat of its file, which was not saved under it
\* since, is true: of the text, and of where its edges lead, except to what was
\* away.
Sound(f, row, to) ==
  f \notin veiled /\ There(f) /\ ~row.gap /\ row.stat = disk[f].stat =>
    /\ row.text = disk[f].text /\ to \subseteq Wanted(f)
    /\ \A g \in Wanted(f) \ to : <<f, g>> \in apart

Targets(index, f) == {g \in Paths : <<f, g>> \in index.edges}

IndexTrue(index) == \A f \in DOMAIN index.rows : Sound(f, index.rows[f], Targets(index, f))

WalksTrue ==
  \A s \in Scanners, f \in Paths :
    found[s][f].at = "sent" => Sound(f, found[s][f].row, found[s][f].imports)

\* A file that is away, or not there for a walk, is apart from the others.
Away(g) == ~There(g) \/ \E s \in Scanners : Overlooked(s, g)

AwayIsApart == \A f, g \in Paths : f # g /\ Away(g) => <<f, g>> \in apart

\* What a walk has seen was indexed when it began, or is in its transaction.
SeenIsKept ==
  \A s \in Scanners, g \in Paths : found[s][g] = Seen =>
    g \in DOMAIN known[s] \/ (writer = s /\ g \in DOMAIN tx.rows)

\* A transaction takes nothing away before it commits.
Grows == writer # "none" => DOMAIN db.rows \subseteq DOMAIN tx.rows

Resting == \A s \in Scanners \ active : found[s] = NoneSeen

CodeInv ==
  /\ IndexTrue(db) /\ IndexTrue(tx) /\ WalksTrue
  /\ AwayIsApart /\ SeenIsKept /\ Grows /\ Resting

\* What is apart stays so until the file is written again; and then no row has
\* its stat, or the file is veiled: what was true of a file stays true.
LEMMA TruthStays ==
  CodeTypeOK /\ [CodeStep]_codeVars =>
    \A f \in Paths : \A row \in RowsOf(f) : \A to : Sound(f, row, to) => Sound(f, row, to)'
<1> SUFFICES ASSUME CodeTypeOK, [CodeStep]_codeVars,
                    NEW f \in Paths, NEW row \in RowsOf(f), NEW to, Sound(f, row, to)
             PROVE  Sound(f, row, to)'
  OBVIOUS
<1>1. CASE disk' = disk /\ apart \subseteq apart' /\ veiled' = veiled
  BY <1>1 DEF Sound, Wanted, There
<1>2. ASSUME NEW h \in Paths, h # f, disk'[f] = disk[f],
             veiled \ {h} = veiled' \ {h}, \A g : <<f, g>> \in apart => <<f, g>> \in apart'
      PROVE  Sound(f, row, to)'
  BY <1>2 DEF Sound, Wanted, There
<1>3. ASSUME NEW h \in Paths, NEW text, Write(h, text) PROVE Sound(f, row, to)'
  <2>1. CASE h = f
    <3>1. PICK stat \in Nat :
            /\ disk'[f].stat = stat
            /\ Held(f, stat) => f \in veiled'
      BY <1>3, <2>1 DEF Write, CodeTypeOK
    <3> QED BY <3>1 DEF Held, Sound
  <2>2. CASE h # f
    <3>1. disk'[f] = disk[f] /\ veiled \ {h} = veiled' \ {h} /\ \A g : <<f, g>> \in apart => <<f, g>> \in apart'
      BY <1>3, <2>2 DEF Write, CodeTypeOK
    <3> QED BY <1>2, <2>2, <3>1
  <2> QED BY <2>1, <2>2
<1>4. ASSUME NEW h \in Paths, Delete(h) PROVE Sound(f, row, to)'
  <2>1. CASE h = f
    BY <1>4, <2>1 DEF Delete, NoFile, Sound, There, CodeTypeOK
  <2>2. CASE h # f
    <3>1. disk'[f] = disk[f] /\ veiled \ {h} = veiled' \ {h} /\ \A g : <<f, g>> \in apart => <<f, g>> \in apart'
      BY <1>4, <2>2 DEF Delete, CodeTypeOK
    <3> QED BY <1>2, <2>2, <3>1
  <2> QED BY <2>1, <2>2
<1>5. CASE Users
  BY <1>3, <1>4, <1>5 DEF Users
<1>6. ASSUME NEW s \in Scanners, ScanBegins(s) \/ GivenUp(s) \/ Commit(s)
      PROVE  disk' = disk /\ apart \subseteq apart' /\ veiled' = veiled
  BY <1>6 DEF ScanBegins, GivenUp, Commit, codeWorld
<1>7. ASSUME NEW s \in Scanners, NEW g \in Paths, Visit(s, g) \/ Parse(s, g) \/ Drain(s, g) \/ ReadFails(s, g)
      PROVE  disk' = disk /\ apart \subseteq apart' /\ veiled' = veiled
  BY <1>7 DEF Visit, Parse, Drain, ReadFails, codeWorld
<1>8. CASE Upgrade \/ UNCHANGED codeVars
  BY <1>1, <1>8 DEF Upgrade, codeVars, codeWorld
<1> QED
  BY <1>1, <1>5, <1>6, <1>7, <1>8 DEF CodeStep

LEMMA IndexStaysTrue ==
  ASSUME CodeTypeOK, [CodeStep]_codeVars, NEW index, index \in {db, tx}, IndexTrue(index)
  PROVE  IndexTrue(index)'
<1>1. Paths' = Paths
  BY LoadStays
<1>2. \A f : Targets(index, f)' = Targets(index, f)
  BY <1>1 DEF Targets
<1>3. ASSUME NEW f \in DOMAIN index.rows PROVE Sound(f, index.rows[f], Targets(index, f))'
  <2>1. f \in Paths /\ index.rows[f] \in RowsOf(f) /\ Sound(f, index.rows[f], Targets(index, f))
    BY DEF IndexTrue, RowsOf, CodeTypeOK, IndexOK
  <2> DEFINE to == Targets(index, f)
  <2>2. to' = to
    BY <1>2
  <2>3. \A t : Sound(f, index.rows[f], t) => Sound(f, index.rows[f], t)'
    BY <2>1, TruthStays
  <2> QED BY <2>1, <2>2, <2>3 DEF Sound
<1> QED
  BY <1>3 DEF IndexTrue

\* Where the walks do nothing, they stay true.
LEMMA WalksStayTrue ==
  CodeTypeOK /\ WalksTrue /\ [CodeStep]_codeVars =>
    \A s \in Scanners, f \in Paths : found'[s][f] = found[s][f] /\ found'[s][f].at = "sent" =>
      Sound(f, found[s][f].row, found[s][f].imports)'
<1> SUFFICES ASSUME CodeTypeOK, WalksTrue, [CodeStep]_codeVars,
                    NEW s \in Scanners, NEW f \in Paths, found'[s][f] = found[s][f], found'[s][f].at = "sent"
             PROVE  Sound(f, found[s][f].row, found[s][f].imports)'
  OBVIOUS
<1>1. ASSUME NEW did, did = found[s][f]
      PROVE  Sound(f, did.row, did.imports)'
  <2>1. did.row \in RowsOf(f) /\ Sound(f, did.row, did.imports)
    BY <1>1 DEF RowsOf, WalksTrue
  <2> QED BY <2>1, TruthStays
<1> QED
  BY <1>1 DEF Sound

LEMMA UsersKeep == CodeTypeOK /\ CodeInv /\ Users => CodeInv'
<1> SUFFICES ASSUME CodeTypeOK, CodeInv, Users PROVE CodeInv'
  OBVIOUS
<1>0. CodeStep /\ Paths' = Paths
  BY LoadStays DEF CodeStep
<1>1. PICK h \in Paths : Delete(h) \/ \E text \in codeLoad.texts : Write(h, text)
  BY DEF Users
<1>2. UNCHANGED <<db, writer, tx, active, known, found>> /\ NoneSeen' = NoneSeen
  BY <1>0, <1>1 DEF Delete, Write, scanVars, NoneSeen
<1>3. IndexTrue(db)' /\ IndexTrue(tx)'
  BY <1>0, <1>2, IndexStaysTrue DEF CodeInv
<1>4. WalksTrue'
  BY <1>0, <1>2, WalksStayTrue DEF CodeInv, WalksTrue
<1>5. AwayIsApart'
  <2>1. ASSUME NEW f \in Paths, NEW g \in Paths, f # g, Away(g)' PROVE <<f, g>> \in apart'
    <3>1. \A s : Overlooked(s, g)' <=> Overlooked(s, g)
      BY <1>2 DEF Overlooked
    <3>2. CASE Delete(h)
      <4>1. g # h => There(g)' = There(g)
        BY <3>2 DEF Delete, There, CodeTypeOK
      <4> QED BY <2>1, <3>1, <3>2, <4>1 DEF CodeInv, AwayIsApart, Away, Delete
    <3>3. ASSUME NEW text, Write(h, text) PROVE <<f, g>> \in apart'
      <4>1. g # h => There(g)' = There(g)
        BY <3>3 DEF Write, There, CodeTypeOK
      <4>2. There(h)'
        BY <3>3 DEF Write, There, CodeTypeOK
      <4>3. Away(g)
        BY <2>1, <3>1, <4>1, <4>2 DEF Away
      <4>4. f = h => g \in Missing(h)
        BY <2>1, <4>3 DEF Missing, Away
      <4>5. <<f, g>> \in apart
        BY <2>1, <4>3 DEF CodeInv, AwayIsApart
      <4> QED BY <3>3, <4>4, <4>5 DEF Write
    <3> QED BY <1>1, <3>2, <3>3
  <2> QED BY <1>0, <2>1 DEF AwayIsApart
<1>6. SeenIsKept' /\ Grows' /\ Resting'
  BY <1>0, <1>2 DEF CodeInv, SeenIsKept, Grows, Resting
<1> QED
  BY <1>3, <1>4, <1>5, <1>6 DEF CodeInv

LEMMA BeginKeeps == ASSUME CodeTypeOK, CodeInv, NEW s \in Scanners, ScanBegins(s) PROVE CodeInv'
<1>0. CodeStep /\ Paths' = Paths
  BY LoadStays DEF CodeStep
<1>1. /\ UNCHANGED <<codeWorld, db, writer, tx, found>> /\ NoneSeen' = NoneSeen
      /\ s \notin active /\ active' = active \cup {s}
      /\ DOMAIN known'[s] \subseteq DOMAIN db.rows
      /\ \A t \in Scanners \ {s} : known'[t] = known[t]
  BY <1>0 DEF ScanBegins, NoneSeen, CodeTypeOK
<1>2. \A f \in Paths : found[s][f] = Idle
  BY <1>1 DEF CodeInv, Resting, NoneSeen
<1>3. IndexTrue(db)' /\ IndexTrue(tx)'
  BY <1>0, <1>1, IndexStaysTrue DEF CodeInv
<1>4. WalksTrue'
  BY <1>0, <1>1, WalksStayTrue DEF CodeInv, WalksTrue
<1>5. AwayIsApart'
  <2>1. \A g \in Paths : Away(g)' => Away(g)
    BY <1>1, <1>2 DEF Away, Overlooked, There, codeWorld, Idle, Absent
  <2> QED BY <1>0, <1>1, <2>1 DEF CodeInv, AwayIsApart, codeWorld
<1>6. SeenIsKept'
  BY <1>0, <1>1, <1>2 DEF CodeInv, SeenIsKept, Idle, Seen
<1>7. Grows' /\ Resting'
  BY <1>1 DEF CodeInv, Grows, Resting
<1> QED
  BY <1>3, <1>4, <1>5, <1>6, <1>7 DEF CodeInv

\* Everything a scan leaves behind when it is over, but the index.
LEMMA OverKeeps ==
  ASSUME CodeTypeOK, CodeInv, NEW s \in Scanners, CodeStep, Over(s), UNCHANGED codeWorld
  PROVE  /\ IndexTrue(tx)' /\ WalksTrue' /\ SeenIsKept' /\ Resting'
         /\ db' = db \/ writer' = "none" => Grows'
<1>0. Paths' = Paths /\ NoneSeen' = NoneSeen
  BY LoadStays DEF NoneSeen
<1>1. /\ \A t \in Scanners \ {s} : found'[t] = found[t] /\ known'[t] = known[t]
      /\ found'[s] = NoneSeen /\ active' = active \ {s}
      /\ \/ writer = s /\ writer' = "none" /\ tx' = EmptyDb
         \/ writer # s /\ writer' = writer /\ tx' = tx
  BY OverLeaves
<1>2. IndexTrue(tx)'
  <2>1. CASE tx' = tx
    BY <2>1, IndexStaysTrue DEF CodeInv
  <2>2. CASE tx' = EmptyDb
    BY <2>2, EmptyIndex DEF IndexTrue
  <2> QED BY <1>1, <2>1, <2>2
<1>3. WalksTrue'
  <2>1. \A t \in Scanners, f \in Paths : found'[t][f] = found[t][f] \/ found'[t][f] = Idle
    BY <1>1 DEF NoneSeen
  <2> QED BY <1>0, <2>1, WalksStayTrue DEF CodeInv, WalksTrue, Idle, Sound
<1>4. Resting'
  BY <1>0, <1>1 DEF CodeInv, Resting
<1>5. SeenIsKept'
  <2>1. ASSUME NEW t \in Scanners, NEW g \in Paths, found'[t][g] = Seen
        PROVE  g \in DOMAIN known'[t] \/ (writer' = t /\ g \in DOMAIN tx'.rows)
    <3>1. t # s
      BY <1>1, <2>1 DEF NoneSeen, Idle, Seen
    <3> QED BY <1>1, <2>1, <3>1 DEF CodeInv, SeenIsKept
  <2> QED BY <1>0, <2>1 DEF SeenIsKept
<1>6. db' = db \/ writer' = "none" => Grows'
  BY <1>1 DEF CodeInv, Grows
<1> QED
  BY <1>2, <1>3, <1>4, <1>5, <1>6

LEMMA GivenUpKeeps == ASSUME CodeTypeOK, CodeInv, NEW s \in Scanners, GivenUp(s) PROVE CodeInv'
<1>0. CodeStep /\ Paths' = Paths /\ Over(s) /\ UNCHANGED codeWorld /\ db' = db
  BY LoadStays DEF CodeStep, GivenUp
<1>1. IndexTrue(db)'
  BY <1>0, IndexStaysTrue DEF CodeInv
<1>2. AwayIsApart'
  <2>1. \A g \in Paths : Away(g)' => Away(g)
    BY <1>0, OverLeaves DEF Away, Overlooked, There, codeWorld, NoneSeen, Idle, Absent
  <2> QED BY <1>0, <2>1 DEF CodeInv, AwayIsApart, codeWorld
<1> QED
  BY <1>0, <1>1, <1>2, OverKeeps DEF CodeInv

\* What a commit drops was absent for its walk; what it never had although the
\* walk has seen it, another scan has removed.
LEMMA DroppedIsAway ==
  ASSUME CodeTypeOK, CodeInv, NEW s \in Scanners, Commit(s),
         NEW g \in Paths, ~(g \in DOMAIN Base(s).rows /\ found[s][g] = Seen)
  PROVE  Away(g)
<1>1. found[s][g] \in {Seen, Absent}
  BY DEF Commit
<1>2. CASE found[s][g] = Absent
  BY <1>2 DEF Away, Overlooked
<1>3. CASE found[s][g] = Seen
  <2>1. g \notin DOMAIN Base(s).rows
    BY <1>3
  <2>2. DOMAIN db.rows \subseteq DOMAIN Base(s).rows
    BY DEF CodeInv, Grows, Base, Scanners
  <2>3. g \in DOMAIN known[s]
    BY <1>3, <2>1 DEF CodeInv, SeenIsKept, Base
  <2> QED BY <2>1, <2>2, <2>3 DEF Away, Overlooked
<1> QED
  BY <1>1, <1>2, <1>3

LEMMA CommitKeeps == ASSUME CodeTypeOK, CodeInv, NEW s \in Scanners, Commit(s) PROVE CodeInv'
<1> DEFINE rows == Base(s).rows
           left == {f \in DOMAIN rows : found[s][f] = Seen}
<1>0. CodeStep /\ Paths' = Paths /\ Over(s) /\ UNCHANGED codeWorld /\ MayWrite(s)
  BY LoadStays DEF CodeStep, Commit
<1>1. db' = Ranked(Restrict(rows, left), Base(s).edges)
  BY DEF Commit
<1>2. IndexOK(Base(s)) /\ DOMAIN rows \subseteq Paths /\ IndexTrue(Base(s))
  BY BaseIsIndex DEF IndexOK, CodeInv
<1>3. /\ DOMAIN db'.rows = left /\ left \subseteq DOMAIN rows
      /\ \A f \in left : db'.rows[f] = rows[f]
      /\ \A f, g : <<f, g>> \in db'.edges <=> <<f, g>> \in Base(s).edges /\ f \in left /\ g \in left
  <2>1. left \subseteq DOMAIN rows
    OBVIOUS
  <2> HIDE DEF left, rows
  <2> QED BY <1>1, <2>1, RankedIndex DEF rows
<1>4. \A g \in Paths \ left : Away(g)
  BY DroppedIsAway
<1>5. IndexTrue(db)'
  <2>1. ASSUME NEW f \in left, NEW row, row = rows[f], NEW to, to = {g \in Paths : <<f, g>> \in db'.edges}
        PROVE  Sound(f, row, to)'
    <3>1. f \in Paths /\ row \in RowsOf(f) /\ Sound(f, row, Targets(Base(s), f))
      BY <1>2, <1>3, <2>1 DEF IndexTrue, Base, RowsOf
    <3>2. \A g \in Wanted(f) : g \in Paths /\ g # f
      BY <3>1 DEF Wanted, CodeTypeOK, CodeTexts
    <3>3. Sound(f, row, to)
      BY <1>3, <1>4, <2>1, <3>1, <3>2 DEF Sound, Targets, CodeInv, AwayIsApart
    <3> QED BY <1>0, <3>1, <3>3, TruthStays
  <2> QED BY <1>0, <1>3, <2>1 DEF IndexTrue, Targets, Sound
<1>6. AwayIsApart'
  <2>1. ASSUME NEW g \in Paths, Away(g)' PROVE Away(g)
    <3>1. CASE ~There(g)'
      BY <1>0, <3>1 DEF Away, There, codeWorld
    <3>2. ASSUME NEW t \in Scanners, Overlooked(t, g)' PROVE Away(g)
      <4>1. t # s
        BY <1>0, <2>1, <3>2, OverLeaves DEF Overlooked, NoneSeen, Idle, Absent
      <4>2. found'[t][g] = found[t][g] /\ known'[t] = known[t]
        BY <1>0, <4>1, OverLeaves
      <4>3. CASE found[t][g] = Absent
        BY <4>3 DEF Away, Overlooked
      <4>4. CASE found[t][g] # Absent
        BY <1>3, <1>4, <3>2, <4>2, <4>4 DEF Overlooked
      <4> QED BY <4>3, <4>4
    <3> QED BY <2>1, <3>1, <3>2 DEF Away
  <2> QED BY <1>0, <2>1 DEF CodeInv, AwayIsApart, codeWorld
<1>7. writer' = "none"
  BY <1>0, OverLeaves DEF MayWrite
<1> QED
  BY <1>0, <1>5, <1>6, <1>7, OverKeeps DEF CodeInv

LEMMA DrainKeeps ==
  ASSUME CodeTypeOK, CodeInv, NEW s \in Scanners, NEW f \in Paths, Drain(s, f) PROVE CodeInv'
<1>0. CodeStep /\ Paths' = Paths /\ NoneSeen' = NoneSeen
  BY LoadStays DEF CodeStep, NoneSeen
<1>1. /\ UNCHANGED <<codeWorld, db, active, known>>
      /\ s \in active /\ found[s][f].at = "sent" /\ MayWrite(s) /\ writer' = s
      /\ tx' = Drained(Base(s), f, found[s][f])
  BY DEF Drain, Drained
<1>2. \A t \in Scanners, g \in Paths : found'[t][g] = IF t = s /\ g = f THEN Seen ELSE found[t][g]
  BY OneFound, ZenonT(30) DEF Drain
<1>3. found[s][f].row \in Rows /\ found[s][f].imports \subseteq Paths
  BY <1>1 DEF CodeTypeOK, FoundOK, Idle, Seen, Absent
<1>4. /\ DOMAIN tx'.rows = {f} \cup DOMAIN Base(s).rows /\ tx'.rows[f] = found[s][f].row
      /\ \A g \in DOMAIN Base(s).rows \ {f} : tx'.rows[g] = Base(s).rows[g]
      /\ \A g \in Paths : <<f, g>> \in tx'.edges <=> g \in found[s][f].imports
      /\ \A h \in Paths \ {f}, g \in Paths : <<h, g>> \in tx'.edges <=> <<h, g>> \in Base(s).edges
  <2>1. IndexOK(Base(s))
    BY BaseIsIndex
  <2>2. Replaces(Base(s), f, found[s][f], tx')
    BY <1>1, <1>3, <2>1, DrainedIndex
  <2> QED BY <2>2 DEF Replaces
<1>5. IndexTrue(db)'
  BY <1>0, <1>1, IndexStaysTrue DEF CodeInv
<1>6. IndexTrue(tx)'
  <2>1. IndexTrue(Base(s)) /\ DOMAIN Base(s).rows \subseteq Paths
    BY BaseIsIndex DEF CodeInv, IndexOK
  <2>2. ASSUME NEW h \in DOMAIN tx'.rows
        PROVE  Sound(h, tx'.rows[h], {g \in Paths : <<h, g>> \in tx'.edges})
    <3>1. CASE h = f
      <4>1. {g \in Paths : <<h, g>> \in tx'.edges} = found[s][f].imports
        BY <1>3, <1>4, <3>1
      <4> QED BY <1>1, <1>4, <3>1, <4>1 DEF CodeInv, WalksTrue
    <3>2. CASE h # f
      <4>1. h \in DOMAIN Base(s).rows /\ h \in Paths
        BY <1>4, <2>1, <3>2
      <4>2. {g \in Paths : <<h, g>> \in tx'.edges} = Targets(Base(s), h)
        BY <1>4, <3>2, <4>1 DEF Targets
      <4> QED BY <1>4, <2>1, <3>2, <4>1, <4>2 DEF IndexTrue
    <3> QED BY <3>1, <3>2
  <2>3. disk' = disk /\ apart' = apart /\ veiled' = veiled
    BY <1>1 DEF codeWorld
  <2> QED BY <1>0, <2>2, <2>3 DEF IndexTrue, Targets, Sound, Wanted, There
<1>7. WalksTrue'
  <2>1. \A t \in Scanners, g \in Paths : found'[t][g] = found[t][g] \/ found'[t][g] = Seen
    BY <1>2
  <2> QED BY <1>0, <2>1, WalksStayTrue DEF CodeInv, WalksTrue, Seen, Sound
<1>8. AwayIsApart'
  <2>1. \A g \in Paths : Away(g)' => Away(g)
    BY <1>1, <1>2 DEF Away, Overlooked, There, codeWorld, Seen, Absent
  <2> QED BY <1>0, <1>1, <2>1 DEF CodeInv, AwayIsApart, codeWorld
<1>9. SeenIsKept'
  <2>1. ASSUME NEW t \in Scanners, NEW g \in Paths, found'[t][g] = Seen
        PROVE  g \in DOMAIN known[t] \/ (t = s /\ g \in DOMAIN tx'.rows)
    <3>1. CASE t = s /\ g = f
      BY <1>4, <3>1
    <3>2. CASE ~(t = s /\ g = f)
      <4>1. g \in DOMAIN known[t] \/ (writer = t /\ g \in DOMAIN tx.rows)
        BY <1>2, <2>1, <3>2 DEF CodeInv, SeenIsKept
      <4>2. "none" \notin Scanners
        BY DEF Scanners
      <4> QED BY <1>1, <1>4, <4>1, <4>2 DEF MayWrite, Base
    <3> QED BY <3>1, <3>2
  <2> QED BY <1>0, <1>1, <2>1 DEF SeenIsKept
<1>10. Grows'
  <2>1. DOMAIN db.rows \subseteq DOMAIN Base(s).rows
    BY DEF CodeInv, Grows, Base, Scanners
  <2> QED BY <1>1, <1>4, <2>1 DEF Grows
<1>11. Resting'
  <2>1. \A t \in Scanners \ {s} : found'[t] = found[t]
    BY DEF Drain, CodeTypeOK
  <2> QED BY <1>0, <1>1, <2>1 DEF CodeInv, Resting
<1> QED
  BY <1>5, <1>6, <1>7, <1>8, <1>9, <1>10, <1>11 DEF CodeInv

LEMMA WalksKeep ==
  ASSUME CodeTypeOK, CodeInv, NEW s \in Scanners, NEW f \in Paths,
         Visit(s, f) \/ Parse(s, f) \/ ReadFails(s, f)
  PROVE  CodeInv'
<1>0. CodeStep /\ Paths' = Paths /\ NoneSeen' = NoneSeen
  BY LoadStays DEF CodeStep, NoneSeen
<1>1. UNCHANGED <<disk, veiled, db, writer, tx, active, known>> /\ apart \subseteq apart' /\ s \in active
  BY DEF Visit, Parse, ReadFails, codeWorld
<1>2. PICK did : found' = [found EXCEPT ![s][f] = did]
  BY DEF Visit, Parse, ReadFails
<1>3. \A t \in Scanners, g \in Paths : found'[t][g] = IF t = s /\ g = f THEN did ELSE found[t][g]
  BY <1>2, OneFound, ZenonT(30)
<1>4. found'[s][f] = did
  BY <1>3
<1>5. did = Absent => \A h \in Paths \ {f} : <<h, f>> \in apart'
  <2>1. CASE ReadFails(s, f)
    BY <2>1 DEF ReadFails
  <2>2. CASE Visit(s, f) \/ Parse(s, f)
    <3>1. did = Absent => ~There(f)
      BY <1>4, <2>2, OneFound DEF Visit, Parse, Absent, Seen
    <3> QED BY <1>1, <3>1 DEF CodeInv, AwayIsApart, Away
  <2> QED BY <2>1, <2>2
<1>6. did = Seen => f \in DOMAIN known[s]
  BY <1>4, OneFound DEF Visit, Parse, ReadFails, Absent, Seen
<1>7. did.at = "sent" => Sound(f, did.row, did.imports)
  <2>1. CASE Visit(s, f) \/ ReadFails(s, f)
    BY <1>4, <2>1, OneFound DEF Visit, ReadFails, Absent, Seen
  <2>2. ASSUME Parse(s, f), did.at = "sent" PROVE Sound(f, did.row, did.imports)
    <3>1. did.row.text = disk[f].text /\ did.imports = Resolved(f)
      BY <1>4, <2>2, OneFound DEF Parse, Absent
    <3>2. \A g \in Wanted(f) : g \in Paths /\ g # f
      BY DEF Wanted, CodeTypeOK, CodeTexts
    <3>3. \A g \in Wanted(f) \ Resolved(f) : <<f, g>> \in apart
      BY <3>2 DEF Resolved, Wanted, CodeInv, AwayIsApart, Away
    <3> QED BY <3>1, <3>3 DEF Sound, Resolved, Wanted
  <2> QED BY <2>1, <2>2
<1>8. did.at = "sent" => Sound(f, did.row, did.imports)'
  BY <1>1, <1>7 DEF Sound, Wanted, There
<1>9. IndexTrue(db)' /\ IndexTrue(tx)'
  BY <1>0, <1>1, IndexStaysTrue DEF CodeInv
<1>10. WalksTrue'
  <2>1. ASSUME NEW t \in Scanners, NEW g \in Paths, NEW new, new = found'[t][g], new.at = "sent"
        PROVE  Sound(g, new.row, new.imports)'
    <3>1. CASE t = s /\ g = f
      BY <1>3, <1>8, <2>1, <3>1
    <3>2. CASE ~(t = s /\ g = f)
      <4>1. new = found[t][g] /\ new.row \in RowsOf(g) /\ Sound(g, new.row, new.imports)
        BY <1>3, <2>1, <3>2 DEF CodeInv, WalksTrue, RowsOf
      <4> QED BY <1>0, <4>1, TruthStays
    <3> QED BY <3>1, <3>2
  <2> QED BY <1>0, <2>1 DEF WalksTrue, Sound
<1>11. AwayIsApart'
  <2>1. ASSUME NEW g \in Paths, Away(g)' PROVE Away(g) \/ (g = f /\ did = Absent)
    BY <1>1, <1>3, <2>1 DEF Away, Overlooked, There
  <2> QED BY <1>0, <1>1, <1>5, <2>1 DEF CodeInv, AwayIsApart
<1>12. SeenIsKept'
  BY <1>0, <1>1, <1>3, <1>6 DEF CodeInv, SeenIsKept
<1>13. Grows'
  BY <1>1 DEF CodeInv, Grows
<1>14. Resting'
  <2>1. \A t \in Scanners \ {s} : found'[t] = found[t]
    BY <1>2 DEF CodeTypeOK
  <2> QED BY <1>0, <1>1, <2>1 DEF CodeInv, Resting
<1> QED
  BY <1>9, <1>10, <1>11, <1>12, <1>13, <1>14 DEF CodeInv

LEMMA CodeInvKept == CodeTypeOK /\ CodeInv /\ [CodeStep]_codeVars => CodeInv'
<1> SUFFICES ASSUME CodeTypeOK, CodeInv, [CodeStep]_codeVars PROVE CodeInv'
  OBVIOUS
<1>1. CASE Upgrade \/ UNCHANGED codeVars
  <2>1. UNCHANGED <<disk, apart, veiled, db, writer, tx, active, known, found, codeLoad>>
    BY <1>1 DEF Upgrade, codeVars, codeWorld, scanVars, codeBounds
  <2> QED
    BY <2>1 DEF CodeInv, IndexTrue, WalksTrue, AwayIsApart, SeenIsKept, Grows, Resting, Paths,
                Sound, Wanted, Targets, Away, There, Overlooked, NoneSeen
<1>2. ASSUME NEW s \in Scanners, NEW f \in Paths, Visit(s, f) \/ Parse(s, f) \/ Drain(s, f) \/ ReadFails(s, f)
      PROVE  CodeInv'
  BY <1>2, WalksKeep, DrainKeeps
<1>3. ASSUME NEW s \in Scanners, ScanBegins(s) \/ GivenUp(s) \/ Commit(s) PROVE CodeInv'
  BY <1>3, BeginKeeps, GivenUpKeeps, CommitKeeps
<1> QED
  BY <1>1, <1>2, <1>3, UsersKeep DEF CodeStep

LEMMA CodeInvInit == BackInit => CodeInv
<1> SUFFICES ASSUME CodeInit PROVE CodeInv
  BY DEF BackInit
<1>1. PICK tree \in codeLoad.trees :
        /\ disk = [f \in Paths |-> IF f \in DOMAIN tree THEN [text |-> tree[f], stat |-> 1] ELSE NoFile]
        /\ apart = Paths \X (Paths \ DOMAIN tree)
        /\ db = IF codeLoad.built THEN Built(tree) ELSE EmptyDb
  BY DEF CodeInit
<1>2. DOMAIN tree \subseteq Paths /\ \A f \in DOMAIN tree : tree[f] \in CodeTexts(Paths)
  BY CodeAssumption DEF CodeInit, Paths
<1>3. \A f \in Paths : There(f) <=> f \in DOMAIN tree
  BY <1>1 DEF There, NoFile
<1>6. IndexTrue(EmptyDb)
  BY EmptyIndex DEF IndexTrue
<1>7. IndexTrue(Built(tree))
  <2> DEFINE rows  == [f \in DOMAIN tree |-> [text |-> tree[f], stat |-> 1, gap |-> tree[f].hard]]
             edges == {e \in (DOMAIN tree) \X (DOMAIN tree) : e[2] \in tree[e[1]].imports \ {e[1]}}
  <2>1. Built(tree).rows = rows /\ Built(tree).edges = Joined(DOMAIN rows, edges)
    BY DEF Built, Ranked
  <2>2. ASSUME NEW f \in DOMAIN tree PROVE Sound(f, rows[f], Targets(Built(tree), f))
    <3>1. Targets(Built(tree), f) = {g \in DOMAIN tree : g \in tree[f].imports \ {f}}
      BY <1>2, <2>1 DEF Targets, Joined
    <3>2. disk[f].text = tree[f] /\ Wanted(f) = tree[f].imports \ {f} /\ Wanted(f) \subseteq Paths
      BY <1>1, <1>2 DEF Wanted, CodeTexts
    <3>3. \A g \in Wanted(f) \ DOMAIN tree : <<f, g>> \in apart
      BY <1>1, <1>2, <3>2
    <3> HIDE DEF edges
    <3> QED BY <3>1, <3>2, <3>3 DEF Sound
  <2> QED BY <2>1, <2>2 DEF IndexTrue
<1>8. \A s \in Scanners : found[s] = NoneSeen /\ DOMAIN known[s] = {}
  BY DEF CodeInit
<1>9. WalksTrue /\ SeenIsKept /\ Resting
  BY <1>8 DEF WalksTrue, SeenIsKept, Resting, NoneSeen, Idle, Seen
<1>10. AwayIsApart
  BY <1>1, <1>3, <1>8 DEF AwayIsApart, Away, Overlooked, NoneSeen, Idle, Absent
<1> QED
  BY <1>1, <1>6, <1>7, <1>9, <1>10 DEF CodeInit, CodeInv, Grows

-----------------------------------------------------------------------------
(* Induction up to a number, by the least at which something fails, and    *)
(* what a function is that is defined from its value before.               *)

LEMMA Least ==
  ASSUME NEW N, N \subseteq Nat, N # {}
  PROVE  \E n \in N : \A i \in N : n <= i
<1>1. PICK n \in N : \A i \in N : <<i, n>> \notin OpToRel(<, Nat)
  BY NatLessThanWellFounded, WFMin
<1>2. \A i \in N : ~(i < n)
  BY <1>1 DEF OpToRel
<1> QED BY <1>2

LEMMA Climb ==
  ASSUME NEW N \in Nat, NEW S, 0 \in S, \A i \in 1..N : i - 1 \in S => i \in S
  PROVE  \A i \in 0..N : i \in S
<1> DEFINE Out == {i \in 0..N : i \notin S}
<1> SUFFICES ASSUME Out # {} PROVE FALSE
  OBVIOUS
<1>1. Out \subseteq Nat
  OBVIOUS
<1>2. PICK i \in Out : \A x \in Out : i <= x
  <2> HIDE DEF Out
  <2> QED BY <1>1, Least
<1>3. i \in 1..N /\ i - 1 \in 0..N
  BY <1>2
<1>4. i - 1 \notin Out
  BY <1>2, <1>3
<1> QED BY <1>2, <1>3, <1>4

Iterate(N, a, F, t) ==
  DOMAIN t = 0..N /\ t[0] = a /\ \A i \in 1..N : t[i] = F[i][t[i - 1]]

Defined(N, a, F, t) ==
  Iterate(N, a, F, t) /\ t = [i \in 0..N |-> IF i = 0 THEN a ELSE F[i][t[i - 1]]]

LEMMA Iterates ==
  ASSUME NEW N \in Nat, NEW a, NEW F
  PROVE  \E t : Defined(N, a, F, t)
<1> DEFINE Good == {i \in 0..N : \E t : Iterate(i, a, F, t)}
<1>1. 0 \in Good
  <2>1. Iterate(0, a, F, [i \in 0..0 |-> a])
    BY DEF Iterate
  <2> QED BY <2>1
<1>2. ASSUME NEW i \in 1..N, i - 1 \in Good PROVE i \in Good
  <2>1. PICK t : Iterate(i - 1, a, F, t)
    BY <1>2
  <2> DEFINE u == [x \in 0..i |-> IF x = i THEN F[i][t[i - 1]] ELSE t[x]]
  <2>2. u[0] = a /\ u[i] = F[i][u[i - 1]]
    <3>1. u[0] = t[0] /\ u[i] = F[i][t[i - 1]] /\ u[i - 1] = t[i - 1]
      OBVIOUS
    <3> HIDE DEF u
    <3> QED BY <2>1, <3>1 DEF Iterate
  <2>3. ASSUME NEW x \in 1..i, x # i PROVE u[x] = F[x][u[x - 1]]
    <3>1. x \in 1..(i - 1) /\ u[x] = t[x] /\ u[x - 1] = t[x - 1]
      BY <2>3
    <3> HIDE DEF u
    <3> QED BY <2>1, <3>1 DEF Iterate
  <2>4. Iterate(i, a, F, u)
    <3>1. DOMAIN u = 0..i
      OBVIOUS
    <3> HIDE DEF u
    <3> QED BY <2>2, <2>3, <3>1 DEF Iterate
  <2> QED BY <2>4
<1>3. N \in Good
  <2> HIDE DEF Good
  <2> QED BY <1>1, <1>2, Climb
<1>4. PICK t : Iterate(N, a, F, t)
  BY <1>3
<1> DEFINE u == [i \in 0..N |-> IF i = 0 THEN a ELSE F[i][t[i - 1]]]
<1>5. DOMAIN u = 0..N /\ \A i \in 0..N : u[i] = t[i]
  BY <1>4 DEF Iterate
<1>6. u = [i \in 0..N |-> IF i = 0 THEN a ELSE F[i][u[i - 1]]]
  <2>1. \A i \in 0..N : i # 0 => u[i - 1] = t[i - 1]
    <3> HIDE DEF u
    <3> QED BY <1>5
  <2>2. \A i \in 0..N : (IF i = 0 THEN a ELSE F[i][t[i - 1]]) = (IF i = 0 THEN a ELSE F[i][u[i - 1]])
    <3> HIDE DEF u
    <3> QED BY <2>1
  <2> DEFINE v == [i \in 0..N |-> IF i = 0 THEN a ELSE F[i][u[i - 1]]]
  <2>3. u = v
    BY <2>2
  <2> QED BY <2>3
<1>7. Iterate(N, a, F, u)
  <2>1. u[0] = a /\ \A i \in 1..N : u[i] = t[i] /\ u[i - 1] = t[i - 1]
    <3> HIDE DEF u
    <3> QED BY <1>4, <1>5 DEF Iterate
  <2> HIDE DEF u
  <2> QED BY <1>4, <1>5, <2>1 DEF Iterate
<1> QED BY <1>6, <1>7 DEF Defined

LEMMA IteratesIn ==
  ASSUME NEW N \in Nat, NEW S, NEW a \in S, NEW F \in [1..N -> [S -> S]],
         NEW t, Iterate(N, a, F, t)
  PROVE  \A i \in 0..N : t[i] \in S
<1> DEFINE Good == {i \in 0..N : t[i] \in S}
<1>1. 0 \in Good /\ \A i \in 1..N : i - 1 \in Good => i \in Good
  BY DEF Iterate
<1> HIDE DEF Good
<1>2. \A i \in 0..N : i \in Good
  BY <1>1, Climb
<1> QED BY <1>2 DEF Good

-----------------------------------------------------------------------------
(* A finite set has its order.                                             *)

Orders(S, before) ==
  /\ \A x \in S : <<x, x>> \notin before
  /\ \A x, y \in S : x = y \/ <<x, y>> \in before \/ <<y, x>> \in before
  /\ \A x, y, z \in S : <<x, y>> \in before /\ <<y, z>> \in before => <<x, z>> \in before

InOrder(S, before, seq) ==
  /\ seq \in [1..Cardinality(S) -> S]
  /\ \A i, j \in 1..Cardinality(S) : i < j => <<seq[i], seq[j]>> \in before

LEMMA OrderExists ==
  ASSUME NEW S, IsFiniteSet(S), NEW before, Orders(S, before)
  PROVE  \E seq : InOrder(S, before, seq)
<1> DEFINE Upto(x) == {y \in S : y = x \/ <<y, x>> \in before}
           rank    == [x \in S |-> Cardinality(Upto(x))]
           N       == Cardinality(S)
<1>1. N \in Nat
  BY FS_CardinalityType
<1>2. ASSUME NEW x \in S PROVE IsFiniteSet(Upto(x)) /\ Cardinality(Upto(x)) \in 1..N
  <2>1. Upto(x) \subseteq S /\ x \in Upto(x)
    OBVIOUS
  <2>2. IsFiniteSet(Upto(x)) /\ Cardinality(Upto(x)) <= N /\ Cardinality(Upto(x)) # 0
    BY <2>1, FS_Subset, FS_EmptySet
  <2>3. Cardinality(Upto(x)) \in Nat
    BY <2>2, FS_CardinalityType
  <2> QED BY <1>1, <2>2, <2>3
<1>3. ASSUME NEW x \in S, NEW y \in S, <<x, y>> \in before PROVE rank[x] < rank[y]
  <2>1. Upto(x) \subseteq Upto(y) /\ y \in Upto(y) /\ y \notin Upto(x)
    BY <1>3 DEF Orders
  <2>2. Cardinality(Upto(x)) <= Cardinality(Upto(y)) /\ Cardinality(Upto(x)) # Cardinality(Upto(y))
    BY <2>1, <1>2, FS_Subset
  <2>3. Cardinality(Upto(x)) \in Nat /\ Cardinality(Upto(y)) \in Nat
    BY <1>2
  <2> HIDE DEF Upto
  <2> QED BY <2>2, <2>3
<1>4. rank \in [S -> 1..N]
  BY <1>2
<1> HIDE DEF rank, Upto
<1>5. rank \in Injection(S, 1..N)
  <2>1. ASSUME NEW x \in S, NEW y \in S, rank[x] = rank[y] PROVE x = y
    <3>1. rank[x] \in Nat /\ ~(rank[x] < rank[y]) /\ ~(rank[y] < rank[x])
      BY <1>1, <1>4, <2>1
    <3> QED BY <1>3, <3>1 DEF Orders
  <2> QED BY <1>4, <2>1 DEF Injection, IsInjective
<1>6. rank \in Surjection(S, 1..N)
  <2>1. IsFiniteSet(1..N) /\ Cardinality(1..N) = N
    BY <1>1, FS_Interval
  <2> QED BY <1>5, <2>1, FS_Injection
<1> DEFINE seq == [i \in 1..N |-> CHOOSE x \in S : rank[x] = i]
<1>7. \A i \in 1..N : seq[i] \in S /\ rank[seq[i]] = i
  BY <1>6 DEF Surjection
<1>8. ASSUME NEW i \in 1..N, NEW j \in 1..N, i < j PROVE <<seq[i], seq[j]>> \in before
  <2> HIDE DEF seq
  <2>1. i \in Nat /\ j \in Nat /\ ~(j < i) /\ i # j
    BY <1>1, <1>8
  <2>2. ~(rank[seq[j]] < rank[seq[i]]) /\ seq[i] # seq[j]
    BY <1>7, <2>1
  <2> QED BY <1>3, <1>7, <2>2 DEF Orders
<1> QED BY <1>7, <1>8 DEF InOrder

LEMMA SortedIs ==
  ASSUME NEW S, IsFiniteSet(S), NEW before, Orders(S, before)
  PROVE  /\ InOrder(S, before, Sorted(S, before))
         /\ \A x \in S : \E i \in 1..Cardinality(S) : Sorted(S, before)[i] = x
<1> DEFINE seq == Sorted(S, before)
           N   == Cardinality(S)
<1>1. InOrder(S, before, seq)
  <2>1. PICK s : InOrder(S, before, s)
    BY OrderExists
  <2>2. DOMAIN s = 1..N
    BY <2>1 DEF InOrder
  <2>3. seq \in [1..N -> S] /\ \A i, j \in DOMAIN seq : i < j => <<seq[i], seq[j]>> \in before
    BY <2>1, <2>2 DEF InOrder, Sorted
  <2>4. DOMAIN seq = 1..N
    BY <2>3
  <2> HIDE DEF seq
  <2> QED BY <2>3, <2>4 DEF InOrder
<1>2. N \in Nat
  BY FS_CardinalityType
<1> HIDE DEF seq
<1>3. seq \in Injection(1..N, S)
  <2>1. ASSUME NEW i \in 1..N, NEW j \in 1..N, i # j PROVE seq[i] # seq[j]
    <3>1. CASE i < j
      BY <1>1, <3>1 DEF InOrder, Orders
    <3>2. CASE j < i
      BY <1>1, <3>2 DEF InOrder, Orders
    <3> QED BY <1>2, <2>1, <3>1, <3>2
  <2> QED BY <1>1, <2>1 DEF InOrder, Injection, IsInjective
<1>4. seq \in Surjection(1..N, S)
  <2>1. Cardinality(1..N) = N
    BY <1>2, FS_Interval
  <2> QED BY <1>3, <2>1, FS_Injection
<1> QED BY <1>1, <1>4 DEF Surjection, seq

-----------------------------------------------------------------------------
(* A search turn by turn.                                                  *)

Searchable(graph, next, start, depth) ==
  /\ IsFiniteSet(graph.files) /\ graph.files \subseteq Nat
  /\ next \in [graph.files -> SUBSET graph.files]
  /\ start \in graph.files /\ depth \in Nat

States(graph) ==
  [queue : Seq(graph.files), depth : [graph.files -> Nat \cup {Far}],
   hop : [graph.files -> graph.files \cup {NoHop}]]

LEMMA Ascends ==
  ASSUME NEW S, IsFiniteSet(S), S \subseteq Nat
  PROVE  /\ Ascending(S) \in Seq(S) /\ Len(Ascending(S)) \in Nat
         /\ \A i, j \in 1..Len(Ascending(S)) : i < j => Ascending(S)[i] < Ascending(S)[j]
         /\ \A x \in S : \E i \in 1..Len(Ascending(S)) : Ascending(S)[i] = x
<1> DEFINE before == {pair \in S \X S : pair[1] < pair[2]}
           seq    == Sorted(S, before)
<1>1. Orders(S, before)
  BY DEF Orders
<1>2. InOrder(S, before, seq) /\ \A x \in S : \E i \in 1..Cardinality(S) : seq[i] = x
  <2> HIDE DEF before
  <2> QED BY <1>1, SortedIs
<1>3. Cardinality(S) \in Nat
  BY FS_CardinalityType
<1>4. Ascending(S) = seq
  BY DEF Ascending
<1> HIDE DEF seq
<1>5. seq \in [1..Cardinality(S) -> S]
  BY <1>2 DEF InOrder
<1>6. seq \in Seq(S) /\ Len(seq) = Cardinality(S)
  BY <1>3, <1>5
<1>7. \A i, j \in 1..Len(seq) : i < j => seq[i] < seq[j]
  BY <1>2, <1>6 DEF InOrder
<1> QED BY <1>2, <1>3, <1>4, <1>6, <1>7

LEMMA WiderSeq ==
  ASSUME NEW S, NEW T, S \subseteq T, NEW seq \in Seq(S)
  PROVE  seq \in Seq(T)
OBVIOUS

\* What a turn leaves as it was, and what it adds.
Fresh(s, i, next) == {n \in next[s.queue[i]] : s.depth[n] = Far}

Adds(graph, next, s, i, u, more) ==
  /\ u \in States(graph)
  /\ more \in Seq(Fresh(s, i, next)) /\ Len(more) \in Nat
  /\ u.queue = s.queue \o more /\ Len(u.queue) = Len(s.queue) + Len(more)
  /\ \A a \in 1..Len(s.queue) : u.queue[a] = s.queue[a]
  /\ \A a \in 1..Len(more) : u.queue[Len(s.queue) + a] = more[a] /\ more[a] \in Fresh(s, i, next)
  /\ \A a, b \in 1..Len(more) : a < b => more[a] < more[b]
  /\ \A n \in Fresh(s, i, next) : \E a \in 1..Len(more) : more[a] = n
  /\ \A n \in graph.files :
       /\ u.depth[n] = IF n \in Fresh(s, i, next) THEN s.depth[s.queue[i]] + 1 ELSE s.depth[n]
       /\ u.hop[n] = IF n \in Fresh(s, i, next) THEN s.queue[i] ELSE s.hop[n]

LEMMA TurnIs ==
  ASSUME NEW graph, NEW next, NEW start, NEW depth, Searchable(graph, next, start, depth),
         NEW s \in States(graph), NEW i \in DOMAIN s.queue,
         NEW u, u = Turn(s, i, next[s.queue[i]])
  PROVE  Adds(graph, next, s, i, u, Ascending(Fresh(s, i, next)))
<1> DEFINE fresh == Fresh(s, i, next)
           more  == Ascending(fresh)
<1>1. s.queue \in Seq(graph.files) /\ s.queue[i] \in graph.files
      /\ DOMAIN s.depth = graph.files /\ DOMAIN s.hop = graph.files
  BY DEF States
<1>2. fresh \subseteq graph.files /\ IsFiniteSet(fresh) /\ fresh \subseteq Nat
  <2>1. fresh \subseteq graph.files
    BY <1>1 DEF Searchable, Fresh
  <2> QED BY <2>1, FS_Subset DEF Searchable
<1>3. u = [queue |-> s.queue \o more,
           depth |-> [n \in graph.files |-> IF n \in fresh THEN s.depth[s.queue[i]] + 1 ELSE s.depth[n]],
           hop   |-> [n \in graph.files |-> IF n \in fresh THEN s.queue[i] ELSE s.hop[n]]]
  BY <1>1 DEF Turn, Fresh
<1> HIDE DEF more
<1>4. /\ more \in Seq(fresh) /\ Len(more) \in Nat
      /\ \A a, b \in 1..Len(more) : a < b => more[a] < more[b]
      /\ \A n \in fresh : \E a \in 1..Len(more) : more[a] = n
  BY <1>2, Ascends DEF more
<1> HIDE DEF fresh
<1>5. more \in Seq(graph.files)
  BY <1>2, <1>4, WiderSeq
<1>6. u.queue = s.queue \o more /\ u.queue \in Seq(graph.files) /\ Len(u.queue) = Len(s.queue) + Len(more)
  <2>1. u.queue = s.queue \o more
    BY <1>3
  <2>2. s.queue \o more \in Seq(graph.files) /\ Len(s.queue \o more) = Len(s.queue) + Len(more)
    BY <1>1, <1>5, ConcatProperties
  <2> QED BY <2>1, <2>2
<1>7. \A a \in 1..Len(s.queue) : u.queue[a] = s.queue[a]
  BY <1>1, <1>6, <1>5
<1>8. \A a \in 1..Len(more) : u.queue[Len(s.queue) + a] = more[a] /\ more[a] \in fresh
  <2> TAKE a \in 1..Len(more)
  <2>1. (s.queue \o more)[Len(s.queue) + a] = more[a]
    BY <1>1, <1>5
  <2> QED BY <1>4, <1>6, <2>1
<1>9. s.depth[s.queue[i]] \in Nat \cup {Far} /\ s.depth[s.queue[i]] + 1 \in Nat
  BY <1>1 DEF States, Far
<1>10. u \in States(graph)
  BY <1>1, <1>3, <1>6, <1>9 DEF States
<1>11. \A n \in graph.files :
         /\ u.depth[n] = IF n \in fresh THEN s.depth[s.queue[i]] + 1 ELSE s.depth[n]
         /\ u.hop[n] = IF n \in fresh THEN s.queue[i] ELSE s.hop[n]
  BY <1>3
<1> QED BY <1>4, <1>6, <1>7, <1>8, <1>10, <1>11 DEF Adds, more, fresh

LEMMA TurnedType ==
  ASSUME NEW graph, NEW next, NEW start, NEW stop, NEW depth, Searchable(graph, next, start, depth),
         NEW s \in States(graph), NEW i \in Nat
  PROVE  Turned(s, i, next, stop, depth) \in States(graph)
BY TurnIs DEF Turned, Adds

LEMMA TurnsAre ==
  ASSUME NEW graph, NEW next, NEW start, NEW stop, NEW depth, Searchable(graph, next, start, depth),
         NEW turns, turns = Turns(graph, next, start, stop, depth)
  PROVE  /\ turns[0] = AtStart(graph, start)
         /\ \A i \in 1..Cardinality(graph.files) :
              turns[i] = Turned(turns[i - 1], i, next, stop, depth)
<1> DEFINE N == Cardinality(graph.files)
           S == States(graph)
           F == [i \in 1..N |-> [s \in S |-> Turned(s, i, next, stop, depth)]]
           R(t) == t = [i \in 0..N |-> IF i = 0 THEN AtStart(graph, start)
                                       ELSE Turned(t[i - 1], i, next, stop, depth)]
<1>1. N \in Nat
  BY FS_CardinalityType DEF Searchable
<1>2. AtStart(graph, start) \in S
  <2>1. start \in graph.files
    BY DEF Searchable
  <2>4. <<start>> \in Seq(graph.files)
    <3> DEFINE files == graph.files
    <3>1. start \in files
      BY <2>1
    <3> HIDE DEF files
    <3>2. <<start>> \in Seq(files)
      BY <3>1
    <3> QED BY <3>2 DEF files
  <2>2. [n \in graph.files |-> IF n = start THEN 0 ELSE Far] \in [graph.files -> Nat \cup {Far}]
    OBVIOUS
  <2>3. [n \in graph.files |-> NoHop] \in [graph.files -> graph.files \cup {NoHop}]
    OBVIOUS
  <2> QED BY <2>2, <2>3, <2>4 DEF AtStart, States
<1>3. F \in [1..N -> [S -> S]]
  BY TurnedType
<1>4. PICK t : Defined(N, AtStart(graph, start), F, t)
  <2> HIDE DEF N, F
  <2> QED BY <1>1, Iterates
<1>5. \A i \in 0..N : t[i] \in S
  <2> HIDE DEF S, N, F
  <2> QED BY <1>1, <1>2, <1>3, <1>4, IteratesIn DEF Defined
<1>6. R(t)
  <2>1. \A i \in 1..N : F[i][t[i - 1]] = Turned(t[i - 1], i, next, stop, depth)
    BY <1>1, <1>5
  <2> HIDE DEF N, F
  <2>2. \A i \in 0..N : (IF i = 0 THEN AtStart(graph, start) ELSE F[i][t[i - 1]])
                         = (IF i = 0 THEN AtStart(graph, start) ELSE Turned(t[i - 1], i, next, stop, depth))
    BY <1>1, <2>1
  <2> QED BY <1>4, <2>2 DEF Defined
<1>7. turns = CHOOSE x : R(x)
  BY DEF Turns
<1>8. R(turns)
  <2> HIDE DEF R
  <2> QED BY <1>6, <1>7
<1> QED BY <1>1, <1>8

\* The search after turn i.  par tells at which place of the queue the hop of
\* a place is.  The queue holds each reached file once,
Places(graph, start, s, par) ==
  /\ s \in States(graph) /\ par \in [DOMAIN s.queue -> Nat]
  /\ 1 \in DOMAIN s.queue /\ s.queue[1] = start /\ s.depth[start] = 0 /\ par[1] = 0
  /\ \A a, b \in DOMAIN s.queue : a # b => s.queue[a] # s.queue[b]
  /\ \A n \in graph.files : s.depth[n] # Far <=> \E a \in DOMAIN s.queue : s.queue[a] = n

\* a hop is a neighbour one step nearer, at an earlier place,
Hops(next, stop, depth, i, s, par) ==
  \A a \in DOMAIN s.queue \ {1} :
    /\ par[a] \in 1..(a - 1) /\ par[a] <= i
    /\ s.hop[s.queue[a]] = s.queue[par[a]]
    /\ s.queue[a] \in next[s.queue[par[a]]]
    /\ s.queue[par[a]] # stop /\ s.depth[s.queue[par[a]]] < depth
    /\ s.depth[s.queue[a]] = s.depth[s.queue[par[a]]] + 1

\* files come by the places of their hops, and by their paths where these are
\* the same, and so they come nearest first,
Lined(s, par) ==
  /\ \A a, b \in DOMAIN s.queue : a < b =>
       /\ par[a] <= par[b] /\ (par[a] = par[b] => s.queue[a] < s.queue[b])
       /\ s.depth[s.queue[a]] <= s.depth[s.queue[b]]
  /\ \A a \in DOMAIN s.queue : s.depth[s.queue[a]] \in 0..(a - 1)

\* and where the search went on, all neighbours were reached by then.
Gone(next, stop, depth, i, s, par) ==
  \A a \in DOMAIN s.queue :
    a <= i /\ s.queue[a] # stop /\ s.depth[s.queue[a]] < depth =>
      \A n \in next[s.queue[a]] : \E b \in DOMAIN s.queue : s.queue[b] = n /\ par[b] <= a

Queued(graph, next, start, stop, depth, i, s, par) ==
  /\ Places(graph, start, s, par) /\ Hops(next, stop, depth, i, s, par)
  /\ Lined(s, par) /\ Gone(next, stop, depth, i, s, par)

LEMMA StartIsQueued ==
  ASSUME NEW graph, NEW next, NEW start, NEW stop, NEW depth, Searchable(graph, next, start, depth)
  PROVE  Queued(graph, next, start, stop, depth, 0, AtStart(graph, start), [a \in 1..1 |-> 0])
<1> DEFINE s   == AtStart(graph, start)
           par == [a \in 1..1 |-> 0]
           files == graph.files
<1>1. start \in files
  BY DEF Searchable
<1>2. /\ s.queue = <<start>> /\ s.hop = [n \in files |-> NoHop]
      /\ s.depth = [n \in files |-> IF n = start THEN 0 ELSE Far]
      /\ s = [queue |-> s.queue, depth |-> s.depth, hop |-> s.hop]
  BY DEF AtStart
<1> HIDE DEF s
<1>3. s.queue \in Seq(files) /\ DOMAIN s.queue = 1..1 /\ s.queue[1] = start
  <2> HIDE DEF files
  <2> QED BY <1>1, <1>2
<1>4. s \in States(graph)
  <2>1. s.depth \in [files -> Nat \cup {Far}] /\ s.hop \in [files -> files \cup {NoHop}]
    BY <1>2
  <2> QED BY <1>2, <1>3, <2>1 DEF States
<1>5. \A n \in files : s.depth[n] # Far <=> n = start
  BY <1>1, <1>2 DEF Far
<1>6. Places(graph, start, s, par)
  <2>1. par \in [DOMAIN s.queue -> Nat] /\ par[1] = 0 /\ 1 \in DOMAIN s.queue
    BY <1>3
  <2>2. s.depth[start] = 0 /\ \A a \in DOMAIN s.queue : a = 1
    BY <1>1, <1>2, <1>3
  <2>3. \A n \in files : s.depth[n] # Far <=> \E a \in DOMAIN s.queue : s.queue[a] = n
    BY <1>3, <1>5, <2>1, <2>2
  <2> HIDE DEF par
  <2> QED BY <1>3, <1>4, <2>1, <2>2, <2>3 DEF Places
<1>7. Hops(next, stop, depth, 0, s, par) /\ Gone(next, stop, depth, 0, s, par)
  BY <1>3 DEF Hops, Gone
<1>8. Lined(s, par)
  BY <1>1, <1>2, <1>3 DEF Lined
<1> QED BY <1>6, <1>7, <1>8 DEF Queued, s

GoesOn(s, i, stop, depth) == i \in DOMAIN s.queue /\ s.queue[i] # stop /\ s.depth[s.queue[i]] < depth

LEMMA TurnIsQueued ==
  ASSUME NEW graph, NEW next, NEW start, NEW stop, NEW depth, Searchable(graph, next, start, depth),
         NEW i \in Nat, NEW s, NEW par, Queued(graph, next, start, stop, depth, i - 1, s, par),
         GoesOn(s, i, stop, depth), NEW u, u = Turn(s, i, next[s.queue[i]])
  PROVE  \E pos : Queued(graph, next, start, stop, depth, i, u, pos)
<1> DEFINE node  == s.queue[i]
           fresh == Fresh(s, i, next)
           more  == Ascending(fresh)
           L     == Len(s.queue)
           M     == Len(u.queue)
           pos   == [a \in 1..M |-> IF a <= L THEN par[a] ELSE i]
           Old(a) == /\ a \in 1..L /\ pos[a] = par[a] /\ u.queue[a] = s.queue[a]
                     /\ u.depth[u.queue[a]] = s.depth[s.queue[a]] /\ u.hop[u.queue[a]] = s.hop[s.queue[a]]
           New(a) == /\ a \in (L + 1)..M /\ pos[a] = i /\ u.queue[a] \in fresh
                     /\ u.depth[u.queue[a]] = s.depth[node] + 1 /\ u.hop[u.queue[a]] = node
<1>1. /\ s \in States(graph) /\ par \in [1..L -> Nat] /\ L \in Nat /\ DOMAIN s.queue = 1..L
      /\ i \in 1..L /\ \A a \in 1..L : s.queue[a] \in graph.files
  BY DEF Queued, Places, States, GoesOn
<1>2. /\ u \in States(graph) /\ Len(more) \in Nat /\ M = L + Len(more) /\ DOMAIN u.queue = 1..M
      /\ \A a \in 1..L : u.queue[a] = s.queue[a]
      /\ \A a \in 1..Len(more) : u.queue[L + a] = more[a] /\ more[a] \in fresh
      /\ \A a, b \in 1..Len(more) : a < b => more[a] < more[b]
      /\ \A n \in fresh : \E a \in 1..Len(more) : more[a] = n
      /\ \A n \in graph.files :
           /\ u.depth[n] = IF n \in fresh THEN s.depth[node] + 1 ELSE s.depth[n]
           /\ u.hop[n] = IF n \in fresh THEN node ELSE s.hop[n]
  <2>1. u \in States(graph) => DOMAIN u.queue = 1..M
    BY DEF States
  <2>2. u = Turn(s, i, next[s.queue[i]]) /\ i \in DOMAIN s.queue
    BY DEF GoesOn
  <2>3. Adds(graph, next, s, i, u, more)
    BY <1>1, <2>2, TurnIs
  <2> QED BY <1>1, <2>1, <2>3 DEF Adds
<1>3. fresh \subseteq graph.files /\ fresh \subseteq next[node] /\ fresh \subseteq Nat
      /\ \A n \in fresh : s.depth[n] = Far
  BY <1>1 DEF Fresh, Searchable
<1>4. /\ s.depth[node] \in Nat /\ s.depth[node] \in 0..(i - 1) /\ depth \in Nat
      /\ \A a \in 1..L : s.depth[s.queue[a]] \in Nat /\ s.depth[s.queue[a]] # Far
  <2>1. \A a \in 1..L : s.depth[s.queue[a]] \in 0..(a - 1)
    BY <1>1 DEF Queued, Lined
  <2>2. \A n \in Nat : n # Far
    BY DEF Far
  <2> HIDE DEF L
  <2>3. \A a \in 1..L : s.depth[s.queue[a]] \in Nat
    BY <1>1, <2>1
  <2> QED BY <1>1, <2>1, <2>2, <2>3 DEF Searchable
<1> HIDE DEF node, fresh, more, L, M
<1>5. \A a \in 1..L : Old(a)
  <2> TAKE a \in 1..L
  <2>1. s.queue[a] \notin fresh
    BY <1>3, <1>4
  <2>2. a \in 1..M /\ pos[a] = par[a]
    BY <1>1, <1>2
  <2>3. u.queue[a] = s.queue[a] /\ s.queue[a] \in graph.files
    BY <1>1, <1>2
  <2> HIDE DEF pos
  <2> QED BY <1>2, <2>1, <2>2, <2>3
<1>6. \A a \in (L + 1)..M : New(a)
  <2> TAKE a \in (L + 1)..M
  <2>1. a - L \in 1..Len(more) /\ a = L + (a - L)
    BY <1>1, <1>2
  <2>2. u.queue[a] \in fresh
    BY <1>2, <2>1
  <2>3. a \in 1..M /\ pos[a] = i
    BY <1>1, <1>2
  <2> QED BY <1>2, <1>3, <2>2, <2>3
<1>7. \A a, b \in (L + 1)..M : a < b => u.queue[a] < u.queue[b]
  <2> TAKE a \in (L + 1)..M, b \in (L + 1)..M
  <2>1. a - L \in 1..Len(more) /\ a = L + (a - L) /\ b - L \in 1..Len(more) /\ b = L + (b - L)
    BY <1>1, <1>2
  <2>2. a < b => a - L < b - L
    BY <1>1, <1>2
  <2>3. u.queue[a] = more[a - L] /\ u.queue[b] = more[b - L]
    BY <1>2, <2>1
  <2> QED BY <1>2, <2>1, <2>2, <2>3
<1>8. \A n \in fresh : \E a \in (L + 1)..M : u.queue[a] = n
  <2> TAKE n \in fresh
  <2>1. PICK a \in 1..Len(more) : more[a] = n
    BY <1>2
  <2>2. L + a \in (L + 1)..M /\ u.queue[L + a] = n
    BY <1>1, <1>2, <2>1
  <2> QED BY <2>2
<1>9. pos \in [1..M -> Nat] /\ \A a \in 1..M : Old(a) \/ New(a)
  <2>1. pos \in [1..M -> Nat]
    BY <1>1
  <2> HIDE DEF Old, New, pos
  <2> QED BY <1>1, <1>2, <1>5, <1>6, <2>1
<1> HIDE DEF pos, Old, New
<1>10. /\ \A a \in 1..L : s.queue[a] \notin fresh
       /\ s.queue[1] = start /\ s.depth[start] = 0 /\ par[1] = 0 /\ 1 \in 1..L
       /\ \A a, b \in 1..L : a # b => s.queue[a] # s.queue[b]
       /\ \A n \in graph.files : s.depth[n] # Far <=> \E a \in 1..L : s.queue[a] = n
  BY <1>1, <1>3, <1>4 DEF Queued, Places
<1>sizes. /\ L \in Nat /\ M \in Nat /\ L <= M /\ i \in 1..L
          /\ s.depth[node] \in Nat /\ s.depth[node] <= i - 1
  BY <1>1, <1>2, <1>4
<1>within. \A a \in 1..L : a \in 1..M
  BY <1>sizes
<1>old. \A a \in 1..M : Old(a) => a \in 1..L
  BY Zenon DEF Old
<1>new. \A a \in 1..M : New(a) => L < a
  <2>1. \A a \in (L + 1)..M : L < a
    BY <1>sizes
  <2> QED BY <2>1, Zenon DEF New
<1>11. Places(graph, start, u, pos)
  <2>1. \A a, b \in 1..M : a < b => u.queue[a] # u.queue[b]
    <3> SUFFICES ASSUME NEW a \in 1..M, NEW b \in 1..M, a < b PROVE u.queue[a] # u.queue[b]
      OBVIOUS
    <3>1. CASE New(a) /\ New(b)
      <4>1. u.queue[a] < u.queue[b]
        BY <1>7, <3>1, Zenon DEF New
      <4>2. u.queue[a] \in Nat /\ u.queue[b] \in Nat
        BY <1>3, <3>1, Zenon DEF New
      <4> QED BY <4>1, <4>2
    <3>2. CASE Old(a) /\ Old(b)
      <4>1. a # b
        BY <1>sizes
      <4> QED BY <1>10, <3>2, <4>1, ZenonT(30) DEF Old
    <3>3. CASE Old(a) /\ New(b)
      <4>1. u.queue[a] = s.queue[a] /\ s.queue[a] \notin fresh
        BY <1>10, <3>3, ZenonT(30) DEF Old
      <4>2. u.queue[b] \in fresh
        BY <3>3, Zenon DEF New
      <4> QED BY <4>1, <4>2, Zenon
    <3>4. CASE New(a) /\ Old(b)
      BY <1>sizes, <1>old, <1>new, <3>4
    <3> QED BY <1>9, <3>1, <3>2, <3>3, <3>4, Zenon
  <2>2. \A a, b \in 1..M : a # b => u.queue[a] # u.queue[b]
    BY <1>sizes, <2>1
  <2>3. ASSUME NEW n \in graph.files PROVE u.depth[n] # Far <=> \E a \in 1..M : u.queue[a] = n
    <3>1. CASE n \in fresh
      <4>1. u.depth[n] # Far
        <5>1. u.depth[n] = s.depth[node] + 1
          BY <1>2, <3>1, Zenon
        <5> QED BY <1>sizes, <5>1 DEF Far
      <4>2. PICK a \in (L + 1)..M : u.queue[a] = n
        BY <1>8, <3>1
      <4> QED BY <1>1, <4>1, <4>2
    <3>2. CASE n \notin fresh
      <4>1. u.depth[n] = s.depth[n]
        BY <1>2, <3>2
      <4>2. \A a \in 1..M : u.queue[a] = n => a \in 1..L /\ s.queue[a] = n
        <5>1. \A a \in 1..M : u.queue[a] = n => Old(a)
          BY <1>9, <3>2 DEF New
        <5> QED BY <5>1, ZenonT(30) DEF Old
      <4>3. \A a \in 1..L : a \in 1..M /\ u.queue[a] = s.queue[a]
        BY <1>2, <1>within, Zenon
      <4> QED BY <1>10, <4>1, <4>2, <4>3
    <3> QED BY <3>1, <3>2
  <2>4. u.depth[start] = 0 /\ u.queue[1] = start /\ pos[1] = 0 /\ 1 \in 1..M
    <3>1. Old(1)
      BY <1>5, <1>10 DEF Old
    <3>2. 1 \in 1..M
      BY <1>1, <1>2
    <3> QED BY <1>10, <3>1, <3>2 DEF Old
  <2>5. DOMAIN u.queue = 1..M /\ u \in States(graph)
    BY <1>2
  <2>6. pos \in [DOMAIN u.queue -> Nat] /\ 1 \in DOMAIN u.queue
    BY <1>9, <2>4, <2>5
  <2>7. \A a, b \in DOMAIN u.queue : a # b => u.queue[a] # u.queue[b]
    BY <2>2, <2>5
  <2>8. \A n \in graph.files : u.depth[n] # Far <=> \E a \in DOMAIN u.queue : u.queue[a] = n
    BY <2>3, <2>5, Zenon
  <2> QED BY <2>4, <2>5, <2>6, <2>7, <2>8, Zenon DEF Places
<1>12. \A x \in 1..L : u.queue[x] = s.queue[x] /\ u.depth[u.queue[x]] = s.depth[s.queue[x]]
  BY <1>5, Zenon DEF Old
<1>13. Hops(next, stop, depth, i, u, pos)
  <2> SUFFICES ASSUME NEW a \in 1..M, a # 1
               PROVE  /\ pos[a] \in 1..(a - 1) /\ pos[a] <= i
                      /\ u.hop[u.queue[a]] = u.queue[pos[a]]
                      /\ u.queue[a] \in next[u.queue[pos[a]]]
                      /\ u.queue[pos[a]] # stop /\ u.depth[u.queue[pos[a]]] < depth
                      /\ u.depth[u.queue[a]] = u.depth[u.queue[pos[a]]] + 1
    BY <1>2, Zenon DEF Hops
  <2>1. CASE Old(a)
    <3>1. /\ par[a] \in 1..(a - 1) /\ par[a] <= i - 1 /\ s.hop[s.queue[a]] = s.queue[par[a]]
          /\ s.queue[a] \in next[s.queue[par[a]]]
          /\ s.queue[par[a]] # stop /\ s.depth[s.queue[par[a]]] < depth
          /\ s.depth[s.queue[a]] = s.depth[s.queue[par[a]]] + 1
      BY <1>1, <2>1, Zenon DEF Queued, Hops, Old
    <3>2. par[a] \in 1..L
      BY <1>sizes, <1>old, <2>1, <3>1
    <3>3. /\ pos[a] = par[a] /\ u.queue[a] = s.queue[a] /\ u.queue[par[a]] = s.queue[par[a]]
          /\ u.depth[u.queue[a]] = s.depth[s.queue[a]] /\ u.hop[u.queue[a]] = s.hop[s.queue[a]]
          /\ u.depth[u.queue[par[a]]] = s.depth[s.queue[par[a]]]
      BY <1>12, <2>1, <3>2, Zenon DEF Old
    <3> QED BY <3>1, <3>3
  <2>2. CASE New(a)
    <3>1. i \in 1..(a - 1) /\ i \in 1..L /\ i \in 1..M
      BY <1>sizes, <1>new, <2>2
    <3>2. u.queue[i] = node /\ u.depth[node] = s.depth[node]
      BY <1>12, <3>1 DEF node
    <3>3. pos[a] = i /\ u.hop[u.queue[a]] = node /\ u.queue[a] \in next[node]
          /\ u.depth[u.queue[a]] = s.depth[node] + 1
      BY <1>3, <2>2 DEF New
    <3>4. node # stop /\ s.depth[node] < depth
      BY DEF node, GoesOn
    <3>5. pos[a] \in 1..(a - 1) /\ pos[a] <= i
      BY <1>sizes, <3>1, <3>3
    <3> QED BY <3>2, <3>3, <3>4, <3>5, Zenon
  <2> QED BY <1>9, <2>1, <2>2, Zenon
<1>14. /\ \A a \in 1..L : par[a] <= i - 1 /\ s.depth[s.queue[a]] <= s.depth[node] + 1
       /\ \A a \in 1..L : s.depth[s.queue[a]] \in 0..(a - 1)
  <2>1. ASSUME NEW a \in 1..L, a # 1
        PROVE  par[a] <= i - 1 /\ s.depth[s.queue[a]] <= s.depth[node] + 1
    <3>1. /\ par[a] \in 1..(a - 1) /\ par[a] <= i - 1
          /\ s.depth[s.queue[a]] = s.depth[s.queue[par[a]]] + 1
      BY <1>1, <2>1 DEF Queued, Hops
    <3>2. par[a] \in 1..L /\ par[a] < i
      BY <1>1, <3>1
    <3>3. s.depth[s.queue[par[a]]] <= s.depth[node]
      BY <1>1, <3>2 DEF Queued, Lined, node
    <3> QED BY <1>4, <3>1, <3>2, <3>3
  <2>2. par[1] <= i - 1 /\ s.depth[s.queue[1]] <= s.depth[node] + 1
    BY <1>1, <1>4, <1>10
  <2>3. \A a \in 1..L : s.depth[s.queue[a]] \in 0..(a - 1)
    BY <1>1 DEF Queued, Lined
  <2> QED BY <2>1, <2>2, <2>3
<1>15. Lined(u, pos)
  <2>1. ASSUME NEW a \in 1..M, NEW b \in 1..M, a < b
        PROVE  /\ pos[a] <= pos[b] /\ (pos[a] = pos[b] => u.queue[a] < u.queue[b])
               /\ u.depth[u.queue[a]] <= u.depth[u.queue[b]]
    <3>1. CASE Old(a) /\ Old(b)
      <4>1. /\ par[a] <= par[b] /\ (par[a] = par[b] => s.queue[a] < s.queue[b])
            /\ s.depth[s.queue[a]] <= s.depth[s.queue[b]]
        BY <1>1, <2>1, <3>1 DEF Queued, Lined, Old
      <4> QED BY <3>1, <4>1, Zenon DEF Old
    <3>2. CASE Old(a) /\ New(b)
      <4>1. par[a] <= i - 1 /\ s.depth[s.queue[a]] <= s.depth[node] + 1 /\ par[a] \in Nat
        BY <1>1, <1>14, <3>2 DEF Old, New
      <4>2. pos[a] = par[a] /\ pos[b] = i /\ pos[a] < i
        <5>1. pos[a] = par[a] /\ pos[b] = i
          BY <3>2, Zenon DEF Old, New
        <5> QED BY <1>sizes, <4>1, <5>1
      <4>3. /\ u.depth[u.queue[a]] = s.depth[s.queue[a]]
            /\ u.depth[u.queue[b]] = s.depth[node] + 1
        BY <3>2, Zenon DEF Old, New
      <4> QED BY <1>sizes, <4>1, <4>2, <4>3
    <3>3. CASE New(a) /\ New(b)
      <4>1. pos[a] = i /\ pos[b] = i /\ u.queue[a] < u.queue[b]
        BY <1>7, <2>1, <3>3, Zenon DEF New
      <4>2. u.depth[u.queue[a]] = u.depth[u.queue[b]] /\ u.depth[u.queue[a]] \in Nat
        <5>1. u.depth[u.queue[a]] = s.depth[node] + 1 /\ u.depth[u.queue[b]] = s.depth[node] + 1
          BY <3>3, Zenon DEF New
        <5> QED BY <1>sizes, <5>1
      <4>3. i <= i
        BY <1>sizes
      <4>4. u.depth[u.queue[a]] <= u.depth[u.queue[a]]
        BY <4>2
      <4> QED BY <4>1, <4>2, <4>3, <4>4, Zenon
    <3>4. ~(New(a) /\ Old(b))
      BY <1>sizes, <1>old, <1>new, <2>1
    <3> QED BY <1>9, <3>1, <3>2, <3>3, <3>4, Zenon
  <2>2. ASSUME NEW a \in 1..M PROVE u.depth[u.queue[a]] \in 0..(a - 1)
    <3>1. CASE Old(a)
      BY <1>14, <3>1 DEF Old
    <3>2. CASE New(a)
      <4>1. u.depth[u.queue[a]] = s.depth[node] + 1 /\ a \in (L + 1)..M
        BY <3>2 DEF New
      <4>2. a \in Int /\ i <= a - 1
        BY <1>sizes, <4>1
      <4>3. s.depth[node] + 1 \in 0..(a - 1)
        BY <1>sizes, <4>2
      <4> QED BY <4>1, <4>3
    <3> QED BY <1>9, <3>1, <3>2, Zenon
  <2> QED BY <1>2, <2>1, <2>2, ZenonT(30) DEF Lined
<1>16. Gone(next, stop, depth, i, u, pos)
  <2> SUFFICES ASSUME NEW a \in DOMAIN u.queue, a <= i, u.queue[a] # stop, u.depth[u.queue[a]] < depth,
                      NEW n \in next[u.queue[a]]
               PROVE  \E b \in DOMAIN u.queue : u.queue[b] = n /\ pos[b] <= a
    BY Zenon DEF Gone
  <2> SUFFICES \E b \in 1..M : u.queue[b] = n /\ pos[b] <= a
    BY <1>2, Zenon
  <2>1. a \in 1..M
    BY <1>2
  <2>2. a \in 1..L /\ u.queue[a] = s.queue[a] /\ u.depth[u.queue[a]] = s.depth[s.queue[a]]
    <3>1. a \in 1..L
      BY <1>1, <2>1
    <3> QED BY <1>12, <3>1
  <2>3. ASSUME NEW b \in 1..L, s.queue[b] = n, par[b] <= a PROVE \E c \in 1..M : u.queue[c] = n /\ pos[c] <= a
    <3>1. u.queue[b] = s.queue[b] /\ pos[b] = par[b]
      BY <1>5 DEF Old
    <3>2. b \in 1..M
      BY <1>within
    <3> QED BY <2>3, <3>1, <3>2, ZenonT(30)
  <2>4. CASE a < i
    <3>1. a <= i - 1 /\ a \in DOMAIN s.queue /\ n \in next[s.queue[a]]
          /\ s.queue[a] # stop /\ s.depth[s.queue[a]] < depth
      BY <1>1, <2>2, <2>4
    <3>2. Gone(next, stop, depth, i - 1, s, par)
      BY DEF Queued
    <3>3. PICK b \in 1..L : s.queue[b] = n /\ par[b] <= a
      BY <1>1, <3>1, <3>2, Zenon DEF Gone
    <3> QED BY <2>3, <3>3
  <2>5. CASE a = i
    <3>1. n \in next[node] /\ n \in graph.files
      BY <1>1, <2>2, <2>5 DEF node, Searchable
    <3>2. CASE n \in fresh
      <4>1. PICK b \in (L + 1)..M : u.queue[b] = n
        BY <1>8, <3>2, ZenonT(30)
      <4>2. b \in 1..M /\ pos[b] = i
        BY <1>1, <1>6, <4>1 DEF New
      <4> QED BY <2>5, <4>1, <4>2
    <3>3. CASE n \notin fresh
      <4>1. s.depth[n] # Far
        BY <3>1, <3>3 DEF fresh, Fresh, node
      <4>2. PICK b \in 1..L : s.queue[b] = n
        BY <1>10, <3>1, <4>1
      <4>3. par[b] <= i
        BY <1>1, <1>14
      <4> QED BY <2>3, <2>5, <4>2, <4>3
    <3> QED BY <3>2, <3>3
  <2> QED BY <1>1, <2>4, <2>5, <2>1
<1> QED BY <1>11, <1>13, <1>15, <1>16 DEF Queued

\* After its last turn every search has gone on from all it reached.
LEMMA SearchIsQueued ==
  ASSUME NEW graph, NEW next, NEW start, NEW stop, NEW depth, Searchable(graph, next, start, depth),
         NEW s, s = Search(graph, next, start, stop, depth)
  PROVE  \E par : /\ Queued(graph, next, start, stop, depth, Cardinality(graph.files), s, par)
                  /\ Len(s.queue) <= Cardinality(graph.files)
<1> DEFINE N == Cardinality(graph.files)
           turns == Turns(graph, next, start, stop, depth)
           Good == {i \in 0..N : \E par : Queued(graph, next, start, stop, depth, i, turns[i], par)}
<1>1. N \in Nat /\ IsFiniteSet(graph.files)
  BY FS_CardinalityType DEF Searchable
<1>2. /\ turns[0] = AtStart(graph, start)
      /\ \A i \in 1..N : turns[i] = Turned(turns[i - 1], i, next, stop, depth)
  <2> HIDE DEF turns
  <2> QED BY TurnsAre DEF turns
<1> HIDE DEF turns
<1>3. 0 \in Good
  BY <1>1, <1>2, StartIsQueued
<1>4. ASSUME NEW i \in 1..N, i - 1 \in Good PROVE i \in Good
  <2> DEFINE t == turns[i - 1]
  <2>1. PICK par : Queued(graph, next, start, stop, depth, i - 1, t, par)
    BY <1>4
  <2>2. turns[i] = Turned(t, i, next, stop, depth) /\ i \in Nat
    BY <1>2
  <2> HIDE DEF t
  <2>3. CASE GoesOn(t, i, stop, depth)
    <3>1. turns[i] = Turn(t, i, next[t.queue[i]])
      BY <2>2, <2>3 DEF Turned, GoesOn
    <3>2. \E pos : Queued(graph, next, start, stop, depth, i, turns[i], pos)
      BY <2>1, <2>2, <2>3, <3>1, TurnIsQueued
    <3> QED BY <3>2
  <2>4. CASE ~GoesOn(t, i, stop, depth)
    <3>1. turns[i] = t
      BY <2>2, <2>4 DEF Turned, GoesOn
    <3>2. Hops(next, stop, depth, i, t, par)
      <4>1. t.queue \in Seq(graph.files)
        BY <2>1 DEF Queued, Places, States
      <4> QED BY <2>1, <2>2, <4>1 DEF Queued, Hops
    <3>3. Gone(next, stop, depth, i, t, par)
      <4>1. t.queue \in Seq(graph.files)
        BY <2>1 DEF Queued, Places, States
      <4>2. \A a \in DOMAIN t.queue : a <= i /\ a # i => a <= i - 1
        BY <4>1
      <4>3. Gone(next, stop, depth, i - 1, t, par)
        BY <2>1 DEF Queued
      <4>4. \A a \in DOMAIN t.queue : a <= i /\ t.queue[a] # stop /\ t.depth[t.queue[a]] < depth => a <= i - 1
        BY <2>4, <4>2 DEF GoesOn
      <4> QED BY <4>3, <4>4 DEF Gone
    <3>4. Queued(graph, next, start, stop, depth, i, t, par)
      BY <2>1, <3>2, <3>3 DEF Queued
    <3> QED BY <3>1, <3>4
  <2> QED BY <2>3, <2>4
<1>5. N \in Good
  <2> HIDE DEF Good
  <2> QED BY <1>1, <1>3, <1>4, Climb
<1>6. PICK par : Queued(graph, next, start, stop, depth, N, s, par)
  BY <1>5 DEF Search, turns
<1>7. Len(s.queue) <= N
  <2>1. s.queue \in Seq(graph.files) /\ Len(s.queue) \in Nat /\ DOMAIN s.queue = 1..Len(s.queue)
    BY <1>6 DEF Queued, Places, States
  <2>2. s.queue \in Injection(1..Len(s.queue), graph.files)
    <3>1. /\ s.queue \in [1..Len(s.queue) -> graph.files]
          /\ \A a, b \in DOMAIN s.queue : a # b => s.queue[a] # s.queue[b]
      BY <1>6, <2>1 DEF Queued, Places
    <3> QED BY <2>1, <3>1 DEF Injection, IsInjective
  <2>3. Cardinality(1..Len(s.queue)) = Len(s.queue)
    <3> DEFINE L == Len(s.queue)
    <3>1. L \in Nat
      BY <2>1
    <3> HIDE DEF L
    <3>2. 1 \in Int /\ L \in Int /\ 1 <= L + 1
      BY <3>1
    <3>3. Cardinality(1..L) = IF 1 > L THEN 0 ELSE L - 1 + 1
      BY <3>2, FS_Interval
    <3>4. Cardinality(1..L) = L
      BY <3>1, <3>3
    <3> QED BY <3>4 DEF L
  <2> QED BY <1>1, <2>2, <2>3, FS_Injection
<1> QED BY <1>6, <1>7

\* The same, for the search as a whole.
Reached(s, n) == s.depth[n] # Far

SettledHops(next, stop, depth, s, par, L) ==
  \A a \in 1..L : a # 1 =>
    /\ par[a] \in 1..L /\ s.hop[s.queue[a]] = s.queue[par[a]] /\ s.queue[a] \in next[s.queue[par[a]]]
    /\ s.queue[par[a]] # stop /\ s.depth[s.queue[par[a]]] < depth
    /\ s.depth[s.queue[a]] = s.depth[s.queue[par[a]]] + 1

SettledLine(s, par, L) ==
  \A a, b \in 1..L : a < b =>
    /\ par[a] <= par[b] /\ (par[a] = par[b] => s.queue[a] < s.queue[b])
    /\ s.depth[s.queue[a]] <= s.depth[s.queue[b]]

SettledGone(next, stop, depth, s, par, L) ==
  \A a \in 1..L : s.queue[a] # stop /\ s.depth[s.queue[a]] < depth =>
    \A n \in next[s.queue[a]] : \E b \in 1..L : s.queue[b] = n /\ par[b] <= a

Settled(graph, next, start, stop, depth, s, par, L) ==
  /\ L \in Nat /\ L \in 1..Cardinality(graph.files) /\ DOMAIN s.queue = 1..L /\ par \in [1..L -> Nat]
  /\ s.queue[1] = start /\ s.depth[start] = 0
  /\ \A a \in 1..L : s.queue[a] \in graph.files /\ s.depth[s.queue[a]] \in 0..(a - 1)
  /\ \A a, b \in 1..L : a # b => s.queue[a] # s.queue[b]
  /\ \A n \in graph.files : Reached(s, n) <=> \E a \in 1..L : s.queue[a] = n
  /\ SettledHops(next, stop, depth, s, par, L) /\ SettledLine(s, par, L)
  /\ SettledGone(next, stop, depth, s, par, L)

LEMMA SearchSettles ==
  ASSUME NEW graph, NEW next, NEW start, NEW stop, NEW depth, Searchable(graph, next, start, depth),
         NEW s, s = Search(graph, next, start, stop, depth)
  PROVE  \E par : Settled(graph, next, start, stop, depth, s, par, Len(s.queue))
<1> DEFINE N == Cardinality(graph.files)
           L == Len(s.queue)
<1>1. PICK par : Queued(graph, next, start, stop, depth, N, s, par) /\ L <= N
  BY SearchIsQueued
<1>2. N \in Nat /\ L \in Nat /\ DOMAIN s.queue = 1..L /\ 1 \in 1..L /\ L \in 1..N
      /\ \A a \in 1..L : s.queue[a] \in graph.files
  <2>1. N \in Nat
    BY FS_CardinalityType DEF Searchable
  <2>2. L \in Nat /\ DOMAIN s.queue = 1..L /\ \A a \in 1..L : s.queue[a] \in graph.files
    BY <1>1 DEF Queued, Places, States
  <2>3. 1 \in 1..L
    BY <1>1, <2>2 DEF Queued, Places
  <2> HIDE DEF N, L
  <2> QED BY <1>1, <2>1, <2>2, <2>3
<1>3. Places(graph, start, s, par) /\ Hops(next, stop, depth, N, s, par)
      /\ Lined(s, par) /\ Gone(next, stop, depth, N, s, par)
  BY <1>1 DEF Queued
<1> HIDE DEF N, L
<1>4. ASSUME NEW a \in 1..L, a # 1
      PROVE  /\ par[a] \in 1..L /\ s.hop[s.queue[a]] = s.queue[par[a]] /\ s.queue[a] \in next[s.queue[par[a]]]
             /\ s.queue[par[a]] # stop /\ s.depth[s.queue[par[a]]] < depth
             /\ s.depth[s.queue[a]] = s.depth[s.queue[par[a]]] + 1
  <2>1. a \in DOMAIN s.queue \ {1}
    BY <1>2, <1>4
  <2>2. /\ par[a] \in 1..(a - 1) /\ s.hop[s.queue[a]] = s.queue[par[a]]
        /\ s.queue[a] \in next[s.queue[par[a]]]
        /\ s.queue[par[a]] # stop /\ s.depth[s.queue[par[a]]] < depth
        /\ s.depth[s.queue[a]] = s.depth[s.queue[par[a]]] + 1
    BY <1>3, <2>1, Zenon DEF Hops
  <2>3. par[a] \in 1..L
    BY <1>2, <2>2
  <2> QED BY <2>2, <2>3
<1>5. ASSUME NEW a \in 1..L, s.queue[a] # stop, s.depth[s.queue[a]] < depth, NEW n \in next[s.queue[a]]
      PROVE  \E b \in 1..L : s.queue[b] = n /\ par[b] <= a
  <2>1. a <= N /\ a \in DOMAIN s.queue
    BY <1>2
  <2>2. PICK b \in DOMAIN s.queue : s.queue[b] = n /\ par[b] <= a
    BY <1>3, <1>5, <2>1, Zenon DEF Gone
  <2> QED BY <1>2, <2>2
<1>6. /\ par \in [1..L -> Nat] /\ s.queue[1] = start /\ s.depth[start] = 0
      /\ \A a, b \in 1..L : a # b => s.queue[a] # s.queue[b]
      /\ \A n \in graph.files : Reached(s, n) <=> \E a \in 1..L : s.queue[a] = n
  <2>1. /\ par \in [DOMAIN s.queue -> Nat] /\ s.queue[1] = start /\ s.depth[start] = 0
        /\ \A n \in graph.files : s.depth[n] # Far <=> \E a \in DOMAIN s.queue : s.queue[a] = n
    BY <1>3, Zenon DEF Places
  <2>2. \A a, b \in 1..L : a # b => s.queue[a] # s.queue[b]
    <3>1. \A a, b \in DOMAIN s.queue : a # b => s.queue[a] # s.queue[b]
      BY <1>3, Zenon DEF Places
    <3> QED BY <1>2, <3>1
  <2>3. \A n \in graph.files : Reached(s, n) <=> \E a \in 1..L : s.queue[a] = n
    BY <1>2, <2>1 DEF Reached
  <2> QED BY <1>2, <2>1, <2>2, <2>3
<1>7. /\ \A a \in 1..L : s.depth[s.queue[a]] \in 0..(a - 1)
      /\ \A a, b \in 1..L : a < b =>
           /\ par[a] <= par[b] /\ (par[a] = par[b] => s.queue[a] < s.queue[b])
           /\ s.depth[s.queue[a]] <= s.depth[s.queue[b]]
  BY <1>2, <1>3 DEF Lined
<1>8. SettledHops(next, stop, depth, s, par, L) /\ SettledGone(next, stop, depth, s, par, L)
  BY <1>4, <1>5 DEF SettledHops, SettledGone
<1>9. SettledLine(s, par, L)
  BY <1>7 DEF SettledLine
<1>10. Settled(graph, next, start, stop, depth, s, par, L)
  BY <1>2, <1>6, <1>7, <1>8, <1>9 DEF Settled, N
<1> QED BY <1>10 DEF L

-----------------------------------------------------------------------------
(* The depths of a search are distances.                                   *)

LEMMA WithinIs ==
  ASSUME NEW graph, NEW next, NEW start, NEW depth, Searchable(graph, next, start, depth),
         NEW reach, reach = Within(graph, next, start)
  PROVE  /\ reach \in [0..Cardinality(graph.files) -> SUBSET graph.files] /\ reach[0] = {start}
         /\ \A i \in 1..Cardinality(graph.files) :
              reach[i] = reach[i - 1] \cup UNION {next[n] : n \in reach[i - 1]}
<1> DEFINE N == Cardinality(graph.files)
           S == SUBSET graph.files
           More(x) == x \cup UNION {next[n] : n \in x}
           F == [i \in 1..N |-> [x \in S |-> More(x)]]
           R(t) == t = [i \in 0..N |-> IF i = 0 THEN {start} ELSE More(t[i - 1])]
<1>1. N \in Nat
  BY FS_CardinalityType DEF Searchable
<1>2. {start} \in S /\ \A x \in S : More(x) \in S
  BY DEF Searchable
<1> HIDE DEF More
<1>3. F \in [1..N -> [S -> S]]
  BY <1>2
<1>4. PICK t : Defined(N, {start}, F, t)
  <2> HIDE DEF N, F
  <2> QED BY <1>1, Iterates
<1>5. \A i \in 0..N : t[i] \in S
  <2> HIDE DEF S, N, F
  <2> QED BY <1>1, <1>2, <1>3, <1>4, IteratesIn DEF Defined
<1>6. R(t)
  <2>1. \A i \in 1..N : F[i][t[i - 1]] = More(t[i - 1])
    BY <1>1, <1>5
  <2> HIDE DEF N, F
  <2>2. \A i \in 0..N : (IF i = 0 THEN {start} ELSE F[i][t[i - 1]])
                         = (IF i = 0 THEN {start} ELSE More(t[i - 1]))
    BY <1>1, <2>1
  <2> QED BY <1>4, <2>2 DEF Defined
<1>7. reach = CHOOSE x : R(x)
  BY DEF Within, More
<1>8. R(reach)
  <2> HIDE DEF R
  <2> QED BY <1>6, <1>7
<1>9. reach[0] = {start} /\ \A i \in 1..N : reach[i] = More(reach[i - 1])
  <2> HIDE DEF S, N, F
  <2>1. 0 \in 0..N /\ \A i \in 1..N : i \in 0..N /\ i # 0
    BY <1>1
  <2>2. reach[0] = {start}
    BY <1>8, <2>1
  <2>3. ASSUME NEW i \in 1..N PROVE reach[i] = More(reach[i - 1])
    BY <1>8, <2>1
  <2> QED BY <2>2, <2>3
<1>10. reach \in [0..N -> S]
  <2> DEFINE Good == {i \in 0..N : reach[i] \in S}
  <2>1. 0 \in Good
    BY <1>1, <1>2, <1>9
  <2>2. \A i \in 1..N : i - 1 \in Good => i \in Good
    <3> HIDE DEF N, S
    <3> QED BY <1>1, <1>2, <1>9
  <2>3. \A i \in 0..N : i \in Good
    <3> HIDE DEF Good, N
    <3> QED BY <1>1, <2>1, <2>2, Climb
  <2>4. DOMAIN reach = 0..N /\ reach = [i \in 0..N |-> reach[i]]
    <3> HIDE DEF N
    <3> QED BY <1>8
  <2> HIDE DEF S, N
  <2> QED BY <2>3, <2>4
<1> QED BY <1>9, <1>10 DEF More

\* Without a stop, or as long as the stop is out of reach.
OnTime(s, reach, stop, depth, j) ==
  j <= depth /\ (\A i \in 0..(j - 1) : stop \notin reach[i]) =>
    \A n \in reach[j] : Reached(s, n) /\ s.depth[n] <= j

Measured(graph, next, start, stop, depth, s, reach) ==
  /\ Reached(s, start) /\ s.depth[start] = 0
  /\ \A n \in graph.files : Reached(s, n) =>
       /\ s.depth[n] \in 0..Cardinality(graph.files) /\ s.depth[n] <= depth
       /\ \A j \in 0..Cardinality(graph.files) : s.depth[n] <= j => n \in reach[j]
       /\ n # start => /\ s.hop[n] \in graph.files /\ Reached(s, s.hop[n]) /\ s.hop[n] # stop
                       /\ n \in next[s.hop[n]] /\ s.depth[n] = s.depth[s.hop[n]] + 1
  /\ \A j \in 0..Cardinality(graph.files) : OnTime(s, reach, stop, depth, j)

LEMMA SearchMeasures ==
  ASSUME NEW graph, NEW next, NEW start, NEW stop, NEW depth, Searchable(graph, next, start, depth),
         NEW s, s = Search(graph, next, start, stop, depth),
         NEW reach, reach = Within(graph, next, start)
  PROVE  Measured(graph, next, start, stop, depth, s, reach)
<1> DEFINE N == Cardinality(graph.files)
           q == s.queue
           L == Len(s.queue)
           At(a) == s.depth[q[a]]
<1>1. PICK par : Settled(graph, next, start, stop, depth, s, par, L)
  BY SearchSettles
<1>2. /\ N \in Nat /\ L \in Nat /\ L <= N /\ par \in [1..L -> Nat]
      /\ 1 \in 1..L /\ q[1] = start /\ s.depth[start] = 0 /\ depth \in Nat
      /\ \A a \in 1..L : q[a] \in graph.files /\ At(a) \in Nat /\ At(a) \in 0..(a - 1)
      /\ \A n \in graph.files : Reached(s, n) <=> \E a \in 1..L : q[a] = n
  <2>1. N \in Nat /\ depth \in Nat
    BY FS_CardinalityType DEF Searchable
  <2> HIDE DEF L, N
  <2>2. L \in Nat /\ L \in 1..N
    BY <1>1 DEF Settled, N
  <2>3. \A a \in 1..L : q[a] \in graph.files /\ At(a) \in Nat /\ At(a) \in 0..(a - 1)
    <3>1. \A a \in 1..L : q[a] \in graph.files /\ At(a) \in 0..(a - 1)
      BY <1>1 DEF Settled
    <3> HIDE DEF q, At
    <3> QED BY <2>2, <3>1
  <2>4. /\ par \in [1..L -> Nat] /\ q[1] = start /\ s.depth[start] = 0
        /\ \A n \in graph.files : Reached(s, n) <=> \E a \in 1..L : q[a] = n
    BY <1>1 DEF Settled
  <2>5. L <= N /\ 1 \in 1..L
    BY <2>1, <2>2
  <2> HIDE DEF q, At
  <2> QED BY <2>1, <2>2, <2>3, <2>4, <2>5
<1>3. /\ reach \in [0..N -> SUBSET graph.files] /\ reach[0] = {start}
      /\ \A i \in 1..N : reach[i] = reach[i - 1] \cup UNION {next[n] : n \in reach[i - 1]}
  BY WithinIs
<1>4. \A a \in 1..L : a # 1 =>
        /\ par[a] \in 1..L /\ s.hop[q[a]] = q[par[a]] /\ q[a] \in next[q[par[a]]]
        /\ q[par[a]] # stop /\ At(par[a]) < depth /\ At(a) = At(par[a]) + 1
  <2> HIDE DEF L
  <2>1. SettledHops(next, stop, depth, s, par, L)
    BY <1>1 DEF Settled
  <2> QED BY <2>1 DEF SettledHops
<1>5. /\ \A a \in 1..L : q[a] # stop /\ At(a) < depth =>
           \A n \in next[q[a]] : \E b \in 1..L : q[b] = n /\ par[b] <= a
      /\ \A a, b \in 1..L : a < b => At(a) <= At(b)
  <2> HIDE DEF L
  <2>1. SettledGone(next, stop, depth, s, par, L) /\ SettledLine(s, par, L)
    BY <1>1 DEF Settled
  <2> QED BY <2>1 DEF SettledGone, SettledLine
<1> HIDE DEF N, L, q, At
<1>6. ASSUME NEW a \in 1..L PROVE At(a) <= depth /\ At(a) \in 0..N
  <2>1. At(a) \in 0..N
    BY <1>1, <1>2
  <2>2. CASE a = 1
    BY <1>2, <2>1, <2>2 DEF At
  <2>3. CASE a # 1
    <3>1. At(a) = At(par[a]) + 1 /\ At(par[a]) < depth /\ At(par[a]) \in Nat
      BY <1>2, <1>4, <2>3
    <3> QED BY <1>2, <2>1, <3>1
  <2> QED BY <2>2, <2>3
<1>7. \A j \in 0..N : \A a \in 1..L : At(a) <= j => q[a] \in reach[j]
  <2> DEFINE Good == {j \in 0..N : \A a \in 1..L : At(a) <= j => q[a] \in reach[j]}
  <2>1. ASSUME NEW a \in 1..L, At(a) = 0 PROVE q[a] = start
    <3>1. CASE a # 1
      <4>1. par[a] \in 1..L /\ At(a) = At(par[a]) + 1
        BY <1>4, <3>1
      <4>2. At(par[a]) \in Nat
        BY <1>2, <4>1
      <4> QED BY <2>1, <4>1, <4>2
    <3> QED BY <1>2, <3>1
  <2>2. 0 \in Good
    BY <1>2, <1>3, <2>1
  <2>3. ASSUME NEW j \in 1..N, j - 1 \in Good PROVE j \in Good
    <3>1. reach[j] = reach[j - 1] \cup UNION {next[n] : n \in reach[j - 1]}
      BY <1>3
    <3>2. ASSUME NEW a \in 1..L, At(a) <= j PROVE q[a] \in reach[j]
      <4>1. CASE At(a) = j
        <5>1. a # 1
          BY <1>2, <4>1 DEF At
        <5>2. par[a] \in 1..L /\ q[a] \in next[q[par[a]]] /\ At(a) = At(par[a]) + 1
          BY <1>4, <5>1
        <5>3. At(par[a]) \in Nat /\ At(par[a]) <= j - 1
          BY <1>2, <4>1, <5>2, SMTT(30)
        <5>4. q[par[a]] \in reach[j - 1]
          BY <2>3, <5>2, <5>3
        <5> QED BY <3>1, <5>2, <5>4
      <4>2. CASE At(a) # j
        <5>1. At(a) <= j - 1
          BY <1>2, <3>2, <4>2
        <5> QED BY <2>3, <3>1, <5>1
      <4> QED BY <4>1, <4>2
    <3> QED BY <3>2
  <2> HIDE DEF Good
  <2>4. \A j \in 0..N : j \in Good
    BY <1>2, <2>2, <2>3, Climb
  <2> QED BY <2>4 DEF Good
<1>8. \A j \in 0..N : OnTime(s, reach, stop, depth, j)
  <2> DEFINE Good == {j \in 0..N : OnTime(s, reach, stop, depth, j)}
  <2>1. 0 \in Good
    <3>1. Reached(s, start) /\ s.depth[start] <= 0
      BY <1>2 DEF Reached, Far
    <3> QED BY <1>2, <1>3, <3>1 DEF OnTime
  <2>2. ASSUME NEW j \in 1..N, j - 1 \in Good PROVE j \in Good
    <3> SUFFICES ASSUME j <= depth, \A i \in 0..(j - 1) : stop \notin reach[i], NEW n \in reach[j]
                 PROVE  Reached(s, n) /\ s.depth[n] <= j
      BY DEF OnTime
    <3>1. reach[j] = reach[j - 1] \cup UNION {next[p] : p \in reach[j - 1]} /\ reach[j - 1] \subseteq graph.files
      BY <1>2, <1>3
    <3>2. \A p \in reach[j - 1] : Reached(s, p) /\ s.depth[p] <= j - 1 /\ p # stop
      <4>1. j - 1 <= depth /\ \A i \in 0..((j - 1) - 1) : stop \notin reach[i]
        BY <1>2
      <4>2. stop \notin reach[j - 1]
        BY <1>2
      <4> QED BY <2>2, <4>1, <4>2 DEF OnTime
    <3>3. CASE n \in reach[j - 1]
      <4>1. PICK a \in 1..L : q[a] = n
        BY <1>2, <3>1, <3>2, <3>3
      <4>2. s.depth[n] \in Nat /\ s.depth[n] <= j - 1
        BY <1>2, <3>2, <3>3, <4>1 DEF At
      <4> QED BY <3>2, <3>3, <4>2
    <3>4. CASE n \notin reach[j - 1]
      <4>1. PICK p \in reach[j - 1] : n \in next[p]
        BY <3>1, <3>4
      <4>2. PICK a \in 1..L : q[a] = p
        BY <1>2, <3>1, <3>2
      <4>3. At(a) <= j - 1 /\ At(a) < depth /\ q[a] # stop
        <5>1. At(a) <= j - 1 /\ q[a] # stop
          BY <3>2, <4>2 DEF At
        <5>2. At(a) \in Nat /\ j \in Nat /\ depth \in Nat
          BY <1>2
        <5> QED BY <5>1, <5>2
      <4>4. PICK b \in 1..L : q[b] = n /\ par[b] <= a
        BY <1>5, <4>1, <4>2, <4>3
      <4>5. At(b) <= j
        <5>1. CASE b = 1
          BY <1>2, <5>1 DEF At
        <5>2. CASE b # 1
          <6>1. par[b] \in 1..L /\ At(b) = At(par[b]) + 1
            BY <1>4, <5>2
          <6>2. At(par[b]) <= At(a)
            <7>1. CASE par[b] = a
              BY <1>2, <7>1
            <7>2. CASE par[b] # a
              <8>1. par[b] < a
                BY <1>2, <4>4, <6>1, <7>2
              <8> QED BY <1>5, <6>1, <8>1
            <7> QED BY <7>1, <7>2
          <6>3. At(par[b]) \in Nat
            BY <1>2, <6>1
          <6>4. At(a) \in Nat
            BY <1>2
          <6>5. j \in Nat
            BY <1>2
          <6> QED BY <4>3, <6>1, <6>2, <6>3, <6>4, <6>5
        <5> QED BY <5>1, <5>2
      <4>6. n \in graph.files
        BY <1>2, <4>4
      <4> QED BY <1>2, <4>4, <4>5, <4>6 DEF At
    <3> QED BY <3>3, <3>4
  <2> HIDE DEF Good
  <2>3. \A j \in 0..N : j \in Good
    BY <1>2, <2>1, <2>2, Climb
  <2> QED BY <2>3 DEF Good
<1>9. ASSUME NEW n \in graph.files, Reached(s, n)
      PROVE  /\ s.depth[n] \in 0..N /\ s.depth[n] <= depth
             /\ \A j \in 0..N : s.depth[n] <= j => n \in reach[j]
             /\ n # start => /\ s.hop[n] \in graph.files /\ Reached(s, s.hop[n]) /\ s.hop[n] # stop
                             /\ n \in next[s.hop[n]] /\ s.depth[n] = s.depth[s.hop[n]] + 1
  <2>1. PICK a \in 1..L : q[a] = n /\ s.depth[n] = At(a)
    BY <1>2, <1>9 DEF At
  <2>2. ASSUME n # start
        PROVE  /\ s.hop[n] \in graph.files /\ Reached(s, s.hop[n]) /\ s.hop[n] # stop
               /\ n \in next[s.hop[n]] /\ s.depth[n] = s.depth[s.hop[n]] + 1
    <3>1. a # 1
      BY <1>2, <2>1, <2>2
    <3> QED BY <1>2, <1>4, <2>1, <3>1, ZenonT(30) DEF At
  <2> QED BY <1>6, <1>7, <2>1, <2>2
<1>10. Reached(s, start) /\ s.depth[start] = 0
  BY <1>2 DEF Reached, Far
<1> QED BY <1>8, <1>9, <1>10 DEF Measured, N

LEMMA DistanceIs ==
  ASSUME NEW N \in Nat, NEW near, DOMAIN near = 0..N, NEW n, NEW d \in 0..N,
         n \in near[d], \A j \in 0..(d - 1) : n \notin near[j]
  PROVE  Distance(near, n) = d
<1> DEFINE P(i) == i \in DOMAIN near /\ n \in near[i] /\ \A j \in 0..(i - 1) : n \notin near[j]
<1>1. P(d)
  OBVIOUS
<1>2. ASSUME NEW i, P(i) PROVE i = d
  <2>1. i \in 0..N
    BY <1>2
  <2>2. ~(i < d) /\ ~(d < i)
    BY <1>1, <1>2, <2>1
  <2> QED BY <2>1, <2>2
<1> QED BY <1>1, <1>2 DEF Distance

-----------------------------------------------------------------------------
(* Reports.                                                                *)

\* dependency_impact and dependency_context are right: in a finite graph the
\* answer shows the nearest files, each at its distance and by a hop that is one
\* step nearer, and counts all others within the depth.
THEOREM ReportTrue ==
  ASSUME NEW graph, NEW next, NEW target, NEW depth, Searchable(graph, next, target, depth),
         NEW limit \in Nat, NEW search, search = Search(graph, next, target, NoHop, depth)
  PROVE  ReportIsTrue(graph, next, target, depth, limit, Report(graph, search, target, limit))
<1> DEFINE N       == Cardinality(graph.files)
           near    == Within(graph, next, target)
           level   == IF depth < N THEN depth ELSE N
           reached == {n \in graph.files : n # target /\ search.depth[n] # Far}
           nearer  == {pair \in reached \X reached :
                         \/ search.depth[pair[1]] < search.depth[pair[2]]
                         \/ search.depth[pair[1]] = search.depth[pair[2]] /\ pair[1] < pair[2]}
           order   == Sorted(reached, nearer)
           R       == Cardinality(reached)
           m       == IF R < limit THEN R ELSE limit
           shown   == SubSeq(order, 1, m)
           report  == Report(graph, search, target, limit)
           files   == {report.nodes[i].file : i \in DOMAIN report.nodes}
<1>1. /\ N \in Nat /\ depth \in Nat /\ target \in graph.files /\ graph.files \subseteq Nat /\ level \in 0..N
      /\ IsFiniteSet(reached) /\ R \in Nat /\ reached \subseteq graph.files
  <2>1. IsFiniteSet(graph.files) /\ depth \in Nat /\ target \in graph.files /\ graph.files \subseteq Nat
    BY DEF Searchable
  <2>2. N \in Nat
    BY <2>1, FS_CardinalityType
  <2>3. IsFiniteSet(reached)
    BY <2>1, FS_Subset
  <2>4. R \in Nat
    BY <2>3, FS_CardinalityType
  <2>5. level \in 0..N
    <3> HIDE DEF N
    <3> QED BY <2>1, <2>2
  <2> QED BY <2>1, <2>2, <2>3, <2>4, <2>5
<1>2. /\ near \in [0..N -> SUBSET graph.files] /\ DOMAIN near = 0..N
      /\ Reached(search, target) /\ search.depth[target] = 0
      /\ \A n \in graph.files : Reached(search, n) =>
           /\ search.depth[n] \in 0..N /\ search.depth[n] <= depth
           /\ \A j \in 0..N : search.depth[n] <= j => n \in near[j]
           /\ n # target => /\ search.hop[n] \in graph.files /\ Reached(search, search.hop[n])
                            /\ n \in next[search.hop[n]] /\ search.depth[n] = search.depth[search.hop[n]] + 1
      /\ \A j \in 0..N : OnTime(search, near, NoHop, depth, j)
  <2>1. near \in [0..N -> SUBSET graph.files]
    BY WithinIs
  <2>2. Measured(graph, next, target, NoHop, depth, search, near)
    BY SearchMeasures
  <2> HIDE DEF near
  <2> QED BY <2>1, <2>2 DEF Measured
<1> HIDE DEF N, near, reached
<1>3. ASSUME NEW j \in 0..N, j <= depth, NEW n \in near[j] PROVE Reached(search, n) /\ search.depth[n] <= j
  <2>1. \A i \in 0..(j - 1) : NoHop \notin near[i]
    <3> TAKE i \in 0..(j - 1)
    <3>1. i \in 0..N /\ near[i] \subseteq Nat
      BY <1>1, <1>2
    <3> QED BY <3>1 DEF NoHop
  <2> QED BY <1>2, <1>3, <2>1 DEF OnTime
<1>4. near[level] \ {target} = reached
  <2>1. level \in 0..N /\ level <= depth /\ near[level] \subseteq graph.files
    BY <1>1, <1>2
  <2>2. \A n \in near[level] \ {target} : n \in reached
    BY <1>3, <2>1 DEF reached, Reached
  <2>3. ASSUME NEW n \in reached PROVE n \in near[level] \ {target}
    <3>1. n \in graph.files /\ n # target /\ Reached(search, n)
      BY <2>3 DEF reached, Reached
    <3>2. search.depth[n] \in 0..N /\ search.depth[n] <= depth
      BY <1>2, <3>1
    <3>3. search.depth[n] <= level
      BY <1>1, <3>2
    <3> HIDE DEF level
    <3> QED BY <1>2, <2>1, <3>1, <3>3
  <2> HIDE DEF level
  <2> QED BY <2>2, <2>3
<1>5. ASSUME NEW n \in graph.files, Reached(search, n) PROVE Distance(near, n) = search.depth[n]
  <2> DEFINE d == search.depth[n]
  <2>1. d \in 0..N /\ d <= depth /\ n \in near[d]
    BY <1>2, <1>5
  <2>2. ASSUME NEW j \in 0..(d - 1), n \in near[j] PROVE FALSE
    <3>1. j \in 0..N /\ j <= depth /\ j < d
      BY <1>1, <2>1
    <3>2. d <= j
      BY <1>3, <2>2, <3>1
    <3> HIDE DEF d
    <3> QED BY <1>1, <2>1, <3>1, <3>2
  <2> HIDE DEF d
  <2>3. Distance(near, n) = d
    BY <1>1, <1>2, <2>1, <2>2, DistanceIs
  <2> QED BY <2>3 DEF d
<1>6. /\ Orders(reached, nearer)
      /\ InOrder(reached, nearer, order) /\ order \in [1..R -> reached] /\ m \in 0..R
      /\ \A n \in reached : \E i \in 1..R : order[i] = n
      /\ \A i, j \in 1..R : i < j => <<order[i], order[j]>> \in nearer
  <2>1. \A n \in reached : n \in Nat /\ search.depth[n] \in Nat
    BY <1>1, <1>2 DEF reached, Reached
  <2>2. Orders(reached, nearer)
    <3>1. \A x, y \in reached : <<x, y>> \in nearer <=>
            \/ search.depth[x] < search.depth[y]
            \/ search.depth[x] = search.depth[y] /\ x < y
      OBVIOUS
    <3> HIDE DEF nearer
    <3>2. \A x, y \in reached : x = y \/ <<x, y>> \in nearer \/ <<y, x>> \in nearer
      <4> TAKE x \in reached, y \in reached
      <4>1. x \in Nat /\ y \in Nat /\ search.depth[x] \in Nat /\ search.depth[y] \in Nat
        BY <2>1
      <4> QED BY <3>1, <4>1
    <3>3. \A x, y, z \in reached : <<x, y>> \in nearer /\ <<y, z>> \in nearer => <<x, z>> \in nearer
      BY <2>1, <3>1
    <3>4. \A x \in reached : <<x, x>> \notin nearer
      BY <2>1, <3>1
    <3> QED BY <3>2, <3>3, <3>4 DEF Orders
  <2> HIDE DEF nearer
  <2>3. InOrder(reached, nearer, order) /\ \A n \in reached : \E i \in 1..R : order[i] = n
    BY <1>1, <2>2, SortedIs
  <2>4. m \in 0..R
    <3> HIDE DEF R
    <3> QED BY <1>1
  <2> HIDE DEF order
  <2> QED BY <2>2, <2>3, <2>4 DEF InOrder
<1>7. /\ Len(order) = R /\ shown \in Seq(reached) /\ DOMAIN shown = 1..m
      /\ \A i \in 1..m : shown[i] = order[i]
  <2> HIDE DEF R, m, order, nearer
  <2>1. Len(order) = R
    BY <1>1, <1>6
  <2>2. \A i \in 1..m : order[i] \in reached
    BY <1>1, <1>6
  <2>3. shown \in Seq(reached) /\ Len(shown) = m /\ \A i \in 1..m : shown[i] = order[i]
    BY <1>1, <1>6, <2>2, SubSeqProperties
  <2> HIDE DEF shown
  <2> QED BY <2>1, <2>3
<1>8. /\ DOMAIN report.nodes = 1..m /\ Len(report.nodes) = m /\ report.omitted = R - m
      /\ \A i \in 1..m : report.nodes[i] = [file |-> order[i], depth |-> search.depth[order[i]], via |-> search.hop[order[i]]]
  <2>1. report = [nodes   |-> [i \in DOMAIN shown |-> [file |-> shown[i], depth |-> search.depth[shown[i]],
                                                      via |-> search.hop[shown[i]]]],
                  omitted |-> R - Len(shown)]
    <3> DEFINE less == SubSeq(order, 1, IF Len(order) < limit THEN Len(order) ELSE limit)
    <3>1. report = [nodes   |-> [i \in DOMAIN less |-> [file |-> less[i], depth |-> search.depth[less[i]],
                                                       via |-> search.hop[less[i]]]],
                    omitted |-> R - Len(less)]
      BY DEF Report, reached
    <3>2. less = shown
      BY <1>7
    <3> HIDE DEF less, shown, report
    <3> QED BY <3>1, <3>2
  <2> HIDE DEF report, shown, R, order, m, nearer
  <2>2. Len(shown) = m
    BY <1>1, <1>6, <1>7
  <2>3. DOMAIN report.nodes = 1..m /\ report.omitted = R - m
    BY <1>7, <2>1, <2>2
  <2>4. Len(report.nodes) = m
    <3>1. m \in Nat
      BY <1>1, <1>6
    <3> QED BY <2>3, <3>1
  <2> QED BY <1>7, <2>1, <2>3, <2>4
<1> HIDE DEF nearer, order, shown, m, R
<1>9. files = {order[i] : i \in 1..m} /\ files \subseteq reached
  <2> HIDE DEF report
  <2>1. \A i \in 1..m : order[i] \in reached /\ report.nodes[i].file = order[i]
    <3> TAKE i \in 1..m
    <3>1. order[i] \in reached
      <4>1. i \in 1..R
        BY <1>1, <1>6
      <4> QED BY <1>6, <4>1
    <3>2. report.nodes[i] = [file |-> order[i], depth |-> search.depth[order[i]], via |-> search.hop[order[i]]]
      BY <1>8
    <3>3. report.nodes[i].file = order[i]
      BY <3>2
    <3> QED BY <3>1, <3>3
  <2> QED BY <1>8, <2>1
<1> HIDE DEF files, report
<1>10. Cardinality(files) = m /\ Cardinality(reached \ files) = R - m
  <2> DEFINE f == [i \in 1..m |-> order[i]]
  <2>1. \A i, j \in 1..m : i < j => f[i] # f[j]
    <3> TAKE i \in 1..m, j \in 1..m
    <3>1. i \in 1..R /\ j \in 1..R
      BY <1>1, <1>6
    <3>2. order[i] \in reached /\ (i < j => order[i] # order[j])
      BY <1>6, <3>1 DEF Orders
    <3> QED BY <3>2
  <2>2. \A i, j \in 1..m : f[i] = f[j] => i = j
    <3> HIDE DEF f
    <3> QED BY <1>1, <1>6, <2>1
  <2>3. f \in Bijection(1..m, files)
    <3>1. f \in [1..m -> files] /\ \A n \in files : \E i \in 1..m : f[i] = n
      BY <1>9
    <3> HIDE DEF f
    <3> QED BY <2>2, <3>1 DEF Bijection, Injection, Surjection, IsInjective
  <2>4. m \in Nat /\ IsFiniteSet(1..m) /\ Cardinality(1..m) = m
    <3>1. m \in Nat
      BY <1>1, <1>6
    <3> HIDE DEF f
    <3> QED BY <3>1, FS_Interval
  <2>5. Cardinality(files) = m
    BY <2>3, <2>4, FS_Bijection DEF ExistsBijection
  <2>6. reached \cap files = files
    BY <1>9
  <2> QED BY <1>1, <2>5, <2>6, FS_Difference, ZenonT(30) DEF R
<1>11. reached = files \/ m = limit
  <2>1. ASSUME m = R PROVE reached = files
    BY <1>6, <1>9, <2>1
  <2> QED BY <2>1 DEF m
<1>12. ASSUME NEW a \in files, NEW b \in reached \ files
       PROVE  Distance(near, a) < Distance(near, b) \/ (Distance(near, a) = Distance(near, b) /\ a < b)
  <2>1. PICK i \in 1..m : order[i] = a
    BY <1>9
  <2>2. PICK j \in 1..R : order[j] = b
    BY <1>6
  <2>3. i \in 1..R /\ j \notin 1..m /\ i < j
    BY <1>1, <1>6, <1>9, <2>1, <2>2
  <2>4. <<a, b>> \in nearer
    BY <1>6, <2>1, <2>2, <2>3
  <2>5. Distance(near, a) = search.depth[a] /\ Distance(near, b) = search.depth[b]
    BY <1>1, <1>5, <1>9 DEF reached, Reached
  <2> QED BY <2>4, <2>5 DEF nearer
<1>13. ASSUME NEW i \in 1..m, NEW node, node = report.nodes[i]
       PROVE  /\ node.depth = Distance(near, node.file) /\ node.file \in next[node.via]
              /\ Distance(near, node.via) = node.depth - 1
  <2> DEFINE n == order[i]
  <2>1. node.file = n /\ node.depth = search.depth[n] /\ node.via = search.hop[n]
    <3>1. node = [file |-> n, depth |-> search.depth[n], via |-> search.hop[n]]
      BY <1>8, <1>13
    <3> QED BY <3>1
  <2>2. n \in graph.files /\ n # target /\ Reached(search, n)
    BY <1>1, <1>6 DEF reached, Reached
  <2> HIDE DEF n
  <2>3. /\ search.hop[n] \in graph.files /\ Reached(search, search.hop[n]) /\ n \in next[search.hop[n]]
        /\ search.depth[n] = search.depth[search.hop[n]] + 1
    BY <1>2, <2>2
  <2>4. Distance(near, n) = search.depth[n] /\ Distance(near, search.hop[n]) = search.depth[search.hop[n]]
    BY <1>5, <2>2, <2>3
  <2>5. search.depth[search.hop[n]] \in Nat
    BY <1>1, <1>2, <2>3
  <2> QED BY <2>1, <2>3, <2>4, <2>5
<1> QED BY <1>4, <1>8, <1>9, <1>10, <1>11, <1>12, <1>13, ZenonT(30) DEF ReportIsTrue, near, level, N, files, report

-----------------------------------------------------------------------------
(* Paths.                                                                  *)

\* The hops back from a reached file lead to the start, one step nearer each.
LEMMA BackIs ==
  ASSUME NEW graph, NEW next, NEW start, NEW stop, NEW depth, Searchable(graph, next, start, depth),
         NEW s, NEW reach, Measured(graph, next, start, stop, depth, s, reach),
         NEW to \in graph.files, Reached(s, to), NEW d, d = s.depth[to],
         NEW back, back = Back(s, to)
  PROVE  /\ d \in Nat /\ back[0] = to
         /\ \A i \in 0..d : back[i] \in graph.files /\ Reached(s, back[i]) /\ s.depth[back[i]] = d - i
         /\ \A i \in 1..d : back[i] = s.hop[back[i - 1]] /\ back[i - 1] \in next[back[i]]
<1> DEFINE S    == {n \in graph.files : Reached(s, n)}
           F    == [i \in 1..d |-> s.hop]
           R(t) == t = [i \in 0..d |-> IF i = 0 THEN to ELSE s.hop[t[i - 1]]]
<1>1. Cardinality(graph.files) \in Nat
  BY FS_CardinalityType DEF Searchable
<1>2. /\ d \in Nat /\ \A n \in S : s.depth[n] \in Nat
      /\ \A n \in S : n # start => s.hop[n] \in S /\ n \in next[s.hop[n]] /\ s.depth[n] = s.depth[s.hop[n]] + 1
      /\ s.depth[start] = 0 /\ to \in S
  BY <1>1 DEF Measured
<1> HIDE DEF S
<1>3. PICK t : Defined(d, to, F, t)
  <2> HIDE DEF F
  <2>1. d \in Nat
    BY <1>2
  <2> QED BY <2>1, Iterates, SMTT(30)
<1>4. R(t)
  <2>1. \A i \in 0..d : i # 0 => F[i] = s.hop
    BY <1>2
  <2> HIDE DEF F
  <2>2. \A i \in 0..d : (IF i = 0 THEN to ELSE F[i][t[i - 1]]) = (IF i = 0 THEN to ELSE s.hop[t[i - 1]])
    BY <2>1
  <2> QED BY <1>3, <2>2 DEF Defined
<1>5. back = CHOOSE x : R(x)
  BY DEF Back
<1>6. R(back)
  <2> HIDE DEF R
  <2> QED BY <1>4, <1>5
<1>7. back[0] = to /\ \A i \in 1..d : back[i] = s.hop[back[i - 1]]
  <2>1. 0 \in 0..d /\ \A i \in 1..d : i \in 0..d /\ i # 0
    BY <1>2
  <2>2. back[0] = to
    BY <1>6, <2>1
  <2>3. ASSUME NEW i \in 1..d PROVE back[i] = s.hop[back[i - 1]]
    BY <1>6, <2>1
  <2> QED BY <2>2, <2>3
<1>8. \A i \in 0..d : back[i] \in S /\ s.depth[back[i]] = d - i
  <2> DEFINE Good == {i \in 0..d : back[i] \in S /\ s.depth[back[i]] = d - i}
  <2>1. 0 \in Good
    BY <1>2, <1>7
  <2>2. ASSUME NEW i \in 1..d, i - 1 \in Good PROVE i \in Good
    <3>1. back[i - 1] \in S /\ s.depth[back[i - 1]] = d - (i - 1)
      BY <2>2
    <3>2. back[i - 1] # start
      BY <1>2, <3>1
    <3>3. back[i] \in S /\ s.depth[back[i - 1]] = s.depth[back[i]] + 1
      BY <1>2, <1>7, <3>1, <3>2
    <3>4. s.depth[back[i]] \in Nat
      BY <1>2, <3>3
    <3> QED BY <1>2, <3>1, <3>3, <3>4
  <2> HIDE DEF Good
  <2>3. \A i \in 0..d : i \in Good
    BY <1>2, <2>1, <2>2, Climb
  <2> QED BY <2>3 DEF Good
<1>9. \A i \in 1..d : back[i - 1] \in next[back[i]]
  <2> TAKE i \in 1..d
  <2>1. i - 1 \in 0..d
    BY <1>2
  <2>2. back[i - 1] \in S /\ s.depth[back[i - 1]] = d - (i - 1)
    BY <1>8, <2>1
  <2>3. back[i - 1] # start
    BY <1>2, <2>2
  <2> QED BY <1>2, <1>7, <2>2, <2>3
<1> QED BY <1>2, <1>7, <1>8, <1>9 DEF S

\* How many steps a path needs at least.
StepsTo(near, to, depth) == {i \in DOMAIN near : i <= depth /\ to \in near[i]}

Counts(s, to, steps) ==
  /\ ~Reached(s, to) => steps = {}
  /\ Reached(s, to) => s.depth[to] \in steps /\ \A i \in steps : s.depth[to] <= i

LEMMA LeastSteps ==
  ASSUME NEW graph, NEW next, NEW from, NEW to \in graph.files, NEW depth, Searchable(graph, next, from, depth),
         NEW s, NEW near, near = Within(graph, next, from), Measured(graph, next, from, to, depth, s, near)
  PROVE  Counts(s, to, StepsTo(near, to, depth))
<1> DEFINE N == Cardinality(graph.files)
           steps == StepsTo(near, to, depth)
<1>1. N \in Nat
  BY FS_CardinalityType DEF Searchable
<1>2. DOMAIN near = 0..N /\ steps \subseteq Nat
  BY <1>1, WithinIs DEF StepsTo
<1>3. \A i : i \in steps <=> i \in DOMAIN near /\ i <= depth /\ to \in near[i]
  BY DEF StepsTo
<1> HIDE DEF N, steps
<1>4. Reached(s, to) => s.depth[to] \in steps /\ s.depth[to] \in Nat
  BY <1>1, <1>2, <1>3 DEF Measured, N
<1>5. ASSUME NEW i \in steps PROVE Reached(s, to) /\ s.depth[to] <= i
  <2>1. PICK j \in steps : \A x \in steps : j <= x
    BY <1>2, Least
  <2>2. j \in 0..N /\ j <= depth /\ to \in near[j] /\ depth \in Nat
    BY <1>2, <1>3, <2>1 DEF Searchable
  <2>3. \A x \in 0..(j - 1) : to \notin near[x]
    <3> SUFFICES ASSUME NEW x \in 0..(j - 1), to \in near[x] PROVE FALSE
      OBVIOUS
    <3>1. x \in 0..N /\ x <= depth /\ x < j
      BY <1>1, <2>2
    <3>2. x \in steps
      BY <1>2, <1>3, <3>1
    <3> QED BY <1>1, <2>1, <2>2, <3>1, <3>2
  <2>4. Reached(s, to) /\ s.depth[to] <= j
    BY <2>2, <2>3 DEF Measured, OnTime, N
  <2>5. s.depth[to] \in Nat /\ i \in Nat /\ j <= i /\ j \in Nat
    BY <1>2, <1>4, <2>1, <2>2, <2>4
  <2> QED BY <2>4, <2>5
<1>6. steps # {} => Reached(s, to)
  BY <1>5
<1> QED BY <1>4, <1>5, <1>6 DEF Counts, steps

\* No path as short comes before the hops back: step by step it would have to
\* be queued before them, and both end in the same place.
Chain(graph, s, from, to, d, walk) ==
  /\ DOMAIN walk = 1..(d + 1) /\ walk[1] = from /\ walk[d + 1] = to
  /\ \A i \in 1..(d + 1) : walk[i] \in graph.files /\ Reached(s, walk[i]) /\ s.depth[walk[i]] = i - 1
  /\ \A i \in 1..d : s.hop[walk[i + 1]] = walk[i]

Rival(graph, next, from, to, d, other) ==
  /\ other \in [1..(d + 1) -> graph.files] /\ other[1] = from /\ other[d + 1] = to
  /\ \A i \in 1..d : other[i + 1] \in next[other[i]]

LEMMA NoneBefore ==
  ASSUME NEW graph, NEW next, NEW from, NEW to \in graph.files, NEW depth, Searchable(graph, next, from, depth),
         NEW s, s = Search(graph, next, from, to, depth), Reached(s, to),
         NEW near, near = Within(graph, next, from), NEW d, d = s.depth[to],
         \A i \in 0..(d - 1) : to \notin near[i],
         NEW walk, Chain(graph, s, from, to, d, walk), NEW other, Rival(graph, next, from, to, d, other)
  PROVE  ~Before(other, walk)
<1> DEFINE N == Cardinality(graph.files)
           q == s.queue
           L == Len(q)
<1>1. PICK par : Settled(graph, next, from, to, depth, s, par, L)
  BY SearchSettles
<1>2. Measured(graph, next, from, to, depth, s, near)
  BY SearchMeasures
<1>3. /\ N \in Nat /\ L \in Nat /\ par \in [1..L -> Nat] /\ d \in Nat /\ d <= N /\ d <= depth /\ depth \in Nat
      /\ 1 \in 1..L /\ q[1] = from /\ s.depth[from] = 0
      /\ \A a, b \in 1..L : a # b => q[a] # q[b]
      /\ \A n \in graph.files : Reached(s, n) <=> \E a \in 1..L : q[a] = n
  <2>1. N \in Nat /\ depth \in Nat
    BY FS_CardinalityType DEF Searchable
  <2> HIDE DEF L, N
  <2>2. L \in Nat /\ L \in 1..N
    BY <1>1 DEF Settled, N
  <2>3. d \in 0..N /\ d <= depth
    BY <1>2 DEF Measured, N
  <2> QED BY <1>1, <2>1, <2>2, <2>3 DEF Settled
<1>4. \A a, b \in 1..L : a < b => par[a] <= par[b] /\ (par[a] = par[b] => q[a] < q[b])
  <2> HIDE DEF L
  <2>1. SettledLine(s, par, L)
    BY <1>1 DEF Settled
  <2> QED BY <2>1 DEF SettledLine
<1>5. \A a \in 1..L : a # 1 => par[a] \in 1..L /\ s.hop[q[a]] = q[par[a]]
  <2> HIDE DEF L
  <2>1. SettledHops(next, to, depth, s, par, L)
    BY <1>1 DEF Settled
  <2> QED BY <2>1 DEF SettledHops
<1>6. \A a \in 1..L : q[a] # to /\ s.depth[q[a]] < depth =>
        \A n \in next[q[a]] : \E b \in 1..L : q[b] = n /\ par[b] <= a
  <2> HIDE DEF L
  <2>1. SettledGone(next, to, depth, s, par, L)
    BY <1>1 DEF Settled
  <2> QED BY <2>1 DEF SettledGone
<1>7. /\ near \in [0..N -> SUBSET graph.files] /\ near[0] = {from}
      /\ \A i \in 1..N : near[i] = near[i - 1] \cup UNION {next[n] : n \in near[i - 1]}
  BY WithinIs
<1> HIDE DEF N, L, q
<1>8. \A i \in 1..(d + 1) : other[i] \in near[i - 1]
  <2> DEFINE Good == {i \in 0..d : other[i + 1] \in near[i]}
  <2>1. 0 \in Good
    BY <1>3, <1>7 DEF Rival
  <2>2. ASSUME NEW i \in 1..d, i - 1 \in Good PROVE i \in Good
    <3>1. i \in 1..N /\ (i - 1) + 1 = i
      BY <1>3
    <3>2. other[i] \in near[i - 1]
      BY <2>2, <3>1
    <3>3. other[i + 1] \in near[i]
      BY <1>7, <3>1, <3>2 DEF Rival
    <3> QED BY <1>3, <3>3
  <2> HIDE DEF Good
  <2>3. \A i \in 0..d : i \in Good
    BY <1>3, <2>1, <2>2, Climb
  <2> TAKE i \in 1..(d + 1)
  <2>4. i - 1 \in 0..d /\ (i - 1) + 1 = i
    BY <1>3
  <2> QED BY <2>3, <2>4 DEF Good
<1>9. ASSUME NEW i \in 1..d PROVE other[i] # to /\ s.depth[other[i]] < depth /\ Reached(s, other[i])
  <2>1. i - 1 \in 0..N /\ i - 1 <= depth /\ i - 1 \in 0..(d - 1) /\ i \in 1..(d + 1) /\ i \in Nat
    BY <1>3
  <2>2. \A x \in 0..((i - 1) - 1) : x \in 0..(d - 1)
    BY <1>3
  <2>3. other[i] \in graph.files
    BY <2>1 DEF Rival
  <2>4. OnTime(s, near, to, depth, i - 1)
    BY <1>2, <2>1 DEF Measured, N
  <2>5. Reached(s, other[i]) /\ s.depth[other[i]] <= i - 1
    BY <1>8, <2>1, <2>4, <2>2 DEF OnTime
  <2>6. s.depth[other[i]] \in Nat
    <3>1. s.depth[other[i]] \in 0..N
      BY <1>2, <2>5, <2>3 DEF Measured, N
    <3> QED BY <1>3, <3>1
  <2>7. other[i] # to
    BY <1>8, <2>1
  <2> QED BY <1>3, <2>5, <2>6, <2>7
<1>10. ASSUME NEW i \in 1..d PROVE \E a \in 1..L : q[a] = other[i]
  <2>1. i \in 1..(d + 1)
    BY <1>3
  <2>2. other[i] \in graph.files
    BY <2>1 DEF Rival
  <2> QED BY <1>3, <1>9, <2>2
<1>11. ASSUME NEW i \in 1..d, NEW a \in 1..L, q[a] = other[i]
       PROVE  \E b \in 1..L : q[b] = other[i + 1] /\ par[b] <= a
  BY <1>6, <1>9, <1>11 DEF Rival
<1>12. ASSUME NEW i \in 1..d, NEW a \in 1..L, q[a] = walk[i]
       PROVE  \E b \in 1..L : q[b] = walk[i + 1] /\ par[b] = a
  <2>1. i + 1 \in 1..(d + 1)
    BY <1>3
  <2>2. walk[i + 1] \in graph.files /\ Reached(s, walk[i + 1]) /\ s.depth[walk[i + 1]] = (i + 1) - 1
        /\ s.hop[walk[i + 1]] = walk[i]
    BY <2>1 DEF Chain
  <2>3. PICK b \in 1..L : q[b] = walk[i + 1]
    BY <1>3, <2>2
  <2>4. b # 1
    BY <1>3, <2>2, <2>3
  <2>5. par[b] \in 1..L /\ q[par[b]] = q[a]
    BY <1>5, <1>12, <2>2, <2>3, <2>4
  <2>6. par[b] = a
    <3>1. \A x \in 1..L : x # a => q[x] # q[a]
      BY <1>3
    <3> QED BY <2>5, <3>1
  <2> QED BY <2>3, <2>6
<1> SUFFICES ASSUME NEW m \in 1..(d + 1), other[m] < walk[m], \A j \in 1..(m - 1) : other[j] = walk[j]
             PROVE  FALSE
  <2>1. DOMAIN other = 1..(d + 1)
    BY DEF Rival
  <2> QED BY <2>1 DEF Before
<1> DEFINE Ahead == {i \in 0..(d + 1) : i >= m => \E a, b \in 1..L : q[a] = other[i] /\ q[b] = walk[i] /\ a < b}
<1>13. other[m] # walk[m] /\ other[m] \in Nat /\ walk[m] \in Nat
  <2>1. other[m] \in graph.files /\ walk[m] \in graph.files /\ graph.files \subseteq Nat
    BY DEF Searchable, Rival, Chain
  <2>2. other[m] \in Nat /\ walk[m] \in Nat
    BY <2>1
  <2> QED BY <2>2
<1>14. m \in Ahead
  <2>1. m - 1 \in 1..d /\ (m - 1) + 1 = m /\ m - 1 \in 1..(m - 1)
    <3>1. m # 1
      BY <1>13 DEF Rival, Chain
    <3> QED BY <1>3, <3>1
  <2>2. PICK p \in 1..L : q[p] = other[m - 1]
    BY <1>10, <2>1
  <2>3. PICK a \in 1..L : q[a] = other[m] /\ par[a] <= p
    BY <1>11, <2>1, <2>2
  <2>4. PICK b \in 1..L : q[b] = walk[m] /\ par[b] = p
    BY <1>12, <2>1, <2>2
  <2>5. a # b
    BY <1>13, <2>3, <2>4
  <2>6. ~(b < a)
    <3> SUFFICES ASSUME b < a PROVE FALSE
      OBVIOUS
    <3>1. par[b] <= par[a] /\ (par[b] = par[a] => q[b] < q[a])
      BY <1>4
    <3>2. par[a] \in Nat /\ p \in Nat
      BY <1>3
    <3>3. q[b] < q[a]
      BY <2>3, <2>4, <3>1, <3>2
    <3> QED BY <1>13, <2>3, <2>4, <3>3
  <2>7. a < b
    BY <1>3, <2>5, <2>6
  <2> QED BY <1>3, <2>3, <2>4, <2>7
<1>15. ASSUME NEW i \in 1..(d + 1), i - 1 \in Ahead PROVE i \in Ahead
  <2>1. CASE i < m
    BY <1>3, <2>1
  <2>2. CASE i = m
    BY <1>14, <2>2
  <2>3. CASE i > m
    <3>1. i - 1 \in 1..d /\ (i - 1) + 1 = i /\ i - 1 >= m
      BY <1>3, <2>3
    <3>2. PICK a \in 1..L, b \in 1..L : q[a] = other[i - 1] /\ q[b] = walk[i - 1] /\ a < b
      BY <1>15, <3>1
    <3>3. PICK x \in 1..L : q[x] = other[i] /\ par[x] <= a
      <4>1. \E x \in 1..L : q[x] = other[(i - 1) + 1] /\ par[x] <= a
        BY <1>11, <3>1, <3>2
      <4> QED BY <3>1, <4>1
    <3>4. PICK y \in 1..L : q[y] = walk[i] /\ par[y] = b
      <4>1. \E y \in 1..L : q[y] = walk[(i - 1) + 1] /\ par[y] = b
        BY <1>12, <3>1, <3>2
      <4> QED BY <3>1, <4>1
    <3>5. par[x] \in Nat /\ par[x] < par[y]
      BY <1>3, <3>2, <3>3, <3>4, SMTT(30)
    <3>6. x # y /\ ~(y < x)
      <4>1. x # y
        BY <3>5
      <4>2. ASSUME y < x PROVE FALSE
        <5>1. par[y] <= par[x]
          BY <1>4, <4>2
        <5>2. par[y] \in Nat
          BY <1>3
        <5> QED BY <3>5, <5>1, <5>2
      <4> QED BY <4>1, <4>2
    <3>7. x < y
      BY <1>3, <3>6
    <3> QED BY <3>3, <3>4, <3>7
  <2> QED BY <1>3, <2>1, <2>2, <2>3
<1>16. 0 \in Ahead
  BY <1>3
<1>17. d + 1 \in Ahead
  <2> HIDE DEF Ahead
  <2>1. d + 1 \in Nat /\ d + 1 \in 0..(d + 1)
    BY <1>3
  <2>2. \A i \in 0..(d + 1) : i \in Ahead
    BY <1>15, <1>16, <2>1, Climb
  <2> QED BY <2>1, <2>2
<1>18. PICK a \in 1..L, b \in 1..L : q[a] = to /\ q[b] = to /\ a < b
  <2>1. d + 1 >= m
    BY <1>3
  <2> QED BY <1>17, <2>1 DEF Rival, Chain
<1> QED BY <1>3, <1>18

\* dependency_path is right: in a finite graph it has a path iff the target is
\* within the depth, a shortest one, and the first of these by display paths.
THEOREM PathLeast ==
  ASSUME NEW graph, IsFiniteSet(graph.files), graph.files \subseteq Nat,
         NEW from \in graph.files, NEW to \in graph.files, NEW depth \in Nat
  PROVE  PathIsLeast(graph, from, to, depth)
<1> DEFINE next  == Outgoing(graph)
           near  == Within(graph, next, from)
           s     == Search(graph, next, from, to, depth)
           d     == s.depth[to]
           back  == Back(s, to)
           walk  == PathAnswer(graph, from, to, depth)
           steps == StepsTo(near, to, depth)
<1>1. Searchable(graph, next, from, depth)
  BY DEF Searchable, Outgoing
<1>2. walk = IF d = Far THEN <<>> ELSE [i \in 1..(d + 1) |-> back[d + 1 - i]]
  BY DEF PathAnswer
<1> HIDE DEF s, near
<1>3. Measured(graph, next, from, to, depth, s, near)
  BY <1>1, SearchMeasures DEF s, near
<1>4. Counts(s, to, steps)
  BY <1>1, <1>3, LeastSteps DEF near, steps
<1> HIDE DEF walk, steps, d, back
<1>5. CASE ~Reached(s, to)
  BY <1>2, <1>4, <1>5 DEF PathIsLeast, Counts, Reached, walk, steps, StepsTo, near, d
<1>6. CASE Reached(s, to)
  <2>1. /\ d \in Nat /\ back[0] = to
        /\ \A i \in 0..d : back[i] \in graph.files /\ Reached(s, back[i]) /\ s.depth[back[i]] = d - i
        /\ \A i \in 1..d : back[i] = s.hop[back[i - 1]] /\ back[i - 1] \in next[back[i]]
    BY <1>1, <1>3, <1>6, BackIs, ZenonT(30) DEF d, back
  <2>2. walk = [i \in 1..(d + 1) |-> back[d + 1 - i]]
    BY <1>2, <1>6 DEF Reached, d
  <2>3. Chain(graph, s, from, to, d, walk) /\ Len(walk) = d + 1
    <3>1. DOMAIN walk = 1..(d + 1) /\ \A i \in 1..(d + 1) : walk[i] = back[d + 1 - i] /\ d + 1 - i \in 0..d
      BY <2>1, <2>2
    <3>2. Len(walk) = d + 1
      BY <2>1, <3>1
    <3>3. \A i \in 1..(d + 1) : walk[i] \in graph.files /\ Reached(s, walk[i]) /\ s.depth[walk[i]] = i - 1
      <4> TAKE i \in 1..(d + 1)
      <4>1. walk[i] = back[d + 1 - i] /\ d + 1 - i \in 0..d /\ d - (d + 1 - i) = i - 1
        BY <2>1, <3>1
      <4> QED BY <2>1, <4>1
    <3>4. \A i \in 1..d : s.hop[walk[i + 1]] = walk[i]
      <4> TAKE i \in 1..d
      <4>1. i \in 1..(d + 1) /\ i + 1 \in 1..(d + 1) /\ d + 1 - i \in 1..d
            /\ d + 1 - (i + 1) = (d + 1 - i) - 1
        BY <2>1
      <4>2. walk[i] = back[d + 1 - i] /\ walk[i + 1] = back[(d + 1 - i) - 1]
        BY <3>1, <4>1
      <4> QED BY <2>1, <4>1, <4>2
    <3>5. walk[1] = from
      <4>1. 1 \in 1..(d + 1)
        BY <2>1
      <4>2. walk[1] \in graph.files /\ Reached(s, walk[1]) /\ s.depth[walk[1]] = 0
        BY <3>3, <4>1
      <4>3. walk[1] # from =>
              s.hop[walk[1]] \in graph.files /\ Reached(s, s.hop[walk[1]])
              /\ s.depth[walk[1]] = s.depth[s.hop[walk[1]]] + 1
        BY <1>3, <4>2 DEF Measured
      <4>4. walk[1] # from => s.depth[s.hop[walk[1]]] \in Nat
        <5>1. Cardinality(graph.files) \in Nat
          BY FS_CardinalityType
        <5> QED BY <1>3, <4>3, <5>1 DEF Measured
      <4> QED BY <4>2, <4>3, <4>4
    <3>6. walk[d + 1] = to
      BY <2>1, <3>1
    <3> QED BY <3>1, <3>2, <3>3, <3>4, <3>5, <3>6 DEF Chain
  <2>4. IsWalk(graph, walk)
    <3> SUFFICES ASSUME NEW i \in 1..d PROVE <<walk[i], walk[i + 1]>> \in graph.edges
      BY <2>1, <2>3 DEF IsWalk
    <3>1. i \in 1..(d + 1) /\ i + 1 \in 1..(d + 1) /\ d + 1 - i \in 1..d /\ d + 1 - i \in 0..d
          /\ d + 1 - (i + 1) = (d + 1 - i) - 1
      BY <2>1
    <3>2. walk[i] = back[d + 1 - i] /\ walk[i + 1] = back[(d + 1 - i) - 1]
      BY <2>2, <3>1
    <3>3. walk[i] \in graph.files /\ walk[i + 1] \in next[walk[i]]
      BY <2>1, <3>1, <3>2
    <3> QED BY <3>3 DEF Outgoing
  <2>5. ASSUME NEW other \in [1..(d + 1) -> graph.files], other[1] = from, other[d + 1] = to, IsWalk(graph, other)
        PROVE  ~Before(other, walk)
    <3>1. Rival(graph, next, from, to, d, other)
      <4>1. Len(other) = d + 1
        <5>1. d + 1 \in Nat
          BY <2>1
        <5> QED BY <5>1
      <4>2. ASSUME NEW i \in 1..d PROVE other[i + 1] \in next[other[i]]
        <5>1. i \in 1..(d + 1) /\ i + 1 \in 1..(d + 1) /\ i \in 1..((d + 1) - 1)
          BY <2>1
        <5>2. <<other[i], other[i + 1]>> \in graph.edges
          BY <2>5, <4>1, <5>1 DEF IsWalk
        <5> QED BY <5>1, <5>2 DEF Outgoing
      <4> QED BY <2>5, <4>2 DEF Rival
    <3>2. \A i \in 0..(d - 1) : to \notin near[i]
      <4> SUFFICES ASSUME NEW i \in 0..(d - 1), to \in near[i] PROVE FALSE
        OBVIOUS
      <4>1. DOMAIN near = 0..Cardinality(graph.files)
        BY <1>1, WithinIs DEF near
      <4>2. d \in DOMAIN near /\ d <= depth
        BY <1>4, <1>6 DEF Counts, d, steps, StepsTo
      <4>3. Cardinality(graph.files) \in Nat
        BY FS_CardinalityType
      <4>4. i \in DOMAIN near /\ i <= depth /\ i < d
        BY <2>1, <4>1, <4>2, <4>3
      <4>5. i \in steps
        BY <4>4 DEF steps, StepsTo
      <4>6. d <= i
        BY <1>4, <1>6, <4>5 DEF Counts, d
      <4> QED BY <2>1, <4>4, <4>6
    <3> QED BY <1>1, <1>6, <2>3, <3>1, <3>2, NoneBefore DEF s, near, d
  <2>6. d \in steps /\ (CHOOSE i \in steps : \A j \in steps : i <= j) = d
    <3>1. d \in steps /\ \A i \in steps : d <= i
      BY <1>4, <1>6 DEF Counts, d
    <3>2. steps \subseteq Nat
      <4>1. Cardinality(graph.files) \in Nat
        BY FS_CardinalityType
      <4>2. DOMAIN near = 0..Cardinality(graph.files)
        BY <1>1, WithinIs DEF near
      <4> QED BY <4>1, <4>2 DEF steps, StepsTo
    <3>3. \A i \in steps : (\A j \in steps : i <= j) => i = d
      BY <2>1, <3>1, <3>2
    <3> QED BY <3>1, <3>3
  <2> QED BY <2>3, <2>4, <2>5, <2>6 DEF PathIsLeast, Chain, walk, steps, StepsTo, near
<1> QED BY <1>5, <1>6

-----------------------------------------------------------------------------
(* Answers.                                                                *)

\* The ranks of an index are those of its graph.
OwnRanks(index) == index.ranks = RankOf(DOMAIN index.rows, Joined(DOMAIN index.rows, index.edges))

LEMMA RankedIsOwn ==
  ASSUME NEW rows, NEW edges
  PROVE  OwnRanks(Ranked(rows, edges))
<1> DEFINE index == Ranked(rows, edges)
<1>1. /\ index.rows = rows /\ index.edges = Joined(DOMAIN rows, edges)
      /\ index.ranks = RankOf(DOMAIN rows, Joined(DOMAIN rows, edges))
  BY DEF Ranked
<1>2. Joined(DOMAIN rows, Joined(DOMAIN rows, edges)) = Joined(DOMAIN rows, edges)
  BY DEF Joined
<1> QED BY <1>1, <1>2 DEF OwnRanks

LEMMA RanksInit == BackInit => OwnRanks(db)
<1> SUFFICES ASSUME CodeInit PROVE OwnRanks(db)
  BY DEF BackInit
<1>1. CASE db = EmptyDb
  <2>1. db.ranks = {} /\ db.edges = {}
    BY <1>1 DEF EmptyDb
  <2> QED BY <2>1 DEF OwnRanks, RankOf, Joined
<1>2. ASSUME NEW tree, db = Built(tree) PROVE OwnRanks(db)
  BY <1>2, RankedIsOwn DEF Built
<1> QED BY <1>1, <1>2 DEF CodeInit

LEMMA RanksKept == OwnRanks(db) /\ [CodeStep]_codeVars => OwnRanks(db')
<1> SUFFICES ASSUME OwnRanks(db), [CodeStep]_codeVars PROVE OwnRanks(db')
  OBVIOUS
<1>1. ASSUME db' = db PROVE OwnRanks(db')
  BY <1>1
<1>2. ASSUME NEW s \in Scanners, Commit(s) PROVE OwnRanks(db')
  BY <1>2, RankedIsOwn DEF Commit
<1>3. ASSUME NEW f \in Paths, Delete(f) \/ \E text \in codeLoad.texts : Write(f, text) PROVE db' = db
  BY <1>3 DEF Delete, Write, scanVars
<1>4. ASSUME NEW s \in Scanners, NEW f \in Paths, Visit(s, f) \/ Parse(s, f) \/ Drain(s, f) \/ ReadFails(s, f)
      PROVE  db' = db
  BY <1>4 DEF Visit, Parse, Drain, ReadFails
<1>5. ASSUME NEW s \in Scanners, ScanBegins(s) \/ GivenUp(s) PROVE db' = db
  BY <1>5 DEF ScanBegins, GivenUp
<1>6. CASE Upgrade \/ UNCHANGED codeVars
  BY <1>1, <1>6 DEF Upgrade, codeVars, scanVars
<1> QED
  BY <1>1, <1>2, <1>3, <1>4, <1>5, <1>6 DEF CodeStep, Users

LEMMA ExplainedIsTrue == CodeTypeOK /\ OwnRanks(db) => Explained
<1> SUFFICES ASSUME CodeTypeOK, OwnRanks(db) PROVE Explained
  OBVIOUS
<1> DEFINE graph == [files |-> DOMAIN db.rows, edges |-> db.edges]
<1>1. IsFiniteSet(graph.files) /\ graph.files \subseteq Nat
  <2>1. graph.files \subseteq CodeFiles
    BY CodeAssumption DEF CodeTypeOK, IndexOK, Paths
  <2> QED BY <2>1, CodeAssumption, FS_Subset
<1>2. graph.files = DOMAIN db.rows /\ graph.edges = db.edges
  OBVIOUS
<1> HIDE DEF graph
<1>3. Depths \subseteq Nat /\ Limits \subseteq Nat
  BY DEF Depths, Limits
<1>4. ASSUME NEW from \in graph.files, NEW to \in graph.files, NEW d \in Depths
      PROVE  PathIsLeast(graph, from, to, d)
  BY <1>1, <1>3, PathLeast
<1>5. ASSUME NEW f \in graph.files, NEW d \in Depths, NEW n \in Limits
      PROVE  /\ ReportIsTrue(graph, Incoming(graph), f, d, n, ImpactAnswer(graph, f, d, n))
             /\ ReportIsTrue(graph, Around(graph), f, d, n, ContextAnswer(graph, f, d, n))
  <2>1. Searchable(graph, Incoming(graph), f, d) /\ Searchable(graph, Around(graph), f, d)
    BY <1>1, <1>3 DEF Searchable, Incoming, Outgoing, Around
  <2>2. n \in Nat
    BY <1>3
  <2> QED BY <2>1, <2>2, ReportTrue DEF ImpactAnswer, ContextAnswer
<1>6. db.ranks = RankOf(graph.files, Joined(graph.files, graph.edges))
  BY <1>2 DEF OwnRanks
<1> QED BY <1>4, <1>5, <1>6 DEF Explained, graph

-----------------------------------------------------------------------------
(* The theorems.                                                           *)

\* Every variable of the schedules and of the code index stays in its range.
THEOREM TypeCorrect == BackSpec => [](TypeOK /\ CodeTypeOK)
<1>1. BackInit => TypeOK /\ CodeTypeOK
  BY TypeInit, CodeTypeInit DEF BackInit
<1>2. TypeOK /\ CodeTypeOK /\ [BackNext]_backVars => (TypeOK /\ CodeTypeOK)'
  BY UpkeepSteps, TypeKept, CodeSteps, CodeTypeKept
<1> QED
  BY <1>1, <1>2, PTL DEF BackSpec

\* The clock only retries failures: within the life of a daemon no run begins
\* for a generation of the catalog that one has completed.
THEOREM GenerationOnce == BackSpec => OncePerGeneration
<1>1. BackInit => Later
  BY DEF BackInit, Init, Later, NoRun
<1>2. TypeOK /\ Later /\ [BackNext]_backVars => Later'
  BY UpkeepSteps, LaterKept
<1>3. TypeOK /\ Later /\ [BackNext]_backVars => [vpc = "due" /\ vpc' = "refresh" => vdue.gen > done]_vars
  BY UpkeepSteps, BeginsForNews
<1> QED
  BY <1>1, <1>2, <1>3, TypeCorrect, PTL DEF BackSpec, OncePerGeneration

\* What a scan of the code skips as unchanged is true: a complete row with the
\* stat of its file has the text that is there and the edges of its imports,
\* except to what was away, wherever edits, failures and other scans fell; but
\* for files that were saved again under the stat of a row.
THEOREM SkippedIsTrue == BackSpec => []RowsTrue
<1>1. BackInit => CodeInv
  BY CodeInvInit
<1>2. CodeTypeOK /\ CodeInv /\ [BackNext]_backVars => CodeInv'
  BY CodeSteps, CodeInvKept
<1>3. CodeTypeOK /\ CodeInv => RowsTrue
  BY DEF CodeTypeOK, IndexOK, CodeInv, IndexTrue, Sound, Targets, RowsTrue, IsCurrent
<1> QED
  BY <1>1, <1>2, <1>3, TypeCorrect, PTL DEF BackSpec

\* What is said of code is true: besides what scans skip, the answers about the
\* graph of the files they left.  A path is a shortest one and the first of
\* these, a report shows the nearest files at their distances with a hop that
\* is one step nearer and counts the others, and the ranks are of this graph.
THEOREM AnswersHold == BackSpec => []AnswersTrue
<1>1. BackInit => OwnRanks(db)
  BY RanksInit
<1>2. CodeTypeOK /\ OwnRanks(db) /\ [BackNext]_backVars => OwnRanks(db)'
  BY CodeSteps, RanksKept
<1>3. CodeTypeOK /\ OwnRanks(db) /\ RowsTrue => AnswersTrue
  BY ExplainedIsTrue DEF AnswersTrue
<1> QED
  BY <1>1, <1>2, <1>3, TypeCorrect, SkippedIsTrue, PTL DEF BackSpec

=============================================================================
