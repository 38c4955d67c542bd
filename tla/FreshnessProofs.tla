--------------------------- MODULE FreshnessProofs ---------------------------
(* What holds of Freshness for every set of files and queries and every     *)
(* bound, whoever else commits to the catalog: type correctness, that an    *)
(* answer labelled fresh is current, and that a fingerprint hides nothing.  *)
EXTENDS Freshness, TLAPS

\* Every definition that only groups variables or names a set of states.
USE DEF treeVars, catalog, dbVars, serveVars, wakeVars, passVars, walkVars, queryVars,
        scanVars, sideVars, worksOnly, queriesOnly, coverVars, besides, sideOnly

-----------------------------------------------------------------------------
(* Type correctness.                                                       *)

\* Edits and deletions of the source tree keep every variable in its range.
LEMMA TreeTypes ==
  ASSUME TypeOK, NEW f \in Files, Edit(f) \/ Delete(f)
  PROVE  TypeOK'
<1>1. \A v \in Version : Put(f, v) /\ edits' = edits + 1 /\ edits < MaxEdits => TypeOK'
  <2> SUFFICES ASSUME NEW v \in Version, Put(f, v), edits' = edits + 1, edits < MaxEdits
               PROVE  TypeOK'
    OBVIOUS
  <2>1. edits' \in Version
    BY FreshnessAssumption DEF TypeOK, Version
  <2>2. since' \in [Queries -> [Files -> SUBSET Version]]
    BY DEF TypeOK, Put
  <2>3. QED
    BY <2>1, <2>2 DEF TypeOK, Put
<1>2. edits < MaxEdits => edits + 1 \in Version /\ Absent \in Version
  BY FreshnessAssumption DEF TypeOK, Version, Absent
<1>3. QED
  BY <1>1, <1>2 DEF Edit, Delete

\* What a pass leaves of its locals when it returns to the loop.
LEMMA EndTypes ==
  ASSUME PassEnds
  PROVE  /\ wpc' \in WorkerStates /\ forced' \in BOOLEAN /\ target' \in Nat
         /\ covers' \subseteq Queries
         /\ seen' \in [Files -> Version] /\ body' \in [Files -> Version]
         /\ todo' \subseteq Files /\ failed' \subseteq Files /\ basis' \in [Files -> Version]
<1>1. NoFiles \in [Files -> Version]
  BY FreshnessAssumption DEF NoFiles, Version, Absent
<1>2. QED
  BY <1>1 DEF PassEnds, WorkerStates

\* The worker's steps keep every variable in its range.
LEMMA WorkerTypes == ASSUME TypeOK, Worker PROVE TypeOK'
<1>a. Absent \in Version
  BY FreshnessAssumption DEF Version, Absent
<1>c. Changed(stat) \subseteq Files
  BY DEF Changed
<1> USE DEF WorkerStates
<1>1. CASE Drain
  BY <1>1 DEF TypeOK, Drain
<1>2. CASE Backstop
  BY <1>2 DEF TypeOK, Backstop
<1>3. CASE BeginPass
  <2>1. refreshQueued' \in BOOLEAN
    BY <1>3, Zenon DEF BeginPass, ClearQueued
  <2>2. lastError' \in BOOLEAN
    BY <1>3, Zenon DEF TypeOK, BeginPass
  <2>3. opened' \in BOOLEAN /\ settled' \in BOOLEAN
    BY <1>3, Zenon DEF TypeOK, BeginPass
  <2>4. CASE wpc' \in {"stat", "restat"}
    BY <1>3, <2>1, <2>2, <2>3, <2>4 DEF TypeOK, BeginPass, PassEnds
  <2>5. CASE wpc' = "recv"
    <3>1. PassEnds /\ UNCHANGED <<pending, applied, watchesReady, covered>>
      BY <1>3, <2>5 DEF BeginPass
    <3>2. QED
      BY <1>3, <2>1, <2>2, <2>3, <3>1, EndTypes DEF TypeOK, BeginPass
  <2>6. QED
    BY <1>3, <2>4, <2>5 DEF BeginPass, PassEnds
<1>4. CASE OpenFails
  <2>1. refreshQueued' \in BOOLEAN
    BY <1>4, Zenon DEF OpenFails, ClearQueued
  <2>2. lastError' \in BOOLEAN
    BY <1>4, Zenon DEF OpenFails
  <2>3. QED
    BY <1>4, <2>1, <2>2, EndTypes DEF TypeOK, OpenFails
<1>5. CASE DecideStale
  BY <1>5 DEF TypeOK, DecideStale
<1>6. CASE DecideRescan
  BY <1>6, <1>c DEF TypeOK, DecideRescan
<1>17. CASE StalenessFails
  BY <1>17 DEF TypeOK, StalenessFails
<1>7. CASE BeginFullRead
  BY <1>7 DEF TypeOK, BeginFullRead
<1>8. CASE CommitRescan
  <2>1. row' \in [Files -> Version] /\ stat' \in [Files -> Version]
    BY <1>8, <1>a DEF TypeOK, CommitRescan
  <2>2. QED
    BY <1>8, <2>1 DEF TypeOK, CommitRescan
<1>9. CASE CommitScan
  <2>1. row' \in [Files -> Version] /\ stat' \in [Files -> Version]
    BY <1>9, <1>a DEF TypeOK, CommitScan
  <2>2. QED
    BY <1>9, <2>1 DEF TypeOK, CommitScan
<1>10. CASE RescanFails
  BY <1>10 DEF TypeOK, RescanFails
<1>11. CASE ScanFails
  <2>1. lastError' \in BOOLEAN
    BY <1>11, Zenon DEF ScanFails
  <2>2. QED
    BY <1>11, <2>1, EndTypes DEF TypeOK, ScanFails
<1>12. CASE MarkPass
  BY <1>12, EndTypes DEF TypeOK, MarkPass, MaxOf
<1>13. CASE \E f \in Files : StatFile(f)
  BY <1>13 DEF TypeOK, StatFile
<1>14. CASE \E f \in Files : ReadFile(f)
  BY <1>14 DEF TypeOK, ReadFile
<1>15. CASE \E f \in Files : ReadFails(f)
  BY <1>15 DEF TypeOK, ReadFails
<1>16. QED
  BY <1>1, <1>2, <1>3, <1>4, <1>5, <1>6, <1>7, <1>8, <1>9, <1>10, <1>11, <1>12,
     <1>13, <1>14, <1>15, <1>17 DEF Worker

\* A query thread's steps keep every variable in its range.
LEMMA QueryTypes == ASSUME TypeOK, NEW q \in Queries, Query(q) PROVE TypeOK'
<1> USE DEF QueryStates
<1>1. CASE \E p \in Policies : Enter(q, p)
  <2> PICK p \in Policies : Enter(q, p)
    BY <1>1
  <2>1. since' \in [Queries -> [Files -> SUBSET Version]]
    BY DEF TypeOK, Enter
  <2>2. QED
    BY <2>1 DEF TypeOK, Enter, Uncover
<1>2. CASE RequestPass(q)
  BY <1>2 DEF TypeOK, RequestPass, AfterRequest
<1>3. CASE SendBarrier(q)
  BY <1>3 DEF TypeOK, SendBarrier, AfterRequest
<1>4. CASE BarrierPasses(q)
  BY <1>4 DEF TypeOK, BarrierPasses
<1>5. ASSUME QueryEnds(q) PROVE TypeOK'
  BY <1>5 DEF TypeOK, QueryEnds, Uncover
<1>6. CASE BarrierTimesOut(q)
  BY <1>5, <1>6 DEF TypeOK, BarrierTimesOut
<1>7. CASE Answer(q)
  BY <1>5, <1>7 DEF Answer
<1>8. QED
  BY <1>1, <1>2, <1>3, <1>4, <1>6, <1>7 DEF Query

\* The side scan's steps keep every variable in its range.
LEMMA SideTypes == ASSUME TypeOK, Side PROVE TypeOK'
<1>a. Absent \in Version /\ NoFiles \in [Files -> Version]
  BY FreshnessAssumption DEF Version, Absent, NoFiles
<1> USE DEF SideStates
<1>1. CASE SideBegin
  BY <1>1 DEF TypeOK, SideBegin
<1>2. CASE SideRecheck
  BY <1>2 DEF TypeOK, SideRecheck
<1>3. CASE SideBeginRead
  BY <1>3 DEF TypeOK, SideBeginRead
<1>4. CASE SideCommit
  BY <1>4, <1>a DEF TypeOK, SideCommit, SideEnds
<1>5. CASE \E f \in Files : SideStat(f)
  BY <1>5 DEF TypeOK, SideStat
<1>6. CASE \E f \in Files : SideRead(f)
  <2> PICK f \in Files : SideRead(f)
    BY <1>6
  <2>1. sbody' \in [Files -> Version] /\ failures' \in Nat
    BY DEF TypeOK, SideRead
  <2>2. QED
    BY <2>1 DEF TypeOK, SideRead
<1>7. CASE SideFails
  BY <1>7, <1>a DEF TypeOK, SideFails, SideEnds
<1>8. QED
  BY <1>1, <1>2, <1>3, <1>4, <1>5, <1>6, <1>7 DEF Side

\* Every step keeps every variable in its range.
LEMMA TypeStep == TypeOK /\ [Next]_vars => TypeOK'
<1> SUFFICES ASSUME TypeOK, [Next]_vars PROVE TypeOK'
  OBVIOUS
<1>1. CASE Environment
  <2>1. CASE DeliverEvent
    BY <2>1 DEF TypeOK, DeliverEvent
  <2>2. QED
    BY <1>1, <2>1, TreeTypes DEF Environment
<1>2. CASE RegisterWatches
  BY <1>2 DEF TypeOK, RegisterWatches
<1>3. CASE UNCHANGED vars
  BY <1>3 DEF TypeOK, vars
<1>4. QED
  BY <1>1, <1>2, <1>3, WorkerTypes, QueryTypes, SideTypes DEF Next

\* The program starts in the range of its types.
LEMMA InitTypes == Init => TypeOK
<1> SUFFICES ASSUME Init PROVE TypeOK
  OBVIOUS
<1>1. scanned \in BOOLEAN /\ forced \in BOOLEAN
  BY Zenon DEF Init
<1>2. \A v \in {0, 1} : v \in Version
  BY FreshnessAssumption DEF Version
<1>3. row \in [Files -> Version] /\ stat \in [Files -> Version] /\ fp \in [Files -> Version]
  BY <1>2 DEF Init, FirstTree, NoFiles, Absent
<1>4. QED
  BY <1>1, <1>2, <1>3
  DEF Init, TypeOK, FirstTree, NoFiles, Absent, Version, NoPolicy, WorkerStates,
      QueryStates, SideStates

\* Every variable of the freshness machinery keeps the type the code gives it,
\* whatever the numbers of files, queries, edits and failures.
THEOREM TypeCorrect == Spec => []TypeOK
  BY InitTypes, TypeStep, PTL DEF Spec

-----------------------------------------------------------------------------
(* A fresh answer is current.  FreshIsCurrent is not inductive: that a      *)
(* commit gives covered queries nothing older than their entry rests on     *)
(* what the pass has walked and read, and that a file the pass does not     *)
(* read is current rests on what another scan could store under the same    *)
(* stat, before its commit and after it.                                    *)

Active == {q \in Queries : qpc[q] # "idle"}
Walking == wpc \in {"stat", "restat", "fullstat"}
Reading == wpc \in {"read", "fullread"}
\* Files the pass has taken a stat of in its latest walk.
Walked == IF Walking THEN Files \ todo ELSE IF Reading THEN Files ELSE {}
\* Files the pass has read.
ReadSoFar ==
  IF Reading
    THEN {f \in Files : seen[f] # Absent /\ (wpc = "read" => basis[f] # seen[f])}
         \ (todo \cup failed)
    ELSE {}
\* The same of another scan: what it has a stat of, and what it has a body of.
SideWalked == IF spc = "stat" THEN Files \ stodo ELSE IF spc = "read" THEN Files ELSE {}
SideRows == {f \in Files : spc = "read" /\ sbody[f] # Absent}
\* Files the catalog can be held to: neither unread nor mixed.
Sound == Files \ (unread \cup mixed)

\* Version numbers in use were handed out before.
Versions ==
  \A f \in Files :
     tree[f] <= edits /\ stat[f] <= edits /\ seen[f] <= edits /\ sseen[f] <= edits

\* Only queries in flight are covered, a pass in progress will cover every
\* one that was covered before, and a query remembers what the tree holds.
Coverage ==
  /\ covers \subseteq Active /\ covered \subseteq Active /\ scovers \subseteq Active
  /\ Walking \/ Reading \/ wpc = "mark" => covered \subseteq covers
  /\ \A q \in Active, f \in Files : tree[f] \in since[q][f]
  /\ \A q \in Queries : fresh[q] => qpc[q] = "answer" /\ q \in covered

\* Rows indexed under a stat that is not their own are not current any more,
\* and no stat of the tree will ever be that one again.
RowsOrMoved ==
  \A f \in Files : row[f] # stat[f] => stat[f] # Absent /\ tree[f] # stat[f]

\* What a walk and its reads have found holds for the queries of the pass, and
\* so does a row stored under the very stat the walk has found.
WalkFinds ==
  /\ \A f \in Walked : \A q \in covers : /\ seen[f] \in since[q][f]
                                         /\ stat[f] = seen[f] => row[f] \in since[q][f]
  /\ \A f \in ReadSoFar : /\ \A q \in covers : body[f] \in since[q][f]
                          /\ body[f] # seen[f] => tree[f] # seen[f]

\* What another scan has found holds for the queries in flight since it began.
SideFinds ==
  /\ spc = "read" => \A f \in stodo : sseen[f] # Absent
  /\ \A f \in Files : spc # "read" \/ sseen[f] = Absent \/ f \in stodo => sbody[f] = Absent
  /\ \A f \in SideWalked : \A q \in scovers : sseen[f] \in since[q][f]
  /\ \A f \in SideRows : /\ \A q \in scovers : sbody[f] \in since[q][f]
                         /\ sbody[f] # sseen[f] => tree[f] # sseen[f]

\* If the two scans have taken the same stat of a file, the body the other one
\* would store under it is recent enough for the queries of this pass.
Meets ==
  \A f \in SideRows \cap Walked :
     sseen[f] = seen[f] => \A q \in covers : sbody[f] \in since[q][f]

\* The fingerprint speaks of the stats stored for every sound file.
Fingerprint == scanned => \A f \in Sound : fp[f] = stat[f]

\* The catalog is current for a finished pass and for every covered query.
Current ==
  \A q \in (covered \cup (IF wpc = "mark" THEN covers ELSE {})) \ predates :
     \A f \in Sound : row[f] \in since[q][f]

Inv == /\ Versions /\ Coverage /\ RowsOrMoved /\ WalkFinds
       /\ SideFinds /\ Meets /\ Fingerprint /\ Current

IInv == TypeOK /\ Inv

\* The first state: nobody asks, nothing is walked, and a catalog left by an
\* earlier daemon describes the tree it was built from.
LEMMA InitInv == Init => IInv
<1> SUFFICES ASSUME Init PROVE IInv
  OBVIOUS
<1>1. TypeOK
  BY InitTypes
<1>2. Versions
  BY DEF Init, Versions, FirstTree, NoFiles, Absent
<1>3. Coverage
  BY DEF Init, Coverage, Active, Walking, Reading
<1>4. RowsOrMoved
  BY DEF Init, RowsOrMoved, FirstTree, NoFiles
<1>5. WalkFinds
  BY DEF Init, WalkFinds, Walked, ReadSoFar, Walking, Reading
<1>6. SideFinds /\ Meets
  BY DEF Init, SideFinds, Meets, SideWalked, SideRows, NoFiles
<1>7. Fingerprint /\ Current
  BY DEF Init, Fingerprint, Current, Sound
<1>8. QED
  BY <1>1, <1>2, <1>3, <1>4, <1>5, <1>6, <1>7 DEF IInv, Inv

\* A step that leaves tree, catalog, walks and queries alone, and does not move
\* the worker into or out of its walk, keeps the invariant.
LEMMA Quiet ==
  ASSUME Inv,
         UNCHANGED <<tree, edits, dbVars, covered, covers, walkVars, qpc, since, fresh, sideVars>>,
         \/ UNCHANGED wpc
         \/ {wpc, wpc'} \subseteq {"startup", "recv", "drained"}
  PROVE  Inv'
<1>1. UNCHANGED <<Walking, Reading, wpc = "mark">>
  BY DEF Walking, Reading
<1>2. Walked' = Walked /\ ReadSoFar' = ReadSoFar /\ Active' = Active
  BY DEF Walked, ReadSoFar, Active, Walking, Reading
<1>3. SideWalked' = SideWalked /\ SideRows' = SideRows /\ Sound' = Sound
  BY DEF SideWalked, SideRows, Sound
<1>4. Versions' /\ RowsOrMoved' /\ Fingerprint'
  BY <1>3 DEF Inv, Versions, RowsOrMoved, Fingerprint
<1>5. Coverage'
  BY <1>1, <1>2 DEF Inv, Coverage
<1>6. WalkFinds' /\ SideFinds' /\ Meets'
  BY <1>2, <1>3 DEF Inv, WalkFinds, SideFinds, Meets
<1>7. Current'
  BY <1>1, <1>3 DEF Inv, Current
<1>8. QED
  BY <1>4, <1>5, <1>6, <1>7 DEF Inv

\* What another scan has found is no concern of a step of the worker.
LEMMA SideStays ==
  ASSUME Inv, UNCHANGED <<tree, since, sideVars>>
  PROVE  SideFinds' /\ SideRows' = SideRows
<1>1. SideWalked' = SideWalked /\ SideRows' = SideRows
  BY DEF SideWalked, SideRows
<1>2. QED
  BY <1>1 DEF Inv, SideFinds

\* An edit or a deletion: the tree moves to a version nothing was ever stored
\* under, or away from one that is present, and queries in flight see it.
LEMMA TreeInv ==
  ASSUME TypeOK, Inv, NEW f \in Files, Edit(f) \/ Delete(f)
  PROVE  Inv'
<1>1. PICK v \in Version :
         Put(f, v) /\ (v = edits + 1 \/ (v = Absent /\ tree[f] # Absent)) /\ edits' = edits + 1
  BY FreshnessAssumption DEF Edit, Delete, TypeOK, Version, Absent
<1>2. /\ UNCHANGED <<dbVars, covered, covers, walkVars, qpc, fresh, wpc, sideVars>>
      /\ tree' = [tree EXCEPT ![f] = v]
      /\ \A q \in Queries : since'[q] =
            [since[q] EXCEPT ![f] = IF qpc[q] = "idle" THEN @ ELSE @ \cup {v}]
  BY <1>1 DEF Put
<1>3. edits \in Nat /\ v <= edits' /\ edits <= edits' /\ edits' = edits + 1
  BY <1>1, FreshnessAssumption DEF TypeOK, Version, Absent
<1>4. /\ Walked' = Walked /\ ReadSoFar' = ReadSoFar /\ Active' = Active
      /\ SideWalked' = SideWalked /\ SideRows' = SideRows /\ Sound' = Sound
  BY <1>2 DEF Walked, ReadSoFar, Active, Walking, Reading, SideWalked, SideRows, Sound
<1>5. ASSUME NEW q \in Queries, NEW g \in Files
      PROVE  since'[q][g] = IF g = f /\ qpc[q] # "idle" THEN since[q][g] \cup {v} ELSE since[q][g]
  <2>1. since[q] \in [Files -> SUBSET Version]
    BY DEF TypeOK
  <2>2. QED
    BY <1>2, <2>1
<1>6. \A q \in Queries, g \in Files : since[q][g] \subseteq since'[q][g]
  BY <1>5
<1>7. \A g \in Files : tree'[g] = (IF g = f THEN v ELSE tree[g])
  BY <1>2 DEF TypeOK
<1>8. \A x \in Version : x <= edits => x <= edits'
  BY <1>3 DEF Version
<1>9. Versions'
  <2> SUFFICES ASSUME NEW g \in Files
               PROVE  /\ tree'[g] <= edits' /\ stat'[g] <= edits'
                      /\ seen'[g] <= edits' /\ sseen'[g] <= edits'
    BY DEF Versions
  <2>1. /\ tree[g] \in Version /\ stat[g] \in Version
        /\ seen[g] \in Version /\ sseen[g] \in Version
    BY DEF TypeOK
  <2>2. /\ tree[g] <= edits' /\ stat[g] <= edits'
        /\ seen[g] <= edits' /\ sseen[g] <= edits'
    BY <1>8, <2>1 DEF Inv, Versions
  <2>3. QED
    BY <1>2, <1>3, <1>7, <2>2
<1>10. Coverage'
  <2>1. \A q \in Active, g \in Files : tree'[g] \in since'[q][g]
    BY <1>5, <1>7 DEF Inv, Coverage, Active
  <2>2. QED
    BY <1>2, <1>4, <2>1 DEF Inv, Coverage, Walking, Reading
<1>11. \A g \in Files, x \in Version : x <= edits /\ x # Absent /\ tree[g] # x => tree'[g] # x
  BY <1>1, <1>3, <1>7 DEF Version, Absent
<1>12. RowsOrMoved'
  BY <1>2, <1>11 DEF Inv, RowsOrMoved, Versions, TypeOK
<1>13. WalkFinds'
  <2>1. \A g \in ReadSoFar : seen[g] # Absent /\ g \in Files
    BY DEF ReadSoFar
  <2>2. \A g \in ReadSoFar : body[g] # seen[g] => tree'[g] # seen[g]
    <3> SUFFICES ASSUME NEW g \in ReadSoFar, body[g] # seen[g] PROVE tree'[g] # seen[g]
      OBVIOUS
    <3>1. g \in Files /\ seen[g] # Absent /\ tree[g] # seen[g]
      BY <2>1 DEF Inv, WalkFinds
    <3>2. seen[g] \in Version /\ seen[g] <= edits
      BY <3>1 DEF Inv, Versions, TypeOK
    <3>3. QED
      BY <3>1, <3>2, <1>11
  <2>3. covers \subseteq Queries /\ Walked \subseteq Files
    BY DEF TypeOK, Walked
  <2>4. ASSUME NEW g \in Walked, NEW q \in covers
        PROVE  /\ seen[g] \in since'[q][g]
               /\ stat[g] = seen[g] => row[g] \in since'[q][g]
    BY <2>3, <2>4, <1>6 DEF Inv, WalkFinds
  <2>5. ASSUME NEW g \in ReadSoFar, NEW q \in covers PROVE body[g] \in since'[q][g]
    BY <2>1, <2>3, <2>5, <1>6 DEF Inv, WalkFinds
  <2>6. QED
    BY <1>2, <1>4, <2>2, <2>4, <2>5 DEF WalkFinds
<1>14. Fingerprint'
  BY <1>2, <1>4 DEF Inv, Fingerprint
<1>15. Current'
  <2> SUFFICES ASSUME NEW q \in (covered \cup (IF wpc = "mark" THEN covers ELSE {})) \ predates,
                      NEW g \in Sound
               PROVE  row[g] \in since'[q][g]
    BY <1>2, <1>4 DEF Current
  <2>1. q \in Queries /\ g \in Files
    BY DEF TypeOK, Sound
  <2>2. QED
    BY <2>1, <1>6 DEF Inv, Current
<1>16. SideFinds' /\ Meets'
  <2>1. covers \subseteq Queries /\ scovers \subseteq Queries /\ SideWalked \subseteq Files
    BY DEF TypeOK, SideWalked
  <2>2. ASSUME NEW g \in SideRows PROVE sbody[g] # sseen[g] => tree'[g] # sseen[g]
    <3>1. g \in Files /\ sseen[g] # Absent
      BY <2>2 DEF SideRows, Inv, SideFinds
    <3>2. sseen[g] \in Version /\ sseen[g] <= edits
      BY <3>1 DEF Inv, Versions, TypeOK
    <3>3. QED
      BY <2>2, <3>1, <3>2, <1>11 DEF Inv, SideFinds
  <2>3. ASSUME NEW g \in SideWalked, NEW q \in scovers PROVE sseen[g] \in since'[q][g]
    BY <2>1, <2>3, <1>6 DEF Inv, SideFinds
  <2>4. ASSUME NEW g \in SideRows, NEW q \in scovers PROVE sbody[g] \in since'[q][g]
    BY <2>1, <2>4, <1>6 DEF Inv, SideFinds, SideRows
  <2>5. SideFinds'
    BY <1>2, <1>4, <2>2, <2>3, <2>4 DEF Inv, SideFinds
  <2>6. ASSUME NEW g \in SideRows \cap Walked, NEW q \in covers, sseen[g] = seen[g]
        PROVE  sbody[g] \in since'[q][g]
    BY <2>1, <2>6, <1>6 DEF Inv, Meets, SideRows
  <2>7. QED
    BY <1>2, <1>4, <2>5, <2>6 DEF Meets
<1>17. QED
  BY <1>9, <1>10, <1>12, <1>13, <1>14, <1>15, <1>16 DEF Inv

\* A pass starts, or has nothing to do.
LEMMA BeginInv == ASSUME TypeOK, Inv, BeginPass PROVE Inv'
<1>a. UNCHANGED <<tree, edits, dbVars, covered, qpc, since, fresh, sideVars>>
  BY DEF BeginPass
<1>b. SideFinds' /\ Active' = Active /\ Sound' = Sound
  BY <1>a, SideStays DEF Active, Sound
<1>1. CASE wpc' = "recv"
  <2>1. covers' = {} /\ seen' = NoFiles
    BY <1>1 DEF BeginPass, PassEnds
  <2>2. wpc' # "mark" /\ Walked' = {} /\ ReadSoFar' = {} /\ ~Walking' /\ ~Reading'
    BY <1>1 DEF Walked, ReadSoFar, Walking, Reading
  <2>3. edits \in Nat
    BY FreshnessAssumption DEF TypeOK, Version
  <2>4. Versions' /\ RowsOrMoved' /\ Fingerprint'
    BY <1>a, <1>b, <2>1, <2>3 DEF Inv, Versions, RowsOrMoved, Fingerprint, NoFiles, Absent
  <2>5. Coverage' /\ WalkFinds' /\ Meets' /\ Current'
    BY <1>1, <1>a, <1>b, <2>1, <2>2 DEF Inv, Coverage, WalkFinds, Meets, Current
  <2>6. QED
    BY <1>b, <2>4, <2>5 DEF Inv
<1>2. CASE wpc' # "recv"
  <2>1. seen' = seen /\ wpc' \in {"stat", "restat"} /\ todo' = Files /\ covers' = Active
    BY <1>2 DEF BeginPass, PassEnds, Active
  <2>2. Walked' = {} /\ ReadSoFar' = {}
    BY <2>1 DEF Walked, ReadSoFar, Walking, Reading
  <2>3. Versions' /\ RowsOrMoved' /\ Fingerprint' /\ WalkFinds' /\ Meets'
    BY <1>a, <1>b, <2>1, <2>2 DEF Inv, Versions, RowsOrMoved, Fingerprint, WalkFinds, Meets
  <2>4. Coverage' /\ Current'
    BY <1>a, <1>b, <2>1 DEF Inv, Coverage, Current
  <2>5. QED
    BY <1>b, <2>3, <2>4 DEF Inv
<1>3. QED
  BY <1>1, <1>2

\* A pass that fails leaves the catalog it found.
LEMMA AbortInv ==
  ASSUME TypeOK, Inv, PassEnds,
         UNCHANGED <<tree, edits, dbVars, covered, qpc, since, fresh, sideVars>>
  PROVE  Inv'
<1>1. /\ covers' = {} /\ seen' = NoFiles /\ wpc' = "recv" /\ Sound' = Sound
      /\ Walked' = {} /\ ReadSoFar' = {} /\ Active' = Active /\ ~Walking' /\ ~Reading'
  BY DEF PassEnds, Walked, ReadSoFar, Active, Walking, Reading, Sound
<1>2. edits \in Nat
  BY FreshnessAssumption DEF TypeOK, Version
<1>3. Versions' /\ RowsOrMoved' /\ Fingerprint'
  BY <1>1, <1>2 DEF Inv, Versions, RowsOrMoved, Fingerprint, NoFiles, Absent
<1>4. Coverage' /\ WalkFinds' /\ Meets' /\ Current'
  BY <1>1 DEF Inv, Coverage, WalkFinds, Meets, Current
<1>5. QED
  BY <1>3, <1>4, SideStays DEF Inv

\* A finished pass covers its queries: Current said so already.
LEMMA MarkInv == ASSUME TypeOK, Inv, MarkPass PROVE Inv'
<1>1. /\ UNCHANGED <<tree, edits, dbVars, qpc, since, fresh, sideVars>>
      /\ covered' = covered \cup covers
      /\ covers' = {} /\ seen' = NoFiles /\ wpc' = "recv" /\ wpc = "mark"
  BY DEF MarkPass, PassEnds
<1>2. /\ Walked' = {} /\ ReadSoFar' = {} /\ Active' = Active /\ ~Walking' /\ ~Reading'
      /\ Sound' = Sound
  BY <1>1 DEF Walked, ReadSoFar, Active, Walking, Reading, Sound
<1>3. edits \in Nat
  BY FreshnessAssumption DEF TypeOK, Version
<1>4. Versions' /\ RowsOrMoved' /\ Fingerprint'
  BY <1>1, <1>2, <1>3 DEF Inv, Versions, RowsOrMoved, Fingerprint, NoFiles, Absent
<1>5. Coverage' /\ WalkFinds' /\ Meets' /\ Current'
  BY <1>1, <1>2 DEF Inv, Coverage, WalkFinds, Meets, Current
<1>6. QED
  BY <1>1, <1>4, <1>5, SideStays DEF Inv

\* The walk takes the stat of one more file: a row or another scan's body that
\* has that stat is then what the tree holds.
LEMMA StatInv == ASSUME TypeOK, Inv, NEW f \in Files, StatFile(f) PROVE Inv'
<1>1. /\ UNCHANGED <<tree, edits, dbVars, covered, covers, wpc, qpc, since, fresh, sideVars>>
      /\ seen' = [seen EXCEPT ![f] = tree[f]] /\ todo' = todo \ {f} /\ Walking /\ ~Reading
  BY DEF StatFile, Walking, Reading
<1>2. /\ Walked' \subseteq Walked \cup {f} /\ ReadSoFar' = {} /\ Active' = Active
      /\ Sound' = Sound
  BY <1>1 DEF Walked, ReadSoFar, Active, Walking, Reading, Sound
<1>3. \A g \in Files : seen'[g] = IF g = f THEN tree[f] ELSE seen[g]
  BY <1>1 DEF TypeOK
<1>4. Versions' /\ RowsOrMoved' /\ Fingerprint'
  BY <1>1, <1>2, <1>3 DEF Inv, Versions, RowsOrMoved, Fingerprint
<1>5. Coverage'
  BY <1>1, <1>2 DEF Inv, Coverage, Walking, Reading
<1>6. \A q \in covers : tree[f] \in since[q][f]
  BY DEF Inv, Coverage
<1>7. Walked \subseteq Files
  BY DEF Walked
<1>8. WalkFinds'
  <2>1. stat[f] = tree[f] => row[f] = stat[f]
    BY DEF Inv, RowsOrMoved
  <2>2. QED
    BY <1>1, <1>2, <1>3, <1>6, <1>7, <2>1 DEF Inv, WalkFinds
<1>9. SideFinds' /\ SideRows' = SideRows
  BY <1>1, SideStays
<1>10. Meets'
  <2>1. f \in SideRows /\ sseen[f] = tree[f] => sbody[f] = tree[f]
    BY DEF Inv, SideFinds
  <2>2. QED
    BY <1>1, <1>2, <1>3, <1>6, <1>7, <1>9, <2>1 DEF Inv, Meets
<1>11. Current'
  BY <1>1, <1>2 DEF Inv, Current
<1>12. QED
  BY <1>4, <1>5, <1>8, <1>9, <1>10, <1>11 DEF Inv

\* The pass starts a walk or a read loop over, with nothing visited yet.
LEMMA RestartInv ==
  ASSUME TypeOK, Inv, Walking \/ Reading,
         UNCHANGED <<tree, edits, dbVars, covered, covers, seen, qpc, since, fresh, sideVars>>,
         \/ Walking' /\ todo' = Files
         \/ wpc = "restat" /\ todo = {} /\ wpc' = "read" /\ basis' = stat /\ todo' = Changed(stat)
         \/ wpc = "fullstat" /\ todo = {} /\ wpc' = "fullread"
              /\ todo' = {f \in Files : seen[f] # Absent}
  PROVE  Inv'
<1>1. Walked' \subseteq Walked /\ ReadSoFar' = {} /\ Active' = Active /\ Sound' = Sound
  BY DEF Walked, ReadSoFar, Active, Walking, Reading, Changed, Sound
<1>2. Versions' /\ RowsOrMoved' /\ Fingerprint'
  BY <1>1 DEF Inv, Versions, RowsOrMoved, Fingerprint
<1>3. Coverage'
  BY <1>1 DEF Inv, Coverage, Walking, Reading
<1>4. SideFinds' /\ SideRows' = SideRows
  BY SideStays
<1>5. WalkFinds' /\ Meets'
  BY <1>1, <1>4 DEF Inv, WalkFinds, Meets
<1>6. Current'
  BY <1>1 DEF Inv, Current, Walking, Reading
<1>7. QED
  BY <1>2, <1>3, <1>4, <1>5, <1>6 DEF Inv

\* The pass commits nothing, because the fingerprint says the catalog has the
\* tree it walked: then the rows are recent enough as they are.
LEMMA UnchangedInv ==
  ASSUME TypeOK, Inv, wpc \in {"stat", "restat"}, todo = {},
         scanned, fp = seen, wpc' = "mark", todo' = {},
         UNCHANGED <<tree, edits, dbVars, covered, covers, seen, qpc, since, fresh, sideVars>>
  PROVE  Inv'
<1>1. /\ Walked = Files /\ Walked' = {} /\ ReadSoFar' = {} /\ Active' = Active
      /\ Sound' = Sound /\ Sound \subseteq Files
  BY DEF Walked, ReadSoFar, Active, Walking, Reading, Sound
<1>2. Versions' /\ RowsOrMoved' /\ Fingerprint' /\ WalkFinds' /\ Meets'
  BY <1>1 DEF Inv, Versions, RowsOrMoved, Fingerprint, WalkFinds, Meets
<1>3. Coverage'
  BY <1>1 DEF Inv, Coverage, Walking
<1>4. \A q \in covers, f \in Sound : row[f] \in since[q][f]
  BY <1>1 DEF Inv, Fingerprint, WalkFinds
<1>5. covered \subseteq covers
  BY DEF Inv, Coverage, Walking
<1>6. Current'
  BY <1>1, <1>4, <1>5 DEF Current
<1>7. QED
  BY <1>2, <1>3, <1>6, SideStays DEF Inv

\* One more file is read: what it reads is what the tree holds.
LEMMA ReadInv == ASSUME TypeOK, Inv, NEW f \in Files, ReadFile(f) PROVE Inv'
<1>1. /\ UNCHANGED <<tree, edits, dbVars, covered, covers, seen, basis, wpc, failed, qpc, since,
                     fresh, sideVars>>
      /\ body' = [body EXCEPT ![f] = tree[f]] /\ todo' = todo \ {f} /\ Reading /\ ~Walking
  BY DEF ReadFile, Walking, Reading
<1>2. /\ Walked' = Walked /\ ReadSoFar' \subseteq ReadSoFar \cup {f} /\ Active' = Active
      /\ Sound' = Sound
  BY <1>1 DEF Walked, ReadSoFar, Active, Walking, Reading, Sound
<1>3. \A g \in Files : body'[g] = IF g = f THEN tree[f] ELSE body[g]
  BY <1>1 DEF TypeOK
<1>4. Versions' /\ RowsOrMoved' /\ Fingerprint'
  BY <1>1, <1>2 DEF Inv, Versions, RowsOrMoved, Fingerprint
<1>5. Coverage'
  BY <1>1, <1>2 DEF Inv, Coverage, Walking, Reading
<1>6. WalkFinds'
  <2>1. \A q \in covers : tree[f] \in since[q][f]
    BY DEF Inv, Coverage
  <2>2. ReadSoFar \subseteq Files
    BY DEF ReadSoFar
  <2>3. QED
    BY <1>1, <1>2, <1>3, <2>1, <2>2 DEF Inv, WalkFinds
<1>7. SideFinds' /\ SideRows' = SideRows
  BY <1>1, SideStays
<1>8. Meets' /\ Current'
  BY <1>1, <1>2, <1>7 DEF Inv, Meets, Current
<1>9. QED
  BY <1>4, <1>5, <1>6, <1>7, <1>8 DEF Inv

\* A file that cannot be read is left out.
LEMMA ReadFailsInv == ASSUME TypeOK, Inv, NEW f \in Files, ReadFails(f) PROVE Inv'
<1>1. /\ UNCHANGED <<tree, edits, dbVars, covered, covers, seen, body, basis, wpc, qpc, since,
                     fresh, sideVars>>
      /\ todo' = todo \ {f} /\ failed' = failed \cup {f} /\ Reading /\ ~Walking
  BY DEF ReadFails, Walking, Reading
<1>2. Walked' = Walked /\ ReadSoFar' \subseteq ReadSoFar /\ Active' = Active /\ Sound' = Sound
  BY <1>1 DEF Walked, ReadSoFar, Active, Walking, Reading, Sound
<1>3. Versions' /\ RowsOrMoved' /\ Fingerprint'
  BY <1>1, <1>2 DEF Inv, Versions, RowsOrMoved, Fingerprint
<1>4. SideFinds' /\ SideRows' = SideRows
  BY <1>1, SideStays
<1>5. Coverage' /\ WalkFinds' /\ Meets' /\ Current'
  BY <1>1, <1>2, <1>4 DEF Inv, Coverage, WalkFinds, Meets, Current, Walking, Reading
<1>6. QED
  BY <1>3, <1>4, <1>5 DEF Inv

\* Both transactions store, for every file, either what the pass has read
\* under the stat it has walked, nothing, or the rows it found there; and where
\* those are not the rows the pass compared with, the file is mixed.
LEMMA CommitInv ==
  ASSUME TypeOK, Inv, Reading, todo = {}, wpc' = "mark", todo' = todo,
         UNCHANGED <<tree, edits, covered, covers, seen, body, qpc, since, fresh, sideVars>>,
         fp' = seen, unread' = failed, predates' = predates \ covers,
         \A f \in Files :
            \/ f \in ReadSoFar /\ row'[f] = body[f] /\ stat'[f] = seen[f]
            \/ (seen[f] = Absent \/ f \in failed) /\ row'[f] = Absent /\ stat'[f] = Absent
            \/ /\ f \in failed \/ stat[f] = seen[f] \/ f \in mixed'
               /\ row'[f] = row[f] /\ stat'[f] = stat[f]
  PROVE  Inv'
<1>1. Walked = Files /\ Walked' = {} /\ ReadSoFar' = {} /\ Active' = Active
  BY DEF Walked, ReadSoFar, Active, Walking, Reading
<1>2. \A f \in ReadSoFar : seen[f] # Absent /\ f \in Files
  BY DEF ReadSoFar
<1>3. Absent <= edits
  BY FreshnessAssumption DEF TypeOK, Version, Absent
<1>4. Versions'
  BY <1>3 DEF Inv, Versions
<1>5. RowsOrMoved'
  BY <1>2 DEF Inv, RowsOrMoved, WalkFinds
<1>6. Coverage' /\ WalkFinds' /\ Meets'
  BY <1>1 DEF Inv, Coverage, WalkFinds, Meets, Reading
<1>7. Fingerprint'
  BY DEF Fingerprint, Sound
<1>8. covered \subseteq covers /\ covers \subseteq Queries
  BY DEF Inv, Coverage, Reading, TypeOK
<1>9. Current'
  <2> SUFFICES ASSUME NEW q \in covers, NEW f \in Files \ (failed \cup mixed')
               PROVE row'[f] \in since[q][f]
    BY <1>8 DEF Current, Sound
  <2>1. seen[f] \in since[q][f] /\ (stat[f] = seen[f] => row[f] \in since[q][f])
    BY <1>1 DEF Inv, WalkFinds
  <2>2. f \in ReadSoFar => body[f] \in since[q][f]
    BY DEF Inv, WalkFinds
  <2>3. QED
    BY <2>1, <2>2
<1>10. QED
  BY <1>4, <1>5, <1>6, <1>7, <1>9, SideStays DEF Inv

\* Every step of the worker keeps the invariant.
LEMMA WorkerInv == ASSUME TypeOK, Inv, Worker PROVE Inv'
<1>1. CASE Drain
  BY <1>1, Quiet DEF Drain
<1>2. CASE Backstop
  BY <1>2, Quiet DEF Backstop
<1>3. CASE BeginPass
  BY <1>3, BeginInv
<1>4. CASE OpenFails
  BY <1>4, AbortInv DEF OpenFails
<1>5. CASE DecideStale
  <2>1. CASE wpc' = "mark"
    BY <1>5, <2>1, UnchangedInv DEF DecideStale
  <2>2. CASE wpc' # "mark"
    <3>1. Walking /\ Walking' /\ todo' = Files
      BY <1>5, <2>2 DEF DecideStale, Walking
    <3>2. QED
      BY <1>5, <3>1, RestartInv DEF DecideStale
  <2>3. QED
    BY <2>1, <2>2
<1>6. CASE StalenessFails
  <2>1. Walking /\ Walking' /\ todo' = Files
    BY <1>6 DEF StalenessFails, Walking
  <2>2. QED
    BY <1>6, <2>1, RestartInv DEF StalenessFails
<1>7. CASE DecideRescan
  <2>1. CASE wpc' = "mark"
    BY <1>7, <2>1, UnchangedInv DEF DecideRescan
  <2>2. CASE wpc' = "read"
    <3>1. Walking /\ wpc = "restat" /\ todo = {} /\ basis' = stat /\ todo' = Changed(stat)
      BY <1>7, <2>2 DEF DecideRescan, Walking
    <3>2. QED
      BY <1>7, <2>2, <3>1, RestartInv DEF DecideRescan
  <2>3. CASE wpc' = "fullstat"
    <3>1. Walking /\ Walking' /\ todo' = Files
      BY <1>7, <2>3 DEF DecideRescan, Walking
    <3>2. QED
      BY <1>7, <3>1, RestartInv DEF DecideRescan
  <2>4. QED
    BY <1>7, <2>1, <2>2, <2>3 DEF DecideRescan
<1>8. CASE BeginFullRead
  <2>1. Walking
    BY <1>8 DEF BeginFullRead, Walking
  <2>2. QED
    BY <1>8, <2>1, RestartInv DEF BeginFullRead
<1>9. CASE CommitRescan
  <2>1. wpc = "read" /\ Reading /\ todo = {} /\ unread' = failed
    BY <1>9 DEF CommitRescan, Reading
  <2>2. ReadSoFar = Changed(basis) \ failed
    BY <2>1 DEF ReadSoFar, Changed, Reading
  <2>3. mixed' = {f \in Files : stat[f] # basis[f]} \ (ReadSoFar \cup Vanished(basis))
    BY <1>9, <2>2 DEF CommitRescan
  <2>4. ASSUME NEW f \in Files
        PROVE  \/ f \in ReadSoFar /\ row'[f] = body[f] /\ stat'[f] = seen[f]
               \/ seen[f] = Absent /\ row'[f] = Absent /\ stat'[f] = Absent
               \/ /\ f \in failed \/ stat[f] = seen[f] \/ f \in mixed'
                  /\ row'[f] = row[f] /\ stat'[f] = stat[f]
    BY <1>9, <2>2, <2>3 DEF CommitRescan, Changed, Vanished
  <2>5. QED
    BY <1>9, <2>1, <2>4, CommitInv DEF CommitRescan
<1>10. CASE CommitScan
  <2>1. wpc = "fullread" /\ Reading /\ todo = {} /\ unread' = failed
    BY <1>10 DEF CommitScan, Reading
  <2>2. ReadSoFar = {f \in Files : seen[f] # Absent} \ failed
    BY <2>1 DEF ReadSoFar, Reading
  <2>3. QED
    BY <1>10, <2>1, <2>2, CommitInv DEF CommitScan
<1>11. CASE RescanFails
  <2>1. (Walking \/ Reading) /\ Walking' /\ todo' = Files
    BY <1>11 DEF RescanFails, Reading, Walking
  <2>2. QED
    BY <1>11, <2>1, RestartInv DEF RescanFails
<1>12. CASE ScanFails
  BY <1>12, AbortInv DEF ScanFails
<1>13. CASE MarkPass
  BY <1>13, MarkInv
<1>14. QED
  BY <1>1, <1>2, <1>3, <1>4, <1>5, <1>6, <1>7, <1>8, <1>9, <1>10, <1>11, <1>12, <1>13,
     StatInv, ReadInv, ReadFailsInv DEF Worker

\* A query enters or leaves: it is not covered, and it has seen the tree.
LEMMA TurnInv ==
  ASSUME TypeOK, Inv, NEW q \in Queries, Uncover(q),
         UNCHANGED <<tree, edits, catalog, walkVars, wpc, scanVars>>,
         \A r \in Queries \ {q} : qpc'[r] = qpc[r] /\ since'[r] = since[r] /\ fresh'[r] = fresh[r],
         ~fresh'[q],
         qpc'[q] # "idle" => \A f \in Files : tree[f] \in since'[q][f]
  PROVE  Inv'
<1>1. /\ Walked' = Walked /\ ReadSoFar' = ReadSoFar /\ Sound' = Sound
      /\ SideWalked' = SideWalked /\ SideRows' = SideRows
  BY DEF Walked, ReadSoFar, Walking, Reading, SideWalked, SideRows, Sound
<1>2. \A r \in Queries \ {q} : r \in Active' <=> r \in Active
  BY DEF Active
<1>3. /\ covers \subseteq Queries /\ covered \subseteq Queries /\ scovers \subseteq Queries
      /\ covers' = covers \ {q} /\ covered' = covered \ {q}
      /\ scovers' = scovers \ {q} /\ predates' = predates \ {q}
  BY DEF TypeOK, Uncover
<1>4. Versions' /\ RowsOrMoved' /\ Fingerprint'
  BY <1>1 DEF Inv, Versions, RowsOrMoved, Fingerprint
<1>5. Coverage'
  <2>1. covers' \subseteq Active' /\ covered' \subseteq Active' /\ scovers' \subseteq Active'
    BY <1>2, <1>3 DEF Inv, Coverage
  <2>2. Walking' \/ Reading' \/ wpc' = "mark" => covered' \subseteq covers'
    BY <1>3 DEF Inv, Coverage, Walking, Reading
  <2>3. \A r \in Active', f \in Files : tree'[f] \in since'[r][f]
    BY DEF Inv, Coverage, Active
  <2>4. \A r \in Queries : fresh'[r] => qpc'[r] = "answer" /\ r \in covered'
    BY <1>3 DEF Inv, Coverage
  <2>5. QED
    BY <2>1, <2>2, <2>3, <2>4 DEF Coverage
<1>6. WalkFinds'
  BY <1>1, <1>3 DEF Inv, WalkFinds
<1>7. SideFinds'
  BY <1>1, <1>3 DEF Inv, SideFinds
<1>8. Meets'
  BY <1>1, <1>3 DEF Inv, Meets
<1>9. Current'
  BY <1>1, <1>3 DEF Inv, Current
<1>10. QED
  BY <1>4, <1>5, <1>6, <1>7, <1>8, <1>9 DEF Inv

\* Every step of a query thread keeps the invariant.
LEMMA QueryInv == ASSUME TypeOK, Inv, NEW q \in Queries, Query(q) PROVE Inv'
<1>1. ASSUME NEW p \in Policies, Enter(q, p) PROVE Inv'
  <2>1. \A f \in Files : tree[f] \in since'[q][f]
    BY <1>1 DEF Enter, TypeOK
  <2>2. /\ \A r \in Queries \ {q} : qpc'[r] = qpc[r] /\ since'[r] = since[r] /\ fresh'[r] = fresh[r]
        /\ ~fresh'[q]
    BY <1>1 DEF Enter, TypeOK
  <2>3. QED
    BY <1>1, <2>1, <2>2, TurnInv DEF Enter
<1>2. ASSUME QueryEnds(q) PROVE Inv'
  <2>1. /\ \A r \in Queries \ {q} : qpc'[r] = qpc[r] /\ since'[r] = since[r] /\ fresh'[r] = fresh[r]
        /\ ~fresh'[q] /\ qpc'[q] = "idle"
    BY <1>2 DEF QueryEnds, TypeOK
  <2>2. UNCHANGED <<tree, edits, catalog, walkVars, wpc, scanVars>> /\ Uncover(q)
    BY <1>2 DEF QueryEnds
  <2>3. QED
    BY <2>1, <2>2, TurnInv
\* Inside a request only qpc moves, and fresh is set for a covered query.
<1>3. ASSUME UNCHANGED <<tree, edits, dbVars, covered, covers, walkVars, wpc, since, sideVars>>,
             \A r \in Queries \ {q} : qpc'[r] = qpc[r] /\ fresh'[r] = fresh[r],
             qpc[q] # "idle", qpc'[q] # "idle",
             fresh'[q] => qpc'[q] = "answer" /\ q \in covered
      PROVE  Inv'
  <2>1. Walked' = Walked /\ ReadSoFar' = ReadSoFar /\ Active' = Active /\ Sound' = Sound
    BY <1>3 DEF Walked, ReadSoFar, Walking, Reading, Active, Sound
  <2>2. SideFinds' /\ SideRows' = SideRows
    BY <1>3, SideStays
  <2>3. Versions' /\ RowsOrMoved' /\ Fingerprint' /\ WalkFinds' /\ Meets' /\ Current'
    BY <1>3, <2>1, <2>2 DEF Inv, Versions, RowsOrMoved, Fingerprint, WalkFinds, Meets, Current
  <2>4. Coverage'
    BY <1>3, <2>1 DEF Inv, Coverage, Walking, Reading
  <2>5. QED
    BY <2>2, <2>3, <2>4 DEF Inv
<1>4. CASE RequestPass(q)
  BY <1>3, <1>4 DEF RequestPass, AfterRequest, TypeOK, Inv, Coverage
<1>5. CASE SendBarrier(q)
  BY <1>3, <1>5 DEF SendBarrier, AfterRequest, TypeOK, Inv, Coverage
<1>6. CASE BarrierPasses(q)
  BY <1>3, <1>6 DEF BarrierPasses, Covered, TypeOK
<1>7. CASE BarrierTimesOut(q)
  <2>1. CASE QueryEnds(q)
    BY <1>2, <2>1
  <2>2. CASE ~QueryEnds(q)
    <3>1. /\ UNCHANGED <<tree, edits, dbVars, covered, covers, walkVars, wpc, fresh, since, sideVars>>
          /\ qpc' = [qpc EXCEPT ![q] = "answer"] /\ qpc[q] = "wait"
      BY <1>7, <2>2 DEF BarrierTimesOut
    <3>2. ~fresh[q]
      BY <3>1 DEF Inv, Coverage
    <3>3. QED
      BY <1>3, <3>1, <3>2 DEF TypeOK
  <2>3. QED
    BY <2>1, <2>2
<1>8. QED
  BY <1>1, <1>2, <1>4, <1>5, <1>6, <1>7 DEF Query, Answer

\* Another scan that walks or reads, or gives up, leaves the catalog alone, and
\* what it takes from a file is what the tree holds.
LEMMA SideWorks ==
  ASSUME TypeOK, Inv,
         UNCHANGED <<tree, edits, dbVars, wpc, covered, covers, walkVars, qpc, since, fresh>>,
         Versions', SideFinds', Meets', scovers' \subseteq Active
  PROVE  Inv'
<1>1. Walked' = Walked /\ ReadSoFar' = ReadSoFar /\ Active' = Active /\ Sound' = Sound
  BY DEF Walked, ReadSoFar, Walking, Reading, Active, Sound
<1>2. Coverage'
  BY <1>1 DEF Inv, Coverage, Walking, Reading
<1>3. RowsOrMoved' /\ WalkFinds' /\ Fingerprint' /\ Current'
  BY <1>1 DEF Inv, RowsOrMoved, WalkFinds, Fingerprint, Current
<1>4. QED
  BY <1>2, <1>3 DEF Inv

\* Another scan commits: what it stores holds for the queries in flight since it
\* began, the others are in predates, and where this pass has taken the same
\* stat, the new row is recent enough for its queries too.
LEMMA SideCommitInv == ASSUME TypeOK, Inv, SideCommit PROVE Inv'
<1>1. /\ UNCHANGED <<tree, edits, wpc, covered, covers, walkVars, qpc, since, fresh>>
      /\ spc = "read" /\ stodo = {} /\ row' = sbody /\ fp' = sseen /\ mixed' = {}
      /\ unread' = {f \in Files : sseen[f] # Absent /\ sbody[f] = Absent}
      /\ predates' = Active \ scovers
      /\ spc' = "off" /\ sseen' = NoFiles /\ sbody' = NoFiles /\ scovers' = {}
  BY DEF SideCommit, SideEnds, Active
<1>2. \A f \in Files : stat'[f] = IF sbody[f] = Absent THEN Absent ELSE sseen[f]
  BY DEF SideCommit
<1>3. /\ Walked' = Walked /\ ReadSoFar' = ReadSoFar /\ Active' = Active
      /\ SideWalked' = {} /\ SideRows' = {}
  BY <1>1 DEF Walked, ReadSoFar, Walking, Reading, Active, SideWalked, SideRows
<1>4. SideWalked = Files /\ SideRows = {f \in Files : sbody[f] # Absent}
  BY <1>1 DEF SideWalked, SideRows
<1>5. edits \in Nat /\ \A f \in Files : NoFiles[f] = 0 /\ Absent = 0
  BY FreshnessAssumption DEF TypeOK, Version, NoFiles, Absent
<1>6. Versions'
  BY <1>1, <1>2, <1>5 DEF Inv, Versions
<1>7. Coverage'
  BY <1>1, <1>3 DEF Inv, Coverage, Walking, Reading
<1>8. \A f \in Files : sbody[f] # Absent => sseen[f] # Absent
  BY <1>1 DEF Inv, SideFinds
<1>9. RowsOrMoved'
  BY <1>1, <1>2, <1>4, <1>8 DEF Inv, SideFinds, RowsOrMoved
<1>10. WalkFinds'
  <2>1. Walked \subseteq Files
    BY DEF Walked
  <2>2. ASSUME NEW f \in Walked, NEW q \in covers, stat'[f] = seen[f] PROVE row'[f] \in since[q][f]
    <3>1. CASE sbody[f] = Absent
      BY <1>1, <1>2, <2>1, <2>2, <3>1 DEF Inv, WalkFinds
    <3>2. CASE sbody[f] # Absent
      BY <1>1, <1>2, <1>4, <2>1, <2>2, <3>2 DEF Inv, Meets
    <3>3. QED
      BY <3>1, <3>2
  <2>3. QED
    BY <1>1, <1>3, <2>2 DEF Inv, WalkFinds
<1>11. SideFinds' /\ Meets'
  BY <1>1, <1>3, <1>5 DEF SideFinds, Meets
<1>12. Fingerprint'
  BY <1>1, <1>2 DEF Fingerprint, Sound, Inv, SideFinds
<1>13. Current'
  <2> SUFFICES ASSUME NEW q \in scovers, NEW f \in Files, sbody[f] = Absent => sseen[f] = Absent
               PROVE  sbody[f] \in since[q][f]
    BY <1>1 DEF Inv, Coverage, Current, Sound
  <2>1. CASE sbody[f] = Absent
    BY <1>4, <2>1 DEF Inv, SideFinds
  <2>2. CASE sbody[f] # Absent
    BY <1>4, <2>2 DEF Inv, SideFinds
  <2>3. QED
    BY <2>1, <2>2
<1>14. QED
  BY <1>6, <1>7, <1>9, <1>10, <1>11, <1>12, <1>13 DEF Inv

\* Every step of another scan keeps the invariant.
LEMMA SideInv == ASSUME TypeOK, Inv, Side PROVE Inv'
<1>a. edits \in Nat /\ \A f \in Files : NoFiles[f] = 0 /\ Absent = 0
  BY FreshnessAssumption DEF TypeOK, Version, NoFiles, Absent
<1>b. scovers \subseteq Active
  BY DEF Inv, Coverage
<1>1. CASE SideBegin
  <2>1. UNCHANGED <<edits, tree, stat, seen, since, covers, sseen, sbody, stodo, scovers, wpc, todo>>
        /\ spc = "off" /\ spc' = "check"
    BY <1>1 DEF SideBegin
  <2>2. Versions' /\ SideFinds' /\ Meets'
    BY <2>1 DEF Inv, Versions, SideFinds, Meets, SideWalked, SideRows
  <2>3. QED
    BY <1>1, <1>b, <2>2, SideWorks DEF SideBegin
<1>2. CASE SideRecheck
  <2>1. UNCHANGED <<edits, tree, stat, seen, since, covers, sseen, sbody, wpc, todo>>
        /\ spc = "check" /\ scovers' \subseteq Active
        /\ (spc' = "off" \/ (spc' = "stat" /\ stodo' = Files))
    BY <1>2, <1>b DEF SideRecheck, Active
  <2>2. Versions' /\ SideFinds' /\ Meets'
    BY <2>1 DEF Inv, Versions, SideFinds, Meets, SideWalked, SideRows
  <2>3. QED
    BY <1>2, <2>1, <2>2, SideWorks DEF SideRecheck
<1>3. CASE SideBeginRead
  <2>1. UNCHANGED <<edits, tree, stat, seen, since, covers, sseen, sbody, scovers, wpc, todo>>
        /\ spc = "stat" /\ stodo = {} /\ spc' = "read"
        /\ stodo' = {f \in Files : sseen[f] # Absent}
    BY <1>3 DEF SideBeginRead
  <2>2. SideRows' = {} /\ SideWalked' = SideWalked /\ \A f \in Files : sbody[f] = Absent
    BY <2>1 DEF Inv, SideFinds, SideRows, SideWalked
  <2>3. Versions' /\ SideFinds' /\ Meets'
    BY <2>1, <2>2 DEF Inv, Versions, SideFinds, Meets
  <2>4. QED
    BY <1>3, <1>b, <2>3, SideWorks DEF SideBeginRead
<1>4. CASE SideCommit
  BY <1>4, SideCommitInv
<1>5. CASE SideFails
  <2>1. UNCHANGED <<edits, tree, stat, seen, since, covers, wpc, todo>>
        /\ spc' = "off" /\ sseen' = NoFiles /\ sbody' = NoFiles /\ scovers' = {}
    BY <1>5 DEF SideFails, SideEnds
  <2>2. Versions' /\ SideFinds' /\ Meets'
    BY <1>a, <2>1 DEF Inv, Versions, SideFinds, Meets, SideWalked, SideRows
  <2>3. QED
    BY <1>5, <2>1, <2>2, SideWorks DEF SideFails
<1>6. ASSUME NEW f \in Files, SideStat(f) PROVE Inv'
  <2>1. /\ UNCHANGED <<edits, tree, stat, seen, since, covers, spc, sbody, scovers, wpc, todo>>
        /\ spc = "stat" /\ stodo' = stodo \ {f}
        /\ \A g \in Files : sseen'[g] = IF g = f THEN tree[f] ELSE sseen[g]
    BY <1>6 DEF SideStat, TypeOK
  <2>2. SideRows' = {} /\ SideWalked' \subseteq SideWalked \cup {f} /\ SideWalked \subseteq Files
    BY <2>1 DEF SideRows, SideWalked
  <2>3. \A q \in scovers : tree[f] \in since[q][f]
    BY <1>b DEF Inv, Coverage
  <2>4. Versions'
    BY <2>1 DEF Inv, Versions
  <2>5. SideFinds' /\ Meets'
    BY <2>1, <2>2, <2>3 DEF Inv, SideFinds, Meets
  <2>6. QED
    BY <1>6, <1>b, <2>4, <2>5, SideWorks DEF SideStat
<1>7. ASSUME NEW f \in Files, SideRead(f) PROVE Inv'
  <2>1. /\ UNCHANGED <<edits, tree, stat, seen, since, covers, spc, sseen, scovers, wpc, todo>>
        /\ spc = "read" /\ f \in stodo /\ stodo' = stodo \ {f}
        /\ \A g \in Files \ {f} : sbody'[g] = sbody[g]
        /\ sbody'[f] \in {tree[f], Absent}
    BY <1>7 DEF SideRead, TypeOK, Inv, SideFinds
  <2>2. /\ SideWalked' = SideWalked /\ Walked' = Walked
        /\ SideRows' \subseteq SideRows \cup {f} /\ SideRows \subseteq Files
        /\ (f \in SideRows' => sbody'[f] = tree[f])
    BY <2>1 DEF SideRows, SideWalked, Walked, Walking, Reading
  <2>3. \A q \in covers \cup scovers : tree[f] \in since[q][f]
    BY DEF Inv, Coverage
  <2>4. Versions'
    BY <2>1 DEF Inv, Versions
  <2>5. sseen[f] = Absent => sbody'[f] = Absent
    BY <2>1 DEF Inv, SideFinds
  <2>6. SideFinds'
    BY <2>1, <2>2, <2>3, <2>5 DEF Inv, SideFinds
  <2>7. Meets'
    BY <2>1, <2>2, <2>3 DEF Inv, Meets
  <2>8. QED
    BY <1>7, <1>b, <2>1, <2>4, <2>6, <2>7, SideWorks DEF SideRead
<1>8. QED
  BY <1>1, <1>2, <1>3, <1>4, <1>5, <1>6, <1>7 DEF Side

\* Every step keeps the invariant.
LEMMA StepInv == IInv /\ [Next]_vars => IInv'
<1> SUFFICES ASSUME IInv, [Next]_vars PROVE Inv'
  BY TypeStep DEF IInv
<1>1. TypeOK /\ Inv
  BY DEF IInv
<1>2. CASE Environment
  <2>1. CASE DeliverEvent
    BY <1>1, <2>1, Quiet DEF DeliverEvent
  <2>2. QED
    BY <1>1, <1>2, <2>1, TreeInv DEF Environment
<1>3. CASE RegisterWatches
  BY <1>1, <1>3, Quiet DEF RegisterWatches
<1>4. CASE UNCHANGED vars
  BY <1>1, <1>4, Quiet DEF vars
<1>5. QED
  BY <1>1, <1>2, <1>3, <1>4, WorkerInv, SideInv, QueryInv DEF Next

\* An answer labelled fresh reports every file the last scan could read as it was
\* at some moment after the query entered, for any number of files, queries,
\* edits and failures and beside any other scan of the catalog, outside the two
\* windows the property names.
THEOREM FreshAnswersAreCurrent == Spec => []FreshIsCurrent
<1>1. IInv => FreshIsCurrent
  BY DEF IInv, Inv, Coverage, Current, FreshIsCurrent, Sound
<1>2. IInv /\ [Next]_vars => IInv'
  BY StepInv
<1>3. QED
  BY <1>1, <1>2, InitInv, PTL DEF Spec

\* A fingerprint that is the tree's hides no stale row, except of files unread or
\* mixed, whoever committed it: the stored stats are then the tree's, and a row
\* that is not its stat's belongs to a file that has moved on.
THEOREM FingerprintHidesNothing == Spec => []FingerprintTrue
<1>1. IInv => FingerprintTrue
  BY DEF IInv, Inv, Fingerprint, RowsOrMoved, FingerprintTrue, TypeOK, Sound
<1>2. IInv /\ [Next]_vars => IInv'
  BY StepInv
<1>3. QED
  BY <1>1, <1>2, InitInv, PTL DEF Spec

=============================================================================
