------------------------------ MODULE CodeIndex ------------------------------
(***************************************************************************)
(* The code index (code.rs, graph.rs): one row for each file of the code   *)
(* roots with what was parsed of it, and the edges of the import graph.    *)
(*                                                                         *)
(* A scan reads the keys of all complete rows, then walks the roots with   *)
(* several threads that stat, skip or parse, and one thread that puts what *)
(* they send into a single transaction.  The daemon scans once a minute    *)
(* and one scan at a time; a `cfetch scan` in a shell is another process   *)
(* with the same index.db.  Users edit meanwhile.                          *)
(*                                                                         *)
(* A stat stands for the mtime, in whole seconds, and the size: a file may *)
(* be saved with one that it had before.  Parsing and PageRank are         *)
(* functions of what they are given.                                       *)
(***************************************************************************)
EXTENDS CodeGraph, Functions

CONSTANTS CodeFiles,  \* the files of the code roots, in the order of their paths
          CodeLoads   \* what there is at first, and what may happen in a run

Scanners == {"daemon", "shell"}

\* What users write: which files it imports, and whether grammars choke on it.
\* Imports that lead out of the roots resolve to nothing.
CodeTexts(paths) == [imports : SUBSET paths, hard : BOOLEAN]
NoText    == [imports |-> {}, hard |-> FALSE]

ASSUME CodeAssumption ==
  /\ CodeFiles \subseteq Nat \ {0} /\ IsFiniteSet(CodeFiles)
  /\ \A l \in CodeLoads :
       /\ l.scanners \subseteq Scanners /\ l.built \in BOOLEAN
       /\ l.edits \in Nat /\ l.runs \in Nat /\ l.failures \in Nat
       /\ l.paths \subseteq CodeFiles /\ l.texts \subseteq CodeTexts(l.paths)
       /\ \A tree \in l.trees :
            DOMAIN tree \subseteq l.paths /\ \A f \in DOMAIN tree : tree[f] \in CodeTexts(l.paths)

VARIABLES
  disk,      \* the files as they are: text and stat, stat 0 if there is none
  apart,     \* history: <<f, g>> if g was away since f was written last
  veiled,    \* history: files saved under the stat of a row of an older text
  grammar,   \* the grammars of the program: "old" or "new"
  db,        \* what is committed: rows, edges, and what the ranks were made of
  writer,    \* the scanner that holds the write lock of index.db, or "none"
  tx,        \* what its transaction has made of db
  active,    \* the scanners that are scanning
  known,     \* the keys a scanner read when it began
  found,     \* what the walk of a scanner has done with each file
  codeLoad, changes, runs, failures   \* bounds

codeWorld  == <<disk, apart, veiled, grammar>>
codeBounds == <<codeLoad, changes, runs, failures>>
scanVars   == <<db, writer, tx, active, known, found>>
codeVars   == <<codeWorld, scanVars, codeBounds>>

Paths == codeLoad.paths

NoFile   == [text |-> NoText, stat |-> 0]
There(f) == disk[f].stat # 0

\* extract: a list is always produced, and a gap if a grammar choked on it.
Gap(text) == text.hard /\ grammar = "old"

\* extract_imports: only what resolves to a file, and never the file itself.
Resolved(f) == {g \in disk[f].text.imports \ {f} : There(g)}

\* recompute_ranks: a graph without edges gives no ranks.
RankOf(files, edges) == IF edges = {} THEN {} ELSE {[files |-> files, edges |-> edges]}

EmptyDb == [rows |-> <<>>, edges |-> {}, ranks |-> {}]

\* prune_edges and recompute_ranks, at the end of the transaction.
Ranked(rows, edges) ==
  LET left == Joined(DOMAIN rows, edges)
  IN  [rows |-> rows, edges |-> left, ranks |-> RankOf(DOMAIN rows, left)]

\* An index that was built from the tree as it is.
Built(tree) ==
  Ranked([f \in DOMAIN tree |-> [text |-> tree[f], stat |-> 1, gap |-> tree[f].hard]],
         {e \in (DOMAIN tree) \X (DOMAIN tree) : e[2] \in tree[e[1]].imports \ {e[1]}})

\* What a walk has done with a file.
Idle   == [at |-> "unseen"]
Seen   == [at |-> "seen"]
Absent == [at |-> "absent"]
NoneSeen == [f \in Paths |-> Idle]

CodeInit ==
  /\ codeLoad \in CodeLoads
  /\ \E tree \in codeLoad.trees :
       /\ disk = [f \in Paths |->
            IF f \in DOMAIN tree THEN [text |-> tree[f], stat |-> 1] ELSE NoFile]
       /\ apart = Paths \X (Paths \ DOMAIN tree)
       /\ db = IF codeLoad.built THEN Built(tree) ELSE EmptyDb
  /\ veiled = {} /\ grammar = "old"
  /\ writer = "none" /\ tx = EmptyDb /\ active = {}
  /\ known = [s \in Scanners |-> <<>>]
  /\ found = [s \in Scanners |-> NoneSeen]
  /\ changes = 0 /\ runs = 0 /\ failures = 0

Rows == [text : CodeTexts(Paths), stat : Nat, gap : BOOLEAN]

IndexOK(index) ==
  /\ DOMAIN index.rows \subseteq Paths /\ \A f \in DOMAIN index.rows : index.rows[f] \in Rows
  /\ index.edges \subseteq Paths \X Paths

FoundOK(did) ==
  \/ did \in {Idle, Seen, Absent}
  \/ did.at = "stat" /\ did.stat \in Nat
  \/ did.at = "sent" /\ did.row \in Rows /\ did.imports \subseteq Paths

CodeTypeOK ==
  /\ codeLoad \in CodeLoads
  /\ disk \in [Paths -> [text : CodeTexts(Paths), stat : Nat]]
  /\ apart \subseteq Paths \X Paths /\ veiled \subseteq Paths /\ grammar \in {"old", "new"}
  /\ IndexOK(db) /\ IndexOK(tx)
  /\ active \subseteq codeLoad.scanners /\ writer \in active \cup {"none"}
  /\ DOMAIN known = Scanners /\ DOMAIN found = Scanners
  /\ \A s \in Scanners :
       /\ DOMAIN known[s] \subseteq Paths /\ \A f \in DOMAIN known[s] : known[s][f] \in Nat
       /\ DOMAIN found[s] = Paths /\ \A f \in Paths : FoundOK(found[s][f])
  /\ changes \in Nat /\ runs \in Nat /\ failures \in Nat

-----------------------------------------------------------------------------
(* Users.                                                                  *)

Change == changes < codeLoad.edits /\ changes' = changes + 1

\* Files begin with 1, so this one is new.
NextStat == changes + 2

\* The rows of a file: those that are committed, written, and on their way.
RowsOf(f) ==
  {index.rows[f] : index \in {i \in {db, tx} : f \in DOMAIN i.rows}}
    \cup {found[s][f].row : s \in {t \in Scanners : found[t][f].at = "sent"}}

\* A scan to come will skip a file that has this stat.
Held(f, stat) == \E row \in RowsOf(f) : ~row.gap /\ row.stat = stat

\* Some files are not there, or not for a walk under way: it has missed them,
\* or takes them for indexed when another scan has removed them.
Overlooked(s, g) == found[s][g] = Absent \/ (g \in DOMAIN known[s] /\ g \notin DOMAIN db.rows)
Missing(f) == {g \in Paths \ {f} : ~There(g) \/ \E s \in Scanners : Overlooked(s, g)}

\* A stat that the index or a scan has of a file.
Familiar(f, stat) ==
  \/ \E row \in RowsOf(f) : row.stat = stat
  \/ \E s \in Scanners :
       \/ f \in DOMAIN known[s] /\ known[s][f] = stat
       \/ found[s][f].at = "stat" /\ found[s][f].stat = stat

\* A save within the second keeps the mtime, and mtimes can be set: the stat is
\* a familiar one, or as good as new.
Write(f, text) ==
  /\ text \in codeLoad.texts /\ Change
  /\ \E stat \in {n \in 1..NextStat : Familiar(f, n) \/ n = NextStat} :
       /\ disk' = [disk EXCEPT ![f] = [text |-> text, stat |-> stat]]
       /\ veiled' = IF Held(f, stat) THEN veiled \cup {f} ELSE veiled \ {f}
  /\ apart' = (apart \ ({f} \X Paths)) \cup ({f} \X Missing(f))
  /\ UNCHANGED <<grammar, scanVars, codeLoad, runs, failures>>

Delete(f) ==
  /\ There(f) /\ Change
  /\ disk' = [disk EXCEPT ![f] = NoFile] /\ veiled' = veiled \ {f}
  /\ apart' = apart \cup (Paths \X {f})
  /\ UNCHANGED <<grammar, scanVars, codeLoad, runs, failures>>

Users == \E f \in Paths : Delete(f) \/ \E text \in codeLoad.texts : Write(f, text)

-----------------------------------------------------------------------------
(* A scan.                                                                 *)

Failure == failures < codeLoad.failures /\ failures' = failures + 1

\* It is over: what it had begun to write is gone.
Over(s) ==
  /\ active' = active \ {s}
  /\ found' = [found EXCEPT ![s] = NoneSeen]
  /\ known' = [known EXCEPT ![s] = <<>>]
  /\ writer' = IF writer = s THEN "none" ELSE writer
  /\ tx' = IF writer = s THEN EmptyDb ELSE tx

\* The daemon begins whenever none of its own is running (try_begin), somebody
\* in a shell once in a while.  The keys are read outside the transaction, and
\* only complete rows have one.
ScanBegins(s) ==
  /\ s \in codeLoad.scanners \ active
  /\ s = "shell" => runs < codeLoad.runs
  /\ runs' = IF s = "shell" THEN runs + 1 ELSE runs
  /\ active' = active \cup {s}
  /\ known' = [known EXCEPT ![s] =
       [f \in {f \in DOMAIN db.rows : ~db.rows[f].gap} |-> db.rows[f].stat]]
  /\ UNCHANGED <<codeWorld, db, writer, tx, found, codeLoad, changes, failures>>

\* A walker comes to a file and takes its stat.
Visit(s, f) ==
  /\ s \in active /\ found[s][f] = Idle
  /\ found' = [found EXCEPT ![s][f] =
       IF ~There(f) THEN Absent
       ELSE IF f \in DOMAIN known[s] /\ known[s][f] = disk[f].stat THEN Seen
       ELSE [at |-> "stat", stat |-> disk[f].stat]]
  /\ UNCHANGED <<codeWorld, db, writer, tx, active, known, codeBounds>>

\* It reads and parses it, and resolves its imports: by now it may have changed.
Parse(s, f) ==
  /\ s \in active /\ found[s][f].at = "stat"
  /\ found' = [found EXCEPT ![s][f] =
       IF ~There(f) THEN Absent
       ELSE [at |-> "sent",
             row |-> [text |-> disk[f].text, stat |-> found[s][f].stat, gap |-> Gap(disk[f].text)],
             imports |-> Resolved(f)]]
  /\ UNCHANGED <<codeWorld, db, writer, tx, active, known, codeBounds>>

\* A file that cannot be stated or read is as good as absent.
ReadFails(s, f) ==
  /\ s \in active /\ found[s][f].at \in {"unseen", "stat"}
  /\ There(f) /\ Failure
  /\ found' = [found EXCEPT ![s][f] = Absent]
  /\ apart' = apart \cup (Paths \X {f})
  /\ UNCHANGED <<disk, veiled, grammar, db, writer, tx, active, known, codeLoad, changes, runs>>

MayWrite(s) == writer \in {s, "none"}
Base(s)     == IF writer = s THEN tx ELSE db

\* The rows of a file replace those it had.
Put(rows, f, row) == [g \in {f} \cup DOMAIN rows |-> IF g = f THEN row ELSE rows[g]]

\* A plausible bug: the edges to a file are replaced along with those from it.
DrainBothWays(s, f) ==
  /\ s \in active /\ found[s][f].at = "sent" /\ MayWrite(s)
  /\ writer' = s
  /\ tx' = [rows  |-> Put(Base(s).rows, f, found[s][f].row),
            edges |-> {e \in Base(s).edges : f \notin {e[1], e[2]}}
                        \cup ({f} \X found[s][f].imports),
            ranks |-> Base(s).ranks]
  /\ found' = [found EXCEPT ![s][f] = Seen]
  /\ UNCHANGED <<codeWorld, db, active, known, codeBounds>>

\* A plausible bug: the stat is taken when the row is written.
DrainRestats(s, f) ==
  /\ s \in active /\ found[s][f].at = "sent" /\ MayWrite(s)
  /\ writer' = s
  /\ tx' = [rows  |-> Put(Base(s).rows, f, [found[s][f].row EXCEPT !.stat = disk[f].stat]),
            edges |-> {e \in Base(s).edges : e[1] # f} \cup ({f} \X found[s][f].imports),
            ranks |-> Base(s).ranks]
  /\ found' = [found EXCEPT ![s][f] = Seen]
  /\ UNCHANGED <<codeWorld, db, active, known, codeBounds>>

\* The writer takes a message: the first one makes it wait for the lock, and
\* its transaction starts from what is committed by then.
Drain(s, f) ==
  /\ s \in active /\ found[s][f].at = "sent" /\ MayWrite(s)
  /\ writer' = s
  /\ tx' = [rows  |-> Put(Base(s).rows, f, found[s][f].row),
            edges |-> {e \in Base(s).edges : e[1] # f} \cup ({f} \X found[s][f].imports),
            ranks |-> Base(s).ranks]
  /\ found' = [found EXCEPT ![s][f] = Seen]
  /\ UNCHANGED <<codeWorld, db, active, known, codeBounds>>

\* Files the walk has not seen leave, then edges and ranks follow.
Commit(s) ==
  /\ s \in active /\ MayWrite(s)
  /\ \A f \in Paths : found[s][f] \in {Seen, Absent}
  /\ LET rows == Base(s).rows
         left == {f \in DOMAIN rows : found[s][f] = Seen}
     IN  db' = Ranked(Restrict(rows, left), Base(s).edges)
  /\ Over(s)
  /\ UNCHANGED <<codeWorld, codeBounds>>

\* The lock is not to be had in time, and the scan is given up.
Busy(s) ==
  /\ s \in active /\ ~MayWrite(s)
  /\ \/ \E f \in Paths : found[s][f].at = "sent"
     \/ \A f \in Paths : found[s][f] \in {Seen, Absent}
  /\ Over(s)
  /\ UNCHANGED <<codeWorld, db, codeBounds>>

\* A statement fails, or the process dies: the transaction is rolled back.
ScanFails(s) ==
  /\ s \in active /\ Failure
  /\ Over(s)
  /\ UNCHANGED <<codeWorld, db, codeLoad, changes, runs>>

\* The program is replaced by one whose grammars know more.
Upgrade ==
  /\ grammar = "old" /\ active = {} /\ Failure
  /\ grammar' = "new"
  /\ UNCHANGED <<disk, apart, veiled, scanVars, codeLoad, changes, runs>>

ScanWork(s) ==
  \/ Commit(s) \/ Busy(s)
  \/ \E f \in Paths : Visit(s, f) \/ Parse(s, f) \/ Drain(s, f)

Scans ==
  \E s \in Scanners :
    \/ ScanBegins(s) \/ ScanWork(s) \/ ScanFails(s)
    \/ \E f \in Paths : ReadFails(s, f)

-----------------------------------------------------------------------------
(* Properties.                                                             *)

\* What a scan skips as unchanged is true: a complete row with the stat of its
\* file has the text that is there, and its edges are the imports of that text,
\* however edits, walks, failures and the commits of two scans fell between the
\* stat, the read, the message and the commit it came by.  The exceptions are
\* an import whose target was away, and a file that was saved under the stat of
\* a row that was read before.
IsCurrent(f) ==
  There(f) /\ f \in DOMAIN db.rows /\ ~db.rows[f].gap /\ db.rows[f].stat = disk[f].stat
Wanted(f) == disk[f].text.imports \ {f}

RowsTrue ==
  \A f \in Paths \ veiled : IsCurrent(f) =>
    /\ db.rows[f].text = disk[f].text
    /\ \A g \in Paths : <<f, g>> \in db.edges => g \in Wanted(f)
    /\ \A g \in Wanted(f) : <<f, g>> \in db.edges \/ <<f, g>> \in apart

\* The code index follows the code roots: once edits and failures have come to
\* rest, it has a row for each file with the text that is there, a gap only
\* where the grammars of today have one, and each import of a file that is
\* there has its edge, whatever scans fell in between.  The exceptions are the
\* one the code knows, an import whose target was away, if only in the eyes of
\* one walk, that stays without an edge until the importer is written again;
\* and a file saved under the stat of a row that was read before, which has a
\* row, but keeps what that row says until it is written again.
Follows ==
  /\ DOMAIN db.rows = {f \in Paths : There(f)}
  /\ \A f \in DOMAIN db.rows \ veiled :
       /\ db.rows[f].text = disk[f].text /\ db.rows[f].gap = Gap(disk[f].text)
       /\ \A g \in DOMAIN db.rows \ {f} : <<f, g>> \notin apart =>
            (<<f, g>> \in db.edges <=> g \in disk[f].text.imports)

CodeFollows == <>[]Follows

\* Every answer that is explained is true of what is committed: a path is a
\* shortest one and the first of these, an impact or a context shows the
\* nearest files at their distances, each with a hop that is one step nearer,
\* and counts the others; and the ranks are those of this graph.
Depths == {1, 2, 12}
Limits == {2, 50}

Explained ==
  LET graph == [files |-> DOMAIN db.rows, edges |-> db.edges]
  IN  /\ \A from, to \in graph.files, d \in Depths \ {1} : PathIsLeast(graph, from, to, d)
      /\ \A f \in graph.files, d \in Depths, n \in Limits :
           /\ ReportIsTrue(graph, Incoming(graph), f, d, n, ImpactAnswer(graph, f, d, n))
           /\ ReportIsTrue(graph, Around(graph), f, d, n, ContextAnswer(graph, f, d, n))
      /\ db.ranks = RankOf(graph.files, Joined(graph.files, graph.edges))

\* What is said of code is true: of the files as far as scans skip them, and of
\* the graph they were left in.
AnswersTrue == RowsTrue /\ Explained
=============================================================================
