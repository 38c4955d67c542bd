-------------------------- MODULE MaintenanceProofs --------------------------
(***************************************************************************)
(* What holds of Maintenance for every set of candidates, targets, bytes   *)
(* and proposals and every bound: type correctness, the agreement of the   *)
(* memory with its records, and the refinement of MemoryChange.            *)
(***************************************************************************)
EXTENDS Maintenance, TLAPS

\* Every definition that only groups variables.
USE DEF files, ghosts, bounds
-----------------------------------------------------------------------------
(* Type correctness.                                                       *)

\* The worker waits for the operation that it has begun.
WorkerWaits == op.at # "free" /\ op.by = "worker" => worker.at = "applying"

\* What kind of operation takes which steps, and from where.
Shape ==
  /\ op.at \in {"write", "undo", "unwrite", "redo"} => Content(op.p)
  /\ op.kind = "apply" => op.at \in {"write", "move", "undo"} /\ op.from = "pending"
  /\ op.kind = "auto" => op.from = "pending"
  /\ op.kind = "revert" => op.at \notin {"redo", "settle"} /\ op.from \in Active
  /\ op.kind = "finalize" => \/ op.at = "move" /\ op.from = "applied"
                             \/ op.at = "settle" /\ op.from \in Active
  /\ op.kind = "auto" => Automatic(op.p)
  /\ op.at = "redo" => op.kind = "auto"

TypeInv == TypeOK /\ WorkerWaits /\ Shape

\* The first state is in range.
LEMMA InitTypes == Init => TypeInv
<1> SUFFICES ASSUME Init PROVE TypeInv
  OBVIOUS
<1>1. tree \in [Targets -> Bytes \cup {Absent}] /\ wrote \in [Targets -> (Proposals \X {"after", "before"}) \cup {NoOne}]
  BY DEF Init
<1>2. file \in [Dirs -> [Proposals -> 0..MaxCopies]] /\ copies \in [Proposals -> 0..MaxCopies]
  BY MaintenanceAssumption DEF Init
<1>3. review \in [Proposals -> {None} \cup [of : 1..MaxCopies, verdict : {"pass", "fail"}]]
  BY DEF Init
<1>4. staged \in [Candidates -> {"unborn", "pending", "settled", "curated"}]
  BY DEF Init
<1>5. /\ op \in [at : Steps, kind : Kinds, p : Proposals \cup {NoOne}, from : Dirs,
                 by : {"cli", "worker"}, raced : BOOLEAN]
      /\ (op.at = "free" <=> op.p = NoOne) /\ (op.at = "free" <=> op.kind = "none")
  BY DEF Init, Free, Steps, Kinds, Dirs
<1>6. /\ worker \in [at : {"sleep", "next", "review", "apply", "applying", "clean"},
                     left : SUBSET Candidates, p : Proposals \cup {NoOne}]
      /\ (worker.p # NoOne) = (worker.at \in {"review", "apply", "applying", "clean"})
  BY DEF Init, Asleep
<1>7. QED
  BY <1>1, <1>2, <1>3, <1>4, <1>5, <1>6, MaintenanceAssumption DEF TypeInv, TypeOK, WorkerWaits, Shape, Init, Free

\* The types of the parts of the state, to be cited one by one.
FilesOK ==
  /\ tree \in [Targets -> Bytes \cup {Absent}]
  /\ file \in [Dirs -> [Proposals -> 0..MaxCopies]]
  /\ copies \in [Proposals -> 0..MaxCopies]
  /\ review \in [Proposals -> {None} \cup [of : 1..MaxCopies, verdict : {"pass", "fail"}]]
  /\ staged \in [Candidates -> {"unborn", "pending", "settled", "curated"}]
  /\ history \subseteq Proposals \X {"applied", "reverted"}
OpOK ==
  /\ op \in [at : Steps, kind : Kinds, p : Proposals \cup {NoOne}, from : Dirs,
             by : {"cli", "worker"}, raced : BOOLEAN]
  /\ (op.at = "free" <=> op.p = NoOne) /\ (op.at = "free" <=> op.kind = "none")
WorkerOK ==
  /\ worker \in [at : {"sleep", "next", "review", "apply", "applying", "clean"},
                 left : SUBSET Candidates, p : Proposals \cup {NoOne}]
  /\ (worker.p # NoOne) = (worker.at \in {"review", "apply", "applying", "clean"})
GhostsOK ==
  /\ wrote \in [Targets -> (Proposals \X {"after", "before"}) \cup {NoOne}]
  /\ adrift \subseteq Proposals
  /\ edits \in 0..MaxEdits /\ faults \in 0..MaxFaults

\* Type correctness, part by part.
LEMMA Parts == TypeOK <=> FilesOK /\ OpOK /\ WorkerOK /\ GhostsOK
  BY DEF TypeOK, FilesOK, OpOK, WorkerOK, GhostsOK

\* Moving the file of a proposal keeps the directories typed.
LEMMA RenameTypes ==
  ASSUME FilesOK, OpOK, op.at # "free", NEW d \in Dirs, NEW e \in Dirs, Rename(d, e)
  PROVE  file' \in [Dirs -> [Proposals -> 0..MaxCopies]]
<1>1. op.p \in Proposals
  BY DEF OpOK
<1>2. file[d][op.p] \in 0..MaxCopies /\ 0 \in 0..MaxCopies
  BY <1>1, MaintenanceAssumption DEF FilesOK
<1>3. QED
  BY <1>1, <1>2 DEF FilesOK, Rename

\* So does putting one side of a proposal into its target.
LEMMA PutTypes ==
  ASSUME FilesOK, OpOK, GhostsOK, op.at # "free", NEW side \in {"after", "before"}, Put(side),
         Content(op.p)
  PROVE  /\ tree' \in [Targets -> Bytes \cup {Absent}]
         /\ wrote' \in [Targets -> (Proposals \X {"after", "before"}) \cup {NoOne}]
<1>1. op.p \in Proposals /\ op.p.target \in Targets
  BY MaintenanceAssumption DEF OpOK, Content
<1>2. Side(op.p, side) \in Bytes \cup {Absent}
  BY <1>1, MaintenanceAssumption DEF Side
<1>3. QED
  BY <1>1, <1>2 DEF FilesOK, GhostsOK, Put

\* A fault is counted, and so is its absence.
LEMMA FaultTypes == ASSUME GhostsOK, Fault \/ NoFault PROVE faults' \in 0..MaxFaults
  BY MaintenanceAssumption DEF GhostsOK, Fault, NoFault

\* The next step of an operation.
LEMMA GotoTypes ==
  ASSUME OpOK, WorkerOK, WorkerWaits, op.at # "free", NEW s \in Steps \ {"free"}, Goto(s)
  PROVE  OpOK' /\ WorkerOK' /\ WorkerWaits'
  BY DEF OpOK, WorkerOK, WorkerWaits, Goto

\* The end of an operation.
LEMMA EndTypes ==
  ASSUME OpOK, WorkerOK, WorkerWaits, op.at # "free", NEW ok \in BOOLEAN, End(ok)
  PROVE  OpOK' /\ WorkerOK' /\ WorkerWaits'
<1>1. OpOK' /\ WorkerWaits'
  BY DEF End, OpOK, Free, Steps, Kinds, Dirs, WorkerWaits
<1>2. CASE op.by = "cli"
  BY <1>1, <1>2 DEF End, WorkerOK
<1>3. CASE op.by = "worker"
  <2>1. worker.at = "applying" /\ worker.p # NoOne /\ worker.p \in Proposals
    BY <1>3 DEF WorkerOK, WorkerWaits
  <2>2. CASE ok
    <3>1. worker' = [worker EXCEPT !.at = "next", !.p = NoOne]
      BY <1>3, <2>2 DEF End
    <3>2. worker'.at = "next" /\ worker'.p = NoOne
      BY <3>1 DEF WorkerOK
    <3>3. worker' \in [at : {"sleep", "next", "review", "apply", "applying", "clean"},
                      left : SUBSET Candidates, p : Proposals \cup {NoOne}]
      BY <3>1 DEF WorkerOK
    <3>4. QED
      BY <1>1, <3>2, <3>3 DEF WorkerOK
  <2>3. CASE ~ok
    BY <1>1, <1>3, <2>1, <2>3 DEF End, WorkerOK
  <2>4. QED
    BY <1>1, <2>2, <2>3
<1>4. QED
  BY <1>2, <1>3 DEF OpOK

\* The beginning of one.
LEMMA BeginTypes ==
  ASSUME OpOK, NEW kind \in Kinds \ {"none"}, NEW p \in Proposals, NEW s \in Steps \ {"free"},
         NEW d \in Dirs, NEW by \in {"cli", "worker"}, Begin(kind, p, s, d, by)
  PROVE  OpOK' /\ op'.at # "free" /\ op'.by = by
  BY MaintenanceAssumption DEF OpOK, Begin

\* What the names of the steps, kinds and directories are.
LEMMA Names ==
  /\ {"write", "move", "event", "settle", "undo", "unwrite", "back", "redo"} \subseteq Steps \ {"free"}
  /\ {"apply", "auto", "revert", "finalize"} \subseteq Kinds \ {"none"}
  /\ Active \subseteq Dirs /\ {"pending", "rejected", "reverted"} \subseteq Dirs
  BY DEF Steps, Kinds, Active, Dirs

\* The steps of an operation keep every variable in its range.
LEMMA OperateTypes ==
  ASSUME FilesOK, OpOK, WorkerOK, GhostsOK, WorkerWaits, Shape, Operate
  PROVE  FilesOK' /\ OpOK' /\ WorkerOK' /\ GhostsOK' /\ WorkerWaits'
<1> USE DEF Operate
<1>1. op.at # "free" /\ op.p \in Proposals
  BY DEF OpOK, WriteTarget, MoveProposal, UndoWrite, WriteEvent, UnwriteTarget, MoveBack,
     RedoWrite, SettleCandidate, EndSettle
<1>2. faults' \in 0..MaxFaults /\ edits' = edits
  <2>1. Fault \/ NoFault
    BY DEF WriteTarget, MoveProposal, UndoWrite, WriteEvent, UnwriteTarget, MoveBack,
       RedoWrite, SettleCandidate, EndSettle, NoFault
  <2>2. QED
    BY <2>1, FaultTypes DEF WriteTarget, MoveProposal, UndoWrite, WriteEvent, UnwriteTarget,
       MoveBack, RedoWrite, SettleCandidate, EndSettle
<1>3. OpOK' /\ WorkerOK' /\ WorkerWaits'
  <2>1. (\E s \in Steps \ {"free"} : Goto(s)) \/ (\E ok \in BOOLEAN : End(ok))
    BY Names DEF WriteTarget, MoveProposal, UndoWrite, WriteEvent, UnwriteTarget, MoveBack,
       RedoWrite, SettleCandidate, EndSettle
  <2>2. QED
    BY <1>1, <2>1, GotoTypes, EndTypes
<1>4. adrift' \in SUBSET Proposals
  <2>1. adrift' = adrift \/ adrift' = adrift \cup {op.p}
    BY DEF WriteTarget, MoveProposal, UndoWrite, WriteEvent, UnwriteTarget, MoveBack,
       RedoWrite, SettleCandidate, EndSettle, Adrift
  <2>2. QED
    BY <1>1, <2>1 DEF GhostsOK
<1>5. /\ tree' \in [Targets -> Bytes \cup {Absent}]
      /\ wrote' \in [Targets -> (Proposals \X {"after", "before"}) \cup {NoOne}]
  <2>1. CASE UNCHANGED <<tree, wrote>>
    BY <2>1 DEF FilesOK, GhostsOK
  <2>2. CASE (Put(New) \/ Put(Old)) /\ Content(op.p)
    BY <1>1, <2>2, PutTypes DEF New, Old
  <2>3. QED
    BY <2>1, <2>2 DEF Shape, WriteTarget, MoveProposal, UndoWrite, WriteEvent, UnwriteTarget, MoveBack,
       RedoWrite, SettleCandidate, EndSettle
<1>6. file' \in [Dirs -> [Proposals -> 0..MaxCopies]]
  <2>1. Goal \in Dirs /\ op.from \in Dirs
    BY DEF Goal, Dirs, OpOK
  <2>2. CASE file' = file
    BY <2>2 DEF FilesOK
  <2>3. CASE Rename(op.from, Goal) \/ Rename(Goal, op.from)
    BY <1>1, <2>1, <2>3, RenameTypes
  <2>4. QED
    BY <2>2, <2>3 DEF WriteTarget, MoveProposal, UndoWrite, WriteEvent, UnwriteTarget, MoveBack,
       RedoWrite, SettleCandidate, EndSettle
<1>7. history' \subseteq Proposals \X {"applied", "reverted"}
  <2>1. history' = history \/ history' = history \cup {<<op.p, Outcome>>}
    BY DEF WriteTarget, MoveProposal, UndoWrite, WriteEvent, UnwriteTarget, MoveBack,
       RedoWrite, SettleCandidate, EndSettle
  <2>2. Outcome \in {"applied", "reverted"}
    BY DEF Outcome
  <2>3. QED
    BY <1>1, <2>1, <2>2 DEF FilesOK
<1>8. staged' \in [Candidates -> {"unborn", "pending", "settled", "curated"}]
  BY <1>1 DEF WriteTarget, MoveProposal, UndoWrite, WriteEvent, UnwriteTarget, MoveBack,
     RedoWrite, SettleCandidate, EndSettle, FilesOK
<1>9. copies' = copies /\ review' = review
  BY DEF WriteTarget, MoveProposal, UndoWrite, WriteEvent, UnwriteTarget, MoveBack,
     RedoWrite, SettleCandidate, EndSettle
<1>10. QED
  BY <1>2, <1>3, <1>4, <1>5, <1>6, <1>7, <1>8, <1>9 DEF FilesOK, GhostsOK

\* They keep to the shape of their kind.
LEMMA OperateShape ==
  ASSUME OpOK, Shape, Operate
  PROVE  Shape'
<1>1. CASE op' = Free
  BY <1>1 DEF Shape, Free
<1>2. CASE op'.p = op.p /\ op'.kind = op.kind /\ op'.from = op.from /\ op'.at # "free"
  <2>1. op.at # "free"
    BY DEF Operate, WriteTarget, MoveProposal, UndoWrite, WriteEvent, UnwriteTarget, MoveBack,
       RedoWrite, SettleCandidate, EndSettle
  <2>2. CASE WriteTarget
    <3>1. op.at = "write" /\ op'.at = "move"
      BY <1>2, <2>2 DEF WriteTarget, Goto, End, Free, OpOK
    <3>2. QED
      BY <1>2, <3>1 DEF Shape, Automatic
  <2>3. CASE MoveProposal
    <3>1. op.at = "move" /\ op \in [at : Steps, kind : Kinds, p : Proposals \cup {NoOne}, from : Dirs,
                                   by : {"cli", "worker"}, raced : BOOLEAN]
      BY <2>3 DEF MoveProposal, OpOK
    <3>2. CASE Goto("settle") /\ op.kind = "finalize"
      BY <1>2, <3>1, <3>2 DEF Shape, Goto, Active
    <3>3. CASE Goto("event") /\ op.kind \notin {"apply", "finalize"}
      BY <1>2, <3>1, <3>3 DEF Shape, Goto
    <3>4. CASE Goto("undo") /\ Content(op.p) /\ op.kind # "finalize"
      BY <1>2, <3>1, <3>4 DEF Shape, Goto
    <3>5. ~End(TRUE) /\ ~End(FALSE)
      BY <1>2 DEF End, Free
    <3>6. QED
      BY <2>3, <3>2, <3>3, <3>4, <3>5 DEF MoveProposal
  <2>4. CASE WriteEvent
    BY <1>2, <2>1, <2>4 DEF Shape, WriteEvent, Goto, End, Free, Automatic, OpOK
  <2>5. CASE UnwriteTarget
    BY <1>2, <2>1, <2>5 DEF Shape, UnwriteTarget, Goto, End, Free, Automatic, OpOK
  <2>6. CASE MoveBack
    BY <1>2, <2>1, <2>6 DEF Shape, MoveBack, Goto, End, Free, Automatic, OpOK
  <2>7. CASE SettleCandidate
    BY <1>2, <2>1, <2>7 DEF Shape, SettleCandidate, Goto, End, Free, Automatic, OpOK
  <2>8. CASE UndoWrite \/ RedoWrite \/ EndSettle
    BY <1>2, <2>8 DEF UndoWrite, RedoWrite, EndSettle, End, Free
  <2>9. QED
    BY <2>2, <2>3, <2>4, <2>5, <2>6, <2>7, <2>8 DEF Operate
<1>3. op' = Free \/ (op'.p = op.p /\ op'.kind = op.kind /\ op'.from = op.from /\ op'.at # "free")
  BY DEF Operate, WriteTarget, MoveProposal, UndoWrite, WriteEvent, UnwriteTarget, MoveBack,
     RedoWrite, SettleCandidate, EndSettle, Goto, End, OpOK
<1>4. QED
  BY <1>1, <1>2, <1>3

\* Beginnings keep both, and name a proposal whose file is there.
LEMMA BeginShape ==
  ASSUME OpOK, Unlocked, NEW p \in Proposals,
         NEW kind \in {"apply", "auto", "revert"}, NEW d \in Dirs, NEW by \in {"cli", "worker"},
         Begin(kind, p, FirstStep(p), d, by),
         kind \in {"apply", "auto"} => d = "pending", kind = "revert" => d \in Active,
         kind = "auto" => Automatic(p)
  PROVE  OpOK' /\ op'.at # "free" /\ op'.by = by /\ Shape'
<1>1. FirstStep(p) \in {"write", "move"} /\ (FirstStep(p) = "write" => Content(p))
  BY DEF FirstStep
<1>2. OpOK' /\ op'.at # "free" /\ op'.by = by
  BY <1>1, BeginTypes, Names
<1>3. op'.at = FirstStep(p) /\ op'.kind = kind /\ op'.p = p /\ op'.from = d
  BY DEF Begin
<1>4. QED
  BY <1>1, <1>2, <1>3 DEF Shape, Content, Automatic

\* Beginnings.
BeginSome == \E p \in Proposals : BeginApply(p) \/ BeginAuto(p) \/ BeginRevert(p) \/ BeginFinalize(p)

LEMMA LocatedActive == ASSUME NEW p PROVE Located(p) \in Active /\ Located(p) \in Dirs
  BY DEF Located, Active, Dirs

LEMMA BeginSomeTypes ==
  ASSUME FilesOK, OpOK, WorkerOK, GhostsOK, WorkerWaits, BeginSome
  PROVE  FilesOK' /\ OpOK' /\ WorkerOK' /\ GhostsOK' /\ WorkerWaits' /\ Shape'
<1>1. PICK p \in Proposals : BeginApply(p) \/ BeginAuto(p) \/ BeginRevert(p) \/ BeginFinalize(p)
  BY DEF BeginSome
<1>2. Unlocked /\ UNCHANGED <<files, worker, ghosts, bounds>>
  BY <1>1 DEF BeginApply, BeginAuto, BeginRevert, BeginFinalize, Admitted
<1>3. FilesOK' /\ WorkerOK' /\ GhostsOK'
  BY <1>2 DEF FilesOK, WorkerOK, GhostsOK
<1>4. OpOK' /\ op'.by = "cli" /\ Shape'
  <2>1. CASE BeginApply(p)
    BY <1>2, <2>1, BeginShape, Names DEF BeginApply
  <2>2. CASE BeginAuto(p)
    BY <1>2, <2>2, BeginShape, Names DEF BeginAuto, Admitted
  <2>3. CASE BeginRevert(p)
    BY <1>2, <2>3, BeginShape, LocatedActive, Names DEF BeginRevert
  <2>4. CASE BeginFinalize(p)
    <3>1. \/ Begin("finalize", p, "move", "applied", "cli")
          \/ Begin("finalize", p, "settle", "finalized", "cli")
      BY <2>4 DEF BeginFinalize
    <3>2. OpOK' /\ op'.by = "cli"
      BY <3>1, BeginTypes, Names DEF Active
    <3>3. QED
      BY <3>1, <3>2 DEF Begin, Shape, Active
  <2>5. QED
    BY <1>1, <2>1, <2>2, <2>3, <2>4
<1>5. QED
  BY <1>3, <1>4 DEF WorkerWaits

\* One entry of the directories is replaced.
LEMMA SetFile ==
  ASSUME NEW f \in [Dirs -> [Proposals -> 0..MaxCopies]], NEW d \in Dirs, NEW p \in Proposals, NEW n \in 0..MaxCopies
  PROVE  [f EXCEPT ![d][p] = n] \in [Dirs -> [Proposals -> 0..MaxCopies]]
  OBVIOUS

\* What a submission, a review and a rejection write.
LEMMA WriteTypes ==
  ASSUME FilesOK, NEW p \in Proposals
  PROVE  /\ Submittable(p) /\ WriteProposal(p) =>
              /\ file' \in [Dirs -> [Proposals -> 0..MaxCopies]]
              /\ copies' \in [Proposals -> 0..MaxCopies]
         /\ \A verdict \in {"pass", "fail"} : Reviewable(p, verdict) /\ WriteReview(p, verdict) =>
              review' \in [Proposals -> {None} \cup [of : 1..MaxCopies, verdict : {"pass", "fail"}]]
         /\ MoveToRejected(p) => file' \in [Dirs -> [Proposals -> 0..MaxCopies]]
<1> USE Names, MaintenanceAssumption DEF FilesOK
<1>0. /\ \A d \in Dirs : file[d][p] \in 0..MaxCopies
      /\ copies[p] \in 0..MaxCopies /\ "pending" \in Dirs /\ "rejected" \in Dirs
  OBVIOUS
<1>1. Submittable(p) /\ WriteProposal(p) =>
         /\ file' \in [Dirs -> [Proposals -> 0..MaxCopies]]
         /\ copies' \in [Proposals -> 0..MaxCopies]
  <2>1. CASE file["pending"][p] > 0
    BY <2>1 DEF WriteProposal
  <2>2. CASE ~(file["pending"][p] > 0)
    <3>1. file["pending"][p] = 0
      BY <1>0, <2>2
    <3>2. Submittable(p) => copies[p] + 1 \in 0..MaxCopies
      BY <1>0, <3>1 DEF Submittable
    <3>3. Submittable(p) /\ WriteProposal(p) =>
             /\ file' = [file EXCEPT !["pending"][p] = copies[p] + 1]
             /\ copies' = [copies EXCEPT ![p] = @ + 1]
      BY <2>2 DEF WriteProposal
    <3>4. Submittable(p) /\ WriteProposal(p) => file' \in [Dirs -> [Proposals -> 0..MaxCopies]]
      <4> DEFINE n == copies[p] + 1
      <4> SUFFICES ASSUME Submittable(p), WriteProposal(p) PROVE file' \in [Dirs -> [Proposals -> 0..MaxCopies]]
        OBVIOUS
      <4>1. n \in 0..MaxCopies /\ file' = [file EXCEPT !["pending"][p] = n]
        BY <3>2, <3>3
      <4> HIDE DEF n
      <4>2. QED
        BY <1>0, <4>1, SetFile
    <3>5. Submittable(p) /\ WriteProposal(p) => copies' \in [Proposals -> 0..MaxCopies]
      BY <3>2, <3>3
    <3>6. QED
      BY <3>4, <3>5
  <2>3. QED
    BY <2>1, <2>2
<1>2. ASSUME NEW verdict \in {"pass", "fail"}, Reviewable(p, verdict), WriteReview(p, verdict)
      PROVE  review' \in [Proposals -> {None} \cup [of : 1..MaxCopies, verdict : {"pass", "fail"}]]
  <2>1. file["pending"][p] \in 1..MaxCopies
    BY <1>0, <1>2 DEF Reviewable
  <2>2. QED
    BY <1>2, <2>1 DEF WriteReview
<1>3. MoveToRejected(p) => file' \in [Dirs -> [Proposals -> 0..MaxCopies]]
  <2> DEFINE f == [file EXCEPT !["pending"][p] = 0]
             n == IF file["rejected"][p] = 0 THEN file["pending"][p] ELSE file["rejected"][p]
  <2>1. f \in [Dirs -> [Proposals -> 0..MaxCopies]] /\ n \in 0..MaxCopies
    BY <1>0, SetFile
  <2>2. [f EXCEPT !["rejected"][p] = n] \in [Dirs -> [Proposals -> 0..MaxCopies]]
    BY <1>0, <2>1, SetFile
  <2>3. MoveToRejected(p) => file' = [f EXCEPT !["rejected"][p] = n]
    BY <1>0 DEF MoveToRejected
  <2>4. QED
    BY <2>2, <2>3
<1>4. QED
  BY <1>1, <1>2, <1>3

\* The cycle of the daemon.
LEMMA CycleTypes ==
  ASSUME FilesOK, OpOK, WorkerOK, GhostsOK, WorkerWaits, Shape, Cycle
  PROVE  FilesOK' /\ OpOK' /\ WorkerOK' /\ GhostsOK' /\ WorkerWaits' /\ Shape'
<1> DEFINE Worker == [at : {"sleep", "next", "review", "apply", "applying", "clean"},
                      left : SUBSET Candidates, p : Proposals \cup {NoOne}]
<1>0. worker \in Worker /\ (worker.p # NoOne) = (worker.at \in {"review", "apply", "applying", "clean"})
  BY DEF WorkerOK
<1>1. CASE StartCycle
  <2>1. Pending \subseteq Candidates
    BY DEF Pending
  <2>2. worker.at = "sleep" /\ UNCHANGED <<files, op, ghosts, bounds>>
    BY <1>1 DEF StartCycle
  <2>3. PICK batch \in SUBSET Pending : worker' = [worker EXCEPT !.at = "next", !.left = batch]
    BY <1>1 DEF StartCycle
  <2>4. worker' \in Worker /\ worker'.at = "next" /\ worker'.p = worker.p
    BY <1>0, <2>1, <2>3
  <2>5. WorkerOK'
    BY <1>0, <2>2, <2>4 DEF WorkerOK
  <2>6. QED
    BY <2>2, <2>5 DEF FilesOK, OpOK, GhostsOK, WorkerWaits, Shape, Automatic
<1>2. ASSUME NEW c \in Candidates, Propose(c)
      PROVE  FilesOK' /\ OpOK' /\ WorkerOK' /\ GhostsOK' /\ WorkerWaits' /\ Shape'
  <2>1. worker.at = "next" /\ UNCHANGED <<tree, review, staged, history, op, ghosts, bounds>>
    BY <1>2 DEF Propose
  <2>2. OpOK' /\ GhostsOK' /\ WorkerWaits' /\ Shape'
    BY <2>1 DEF OpOK, GhostsOK, WorkerWaits, Shape, Automatic
  <2>3. CASE \E p \in Modelled :
               /\ p.candidates = {c} /\ Submittable(p) /\ WriteProposal(p)
               /\ worker' = [worker EXCEPT !.at = "review", !.left = @ \ {c}, !.p = p]
    <3>1. PICK p \in Modelled :
               /\ p.candidates = {c} /\ Submittable(p) /\ WriteProposal(p)
               /\ worker' = [worker EXCEPT !.at = "review", !.left = @ \ {c}, !.p = p]
      BY <2>3
    <3>2. p \in Proposals /\ p # NoOne
      BY MaintenanceAssumption
    <3>3. file' \in [Dirs -> [Proposals -> 0..MaxCopies]] /\ copies' \in [Proposals -> 0..MaxCopies]
      BY <3>1, <3>2, WriteTypes
    <3>4. worker' \in Worker /\ worker'.at = "review" /\ worker'.p # NoOne
      BY <1>0, <3>1, <3>2
    <3>5. QED
      BY <2>1, <2>2, <3>3, <3>4 DEF FilesOK, WorkerOK
  <2>4. CASE worker' = [worker EXCEPT !.left = @ \ {c}] /\ UNCHANGED <<file, copies>>
    <3>1. worker' \in Worker /\ worker'.at = worker.at /\ worker'.p = worker.p
      BY <1>0, <2>4
    <3>2. WorkerOK'
      BY <1>0, <3>1 DEF WorkerOK
    <3>3. QED
      BY <2>1, <2>2, <2>4, <3>2 DEF FilesOK
  <2>5. QED
    BY <1>2, <2>3, <2>4 DEF Propose
<1>3. CASE Examine
  <2>1. worker.at = "review" /\ UNCHANGED <<tree, file, copies, staged, history, op, ghosts, bounds>>
    BY <1>3 DEF Examine
  <2>2. OpOK' /\ GhostsOK' /\ WorkerWaits' /\ Shape'
    BY <2>1 DEF OpOK, GhostsOK, WorkerWaits, Shape, Automatic
  <2>3. /\ worker' = [worker EXCEPT !.at = "apply"] \/ worker' = [worker EXCEPT !.at = "clean"]
        /\ \/ \E verdict \in {"pass", "fail"} : Reviewable(worker.p, verdict) /\ WriteReview(worker.p, verdict)
           \/ UNCHANGED review
    BY <1>3 DEF Examine
  <2>4. worker.p \in Proposals
    BY <1>0, <2>1
  <2>5. review' \in [Proposals -> {None} \cup [of : 1..MaxCopies, verdict : {"pass", "fail"}]]
    BY <2>3, <2>4, WriteTypes DEF FilesOK
  <2>6. worker' \in Worker /\ worker'.at \in {"apply", "clean"} /\ worker'.p = worker.p
    BY <1>0, <2>3
  <2>7. WorkerOK'
    BY <1>0, <2>1, <2>6 DEF WorkerOK
  <2>8. QED
    BY <2>1, <2>2, <2>5, <2>7 DEF FilesOK
<1>4. CASE ApplyReviewed
  <2>1. worker.at = "apply" /\ UNCHANGED <<files, ghosts, bounds>> /\ worker.p \in Proposals
    BY <1>0, <1>4 DEF ApplyReviewed
  <2>2. FilesOK' /\ GhostsOK'
    BY <2>1 DEF FilesOK, GhostsOK
  <2>3. CASE /\ Admitted(worker.p)
             /\ Begin("auto", worker.p, FirstStep(worker.p), "pending", "worker")
             /\ worker' = [worker EXCEPT !.at = "applying"]
    <3>1. OpOK' /\ op'.by = "worker" /\ Shape'
      BY <2>1, <2>3, BeginShape, Names DEF Admitted
    <3>2. worker' \in Worker /\ worker'.at = "applying" /\ worker'.p = worker.p
      BY <1>0, <2>3
    <3>3. WorkerOK' /\ WorkerWaits'
      BY <1>0, <2>1, <3>2 DEF WorkerOK, WorkerWaits
    <3>4. QED
      BY <2>2, <3>1, <3>3
  <2>4. CASE worker' = [worker EXCEPT !.at = "clean"] /\ UNCHANGED op
    <3>1. worker' \in Worker /\ worker'.at = "clean" /\ worker'.p = worker.p
      BY <1>0, <2>4
    <3>2. WorkerOK'
      BY <1>0, <2>1, <3>1 DEF WorkerOK
    <3>3. OpOK' /\ Shape' /\ WorkerWaits'
      BY <2>1, <2>4 DEF OpOK, Shape, WorkerWaits, Automatic
    <3>4. QED
      BY <2>2, <3>2, <3>3
  <2>5. QED
    BY <1>4, <2>3, <2>4 DEF ApplyReviewed
<1>5. CASE CleanUp
  <2>1. /\ worker.at = "clean" /\ worker' = [worker EXCEPT !.at = "next", !.p = NoOne]
        /\ UNCHANGED <<tree, copies, review, staged, history, op, ghosts, bounds>>
        /\ MoveToRejected(worker.p) \/ UNCHANGED file
    BY <1>5 DEF CleanUp
  <2>2. OpOK' /\ GhostsOK' /\ WorkerWaits' /\ Shape'
    BY <2>1 DEF OpOK, GhostsOK, WorkerWaits, Shape, Automatic
  <2>3. worker.p \in Proposals
    BY <1>0, <2>1
  <2>4. file' \in [Dirs -> [Proposals -> 0..MaxCopies]]
    BY <2>1, <2>3, WriteTypes DEF FilesOK
  <2>5. worker' \in Worker /\ worker'.at = "next" /\ worker'.p = NoOne
    BY <1>0, <2>1
  <2>6. WorkerOK'
    BY <2>5 DEF WorkerOK
  <2>7. QED
    BY <2>1, <2>2, <2>4, <2>6 DEF FilesOK
<1>6. CASE EndCycle
  <2>1. worker.at = "next" /\ UNCHANGED <<files, op, ghosts, bounds>> /\ worker' = Asleep
    BY <1>6 DEF EndCycle
  <2>2. WorkerOK'
    BY <2>1 DEF WorkerOK, Asleep
  <2>3. QED
    BY <2>1, <2>2 DEF FilesOK, OpOK, GhostsOK, WorkerWaits, Shape, Automatic
<1>7. QED
  BY <1>1, <1>2, <1>3, <1>4, <1>5, <1>6 DEF Cycle

\* The commands that take the lock once, and the hooks, leave the operation
\* and the worker alone.
Beside ==
  \/ \E p \in Proposals : Submit(p) \/ Reject(p) \/ \E verdict \in {"pass", "fail"} : SubmitReview(p, verdict)
  \/ \E c \in Candidates : Curate(c) \/ Stage(c)

LEMMA BesideTypes ==
  ASSUME FilesOK, OpOK, WorkerOK, GhostsOK, WorkerWaits, Shape, Beside
  PROVE  FilesOK' /\ OpOK' /\ WorkerOK' /\ GhostsOK' /\ WorkerWaits' /\ Shape'
<1>1. UNCHANGED <<op, worker, ghosts, bounds, tree, history>>
  BY DEF Beside, Submit, Reject, SubmitReview, Curate, Stage
<1>2. OpOK' /\ WorkerOK' /\ GhostsOK' /\ WorkerWaits' /\ Shape'
  BY <1>1 DEF OpOK, WorkerOK, GhostsOK, WorkerWaits, Shape, Automatic
<1>3. FilesOK'
  <2>1. ASSUME NEW p \in Proposals, Submit(p) PROVE FilesOK'
    BY <1>1, <2>1, WriteTypes DEF Submit, FilesOK
  <2>2. ASSUME NEW p \in Proposals, Reject(p) PROVE FilesOK'
    BY <1>1, <2>2, WriteTypes DEF Reject, FilesOK
  <2>3. ASSUME NEW p \in Proposals, NEW verdict \in {"pass", "fail"}, SubmitReview(p, verdict) PROVE FilesOK'
    BY <1>1, <2>3, WriteTypes DEF SubmitReview, FilesOK
  <2>4. ASSUME NEW c \in Candidates, Curate(c) \/ Stage(c) PROVE FilesOK'
    BY <1>1, <2>4 DEF Curate, Stage, FilesOK
  <2>5. QED
    BY <2>1, <2>2, <2>3, <2>4 DEF Beside
<1>4. QED
  BY <1>2, <1>3

\* A user who writes to a target.
LEMMA EditTypes ==
  ASSUME FilesOK, OpOK, WorkerOK, GhostsOK, WorkerWaits, Shape,
         NEW t \in Targets, NEW bytes \in Bytes \cup {Absent}, Edit(t, bytes)
  PROVE  FilesOK' /\ OpOK' /\ WorkerOK' /\ GhostsOK' /\ WorkerWaits' /\ Shape'
<1>1. /\ UNCHANGED <<file, copies, review, staged, history, worker, adrift, faults>>
      /\ edits < MaxEdits /\ edits' = edits + 1 /\ tree' = [tree EXCEPT ![t] = bytes]
      /\ wrote' = [wrote EXCEPT ![t] = NoOne]
      /\ op' = op \/ op' = [op EXCEPT !.raced = TRUE]
  BY DEF Edit
<1>2. FilesOK' /\ WorkerOK' /\ GhostsOK'
  BY <1>1, MaintenanceAssumption DEF FilesOK, WorkerOK, GhostsOK
<1>3. OpOK' /\ op'.at = op.at /\ op'.kind = op.kind /\ op'.p = op.p /\ op'.from = op.from /\ op'.by = op.by
  BY <1>1 DEF OpOK
<1>4. QED
  BY <1>1, <1>2, <1>3 DEF WorkerWaits, Shape, Automatic, Content

\* The deaths.
LEMMA CrashTypes ==
  ASSUME FilesOK, OpOK, WorkerOK, GhostsOK, WorkerWaits, Shape, CrashOperation \/ CrashDaemon
  PROVE  FilesOK' /\ OpOK' /\ WorkerOK' /\ GhostsOK' /\ WorkerWaits' /\ Shape'
<1>1. faults' \in 0..MaxFaults
  BY FaultTypes DEF CrashOperation, CrashDaemon
<1>2. CASE CrashOperation
  <2>1. /\ op.at # "free" /\ op' = Free /\ UNCHANGED <<files, wrote, edits>>
        /\ worker' = worker \/ worker' = Asleep
        /\ adrift' = adrift \/ adrift' = adrift \cup {op.p}
    BY <1>2 DEF CrashOperation, Unlocked
  <2>2. op.p \in Proposals
    BY <2>1 DEF OpOK
  <2>3. WorkerOK'
    BY <2>1 DEF WorkerOK, Asleep
  <2>4. OpOK' /\ WorkerWaits' /\ Shape'
    BY <2>1 DEF OpOK, Free, Steps, Kinds, Dirs, WorkerWaits, Shape
  <2>5. FilesOK' /\ GhostsOK'
    BY <1>1, <2>1, <2>2 DEF FilesOK, GhostsOK
  <2>6. QED
    BY <2>3, <2>4, <2>5
<1>3. CASE CrashDaemon
  <2>1. UNCHANGED <<files, op, ghosts, edits>> /\ worker' = Asleep /\ worker.at # "applying"
    BY <1>3 DEF CrashDaemon
  <2>2. WorkerOK'
    BY <2>1 DEF WorkerOK, Asleep
  <2>3. OpOK' /\ WorkerWaits' /\ Shape'
    BY <2>1 DEF OpOK, WorkerWaits, Shape, Automatic
  <2>4. FilesOK' /\ GhostsOK'
    BY <1>1, <2>1 DEF FilesOK, GhostsOK
  <2>5. QED
    BY <2>2, <2>3, <2>4
<1>4. QED
  BY <1>2, <1>3

\* What a step may be.
LEMMA Steps4 ==
  Next => \/ Operate \/ Cycle \/ BeginSome \/ Beside
          \/ \E t \in Targets, bytes \in Bytes \cup {Absent} : Edit(t, bytes)
          \/ CrashOperation \/ CrashDaemon
  BY MaintenanceAssumption DEF Next, Command, Outside, BeginSome, Beside

LEMMA TypeStep == TypeInv /\ [Next]_vars => TypeInv'
<1> SUFFICES ASSUME TypeInv, [Next]_vars PROVE TypeInv'
  OBVIOUS
<1>0. FilesOK /\ OpOK /\ WorkerOK /\ GhostsOK /\ WorkerWaits /\ Shape
  BY Parts DEF TypeInv
<1>1. SUFFICES FilesOK' /\ OpOK' /\ WorkerOK' /\ GhostsOK' /\ WorkerWaits' /\ Shape'
  BY Parts, PTL DEF TypeInv
<1>2. CASE Operate
  BY <1>0, <1>2, OperateTypes, OperateShape
<1>3. CASE Cycle
  BY <1>0, <1>3, CycleTypes
<1>4. CASE BeginSome
  BY <1>0, <1>4, BeginSomeTypes
<1>5. CASE Beside
  BY <1>0, <1>5, BesideTypes
<1>6. CASE \E t \in Targets, bytes \in Bytes \cup {Absent} : Edit(t, bytes)
  BY <1>0, <1>6, EditTypes
<1>7. CASE CrashOperation \/ CrashDaemon
  BY <1>0, <1>7, CrashTypes
<1>8. CASE UNCHANGED vars
  BY <1>0, <1>8 DEF vars, FilesOK, OpOK, WorkerOK, GhostsOK, WorkerWaits, Shape, Automatic
<1>9. QED
  BY <1>2, <1>3, <1>4, <1>5, <1>6, <1>7, <1>8, Steps4

\* Every variable stays in its range, whatever fails: in particular the
\* cycle of the daemon works on a proposal when and only when it is
\* between its submission and its cleaning up.
THEOREM TypeCorrect == Spec => []TypeOK
<1>1. Spec => []TypeInv
  BY InitTypes, TypeStep, PTL DEF Spec
<1>2. TypeInv => TypeOK
  BY DEF TypeInv
<1>3. QED
  BY <1>1, <1>2, PTL
-----------------------------------------------------------------------------
(* What a step may do to the files, the operation and the targets.         *)

\* An operation begins, on files it has verified.
Begun ==
  /\ Unlocked /\ UNCHANGED <<files, ghosts>>
  /\ op'.p \in Proposals /\ op'.from \in Dirs /\ file[op'.from][op'.p] > 0 /\ ~op'.raced
  /\ \/ /\ op'.kind \in {"apply", "auto"} /\ op'.from = "pending" /\ op'.at = FirstStep(op'.p)
        /\ Verified(op'.p)
     \/ /\ op'.kind = "revert" /\ op'.from \in Active /\ op'.at = FirstStep(op'.p)
        /\ InPlace(op'.p, op'.from)
     \/ op'.kind = "finalize" /\ op'.from = "applied" /\ op'.at = "move"
     \/ op'.kind = "finalize" /\ op'.from = "finalized" /\ op'.at = "settle"

\* A step that leaves operations and targets alone.
Quiet ==
  /\ UNCHANGED <<op, tree, history, ghosts>>
  /\ \A c \in Candidates : staged'[c] = "settled" => staged[c] = "settled"
  /\ \/ UNCHANGED <<file, copies, review>>
     \/ Unlocked /\ UNCHANGED review /\ \E p \in Proposals : Submittable(p) /\ WriteProposal(p)
     \/ /\ Unlocked /\ UNCHANGED <<copies, review>>
        /\ \E p \in Proposals : file["pending"][p] > 0 /\ MoveToRejected(p)
     \/ /\ Unlocked /\ UNCHANGED <<file, copies>>
        /\ \E p \in Proposals, verdict \in {"pass", "fail"} : Reviewable(p, verdict) /\ WriteReview(p, verdict)

Edited == \E t \in Targets, bytes \in Bytes \cup {Absent} : Edit(t, bytes)

\* Every beginning is one.
LEMMA BeginsAre ==
  ASSUME TypeInv, NEW p \in Proposals, UNCHANGED <<files, ghosts>>,
         \/ Unlocked /\ file["pending"][p] > 0 /\ Verified(p) /\ Begin("apply", p, FirstStep(p), "pending", "cli")
         \/ Unlocked /\ file["pending"][p] > 0 /\ Verified(p) /\ Begin("auto", p, FirstStep(p), "pending", "cli")
         \/ Unlocked /\ file["pending"][p] > 0 /\ Verified(p) /\ Begin("auto", p, FirstStep(p), "pending", "worker")
         \/ BeginRevert(p) \/ BeginFinalize(p)
  PROVE  Begun
<1> USE Names, LocatedActive
<1>1. CASE \E kind \in {"apply", "auto"}, by \in {"cli", "worker"} :
             Unlocked /\ file["pending"][p] > 0 /\ Verified(p) /\ Begin(kind, p, FirstStep(p), "pending", by)
  BY <1>1 DEF Begin, Begun
<1>2. CASE BeginRevert(p)
  BY <1>2 DEF BeginRevert, Begin, Begun
<1>3. CASE BeginFinalize(p)
  BY <1>3 DEF BeginFinalize, Begin, Begun, Active
<1>4. QED
  BY <1>1, <1>2, <1>3

\* Every step is one of five.
LEMMA Summary == TypeInv /\ [Next]_vars => Operate \/ Begun \/ Quiet \/ Edited \/ CrashOperation
<1> SUFFICES ASSUME TypeInv, [Next]_vars PROVE Operate \/ Begun \/ Quiet \/ Edited \/ CrashOperation
  OBVIOUS
<1>1. CASE Operate \/ CrashOperation \/ \E t \in Targets, bytes \in Bytes \cup {Absent} : Edit(t, bytes)
  BY <1>1 DEF Edited
<1>2. CASE UNCHANGED vars
  BY <1>2 DEF vars, Quiet
<1>3. CASE CrashDaemon
  BY <1>3 DEF CrashDaemon, Quiet
<1>4. CASE Beside
  BY <1>4 DEF Beside, Submit, Reject, SubmitReview, Curate, Stage, Quiet, Submittable, Reviewable, TypeInv, TypeOK
<1>5. CASE BeginSome
  <2>1. PICK p \in Proposals : BeginApply(p) \/ BeginAuto(p) \/ BeginRevert(p) \/ BeginFinalize(p)
    BY <1>5 DEF BeginSome
  <2>2. UNCHANGED <<files, ghosts>>
    BY <2>1 DEF BeginApply, BeginAuto, BeginRevert, BeginFinalize
  <2>3. QED
    BY <2>1, <2>2, BeginsAre DEF BeginApply, BeginAuto, Admitted
<1>6. CASE Cycle
  <2>0. worker.at \in {"review", "apply", "clean"} => worker.p \in Proposals
    BY DEF TypeInv, TypeOK
  <2>1. CASE StartCycle \/ EndCycle
    BY <2>1 DEF StartCycle, EndCycle, Quiet
  <2>2. ASSUME NEW c \in Candidates, Propose(c) PROVE Quiet
    BY <2>2, MaintenanceAssumption DEF Propose, Quiet, Submittable
  <2>3. CASE Examine
    BY <2>0, <2>3 DEF Examine, Quiet, Reviewable
  <2>4. CASE CleanUp
    BY <2>0, <2>4 DEF CleanUp, Quiet
  <2>5. CASE ApplyReviewed
    <3>1. UNCHANGED <<files, ghosts, bounds>> /\ worker.p \in Proposals
      BY <2>0, <2>5 DEF ApplyReviewed
    <3>2. CASE Admitted(worker.p) /\ Begin("auto", worker.p, FirstStep(worker.p), "pending", "worker")
      BY <3>1, <3>2, BeginsAre DEF Admitted
    <3>3. CASE UNCHANGED op
      BY <3>1, <3>3 DEF Quiet
    <3>4. QED
      BY <2>5, <3>2, <3>3 DEF ApplyReviewed
  <2>6. QED
    BY <1>6, <2>1, <2>2, <2>3, <2>4, <2>5 DEF Cycle
<1>7. QED
  BY <1>1, <1>2, <1>3, <1>4, <1>5, <1>6, Steps4
-----------------------------------------------------------------------------
(* The invariant.                                                          *)

\* Each copy of a proposal is in one directory.
CopyOnce ==
  \A p \in Proposals : \A d \in Dirs :
    /\ file[d][p] <= copies[p]
    /\ \A e \in Dirs : file[d][p] > 0 /\ file[d][p] = file[e][p] => d = e

\* What was applied is the copy that passed its review.
Kept == {"applied", "finalized", "reverted"}
ReviewKept ==
  /\ \A p \in Proposals, d \in Kept : file[d][p] > 0 => Reviewed(p, file[d][p])
  /\ op.kind \in {"apply", "auto"} /\ op.at \in {"write", "move", "undo"} =>
       Reviewed(op.p, file["pending"][op.p])

\* Where the proposal of an operation is.
Position ==
  /\ op.at \in {"write", "move", "undo"} => file[op.from][op.p] > 0
  /\ op.at \in {"event", "unwrite", "back", "redo", "settle"} => file[Goal][op.p] > 0

\* Its operation knows that nobody else has its target.
Alone ==
  /\ op.kind \in {"apply", "revert"} => SingleWriter(op.p)
  /\ OneOwner

\* A proposal whose decision is not taken back any more.
Decided(p) ==
  /\ file["finalized"][p] > 0 \/ file["reverted"][p] > 0
  /\ op.p = p => op.from \notin {"pending", "applied"} \/ op.at = "settle"
DecidedKept ==
  /\ \A c \in Candidates : staged[c] = "settled" => \E p \in Proposals : c \in p.candidates /\ Decided(p)
  /\ \A p \in Proposals : <<p, "applied">> \in history => Decided(p)

\* Of a reversion, history is the last to know.
HistoryLast ==
  \A p \in Proposals \ adrift :
    <<p, "reverted">> \in history <=> file["reverted"][p] > 0 /\ ~(op.p = p /\ op.kind = "revert")

\* Between the write and the move, the bytes are ahead of the files.
Mid(p) == op.p = p /\ Claiming /\ op.at \in {"move", "undo", "back"}
InEffect(p) == file["applied"][p] > 0 \/ file["finalized"][p] > 0
Authorship ==
  /\ op.at = "redo" => op.p \in adrift
  /\ \A t \in Targets, p \in Proposals, s \in {"after", "before"} : wrote[t] = <<p, s>> =>
       /\ Content(p) /\ p.target = t
       /\ p \notin adrift =>
            IF Mid(p) THEN s = IF op.at = "back" THEN Old ELSE New
            ELSE s = "after" <=> InEffect(p)

\* An operation that nobody has raced finds the bytes that it wrote itself,
\* or those that it verified.
BytesKnown ==
  Claiming /\ Content(op.p) /\ ~op.raced =>
    /\ op.at = "write" => tree[op.p.target] = Side(op.p, Old)
    /\ op.at \in {"move", "undo", "event", "unwrite"} => tree[op.p.target] = Side(op.p, New)
    /\ op.at \in {"back", "redo"} => tree[op.p.target] \in {Side(op.p, Old), Side(op.p, New)}

IndInv ==
  /\ TypeInv /\ CopyOnce /\ ReviewKept /\ Position /\ Alone /\ DecidedKept
  /\ HistoryLast /\ Authorship /\ BytesKnown

\* No proposal is filed at first.
LEMMA InitInd == Init => IndInv
<1> SUFFICES ASSUME Init PROVE IndInv
  OBVIOUS
<1>1. \A d \in Dirs, p \in Proposals : file[d][p] = 0 /\ copies[p] = 0
  BY DEF Init
<1>2. TypeInv
  BY InitTypes
<1>3. op = Free /\ history = {} /\ \A c \in Candidates : staged[c] = "unborn"
  BY DEF Init
<1>4. CopyOnce /\ ReviewKept
  <2>1. \A d \in Dirs, p \in Proposals : ~(file[d][p] > 0) /\ file[d][p] <= copies[p]
    BY <1>1
  <2>2. CopyOnce
    BY <2>1 DEF CopyOnce
  <2>3. op.kind = "none"
    BY <1>3 DEF Free
  <2>4. QED
    BY <2>1, <2>2, <2>3 DEF ReviewKept, Kept, Dirs
<1>5. Position /\ Alone
  <2>1. \A p \in Proposals : ~(file["applied"][p] > 0)
    BY <1>1 DEF Dirs
  <2>2. op.kind = "none" /\ op.at = "free"
    BY <1>3 DEF Free
  <2>3. QED
    BY <2>1, <2>2 DEF Position, Alone, OneOwner
<1>6. DecidedKept
  BY <1>3 DEF DecidedKept
<1>7. HistoryLast
  BY <1>1, <1>3, Names DEF HistoryLast
<1>8. Authorship
  <2>1. \A t \in Targets : wrote[t] = NoOne
    BY DEF Init
  <2>2. \A p \in Proposals, s \in {"after", "before"} : NoOne # <<p, s>>
    BY MaintenanceAssumption
  <2>3. QED
    BY <1>3, <2>1, <2>2 DEF Authorship, Free
<1>9. BytesKnown
  BY <1>3 DEF BytesKnown, Claiming, Free
<1>10. QED
  BY <1>2, <1>4, <1>5, <1>6, <1>7, <1>8, <1>9 DEF IndInv

\* Copies are counted.
LEMMA Counted ==
  ASSUME TypeInv
  PROVE  \A p \in Proposals : copies[p] \in Nat /\ \A d \in Dirs : file[d][p] \in Nat
<1>1. \A p \in Proposals : copies[p] \in 0..MaxCopies /\ \A d \in Dirs : file[d][p] \in 0..MaxCopies
  BY DEF TypeInv, TypeOK
<1>2. QED
  BY <1>1, MaintenanceAssumption

\* Only one of the directories that need a review has the proposal, and
\* none while the reviewed copy is pending.
LEMMA OneCopy ==
  ASSUME CopyOnce, ReviewKept, NEW p \in Proposals
  PROVE  /\ \A d, e \in Kept : file[d][p] > 0 /\ file[e][p] > 0 => d = e
         /\ file["pending"][p] > 0 /\ Reviewed(p, file["pending"][p]) => \A d \in Kept : ~(file[d][p] > 0)
<1>1. Kept \subseteq Dirs /\ "pending" \in Dirs /\ "pending" \notin Kept
  BY DEF Kept, Dirs
<1>2. \A d \in Kept : \A n : Reviewed(p, n) /\ file[d][p] > 0 => file[d][p] = n
  <2> SUFFICES ASSUME NEW d \in Kept, NEW n, Reviewed(p, n), file[d][p] > 0 PROVE file[d][p] = n
    OBVIOUS
  <2>1. review[p] = [of |-> file[d][p], verdict |-> "pass"] /\ review[p] = [of |-> n, verdict |-> "pass"]
    BY DEF ReviewKept, Reviewed
  <2>2. [of |-> file[d][p], verdict |-> "pass"].of = [of |-> n, verdict |-> "pass"].of
    BY <2>1
  <2>3. QED
    BY <2>2
<1>3. ASSUME NEW d \in Kept, NEW e \in Kept, file[d][p] > 0, file[e][p] > 0 PROVE d = e
  <2>1. file[d][p] = file[e][p]
    BY <1>2, <1>3 DEF ReviewKept
  <2>2. QED
    BY <1>1, <1>3, <2>1 DEF CopyOnce
<1>4. ASSUME file["pending"][p] > 0, Reviewed(p, file["pending"][p]), NEW d \in Kept, file[d][p] > 0 PROVE FALSE
  <2>1. file[d][p] = file["pending"][p]
    BY <1>2, <1>4
  <2>2. QED
    BY <1>1, <1>4, <2>1 DEF CopyOnce
<1>5. QED
  BY <1>3, <1>4

\* How an operation goes on.
Follows ==
  {<<"write", "move">>, <<"move", "settle">>, <<"move", "event">>, <<"move", "undo">>,
   <<"event", "settle">>, <<"event", "unwrite">>, <<"event", "back">>,
   <<"unwrite", "back">>, <<"back", "redo">>, <<"settle", "settle">>}

LEMMA OperateOp ==
  ASSUME TypeInv, Operate
  PROVE  /\ op.at # "free" /\ op.p \in Proposals
         /\ \/ op' = Free
            \/ /\ <<op.at, op'.at>> \in Follows
               /\ op'.p = op.p /\ op'.kind = op.kind /\ op'.from = op.from /\ op'.raced = op.raced
<1>0. OpOK
  BY Parts DEF TypeInv
<1>1. op.at # "free"
  BY DEF Operate, WriteTarget, MoveProposal, UndoWrite, WriteEvent, UnwriteTarget, MoveBack,
     RedoWrite, SettleCandidate, EndSettle
<1>2. op.p \in Proposals
  BY <1>0, <1>1 DEF OpOK
<1>3. op' = Free \/ \E s \in Steps : op' = [op EXCEPT !.at = s] /\ <<op.at, s>> \in Follows
  <2>1. CASE \E ok \in BOOLEAN : End(ok)
    BY <2>1 DEF End
  <2>2. CASE \E s \in Steps : Goto(s) /\ <<op.at, s>> \in Follows
    BY <2>2 DEF Goto
  <2>3. QED
    BY <2>1, <2>2, Names DEF Operate, WriteTarget, MoveProposal, UndoWrite, WriteEvent, UnwriteTarget,
       MoveBack, RedoWrite, SettleCandidate, EndSettle, Follows
<1>4. QED
  BY <1>0, <1>1, <1>2, <1>3 DEF OpOK

\* What an operation does to the directories.
LEMMA OperateFile ==
  ASSUME TypeInv, Operate
  PROVE  /\ UNCHANGED <<copies, review>>
         /\ \/ file' = file
            \/ op.at = "move" /\ file[Goal][op.p] = 0 /\ Rename(op.from, Goal)
            \/ op.at = "back" /\ file[op.from][op.p] = 0 /\ Rename(Goal, op.from)
  BY DEF Operate, WriteTarget, MoveProposal, UndoWrite, WriteEvent, UnwriteTarget, MoveBack,
     RedoWrite, SettleCandidate, EndSettle

\* The directories of an operation.
LEMMA GoalKept ==
  ASSUME TypeInv, op.at # "free"
  PROVE  Goal \in Kept /\ Goal \in Dirs /\ op.from \in Dirs /\ op.from # "rejected"
         /\ (op.from = Goal <=> op.kind = "finalize" /\ op.from = "finalized")
         /\ (op.from \in Kept \/ op.from = "pending") /\ op.p \in Proposals
<1>1. OpOK /\ Shape
  BY Parts DEF TypeInv
<1>2. op.kind \in {"apply", "auto", "revert", "finalize"}
  BY <1>1 DEF OpOK, Kinds
<1>3. QED
  BY <1>1, <1>2 DEF Goal, Kept, Dirs, OpOK, Shape, Active

\* The steps of the invariant, conjunct by conjunct.
LEMMA CopyStep ==
  ASSUME TypeInv, CopyOnce, [Next]_vars
  PROVE  CopyOnce'
<1> DEFINE Typed == file \in [Dirs -> [Proposals -> 0..MaxCopies]]
<1>0. Typed /\ copies \in [Proposals -> 0..MaxCopies]
  BY DEF TypeInv, TypeOK
<1>1. CASE UNCHANGED <<file, copies>>
  BY <1>1 DEF CopyOnce
<1>2. ASSUME NEW d \in Dirs, NEW e \in Dirs, d # e, NEW p \in Proposals, file[e][p] = 0, copies' = copies,
             file' = [file EXCEPT ![d][p] = 0, ![e][p] = file[d][p]]
      PROVE  CopyOnce'
  <2>1. /\ file'[d][p] = 0 /\ file'[e][p] = file[d][p]
        /\ \A x \in Dirs, q \in Proposals : q # p \/ x \notin {d, e} => file'[x][q] = file[x][q]
    BY <1>0, <1>2
  <2>2. SUFFICES ASSUME NEW q \in Proposals, NEW x \in Dirs
                 PROVE  /\ file'[x][q] <= copies[q]
                        /\ \A y \in Dirs : file'[x][q] > 0 /\ file'[x][q] = file'[y][q] => x = y
    BY <1>2 DEF CopyOnce
  <2>3. /\ file[d][p] <= copies[p] /\ 0 <= copies[p]
        /\ \A y \in Dirs : file[d][p] > 0 /\ file[d][p] = file[y][p] => d = y
    BY <1>0, <1>2, Counted DEF CopyOnce
  <2>4. CASE q # p
    BY <2>1, <2>4 DEF CopyOnce
  <2>5. CASE q = p
    <3>1. file'[x][q] <= copies[q]
      BY <2>1, <2>3, <2>5 DEF CopyOnce
    <3>2. ASSUME NEW y \in Dirs, file'[x][p] > 0, file'[x][p] = file'[y][p], x # y PROVE FALSE
      <4>1. x # d /\ y # d
        BY <2>1, <3>2
      <4>2. CASE x = e \/ y = e
        BY <2>1, <2>3, <3>2, <4>1, <4>2
      <4>3. CASE x # e /\ y # e
        BY <2>1, <3>2, <4>1, <4>3 DEF CopyOnce
      <4>4. QED
        BY <4>2, <4>3
    <3>3. QED
      BY <2>5, <3>1, <3>2
  <2>6. QED
    BY <2>4, <2>5
<1>3. ASSUME NEW p \in Proposals, Submittable(p), WriteProposal(p) PROVE CopyOnce'
  <2>1. CASE file["pending"][p] > 0
    BY <1>1, <1>3, <2>1 DEF WriteProposal
  <2>2. CASE ~(file["pending"][p] > 0)
    <3>1. copies' = [copies EXCEPT ![p] = @ + 1] /\ file' = [file EXCEPT !["pending"][p] = copies[p] + 1]
      BY <1>3, <2>2 DEF WriteProposal
    <3>2. /\ copies'[p] = copies[p] + 1 /\ \A q \in Proposals : q # p => copies'[q] = copies[q]
          /\ file'["pending"][p] = copies[p] + 1
          /\ \A x \in Dirs, q \in Proposals : q # p \/ x # "pending" => file'[x][q] = file[x][q]
      BY <1>0, <3>1, Names
    <3>3. SUFFICES ASSUME NEW q \in Proposals, NEW x \in Dirs
                   PROVE  /\ file'[x][q] <= copies'[q]
                          /\ \A y \in Dirs : file'[x][q] > 0 /\ file'[x][q] = file'[y][q] => x = y
      BY DEF CopyOnce
    <3>4. \A z \in Dirs : file[z][p] <= copies[p] /\ file[z][p] \in Nat /\ copies[p] \in Nat
      BY Counted DEF CopyOnce
    <3>5. CASE q # p
      BY <3>2, <3>5 DEF CopyOnce
    <3>6. CASE q = p
      <4>1. file'[x][p] <= copies'[p]
        BY <3>2, <3>4
      <4>2. ASSUME NEW y \in Dirs, file'[x][p] > 0, file'[x][p] = file'[y][p], x # y PROVE FALSE
        <5>1. CASE x = "pending" \/ y = "pending"
          BY <3>2, <3>4, <4>2, <5>1
        <5>2. CASE x # "pending" /\ y # "pending"
          BY <3>2, <4>2, <5>2 DEF CopyOnce
        <5>3. QED
          BY <5>1, <5>2
      <4>3. QED
        BY <3>6, <4>1, <4>2
    <3>7. QED
      BY <3>5, <3>6
  <2>3. QED
    BY <2>1, <2>2
<1>4. ASSUME NEW p \in Proposals, MoveToRejected(p), copies' = copies PROVE CopyOnce'
  <2>1. CASE file["rejected"][p] = 0
    <3>1. file' = [file EXCEPT !["pending"][p] = 0, !["rejected"][p] = file["pending"][p]]
      BY <1>0, <1>4, <2>1, Names DEF MoveToRejected
    <3>2. QED
      BY <1>2, <1>4, <2>1, <3>1, Names
  <2>2. CASE file["rejected"][p] # 0
    <3>1. /\ file'["pending"][p] = 0
          /\ \A x \in Dirs, q \in Proposals : q # p \/ x # "pending" => file'[x][q] = file[x][q]
      BY <1>0, <1>4, <2>2, Names DEF MoveToRejected
    <3>2. \A q \in Proposals, x \in Dirs : file'[x][q] = 0 \/ file'[x][q] = file[x][q]
      BY <3>1
    <3>3. \A q \in Proposals : 0 <= copies[q]
      BY Counted
    <3>4. QED
      BY <1>4, <3>2, <3>3 DEF CopyOnce
  <2>3. QED
    BY <2>1, <2>2
<1>5. CASE Quiet
  BY <1>1, <1>3, <1>4, <1>5 DEF Quiet
<1>6. CASE Operate
  <2>1. copies' = copies /\ op.at # "free" /\ op.p \in Proposals /\ Goal \in Dirs /\ op.from \in Dirs
    BY <1>6, OperateFile, OperateOp, GoalKept
  <2>2. op.at \in {"move", "back"} => op.from # Goal
    BY <2>1, GoalKept, Parts DEF TypeInv, Shape
  <2>3. ASSUME op.at = "move", file[Goal][op.p] = 0, Rename(op.from, Goal) PROVE CopyOnce'
    BY <1>2, <2>1, <2>2, <2>3 DEF Rename
  <2>4. ASSUME op.at = "back", file[op.from][op.p] = 0, Rename(Goal, op.from) PROVE CopyOnce'
    BY <1>2, <2>1, <2>2, <2>4 DEF Rename
  <2>5. QED
    BY <1>1, <1>6, <2>1, <2>3, <2>4, OperateFile
<1>7. CASE Begun \/ Edited \/ CrashOperation
  BY <1>1, <1>7 DEF Begun, Edited, Edit, CrashOperation
<1>8. QED
  BY <1>5, <1>6, <1>7, Summary

\* A review that passed is never replaced.
LEMMA ReviewStable ==
  ASSUME TypeInv, [Next]_vars, NEW p \in Proposals, NEW n \in 1..MaxCopies, review[p] = [of |-> n, verdict |-> "pass"]
  PROVE  review'[p] = [of |-> n, verdict |-> "pass"]
<1>1. CASE review' = review
  BY <1>1
<1>2. ASSUME NEW q \in Proposals, NEW verdict \in {"pass", "fail"}, Reviewable(q, verdict), WriteReview(q, verdict)
      PROVE  review'[p] = [of |-> n, verdict |-> "pass"]
  <2>1. review \in [Proposals -> {None} \cup [of : 1..MaxCopies, verdict : {"pass", "fail"}]]
    BY DEF TypeInv, TypeOK
  <2>2. q # p => review'[p] = review[p]
    BY <1>2, <2>1 DEF WriteReview
  <2>3. review[p] # None
    BY MaintenanceAssumption
  <2>4. q = p => review'[p] = review[p]
    BY <1>2, <2>1, <2>3 DEF Reviewable, WriteReview
  <2>5. QED
    BY <2>2, <2>4
<1>3. QED
  BY <1>1, <1>2, Summary, OperateFile DEF Quiet, Begun, Edited, Edit, CrashOperation

LEMMA ReviewStep ==
  ASSUME TypeInv, CopyOnce, ReviewKept, Position, [Next]_vars
  PROVE  ReviewKept'
<1>0. \A p \in Proposals, d \in Dirs : file[d][p] \in Nat /\ (file[d][p] > 0 => file[d][p] \in 1..MaxCopies)
  BY MaintenanceAssumption DEF TypeInv, TypeOK
<1>1. Kept \subseteq Dirs /\ "pending" \in Dirs /\ "pending" \notin Kept /\ "rejected" \notin Kept
  BY DEF Kept, Dirs
<1>2. \A p \in Proposals, n \in 1..MaxCopies : Reviewed(p, n) => review'[p] = [of |-> n, verdict |-> "pass"]
  BY ReviewStable DEF Reviewed
<1>3. ASSUME \A p \in Proposals, d \in Kept : file'[d][p] > 0 => file'[d][p] = file[d][p]
      PROVE  \A p \in Proposals, d \in Kept : file'[d][p] > 0 => Reviewed(p, file[d][p])'
  <2> SUFFICES ASSUME NEW p \in Proposals, NEW d \in Kept, file'[d][p] > 0
               PROVE  review'[p] = [of |-> file'[d][p], verdict |-> "pass"]
    BY DEF Reviewed
  <2>1. file'[d][p] = file[d][p] /\ file[d][p] \in 1..MaxCopies /\ Reviewed(p, file[d][p])
    BY <1>0, <1>1, <1>3 DEF ReviewKept
  <2>2. QED
    BY <1>2, <2>1
<1>4. CASE Operate
  <2>0. /\ op.at # "free" /\ op.p \in Proposals /\ Goal \in Dirs /\ op.from \in Dirs /\ Goal \in Kept
        /\ op.from \in Kept \/ op.from = "pending"
    BY <1>4, OperateOp, GoalKept
  <2>1. file \in [Dirs -> [Proposals -> 0..MaxCopies]] /\ Shape /\ op.kind \in {"apply", "auto", "revert", "finalize"}
    BY <2>0, Parts DEF TypeInv, TypeOK, Kinds
  <2>2. op'.kind \in {"apply", "auto"} /\ op'.at \in {"write", "move", "undo"} =>
          /\ op'.p = op.p /\ op.kind = op'.kind /\ op.at \in {"write", "move"} /\ op.from = "pending"
    BY <1>4, <2>1, OperateOp DEF Follows, Free, Shape
  <2>3. CASE file' = file
    <3>1. \A p \in Proposals, d \in Kept : file'[d][p] > 0 => Reviewed(p, file[d][p])'
      BY <1>3, <2>3
    <3>2. ASSUME op'.kind \in {"apply", "auto"}, op'.at \in {"write", "move", "undo"}
          PROVE  review'[op'.p] = [of |-> file'["pending"][op'.p], verdict |-> "pass"]
      <4>1. Reviewed(op.p, file["pending"][op.p]) /\ file["pending"][op.p] > 0
        BY <2>2, <3>2 DEF ReviewKept, Position
      <4>2. file["pending"][op.p] \in 1..MaxCopies
        BY <1>0, <1>1, <2>0, <4>1
      <4>3. QED
        BY <1>2, <2>0, <2>2, <2>3, <3>2, <4>1, <4>2
    <3>3. QED
      BY <3>1, <3>2 DEF ReviewKept, Reviewed
  <2>4. CASE op.at = "move" /\ file[Goal][op.p] = 0 /\ Rename(op.from, Goal)
    <3>1. /\ \A d \in Dirs, p \in Proposals : p # op.p \/ d \notin {op.from, Goal} => file'[d][p] = file[d][p]
          /\ file'[Goal][op.p] = file[op.from][op.p] /\ (op.from # Goal => file'[op.from][op.p] = 0)
      BY <2>0, <2>1, <2>4 DEF Rename
    <3>2. op.from # Goal
      BY <2>0, <2>1, <2>4, GoalKept DEF Shape
    <3>3. Reviewed(op.p, file[op.from][op.p]) /\ file[op.from][op.p] > 0
      BY <2>0, <2>1, <2>4 DEF ReviewKept, Position, Shape, Kept, Active
    <3>4. review'[op.p] = [of |-> file[op.from][op.p], verdict |-> "pass"]
      BY <1>0, <1>2, <2>0, <3>3
    <3>5. ASSUME NEW p \in Proposals, NEW d \in Kept, file'[d][p] > 0
          PROVE  review'[p] = [of |-> file'[d][p], verdict |-> "pass"]
      <4>1. CASE p = op.p /\ d = Goal
        BY <3>1, <3>4, <4>1
      <4>2. CASE ~(p = op.p /\ d = Goal)
        <5>1. file'[d][p] = file[d][p]
          BY <1>1, <2>0, <3>1, <3>2, <3>5, <4>2
        <5>2. file[d][p] \in 1..MaxCopies /\ Reviewed(p, file[d][p])
          BY <1>0, <1>1, <3>5, <5>1 DEF ReviewKept
        <5>3. QED
          BY <1>2, <5>1, <5>2
      <4>3. QED
        BY <4>1, <4>2
    <3>6. ~(op'.kind \in {"apply", "auto"} /\ op'.at \in {"write", "move", "undo"})
      <4>1. op'.at # "undo"
        <5>1. MoveProposal
          BY <1>4, <2>4 DEF Operate, WriteTarget, UndoWrite, WriteEvent, UnwriteTarget,
             MoveBack, RedoWrite, SettleCandidate, EndSettle
        <5>2. file' # file
          BY <2>4, <3>1, <3>3
        <5>3. End(TRUE) \/ Goto("settle") \/ Goto("event")
          BY <5>1, <5>2 DEF MoveProposal
        <5>4. OpOK
          BY Parts DEF TypeInv
        <5>5. QED
          BY <5>3, <5>4 DEF Goto, End, Free, OpOK
      <4>2. QED
        BY <1>4, <2>2, <2>4, <4>1, OperateOp DEF Follows, Free
    <3>7. QED
      BY <3>5, <3>6 DEF ReviewKept, Reviewed
  <2>5. CASE op.at = "back" /\ file[op.from][op.p] = 0 /\ Rename(Goal, op.from)
    <3>1. /\ \A d \in Dirs, p \in Proposals : p # op.p \/ d \notin {op.from, Goal} => file'[d][p] = file[d][p]
          /\ file'[op.from][op.p] = file[Goal][op.p] /\ (op.from # Goal => file'[Goal][op.p] = 0)
      BY <2>0, <2>1, <2>5 DEF Rename
    <3>2. op.from # Goal
      BY <2>0, <2>1, <2>5, GoalKept DEF Shape
    <3>3. Reviewed(op.p, file[Goal][op.p]) /\ file[Goal][op.p] > 0
      BY <2>0, <2>5 DEF ReviewKept, Position
    <3>4. review'[op.p] = [of |-> file[Goal][op.p], verdict |-> "pass"]
      BY <1>0, <1>2, <2>0, <3>3
    <3>5. ASSUME NEW p \in Proposals, NEW d \in Kept, file'[d][p] > 0
          PROVE  review'[p] = [of |-> file'[d][p], verdict |-> "pass"]
      <4>1. CASE p = op.p /\ d = op.from
        BY <3>1, <3>4, <4>1
      <4>2. CASE ~(p = op.p /\ d = op.from)
        <5>1. file'[d][p] = file[d][p]
          BY <1>1, <2>0, <3>1, <3>2, <3>5, <4>2
        <5>2. file[d][p] \in 1..MaxCopies /\ Reviewed(p, file[d][p])
          BY <1>0, <1>1, <3>5, <5>1 DEF ReviewKept
        <5>3. QED
          BY <1>2, <5>1, <5>2
      <4>3. QED
        BY <4>1, <4>2
    <3>6. ~(op'.kind \in {"apply", "auto"} /\ op'.at \in {"write", "move", "undo"})
      BY <2>2, <2>5
    <3>7. QED
      BY <3>5, <3>6 DEF ReviewKept, Reviewed
  <2>6. QED
    BY <1>4, <2>3, <2>4, <2>5, OperateFile
<1>5. CASE Begun
  <2>1. file' = file /\ review' = review /\ op'.p \in Proposals
    BY <1>5 DEF Begun
  <2>2. op'.kind \in {"apply", "auto"} => Reviewed(op'.p, file["pending"][op'.p])
    BY <1>5 DEF Begun, Verified
  <2>3. QED
    BY <2>1, <2>2 DEF ReviewKept, Reviewed
<1>6. CASE Quiet
  <2>1. op' = op
    BY <1>6 DEF Quiet
  <2>2. CASE Unlocked
    <3>1. op.kind = "none"
      BY <2>2, Parts DEF Unlocked, TypeInv, OpOK
    <3>2. \A p \in Proposals, d \in Kept : file'[d][p] = file[d][p]
      <4>0. file \in [Dirs -> [Proposals -> 0..MaxCopies]]
        BY DEF TypeInv, TypeOK
      <4>1. ASSUME NEW q \in Proposals, WriteProposal(q) \/ MoveToRejected(q)
            PROVE  \A p \in Proposals, d \in Kept : file'[d][p] = file[d][p]
        BY <1>1, <4>0, <4>1 DEF WriteProposal, MoveToRejected
      <4>2. QED
        BY <1>6, <4>1 DEF Quiet
    <3>3. QED
      BY <1>3, <2>1, <3>1, <3>2 DEF ReviewKept
  <2>3. CASE ~Unlocked
    <3>1. file' = file /\ review' = review
      BY <1>6, <2>3 DEF Quiet
    <3>2. QED
      BY <2>1, <3>1 DEF ReviewKept, Reviewed
  <2>4. QED
    BY <2>2, <2>3
<1>7. CASE Edited \/ CrashOperation
  <2>1. file' = file /\ review' = review
    BY <1>7 DEF Edited, Edit, CrashOperation
  <2>2. op'.kind = "none" \/ (op'.kind = op.kind /\ op'.at = op.at /\ op'.p = op.p)
    BY <1>7 DEF Edited, Edit, CrashOperation, Free, TypeInv, TypeOK
  <2>3. QED
    BY <2>1, <2>2 DEF ReviewKept, Reviewed
<1>8. QED
  BY <1>4, <1>5, <1>6, <1>7, Summary

\* The move of an operation, and the move back.
LEMMA MoveIs ==
  ASSUME TypeInv, Position, Operate
  PROVE  /\ op.at = "move" => MoveProposal
         /\ op.at = "back" => MoveBack
         /\ op.at = "move" /\ op'.at \in {"settle", "event"} => file[Goal][op.p] = 0 /\ Rename(op.from, Goal)
         /\ op.at \notin {"move", "back"} \/ op'.at \in {"undo", "redo"} => file' = file
         /\ op.at = "move" /\ Rename(op.from, Goal) /\ file[Goal][op.p] = 0 =>
              file'[Goal][op.p] = file[op.from][op.p] /\ file'[op.from][op.p] = 0
         /\ op.at = "back" /\ Rename(Goal, op.from) /\ file[op.from][op.p] = 0 =>
              file'[op.from][op.p] = file[Goal][op.p] /\ file'[Goal][op.p] = 0
         /\ Rename(op.from, Goal) \/ Rename(Goal, op.from) =>
              \A d \in Dirs, p \in Proposals : p # op.p \/ d \notin {op.from, Goal} => file'[d][p] = file[d][p]
<1>1. (op.at = "move" => MoveProposal) /\ (op.at = "back" => MoveBack)
  BY DEF Operate, WriteTarget, MoveProposal, UndoWrite, WriteEvent, UnwriteTarget, MoveBack,
     RedoWrite, SettleCandidate, EndSettle
<1>2. OpOK /\ FilesOK /\ Shape
  BY Parts DEF TypeInv
<1>3. op.at # "free" /\ op.p \in Proposals /\ Goal \in Dirs /\ op.from \in Dirs
  BY OperateOp, GoalKept
<1>4. op.at \in {"move", "back"} => op.from # Goal
  BY <1>2, <1>3, GoalKept DEF Shape
<1>5. op.at = "move" /\ op'.at \in {"settle", "event"} => file[Goal][op.p] = 0 /\ Rename(op.from, Goal)
  BY <1>1, <1>2 DEF MoveProposal, Goto, End, Free, OpOK
<1>6. op.at \notin {"move", "back"} => file' = file
  BY OperateFile
<1>7. op.at = "move" /\ op'.at \in {"undo", "redo"} => file' = file
  BY <1>1, <1>2 DEF MoveProposal, Goto, End, Free, OpOK
<1>8. op.at = "back" /\ op'.at \in {"undo", "redo"} => file' = file
  BY <1>1, <1>2 DEF MoveBack, Goto, End, Free, OpOK
<1>9. Rename(op.from, Goal) /\ op.from # Goal => file'[Goal][op.p] = file[op.from][op.p] /\ file'[op.from][op.p] = 0
  BY <1>2, <1>3 DEF Rename, FilesOK
<1>10. Rename(Goal, op.from) /\ op.from # Goal => file'[op.from][op.p] = file[Goal][op.p] /\ file'[Goal][op.p] = 0
  BY <1>2, <1>3 DEF Rename, FilesOK
<1>11. Rename(op.from, Goal) \/ Rename(Goal, op.from) =>
         \A d \in Dirs, p \in Proposals : p # op.p \/ d \notin {op.from, Goal} => file'[d][p] = file[d][p]
  BY <1>2, <1>3 DEF Rename, FilesOK
<1>12. QED
  BY <1>1, <1>4, <1>5, <1>6, <1>7, <1>8, <1>9, <1>10, <1>11

LEMMA PositionStep ==
  ASSUME TypeInv, Position, [Next]_vars
  PROVE  Position'
<1>0. OpOK
  BY Parts DEF TypeInv
<1>1. CASE Operate
  <2>1. CASE op' = Free
    BY <2>1 DEF Position, Free
  <2>2. CASE /\ <<op.at, op'.at>> \in Follows
             /\ op'.p = op.p /\ op'.kind = op.kind /\ op'.from = op.from /\ op'.raced = op.raced
    <3>1. Goal' = Goal
      BY <2>2 DEF Goal
    <3>2. CASE file' = file /\ ~(op.at = "move" /\ op'.at \in {"settle", "event"})
      BY <2>2, <3>1, <3>2 DEF Position, Follows
    <3>3. CASE op.at = "move" /\ op'.at \in {"settle", "event"}
      BY <1>1, <2>2, <3>1, <3>3, MoveIs DEF Position
    <3>4. QED
      BY <1>1, <2>2, <3>2, <3>3, MoveIs DEF Follows
  <2>3. QED
    BY <1>1, <2>1, <2>2, OperateOp
<1>2. CASE Begun
  BY <1>2 DEF Begun, Position, FirstStep, Goal
<1>3. CASE Quiet
  <2>1. CASE op.at = "free"
    BY <1>3, <2>1 DEF Position, Quiet
  <2>2. CASE op.at # "free"
    BY <1>3, <2>2 DEF Position, Quiet, Unlocked, Goal
  <2>3. QED
    BY <2>1, <2>2
<1>4. CASE Edited \/ CrashOperation
  <2>1. file' = file
    BY <1>4 DEF Edited, Edit, CrashOperation
  <2>2. op'.at = "free" \/ (op'.kind = op.kind /\ op'.at = op.at /\ op'.p = op.p /\ op'.from = op.from)
    BY <1>0, <1>4 DEF Edited, Edit, CrashOperation, Free, OpOK
  <2>3. QED
    BY <2>1, <2>2 DEF Position, Goal
<1>5. QED
  BY <1>1, <1>2, <1>3, <1>4, Summary

\* Without an operation, nobody touches what was kept.
LEMMA QuietKept ==
  ASSUME TypeInv, Begun \/ Quiet \/ Edited \/ CrashOperation
  PROVE  \A d \in Kept, p \in Proposals : file'[d][p] = file[d][p]
<1>1. "pending" \notin Kept /\ "rejected" \notin Kept /\ file \in [Dirs -> [Proposals -> 0..MaxCopies]] /\ Kept \subseteq Dirs
  BY DEF Kept, TypeInv, TypeOK, Dirs
<1>2. ASSUME NEW q \in Proposals, WriteProposal(q) \/ MoveToRejected(q)
      PROVE  \A p \in Proposals, d \in Kept : file'[d][p] = file[d][p]
  BY <1>1, <1>2 DEF WriteProposal, MoveToRejected
<1>3. QED
  BY <1>2 DEF Quiet, Begun, Edited, Edit, CrashOperation

LEMMA AloneStep ==
  ASSUME TypeInv, Position, Alone, [Next]_vars
  PROVE  Alone'
<1>0. OpOK
  BY Parts DEF TypeInv
<1>1. CASE Operate
  <2>0. op.p \in Proposals /\ Goal \in Dirs /\ op.from \in Dirs /\ op.at # "free" /\ "applied" \in Dirs
    BY <1>1, OperateOp, GoalKept DEF Dirs
  <2>1. \A q \in Proposals : q # op.p => file'["applied"][q] = file["applied"][q]
    BY <1>1, <2>0, OperateFile, MoveIs
  <2>2. op'.kind \in {"apply", "revert"} => SingleWriter(op.p)' /\ op'.p = op.p
    <3>1. op'.kind \in {"apply", "revert"} => op'.p = op.p /\ op.kind = op'.kind
      BY <1>1, OperateOp DEF Free
    <3>2. op'.kind \in {"apply", "revert"} => SingleWriter(op.p)
      BY <3>1 DEF Alone
    <3>3. QED
      BY <2>1, <3>1, <3>2 DEF SingleWriter, Content
  <2>3. file'["applied"][op.p] > 0 => file["applied"][op.p] > 0 \/ SingleWriter(op.p)
    <3>1. CASE file' = file
      BY <3>1
    <3>2. CASE op.at = "move" /\ file[Goal][op.p] = 0 /\ Rename(op.from, Goal)
      <4>1. CASE Goal = "applied"
        BY <4>1 DEF Goal, Alone
      <4>2. CASE Goal # "applied"
        <5>1. op.from # "applied" => file'["applied"][op.p] = file["applied"][op.p]
          BY <1>1, <2>0, <3>2, <4>2, MoveIs
        <5>2. op.from = "applied" => file'["applied"][op.p] = 0
          BY <1>1, <2>0, <3>2, <4>2, MoveIs
        <5>3. QED
          BY <5>1, <5>2
      <4>3. QED
        BY <4>1, <4>2
    <3>3. CASE op.at = "back" /\ file[op.from][op.p] = 0 /\ Rename(Goal, op.from)
      <4>1. op.kind # "apply" /\ op.kind # "finalize" /\ Goal # "applied"
        BY <3>3, Parts DEF TypeInv, Shape, Goal
      <4>2. CASE op.from = "applied"
        BY <3>3, <4>1, <4>2, <1>0, <2>0, Parts DEF Alone, TypeInv, Shape, OpOK, Kinds
      <4>3. CASE op.from # "applied"
        BY <1>1, <2>0, <3>3, <4>1, <4>3, MoveIs
      <4>4. QED
        BY <4>2, <4>3
    <3>4. QED
      BY <1>1, <3>1, <3>2, <3>3, OperateFile
  <2>4. OneOwner'
    <3> SUFFICES ASSUME NEW p \in Proposals, NEW q \in Proposals, p # q, Content(p),
                        file'["applied"][p] > 0, file'["applied"][q] > 0
                 PROVE  p.target # q.target
      BY DEF OneOwner, Content
    <3>1. CASE p # op.p /\ q # op.p
      BY <2>1, <3>1 DEF Alone, OneOwner
    <3>2. CASE p = op.p
      <4>1. file["applied"][q] > 0
        BY <2>1, <3>2
      <4>2. QED
        BY <2>3, <3>2, <4>1 DEF Alone, OneOwner, SingleWriter
    <3>3. CASE q = op.p
      <4>1. file["applied"][p] > 0
        BY <2>1, <3>3
      <4>2. CASE file["applied"][q] > 0
        BY <4>1, <4>2 DEF Alone, OneOwner
      <4>3. CASE SingleWriter(q)
        <5>1. Content(q) => p.target # q.target
          BY <4>1, <4>3 DEF SingleWriter
        <5>2. QED
          BY <5>1 DEF Content
      <4>4. QED
        BY <2>3, <3>3, <4>2, <4>3
    <3>4. QED
      BY <3>1, <3>2, <3>3
  <2>5. QED
    BY <2>2, <2>4 DEF Alone
<1>2. CASE Begun \/ Quiet \/ Edited \/ CrashOperation
  <2>1. \A p \in Proposals : file'["applied"][p] = file["applied"][p]
    BY <1>2, QuietKept DEF Kept
  <2>2. OneOwner'
    BY <2>1 DEF Alone, OneOwner
  <2>3. op'.kind \in {"apply", "revert"} => SingleWriter(op'.p)
    <3>1. CASE Begun
      BY <3>1 DEF Begun, Verified, Applicable, InPlace
    <3>2. CASE Quiet \/ Edited \/ CrashOperation
      BY <1>0, <3>2 DEF Quiet, Edited, Edit, CrashOperation, Free, Alone, OpOK
    <3>3. QED
      BY <1>2, <3>1, <3>2
  <2>4. QED
    BY <2>1, <2>2, <2>3 DEF Alone, SingleWriter, Content
<1>3. QED
  BY <1>1, <1>2, Summary

\* A decision that has been made stays made.
LEMMA DecidedStable ==
  ASSUME TypeInv, CopyOnce, ReviewKept, Position, [Next]_vars, NEW p \in Proposals, Decided(p)
  PROVE  Decided(p)'
<1>0. OpOK /\ Shape /\ NoOne # p
  BY Parts, MaintenanceAssumption DEF TypeInv
<1>1. CASE Operate
  <2>0. /\ op.p \in Proposals /\ Goal \in Dirs /\ op.from \in Dirs /\ Goal \in Kept /\ op.at # "free"
        /\ op.from \in Kept \/ op.from = "pending"
        /\ "finalized" \in Dirs /\ "reverted" \in Dirs
    BY <1>1, OperateOp, GoalKept DEF Dirs
  <2>1. op'.p = p => op.p = p /\ op'.from = op.from /\ (op.at = "settle" => op'.at = "settle")
    BY <1>0, <1>1, OperateOp DEF Free, Follows
  <2>2. CASE op.p # p
    <3>1. \A d \in Dirs : file'[d][p] = file[d][p]
      BY <1>1, <2>0, <2>2, OperateFile, MoveIs
    <3>2. QED
      BY <2>0, <2>1, <2>2, <3>1 DEF Decided
  <2>3. CASE op.p = p /\ op.at = "settle"
    <3>1. file' = file
      BY <1>1, <2>3, OperateFile
    <3>2. QED
      BY <2>1, <2>3, <3>1 DEF Decided
  <2>4. CASE op.p = p /\ op.at # "settle"
    <3>1. op.from = "finalized" /\ op.kind = "revert" /\ Goal = "reverted"
      BY <1>0, <2>0, <2>4 DEF Decided, Shape, OpOK, Kinds, Kept, Active, Goal
    <3>2. file'["finalized"][p] > 0 \/ file'["reverted"][p] > 0
      <4>1. CASE file' = file
        BY <4>1 DEF Decided
      <4>2. CASE op.at = "move" /\ file[Goal][op.p] = 0 /\ Rename(op.from, Goal)
        BY <1>1, <2>4, <3>1, <4>2, MoveIs DEF Position
      <4>3. CASE op.at = "back" /\ file[op.from][op.p] = 0 /\ Rename(Goal, op.from)
        BY <1>1, <2>4, <3>1, <4>3, MoveIs DEF Position
      <4>4. QED
        BY <1>1, <4>1, <4>2, <4>3, OperateFile
    <3>3. QED
      BY <2>1, <3>1, <3>2 DEF Decided
  <2>5. QED
    BY <2>2, <2>3, <2>4
<1>2. CASE Begun \/ Quiet \/ Edited \/ CrashOperation
  <2>1. file'["finalized"][p] > 0 \/ file'["reverted"][p] > 0
    BY <1>2, QuietKept DEF Kept, Decided
  <2>2. op'.p = p => op'.from \notin {"pending", "applied"} \/ op'.at = "settle"
    <3>1. CASE Begun
      <4>1. op'.p = p /\ op'.from = "pending" => Reviewed(p, file["pending"][p]) /\ file["pending"][p] > 0
        BY <3>1 DEF Begun, Verified, Active
      <4>2. op'.p = p /\ op'.from = "applied" => file["applied"][p] > 0
        BY <3>1 DEF Begun
      <4>3. QED
        BY <4>1, <4>2, OneCopy DEF Decided, Kept
    <3>2. CASE Quiet \/ Edited \/ CrashOperation
      BY <1>0, <3>2 DEF Quiet, Edited, Edit, CrashOperation, Free, Decided, OpOK
    <3>3. QED
      BY <1>2, <3>1, <3>2
  <2>3. QED
    BY <2>1, <2>2 DEF Decided
<1>3. QED
  BY <1>1, <1>2, Summary

LEMMA DecidedStep ==
  ASSUME TypeInv, CopyOnce, ReviewKept, Position, DecidedKept, [Next]_vars
  PROVE  DecidedKept'
<1>0. OpOK /\ Shape /\ FilesOK
  BY Parts DEF TypeInv
<1>1. \A p \in Proposals : Decided(p) => Decided(p)'
  BY DecidedStable
<1>2. ASSUME \A c \in Candidates : staged'[c] = "settled" => staged[c] = "settled", history' = history
      PROVE  DecidedKept'
  BY <1>1, <1>2 DEF DecidedKept
<1>3. CASE Operate
  <2>0. op.p \in Proposals /\ op.at # "free"
    BY <1>3, OperateOp
  <2>1. CASE UNCHANGED <<staged, history>>
    BY <1>2, <2>1
  <2>2. CASE SettleCandidate /\ staged' # staged
    <3>1. PICK c \in op.p.candidates \cap Pending : staged' = [staged EXCEPT ![c] = "settled"]
      BY <2>2 DEF SettleCandidate
    <3>2. op.at = "settle" /\ history' = history
      BY <2>2 DEF SettleCandidate
    <3>3. Goal = "finalized"
      BY <1>0, <3>2 DEF Goal, Shape
    <3>4. Decided(op.p)
      BY <3>2, <3>3 DEF Decided, Position
    <3>5. \A d \in Candidates : staged'[d] = "settled" => staged[d] = "settled" \/ d = c
      BY <1>0, <3>1 DEF FilesOK
    <3>6. QED
      BY <1>1, <2>0, <3>1, <3>2, <3>4, <3>5 DEF DecidedKept
  <2>3. CASE WriteEvent /\ history' # history
    <3>1. /\ op.at = "event" /\ history' = history \cup {<<op.p, Outcome>>} /\ UNCHANGED <<staged, file>>
          /\ IF op.kind = "auto" THEN Goto("settle") ELSE End(TRUE)
      BY <2>3 DEF WriteEvent
    <3>2. CASE op.kind = "auto"
      <4>1. op'.at = "settle" /\ file'["finalized"][op.p] > 0
        <5>1. op'.at = "settle"
          BY <1>0, <3>1, <3>2 DEF Goto, OpOK
        <5>2. Goal = "finalized" /\ file[Goal][op.p] > 0
          BY <3>1, <3>2 DEF Goal, Position
        <5>3. QED
          BY <3>1, <5>1, <5>2
      <4>3. \A p \in Proposals : <<p, "applied">> \in history' => <<p, "applied">> \in history \/ p = op.p
        BY <3>1
      <4>4. QED
        <5>1. \A c \in Candidates : staged'[c] = "settled" => \E p \in Proposals : c \in p.candidates /\ Decided(p)'
          BY <1>1, <3>1 DEF DecidedKept
        <5>2. op'.p = op.p
          BY <1>0, <3>1, <3>2 DEF Goto, OpOK
        <5>3. \A p \in Proposals : <<p, "applied">> \in history' => Decided(p)'
          <6>1. Decided(op.p)'
            BY <4>1, <5>2 DEF Decided
          <6>2. QED
            BY <1>1, <2>0, <4>1, <4>3, <6>1 DEF DecidedKept, Decided
        <5>4. QED
          BY <5>1, <5>3 DEF DecidedKept
    <3>3. CASE op.kind # "auto"
      <4>1. Outcome = "reverted"
        BY <1>0, <3>1, <3>3, <2>0 DEF Shape, Outcome, OpOK, Kinds
      <4>2. \A p \in Proposals : <<p, "applied">> \in history' => <<p, "applied">> \in history
        BY <3>1, <4>1
      <4>3. QED
        BY <1>1, <3>1, <4>2 DEF DecidedKept
    <3>4. QED
      BY <3>2, <3>3
  <2>4. QED
    BY <1>3, <2>1, <2>2, <2>3 DEF Operate, WriteTarget, MoveProposal, UndoWrite, WriteEvent, UnwriteTarget,
       MoveBack, RedoWrite, SettleCandidate, EndSettle
<1>4. CASE Begun \/ Quiet \/ Edited \/ CrashOperation
  BY <1>2, <1>4 DEF Begun, Quiet, Edited, Edit, CrashOperation
<1>5. QED
  BY <1>3, <1>4, Summary

\* Before it moves, a proposal is nowhere else; afterwards only at its goal.
LEMMA OnlyThere ==
  ASSUME TypeInv, CopyOnce, ReviewKept, Position, op.at # "free"
  PROVE  /\ op.at \in {"write", "move", "undo"} => \A d \in Kept : d # op.from => ~(file[d][op.p] > 0)
         /\ op.at \notin {"write", "move", "undo"} => \A d \in Kept : d # Goal => ~(file[d][op.p] > 0)
<1>0. OpOK /\ Shape /\ op.p \in Proposals /\ Goal \in Kept
  BY GoalKept, Parts DEF TypeInv
<1>1. CASE op.at \in {"write", "move", "undo"} /\ op.from = "pending"
  BY <1>0, <1>1, OneCopy DEF Position, ReviewKept, Shape, Active, OpOK, Kinds
<1>2. CASE op.at \in {"write", "move", "undo"} /\ op.from # "pending"
  <2>1. op.from \in Kept
    BY <1>0, <1>2, GoalKept
  <2>2. QED
    BY <1>0, <1>2, <2>1, OneCopy DEF Position
<1>3. CASE op.at \notin {"write", "move", "undo"}
  BY <1>0, <1>3, OneCopy DEF Position, OpOK, Steps
<1>4. QED
  BY <1>1, <1>2, <1>3

LEMMA HistoryStep ==
  ASSUME TypeInv, CopyOnce, ReviewKept, Position, HistoryLast, [Next]_vars
  PROVE  HistoryLast'
<1>0. OpOK /\ Shape /\ "reverted" \in Dirs /\ "reverted" \in Kept
  BY Parts DEF TypeInv, Dirs, Kept
<1> SUFFICES ASSUME NEW p \in Proposals \ adrift'
             PROVE  <<p, "reverted">> \in history' <=> file'["reverted"][p] > 0 /\ ~(op'.p = p /\ op'.kind = "revert")
  BY DEF HistoryLast
<1>1. CASE Operate
  <2>0. /\ op.p \in Proposals /\ Goal \in Dirs /\ op.from \in Dirs /\ op.at # "free"
        /\ op' = Free \/ (op'.p = op.p /\ op'.kind = op.kind)
        /\ p \notin adrift
    BY <1>1, OperateOp, GoalKept DEF Operate, WriteTarget, MoveProposal, UndoWrite, WriteEvent, UnwriteTarget,
       MoveBack, RedoWrite, SettleCandidate, EndSettle, Adrift
  <2>1. history' = history \/ (op.at = "event" /\ history' = history \cup {<<op.p, Outcome>>} /\ WriteEvent)
    BY <1>1 DEF Operate, WriteTarget, MoveProposal, UndoWrite, WriteEvent, UnwriteTarget,
       MoveBack, RedoWrite, SettleCandidate, EndSettle
  <2>2. CASE op.p # p
    <3>1. file'["reverted"][p] = file["reverted"][p]
      BY <1>0, <1>1, <2>0, <2>2, OperateFile, MoveIs
    <3>2. op'.p # p
      BY <2>0, <2>2, MaintenanceAssumption DEF Free
    <3>3. <<p, "reverted">> \in history' <=> <<p, "reverted">> \in history
      BY <2>1, <2>2
    <3>4. QED
      BY <2>0, <2>2, <3>1, <3>2, <3>3 DEF HistoryLast
  <2>3. CASE op.p = p /\ op.kind # "revert"
    <3>1. Goal # "reverted" /\ op.from # "reverted"
      BY <1>0, <2>0, <2>3 DEF Goal, Shape, OpOK, Kinds, Active
    <3>2. file'["reverted"][p] = file["reverted"][p]
      BY <1>0, <1>1, <2>0, <3>1, OperateFile, MoveIs
    <3>3. <<p, "reverted">> \in history' <=> <<p, "reverted">> \in history
      BY <2>1, <2>3 DEF Outcome
    <3>4. QED
      BY <2>0, <2>3, <3>2, <3>3 DEF HistoryLast, Free
  <2>4. CASE op.p = p /\ op.kind = "revert"
    <3>0. <<p, "reverted">> \notin history /\ Goal = "reverted"
      BY <2>0, <2>4 DEF HistoryLast, Goal
    <3>1. CASE op' # Free
      <4>1. history' = history
        <5>1. WriteEvent /\ history' # history => End(TRUE)
          BY <2>4 DEF WriteEvent
        <5>2. QED
          BY <2>1, <3>1, <5>1 DEF End
      <4>2. QED
        BY <2>0, <2>4, <3>0, <3>1, <4>1
    <3>2. CASE op' = Free
      <4>0. ~(op'.p = p /\ op'.kind = "revert")
        BY <3>2 DEF Free
      <4>1. \/ op.at \in {"write", "move", "undo"} /\ file' = file /\ history' = history
            \/ op.at = "event" /\ file' = file /\ history' = history \cup {<<op.p, Outcome>>}
            \/ op.at = "back" /\ file[op.from][op.p] = 0 /\ Rename(Goal, op.from) /\ history' = history
        <5>1. ~Goto("move") /\ ~Goto("event") /\ ~Goto("undo") /\ ~Goto("settle") /\ ~Goto("unwrite") /\ ~Goto("back") /\ ~Goto("redo")
          BY <1>0, <3>2 DEF Goto, Free, OpOK
        <5>2. ~Adrift
          BY <2>4 DEF Adrift
        <5>3. CASE WriteTarget \/ UndoWrite
          BY <5>3 DEF WriteTarget, UndoWrite
        <5>4. CASE MoveProposal
          BY <2>4, <5>1, <5>4 DEF MoveProposal
        <5>5. CASE WriteEvent
          BY <2>4, <5>1, <5>5 DEF WriteEvent
        <5>6. CASE UnwriteTarget
          BY <5>1, <5>2, <5>6 DEF UnwriteTarget
        <5>7. CASE MoveBack
          BY <5>2, <5>7 DEF MoveBack
        <5>8. op.at \notin {"redo", "settle"}
          BY <1>0, <2>4 DEF Shape
        <5>9. QED
          BY <1>1, <5>3, <5>4, <5>5, <5>6, <5>7, <5>8 DEF Operate, RedoWrite, SettleCandidate, EndSettle
      <4>2. CASE op.at \in {"write", "move", "undo"} /\ file' = file /\ history' = history
        <5>1. op.from # "reverted"
          BY <1>0, <2>4 DEF Shape, Active
        <5>2. ~(file["reverted"][p] > 0)
          BY <1>0, <2>0, <2>4, <4>2, <5>1, OnlyThere
        <5>3. QED
          BY <3>0, <4>2, <5>2
      <4>3. CASE op.at = "event" /\ file' = file /\ history' = history \cup {<<op.p, Outcome>>}
        <5>1. file["reverted"][p] > 0
          BY <2>4, <3>0, <4>3 DEF Position
        <5>2. QED
          BY <2>4, <4>0, <4>3, <5>1 DEF Outcome
      <4>4. CASE op.at = "back" /\ file[op.from][op.p] = 0 /\ Rename(Goal, op.from) /\ history' = history
        <5>1. file'["reverted"][p] = 0
          BY <1>1, <2>4, <3>0, <4>4, MoveIs
        <5>2. QED
          BY <3>0, <4>4, <5>1
      <4>5. QED
        BY <4>1, <4>2, <4>3, <4>4
    <3>3. QED
      BY <3>1, <3>2
  <2>5. QED
    BY <2>2, <2>3, <2>4
<1>2. CASE Begun \/ Quiet \/ Edited \/ CrashOperation
  <2>1. file'["reverted"][p] = file["reverted"][p] /\ history' = history /\ p \notin adrift
    BY <1>0, <1>2, QuietKept DEF Begun, Quiet, Edited, Edit, CrashOperation
  <2>2. <<p, "reverted">> \in history <=> file["reverted"][p] > 0 /\ ~(op.p = p /\ op.kind = "revert")
    BY <2>1 DEF HistoryLast
  <2>3. CASE Begun
    <3>1. op.p # p
      BY <1>0, <2>3, MaintenanceAssumption DEF Begun, Unlocked, OpOK
    <3>2. op'.p = p /\ op'.kind = "revert" => ~(file["reverted"][p] > 0)
      BY <1>0, <2>3, OneCopy DEF Begun, Active, Kept
    <3>3. QED
      BY <2>1, <2>2, <3>1, <3>2
  <2>4. CASE Quiet \/ Edited
    <3>1. op'.p = op.p /\ op'.kind = op.kind
      BY <1>0, <2>4 DEF Quiet, Edited, Edit, OpOK
    <3>2. QED
      BY <2>1, <2>2, <3>1
  <2>5. CASE CrashOperation
    <3>0. op' = Free /\ op.at # "free"
      BY <2>5 DEF CrashOperation, Unlocked
    <3>1. op.p = p /\ op.kind = "revert" => op.at \in {"write", "move"} /\ op.from # "reverted"
      BY <1>0, <2>5 DEF CrashOperation, Untouched, Shape, Active
    <3>2. op.p = p /\ op.kind = "revert" => ~(file["reverted"][p] > 0)
      BY <1>0, <3>0, <3>1, OnlyThere
    <3>3. ~(op'.p = p /\ op'.kind = "revert")
      BY <3>0 DEF Free
    <3>4. QED
      BY <2>1, <2>2, <3>2, <3>3
  <2>6. QED
    BY <1>2, <2>3, <2>4, <2>5
<1>3. QED
  BY <1>1, <1>2, Summary

\* What an operation writes.
LEMMA PutIs ==
  ASSUME TypeInv, op.at # "free", Content(op.p), NEW side \in {"after", "before"}, Put(side)
  PROVE  /\ op.p.target \in Targets
         /\ tree'[op.p.target] = Side(op.p, side) /\ wrote'[op.p.target] = <<op.p, side>>
         /\ \A t \in Targets : t # op.p.target => tree'[t] = tree[t] /\ wrote'[t] = wrote[t]
<1>1. op.p \in Proposals /\ op.p.target \in Targets
  BY GoalKept, MaintenanceAssumption DEF Content
<1>2. QED
  BY <1>1 DEF Put, TypeInv, TypeOK

\* Claiming kinds only.
LEMMA Claims ==
  ASSUME TypeInv, op.at # "free"
  PROVE  /\ Claiming <=> op.kind # "finalize"
         /\ op.kind = "finalize" => op.at \in {"move", "settle"}
         /\ Old \in {"after", "before"} /\ New \in {"after", "before"}
<1>1. OpOK /\ Shape
  BY Parts DEF TypeInv
<1>2. QED
  BY <1>1 DEF Claiming, OpOK, Kinds, Shape, Old, New

\* The bytes and the files, at one step of an operation for its own proposal.
LEMMA AuthorOwn ==
  ASSUME TypeInv, CopyOnce, ReviewKept, Position, Authorship, Operate,
         NEW p \in Proposals, op.p = p, Content(p), p \notin adrift', p \notin adrift,
         NEW s \in {"after", "before"}, wrote'[p.target] = <<p, s>>
  PROVE  IF Mid(p)' THEN s = IF op'.at = "back" THEN Old ELSE New
         ELSE s = "after" <=> InEffect(p)'
<1>0. /\ OpOK /\ Shape /\ op.at # "free" /\ p.target \in Targets
      /\ Goal \in Dirs /\ Goal \in Kept /\ op.from \in Dirs /\ "applied" \in Dirs /\ "finalized" \in Dirs
      /\ NoOne # p
  BY OperateOp, GoalKept, Parts, MaintenanceAssumption DEF TypeInv, Dirs, Content
<1>1. wrote[p.target] = <<p, s>> =>
        IF Mid(p) THEN s = IF op.at = "back" THEN Old ELSE New ELSE s = "after" <=> InEffect(p)
  BY <1>0 DEF Authorship
<1>2. op' = Free => ~Mid(p)'
  BY <1>0 DEF Free, Mid
<1>3. ASSUME NEW x \in Steps, Goto(x)
      PROVE  /\ op'.at = x /\ op'.kind = op.kind /\ op'.p = p /\ op'.from = op.from
             /\ Mid(p)' <=> Claiming /\ x \in {"move", "undo", "back"}
  BY <1>0, <1>3 DEF Goto, OpOK, Claiming, Mid
<1>4. ~Adrift
  BY DEF Adrift
<1>5. file' = file => (InEffect(p)' <=> InEffect(p))
  BY DEF InEffect
<1>6. ASSUME NEW side \in {"after", "before"}, Put(side) PROVE s = side
  <2>1. wrote'[p.target] = <<p, side>>
    BY <1>0, <1>6, PutIs
  <2>2. QED
    BY <2>1
<1>7. Claiming <=> op.kind # "finalize"
  BY <1>0, Claims
<1>8. Old \in {"after", "before"} /\ New \in {"after", "before"} /\ (s = "after" <=> s # "before")
  BY DEF Old, New
<1>9. op.at \in {"write", "undo", "unwrite", "redo"} => Claiming
  BY <1>0, <1>7 DEF Shape
\* Whether the proposal is in effect before it moves, and after.
<1>10. op.at \in {"write", "move", "undo"} /\ Claiming => (Old = "after" <=> InEffect(p))
  <2>1. CASE op.kind = "revert"
    BY <1>0, <2>1 DEF Old, InEffect, Position, Shape, Active
  <2>2. CASE op.kind # "revert" /\ Claiming /\ op.at \in {"write", "move", "undo"}
    <3>1. op.from = "pending"
      BY <1>0, <2>2 DEF Claiming, Shape
    <3>2. ~InEffect(p)
      BY <1>0, <2>2, <3>1, OnlyThere DEF InEffect, Kept
    <3>3. QED
      BY <2>2, <3>2 DEF Old
  <2>3. QED
    BY <2>1, <2>2
<1>11. CASE WriteTarget
  <2>1. op.at = "write" /\ file' = file /\ UNCHANGED adrift
    BY <1>11 DEF WriteTarget
  <2>2. CASE Put(New) /\ Goto("move")
    BY <1>3, <1>6, <1>8, <1>9, <2>1, <2>2, Names
  <2>3. CASE End(FALSE) /\ UNCHANGED wrote
    BY <1>1, <1>2, <1>5, <2>1, <2>3 DEF End, Mid
  <2>4. QED
    BY <1>11, <2>2, <2>3 DEF WriteTarget
<1>12. CASE MoveProposal
  <2>1. op.at = "move" /\ wrote' = wrote
    BY <1>12 DEF MoveProposal
  <2>2. CASE Claiming /\ file[Goal][p] = 0 /\ Rename(op.from, Goal)
    <3>1. s = New
      BY <1>1, <2>1, <2>2 DEF Mid
    <3>2. op' = Free \/ Goto("event")
      <4>1. file'[Goal][p] = file[op.from][p] /\ file[op.from][p] > 0
        BY <2>1, <2>2, MoveIs DEF Position
      <4>2. file' # file
        BY <2>2, <4>1
      <4>3. End(TRUE) \/ Goto("event")
        BY <1>7, <1>12, <2>2, <4>2 DEF MoveProposal
      <4>4. QED
        BY <4>3 DEF End
    <3>3. ~Mid(p)'
      BY <1>2, <1>3, <3>2, Names
    <3>4. file'[Goal][p] = file[op.from][p] /\ file'[op.from][p] = 0 /\ file[op.from][p] > 0
      BY <2>1, <2>2, MoveIs DEF Position
    <3>5. CASE op.kind # "revert"
      BY <2>2, <3>1, <3>3, <3>4, <3>5 DEF Goal, New, InEffect, Claiming
    <3>6. CASE op.kind = "revert"
      <4>1. op.from \in {"applied", "finalized"} /\ Goal = "reverted" /\ s = "before"
        BY <1>0, <3>1, <3>6 DEF Goal, New, Shape, Active
      <4>2. \A d \in {"applied", "finalized"} : d # op.from => file'[d][p] = file[d][p] /\ ~(file[d][p] > 0)
        BY <1>0, <2>1, <2>2, <4>1, MoveIs, OnlyThere DEF Kept
      <4>3. ~InEffect(p)'
        BY <3>4, <4>1, <4>2 DEF InEffect
      <4>4. QED
        BY <3>3, <4>1, <4>3
    <3>7. QED
      BY <3>5, <3>6
  <2>3. CASE ~Claiming /\ file[Goal][p] = 0 /\ Rename(op.from, Goal)
    <3>1. op.from = "applied" /\ Goal = "finalized"
      BY <1>0, <1>7, <2>1, <2>3 DEF Shape, Goal
    <3>2. InEffect(p) /\ InEffect(p)'
      BY <2>1, <2>3, <3>1, MoveIs DEF InEffect, Position
    <3>3. ~Mid(p) /\ ~Mid(p)'
      <4>1. op' = Free \/ Goto("settle")
        BY <1>0, <1>7, <1>12, <2>3 DEF MoveProposal, End
      <4>2. QED
        BY <1>2, <1>3, <2>3, <4>1, Names DEF Mid
    <3>4. QED
      BY <1>1, <2>1, <3>2, <3>3
  <2>4. CASE UNCHANGED file /\ IF Content(op.p) /\ op.kind # "finalize" THEN Goto("undo") ELSE End(FALSE)
    <3>1. CASE Claiming
      BY <1>1, <1>3, <1>7, <2>1, <2>4, <3>1, Names DEF Mid
    <3>2. CASE ~Claiming
      BY <1>1, <1>2, <1>5, <1>7, <2>1, <2>4, <3>2 DEF Mid, End
    <3>3. QED
      BY <3>1, <3>2
  <2>5. QED
    BY <1>12, <2>2, <2>3, <2>4 DEF MoveProposal
<1>13. CASE UndoWrite
  <2>1. op.at = "undo" /\ op' = Free /\ file' = file /\ Put(Old)
    BY <1>4, <1>13 DEF UndoWrite, End
  <2>2. QED
    BY <1>2, <1>5, <1>6, <1>8, <1>9, <1>10, <2>1
<1>14. CASE WriteEvent
  <2>1. op.at = "event" /\ file' = file /\ wrote' = wrote /\ (op' = Free \/ Goto("settle") \/ Goto("unwrite"))
    BY <1>14 DEF WriteEvent, End
  <2>2. QED
    BY <1>1, <1>2, <1>3, <1>5, <2>1, Names DEF Mid
<1>15. CASE UnwriteTarget
  <2>1. op.at = "unwrite" /\ Put(Old) /\ Goto("back")
    BY <1>4, <1>15 DEF UnwriteTarget
  <2>2. QED
    BY <1>3, <1>6, <1>8, <1>9, <2>1, Names
<1>16. CASE MoveBack
  <2>1. /\ op.at = "back" /\ file[op.from][p] = 0 /\ Rename(Goal, op.from) /\ op' = Free /\ wrote' = wrote
    BY <1>4, <1>16 DEF MoveBack, End
  <2>2. Claiming
    BY <1>0, <1>7, <2>1 DEF Shape
  <2>3. s = Old
    BY <1>1, <2>1, <2>2 DEF Mid
  <2>4. file'[op.from][p] = file[Goal][p] /\ file'[Goal][p] = 0 /\ file[Goal][p] > 0
    BY <2>1, MoveIs DEF Position
  <2>5. CASE op.kind = "revert"
    BY <1>0, <1>2, <2>1, <2>3, <2>4, <2>5 DEF Old, InEffect, Shape, Active
  <2>6. CASE op.kind # "revert"
    <3>1. op.from = "pending" /\ Goal = "finalized" /\ s = "before"
      BY <1>0, <2>1, <2>2, <2>3, <2>6 DEF Shape, Goal, Claiming, Old
    <3>2. file'["applied"][p] = file["applied"][p] /\ ~(file["applied"][p] > 0)
      BY <1>0, <2>1, <3>1, MoveIs, OnlyThere DEF Kept
    <3>3. QED
      BY <1>2, <2>1, <2>4, <3>1, <3>2 DEF InEffect
  <2>7. QED
    BY <2>5, <2>6
<1>17. CASE RedoWrite
  BY <1>17 DEF RedoWrite, Authorship
<1>18. CASE SettleCandidate \/ EndSettle
  <2>1. op.at = "settle" /\ file' = file /\ wrote' = wrote /\ (op' = Free \/ Goto("settle"))
    BY <1>18 DEF SettleCandidate, EndSettle, End
  <2>2. QED
    BY <1>1, <1>2, <1>3, <1>5, <2>1, Names DEF Mid
<1>19. QED
  BY <1>11, <1>12, <1>13, <1>14, <1>15, <1>16, <1>17, <1>18 DEF Operate

LEMMA AuthorStep ==
  ASSUME TypeInv, CopyOnce, ReviewKept, Position, Authorship, [Next]_vars
  PROVE  Authorship'
<1>0. OpOK /\ Shape /\ FilesOK /\ GhostsOK
  BY Parts DEF TypeInv
<1>1. adrift \subseteq adrift'
  BY Summary DEF Operate, WriteTarget, MoveProposal, UndoWrite, WriteEvent, UnwriteTarget,
     MoveBack, RedoWrite, SettleCandidate, EndSettle, Adrift, Begun, Quiet, Edited, Edit, CrashOperation
<1>2. op'.at = "redo" => op'.p \in adrift'
  <2>1. CASE Operate
    <3>1. op'.at = "redo" => MoveBack /\ op' # Free
      BY <1>0, <2>1, OperateOp, MoveIs DEF Follows, Free
    <3>2. op'.at = "redo" => Adrift
      BY <3>1 DEF MoveBack, End
    <3>3. QED
      BY <2>1, <3>1, <3>2, OperateOp DEF Adrift
  <2>2. CASE Begun
    BY <2>2 DEF Begun, FirstStep
  <2>3. CASE Quiet \/ Edited
    BY <1>0, <1>1, <2>3 DEF Quiet, Edited, Edit, Authorship, OpOK
  <2>4. CASE CrashOperation
    BY <2>4 DEF CrashOperation, Free
  <2>5. QED
    BY <2>1, <2>2, <2>3, <2>4, Summary
<1> SUFFICES ASSUME NEW t \in Targets, NEW p \in Proposals, NEW s \in {"after", "before"}, wrote'[t] = <<p, s>>
             PROVE  /\ Content(p) /\ p.target = t
                    /\ p \notin adrift' =>
                         IF Mid(p)' THEN s = IF op'.at = "back" THEN Old' ELSE New'
                         ELSE s = "after" <=> InEffect(p)'
  BY <1>2 DEF Authorship, Content
<1>3. wrote[t] = <<p, s>> =>
        /\ Content(p) /\ p.target = t
        /\ p \notin adrift =>
             IF Mid(p) THEN s = IF op.at = "back" THEN Old ELSE New ELSE s = "after" <=> InEffect(p)
  BY DEF Authorship
<1>4. CASE Operate
  <2>0. op.at # "free" /\ op.p \in Proposals
    BY <1>4, OperateOp
  <2>1. wrote'[t] = wrote[t] \/ (Content(op.p) /\ op.p.target = t /\ \E side \in {"after", "before"} : wrote'[t] = <<op.p, side>>)
    <3>1. wrote' = wrote \/ (Content(op.p) /\ (Put(Old) \/ Put(New)))
      BY <1>0, <1>4 DEF Shape, Operate, WriteTarget, MoveProposal, UndoWrite, WriteEvent, UnwriteTarget,
         MoveBack, RedoWrite, SettleCandidate, EndSettle
    <3>2. QED
      BY <2>0, <3>1, PutIs DEF Old, New
  <2>2. Content(p) /\ p.target = t
    <3>1. CASE wrote'[t] = wrote[t]
      BY <1>3, <3>1
    <3>2. CASE Content(op.p) /\ op.p.target = t /\ \E side \in {"after", "before"} : wrote'[t] = <<op.p, side>>
      <4>1. op.p = p
        BY <3>2
      <4>2. QED
        BY <3>2, <4>1
    <3>3. QED
      BY <2>1, <3>1, <3>2
  <2>3. CASE op.p = p
    <3>1. Mid(p)' => Old' = Old /\ New' = New
      BY <1>4, OperateOp, MaintenanceAssumption DEF Mid, Free, Old, New
    <3>2. p \notin adrift' => IF Mid(p)' THEN s = IF op'.at = "back" THEN Old ELSE New ELSE s = "after" <=> InEffect(p)'
      BY <1>1, <1>4, <2>2, <2>3, AuthorOwn
    <3>3. QED
      BY <2>2, <3>1, <3>2
  <2>4. CASE op.p # p
    <3>1. wrote'[t] = wrote[t]
      BY <2>1, <2>4
    <3>2. ~Mid(p) /\ ~Mid(p)'
      BY <1>4, <2>4, OperateOp, MaintenanceAssumption DEF Mid, Free
    <3>3. InEffect(p)' <=> InEffect(p)
      <4>1. \A d \in Dirs : file'[d][p] = file[d][p]
        BY <1>4, <2>0, <2>4, OperateFile, MoveIs
      <4>2. QED
        BY <4>1 DEF InEffect, Dirs
    <3>4. QED
      BY <1>1, <1>3, <3>1, <3>2, <3>3
  <2>5. QED
    BY <2>3, <2>4
<1>5. CASE Begun \/ Quiet \/ Edited \/ CrashOperation
  <2>1. wrote[t] = <<p, s>>
    <3>1. CASE Edited
      <4>1. PICK u \in Targets : wrote' = [wrote EXCEPT ![u] = NoOne]
        BY <3>1 DEF Edited, Edit
      <4>2. u # t
        BY <1>0, <4>1, MaintenanceAssumption DEF GhostsOK
      <4>3. QED
        BY <1>0, <4>1, <4>2 DEF GhostsOK
    <3>2. QED
      BY <1>5, <3>1 DEF Begun, Quiet, CrashOperation
  <2>2. InEffect(p)' <=> InEffect(p)
    BY <1>5, QuietKept DEF InEffect, Kept
  <2>3. CASE Begun
    <3>1. ~Mid(p)
      BY <1>0, <2>3, MaintenanceAssumption DEF Begun, Unlocked, Mid, OpOK
    <3>2. ~Mid(p)'
      BY <1>3, <2>1, <2>3 DEF Begun, Mid, Claiming, FirstStep
    <3>3. QED
      BY <1>1, <1>3, <2>1, <2>2, <3>1, <3>2
  <2>4. CASE Quiet \/ Edited
    <3>1. op'.at = op.at /\ op'.kind = op.kind /\ op'.p = op.p
      BY <1>0, <2>4 DEF Quiet, Edited, Edit, OpOK
    <3>2. QED
      BY <1>1, <1>3, <2>1, <2>2, <3>1 DEF Mid, Claiming, Old, New
  <2>5. CASE CrashOperation
    <3>1. ~Mid(p)'
      BY <2>5 DEF CrashOperation, Mid, Claiming, Free
    <3>2. p \notin adrift' => ~Mid(p)
      BY <1>3, <2>1, <2>5 DEF CrashOperation, Untouched, Mid, Claiming
    <3>3. QED
      BY <1>1, <1>3, <2>1, <2>2, <3>1, <3>2
  <2>6. QED
    BY <1>5, <2>3, <2>4, <2>5
<1>6. QED
  BY <1>4, <1>5, Summary

LEMMA BytesStep ==
  ASSUME TypeInv, BytesKnown, [Next]_vars
  PROVE  BytesKnown'
<1>0. OpOK /\ Shape /\ FilesOK
  BY Parts DEF TypeInv
<1>1. CASE Operate
  <2>1. CASE op' = Free
    BY <2>1 DEF BytesKnown, Claiming, Free
  <2>2. CASE /\ <<op.at, op'.at>> \in Follows
             /\ op'.p = op.p /\ op'.kind = op.kind /\ op'.from = op.from /\ op'.raced = op.raced
    <3>0. op.at # "free" /\ Old' = Old /\ New' = New /\ (Claiming' <=> Claiming) /\ op' # Free
      BY <1>1, <2>2, OperateOp, MaintenanceAssumption DEF Old, New, Claiming, Free
    <3>1. CASE WriteTarget
      <4>1. Put(New) /\ op'.at = "move" /\ Content(op.p)
        BY <1>0, <3>0, <3>1 DEF WriteTarget, Shape, Goto, End, OpOK
      <4>2. tree'[op.p.target] = Side(op.p, New)
        BY <3>0, <4>1, PutIs, Claims
      <4>3. QED
        BY <2>2, <3>0, <4>1, <4>2 DEF BytesKnown, Side
    <3>2. CASE UnwriteTarget
      <4>1. CASE Put(Old) /\ op'.at = "back"
        <5>1. Content(op.p)
          BY <1>0, <3>2 DEF UnwriteTarget, Shape
        <5>2. tree'[op.p.target] = Side(op.p, Old)
          BY <3>0, <4>1, <5>1, PutIs, Claims
        <5>3. QED
          BY <2>2, <3>0, <4>1, <5>2 DEF BytesKnown, Side
      <4>2. CASE tree' = tree /\ op'.at = "back"
        BY <2>2, <3>0, <3>2, <4>2 DEF UnwriteTarget, BytesKnown, Side
      <4>3. QED
        BY <1>0, <3>0, <3>2, <4>1, <4>2 DEF UnwriteTarget, Goto, End, OpOK
    <3>3. CASE tree' = tree /\ ~WriteTarget /\ ~UnwriteTarget
      <4>1. op'.at # "back" \/ ~Content(op.p)
        <5>1. op'.at = "back" => WriteEvent
          BY <1>0, <1>1, <3>0, <3>3 DEF Operate, MoveProposal, UndoWrite,
             MoveBack, RedoWrite, SettleCandidate, EndSettle, Goto, End, OpOK
        <5>2. QED
          BY <1>0, <3>0, <5>1 DEF WriteEvent, Goto, End, OpOK
      <4>2. op.at \in {"move", "event", "back", "settle"}
        BY <1>1, <2>2, <3>3, OperateOp DEF Follows, Operate, MoveProposal, UndoWrite, WriteEvent,
           MoveBack, RedoWrite, SettleCandidate, EndSettle
      <4>3. QED
        BY <2>2, <3>0, <3>3, <4>1, <4>2 DEF BytesKnown, Side, Follows
    <3>4. QED
      BY <1>1, <3>0, <3>1, <3>2, <3>3 DEF Operate, MoveProposal, UndoWrite, WriteEvent,
         MoveBack, RedoWrite, SettleCandidate, EndSettle, End
  <2>3. QED
    BY <1>1, <2>1, <2>2, OperateOp
<1>2. CASE Begun
  <2>1. Claiming' /\ Content(op'.p) => op'.at = "write" /\ tree[op'.p.target] = Side(op'.p, Old')
    BY <1>2 DEF Begun, Claiming, FirstStep, Verified, Applicable, InPlace, Snapshot, Side, Old
  <2>2. tree' = tree
    BY <1>2 DEF Begun
  <2>3. QED
    BY <2>1, <2>2 DEF BytesKnown, Side, Content
<1>3. CASE Quiet
  BY <1>3 DEF Quiet, BytesKnown, Claiming, Content, Side, Old, New
<1>4. CASE Edited
  <2>1. PICK t \in Targets, bytes \in Bytes \cup {Absent} : Edit(t, bytes)
    BY <1>4 DEF Edited
  <2>2. CASE op' = [op EXCEPT !.raced = TRUE]
    <3>1. op'.raced
      BY <1>0, <2>2 DEF OpOK
    <3>2. QED
      BY <3>1 DEF BytesKnown
  <2>3. CASE op' = op /\ (Unlocked \/ op.p.target # t)
    <3>1. CASE Unlocked
      BY <1>0, <2>3, <3>1 DEF BytesKnown, Claiming, OpOK, Unlocked
    <3>2. CASE op.p.target # t
      <4>1. tree'[op.p.target] = tree[op.p.target]
        BY <1>0, <2>1, <3>2 DEF Edit, FilesOK
      <4>2. QED
        BY <2>3, <4>1 DEF BytesKnown, Claiming, Content, Side, Old, New
    <3>3. QED
      BY <2>3, <3>1, <3>2
  <2>4. QED
    BY <2>1, <2>2, <2>3 DEF Edit
<1>5. CASE CrashOperation
  BY <1>5 DEF CrashOperation, BytesKnown, Claiming, Free
<1>6. QED
  BY <1>1, <1>2, <1>3, <1>4, <1>5, Summary

LEMMA Ind == Spec => []IndInv
<1>1. IndInv /\ [Next]_vars => IndInv'
  BY TypeStep, CopyStep, ReviewStep, PositionStep, AloneStep, DecidedStep, HistoryStep, AuthorStep,
     BytesStep DEF IndInv
<1>2. QED
  BY <1>1, InitInd, PTL DEF Spec
-----------------------------------------------------------------------------
(* The properties.                                                         *)

\* The sums of the properties are positive when a term is.
LEMMA Sums ==
  ASSUME TypeInv, NEW p \in Proposals
  PROVE  /\ file["applied"][p] + file["finalized"][p] > 0 <=> InEffect(p)
         /\ file["applied"][p] + file["finalized"][p] = 0 <=> ~InEffect(p)
         /\ file["finalized"][p] + file["reverted"][p] > 0 <=> file["finalized"][p] > 0 \/ file["reverted"][p] > 0
<1>1. file["applied"][p] \in Nat /\ file["finalized"][p] \in Nat /\ file["reverted"][p] \in Nat
  BY Counted DEF Dirs
<1>2. QED
  BY <1>1 DEF InEffect

\* An id takes effect, or is taken back, once at most, though submissions may
\* write it again and again: the review is of one copy, and there is one
\* review (valid_review, and submit_review returning the review it finds).
THEOREM OnceOnly == Spec => []OneFate
<1>1. IndInv => OneFate
  BY OneCopy DEF IndInv, OneFate, Kept
<1>2. QED
  BY <1>1, Ind, PTL

\* No two applied changes wait for their finalization on one target: the
\* check before applying holds until the proposal has moved, and again after
\* a failed reversion has put it back (verify_no_competing_apply).
THEOREM OwnersDiffer == Spec => []OneOwner
<1>1. IndInv => OneOwner
  BY DEF IndInv, Alone
<1>2. QED
  BY <1>1, Ind, PTL

\* Candidates leave the list only under a decision that is still made, even
\* when a process dies between the move and the settlement, or while a
\* finalized decision is being taken back (settle_candidates).
THEOREM SettlementsStand == Spec => []SettledIsDecided
<1>1. IndInv => SettledIsDecided
  BY Sums DEF IndInv, DecidedKept, Decided, SettledIsDecided
<1>2. QED
  BY <1>1, Ind, PTL

\* Bytes that maintenance wrote agree with the directory of their proposal
\* when no operation is under way, and none was cut in two or failed to undo
\* itself (apply, automatic_apply, revert and their roll-backs).
THEOREM MemoryAgrees == Spec => []Agreement
<1>1. IndInv => Agreement
  <2> SUFFICES ASSUME IndInv, Unlocked, NEW t \in Targets, NEW p \in Proposals \ adrift
               PROVE  /\ wrote[t] = <<p, "after">> => InEffect(p)
                      /\ wrote[t] = <<p, "before">> => ~InEffect(p)
    BY Sums DEF Agreement, IndInv
  <2>1. ~Mid(p)
    BY DEF Mid, Unlocked
  <2>2. QED
    BY <2>1 DEF IndInv, Authorship
<1>2. QED
  BY <1>1, Ind, PTL

\* History records a reversion when and only when the files do, under the
\* same reservation, and what it records as applied was finalized: the event
\* is written after the move, and the move undone without it.
THEOREM HistoryAgrees == Spec => []HistoryTrue
<1>1. IndInv => HistoryTrue
  <2> SUFFICES ASSUME IndInv, Unlocked, NEW p \in Proposals \ adrift
               PROVE  /\ <<p, "reverted">> \in history <=> file["reverted"][p] > 0
                      /\ <<p, "applied">> \in history => file["finalized"][p] > 0 \/ file["reverted"][p] > 0
    BY Sums DEF HistoryTrue, IndInv
  <2>1. op.p # p
    BY MaintenanceAssumption, Parts DEF IndInv, TypeInv, OpOK, Unlocked
  <2>2. QED
    BY <2>1 DEF IndInv, HistoryLast, DecidedKept, Decided
<1>2. QED
  BY <1>1, Ind, PTL

\* No operation overwrites anything but what it verified or wrote itself,
\* unless a user wrote to the target in between; and none that is automatic
\* writes to a target that forbids it (verify_target before every write, and
\* verify_automatic_policy).
THEOREM UsersAreSafe == Spec => EditsSurvive
<1> DEFINE Safe == Operate => \A t \in Targets : tree'[t] # tree[t] /\ ~op.raced =>
       /\ tree[t] = Side(op.p, IF op.at \in {"write", "redo"} THEN Old ELSE New)
       /\ op.kind = "auto" => tree[t] \notin PausedBytes
<1>1. ASSUME IndInv, [Next]_vars PROVE [Safe]_vars
  <2> SUFFICES ASSUME Operate, NEW t \in Targets, tree'[t] # tree[t], ~op.raced
               PROVE  /\ tree[t] = Side(op.p, IF op.at \in {"write", "redo"} THEN Old ELSE New)
                      /\ op.kind = "auto" => tree[t] \notin PausedBytes
    OBVIOUS
  <2>0. TypeInv /\ Shape /\ BytesKnown /\ op.at # "free" /\ op.p \in Proposals
    BY <1>1, Parts, OperateOp DEF IndInv, TypeInv
  <2>1. op.at \in {"write", "undo", "unwrite", "redo"} /\ Content(op.p) /\ Claiming
    <3>1. op.at \in {"write", "undo", "unwrite", "redo"}
      BY DEF Operate, WriteTarget, MoveProposal, UndoWrite, WriteEvent, UnwriteTarget,
         MoveBack, RedoWrite, SettleCandidate, EndSettle
    <3>2. QED
      BY <2>0, <3>1, Claims DEF Shape
  <2>2. Put(New) \/ Put(Old)
    BY DEF Operate, WriteTarget, MoveProposal, UndoWrite, WriteEvent, UnwriteTarget,
       MoveBack, RedoWrite, SettleCandidate, EndSettle
  <2>3. t = op.p.target
    BY <2>0, <2>1, <2>2, PutIs, Claims
  <2>4. op.at = "redo" => tree'[t] = Side(op.p, New)
    <3>1. op.at = "redo" => Put(New)
      BY DEF Operate, WriteTarget, MoveProposal, UndoWrite, WriteEvent, UnwriteTarget,
         MoveBack, RedoWrite, SettleCandidate, EndSettle
    <3>2. QED
      BY <2>0, <2>1, <2>3, <3>1, PutIs, Claims
  <2>5. tree[t] = Side(op.p, IF op.at \in {"write", "redo"} THEN Old ELSE New)
    BY <2>0, <2>1, <2>3, <2>4 DEF BytesKnown
  <2>6. op.kind = "auto" => op.p.before \notin PausedBytes /\ op.p.after \notin PausedBytes
    BY <2>0, <2>1 DEF Shape, Automatic
  <2>7. QED
    BY <2>5, <2>6 DEF Side
<1>2. QED
  BY <1>1, Ind, PTL DEF Spec, EditsSurvive
-----------------------------------------------------------------------------
(* The refinement of MemoryChange.  While an operation claims its proposal, *)
(* its fate is one of two: the source of the change, or what it becomes.    *)

Src == IF op.kind = "revert" THEN "accepted" ELSE "open"
Dst == IF op.kind = "revert" THEN "reverted" ELSE "accepted"
Held == IF Claiming THEN op.p ELSE NoOne
Fresh == Claiming => ~op.raced
SameFates == \A p \in Proposals : Fate(p)' = Fate(p)

\* Nothing that MemoryChange sees has changed.
LEMMA StutterIs ==
  ASSUME SameFates, tree' = tree, adrift' = adrift, Held' = Held, Fresh' = Fresh
  PROVE  UNCHANGED Change!vars
<1>1. [p \in Proposals |-> Fate(p)]' = [p \in Proposals |-> Fate(p)]
  BY DEF SameFates
<1>2. QED
  BY <1>1 DEF Change!vars, Held, Fresh

\* An operation ends without a change of fate.
LEMMA ReleaseIs ==
  ASSUME TypeInv, op.at # "free", Claiming, op' = Free, SameFates, tree' = tree, adrift' = adrift
  PROVE  Change!Next
<1>1. [p \in Proposals |-> Fate(p)]' = [p \in Proposals |-> Fate(p)]
  BY DEF SameFates
<1>2. op.p # NoOne /\ ~Claiming'
  BY MaintenanceAssumption, GoalKept DEF Free, Claiming
<1>3. Change!Release
  BY <1>1, <1>2 DEF Change!Release
<1>4. QED
  BY <1>3 DEF Change!Next

\* The fates of the others stay.
Others(p) == \A q \in Proposals : q # p => Fate(q)' = Fate(q)
\* The claim is kept, or released.
KeptOrFreed(p) ==
  \/ op' = Free
  \/ op'.p = p /\ op'.kind = op.kind /\ op'.raced = op.raced

LEMMA FatesAre ==
  ASSUME NEW p \in Proposals, Others(p)
  PROVE  [q \in Proposals |-> Fate(q)]' = [[q \in Proposals |-> Fate(q)] EXCEPT ![p] = Fate(p)']
  BY DEF Others

LEMMA KeepIs ==
  ASSUME NEW p \in Proposals, op.p = p, Claiming, KeptOrFreed(p)
  PROVE  Change!KeepOrRelease
<1>1. CASE op' = Free
  BY <1>1 DEF Free, Claiming, Change!KeepOrRelease
<1>2. CASE op'.p = p /\ op'.kind = op.kind /\ op'.raced = op.raced
  BY <1>2 DEF Claiming, Change!KeepOrRelease
<1>3. QED
  BY <1>1, <1>2 DEF KeptOrFreed

\* The bytes and the fate change together.
LEMMA SwapIs ==
  ASSUME TypeInv, NEW p \in Proposals, op.p = p, Claiming, KeptOrFreed(p), Others(p), adrift' = adrift,
         op.at # "free",
         NEW side \in {"after", "before"},
         IF Content(p) THEN Put(side) ELSE tree' = tree,
         \/ Fate(p) \in {"open", "reverted"} /\ Fate(p)' = "accepted" /\ side = "after"
         \/ Fate(p) = "accepted" /\ Fate(p)' \in {"open", "reverted"} /\ side = "before"
  PROVE  Change!Next
<1> DEFINE fates == [q \in Proposals |-> Fate(q)]
<1>1. fates' = [fates EXCEPT ![p] = Fate(p)']
  BY FatesAre
<1>2. p # NoOne /\ fates[p] = Fate(p)
  BY MaintenanceAssumption
<1>3. tree' = IF p.target = NoTarget THEN tree
              ELSE [tree EXCEPT ![p.target] = IF side = "after" THEN p.after ELSE p.before]
  BY DEF Content, Put, Side
<1>4. Change!KeepOrRelease
  BY KeepIs
<1>5. Change!Become(Fate(p)', side)
  BY <1>1, <1>3, <1>4 DEF Change!Become
<1>6. Change!Swap
  BY <1>2, <1>5 DEF Change!Swap
<1>7. QED
  BY <1>6 DEF Change!Next

\* An operation is cut in two.
LEMMA SeverIs ==
  ASSUME TypeInv, NEW p \in Proposals, op.p = p, Claiming, KeptOrFreed(p), Others(p), tree' = tree,
         adrift' = adrift \cup {p}, Fate(p)' \in {"open", "accepted", "reverted"}
  PROVE  Change!Next
<1> DEFINE fates == [q \in Proposals |-> Fate(q)]
<1>1. fates' = [fates EXCEPT ![p] = Fate(p)']
  BY FatesAre
<1>2. p # NoOne
  BY MaintenanceAssumption
<1>3. Change!KeepOrRelease
  BY KeepIs
<1>4. Change!Sever
  BY <1>1, <1>2, <1>3 DEF Change!Sever
<1>5. QED
  BY <1>4 DEF Change!Next

\* The fate on file of a claimed proposal: as before until it moves.
LEMMA FiledFate ==
  ASSUME TypeInv, CopyOnce, ReviewKept, Position, op.at # "free", Claiming, NEW p \in Proposals, op.p = p
  PROVE  /\ op.at \in {"write", "move", "undo"} => FileFate(p) = Src
         /\ op.at \notin {"write", "move", "undo"} => FileFate(p) = Dst
<1>0. OpOK /\ Shape
  BY Parts DEF TypeInv
<1>1. file["applied"][p] \in Nat /\ file["finalized"][p] \in Nat /\ file["reverted"][p] \in Nat
  BY Counted DEF Dirs
<1>2. /\ op.at \in {"write", "move", "undo"} => file[op.from][p] > 0 /\ \A d \in Kept : d # op.from => ~(file[d][p] > 0)
      /\ op.at \notin {"write", "move", "undo"} => file[Goal][p] > 0 /\ \A d \in Kept : d # Goal => ~(file[d][p] > 0)
  BY <1>0, OnlyThere DEF Position, OpOK, Steps
<1>3. CASE op.kind = "revert"
  <2>1. op.from \in {"applied", "finalized"} /\ Goal = "reverted" /\ Src = "accepted" /\ Dst = "reverted"
    BY <1>0, <1>3 DEF Shape, Active, Goal, Src, Dst
  <2>2. op.at \in {"write", "move", "undo"} => ~(file["reverted"][p] > 0) /\ (file["applied"][p] > 0 \/ file["finalized"][p] > 0)
    BY <1>2, <2>1 DEF Kept
  <2>3. op.at \in {"write", "move", "undo"} => FileFate(p) = "accepted"
    BY <1>1, <2>2 DEF FileFate
  <2>4. op.at \notin {"write", "move", "undo"} => FileFate(p) = "reverted"
    BY <1>2, <2>1 DEF FileFate
  <2>5. QED
    BY <2>1, <2>3, <2>4
<1>4. CASE op.kind \in {"apply", "auto"}
  <2>1. op.from = "pending" /\ Goal \in {"applied", "finalized"} /\ Src = "open" /\ Dst = "accepted"
    BY <1>0, <1>4 DEF Shape, Goal, Src, Dst
  <2>2. op.at \in {"write", "move", "undo"} =>
          file["pending"][p] > 0 /\ ~(file["reverted"][p] > 0) /\ ~(file["applied"][p] > 0) /\ ~(file["finalized"][p] > 0)
    BY <1>2, <2>1 DEF Kept
  <2>3. op.at \in {"write", "move", "undo"} => FileFate(p) = "open"
    BY <1>1, <2>2 DEF FileFate
  <2>4. op.at \notin {"write", "move", "undo"} =>
          ~(file["reverted"][p] > 0) /\ (file["applied"][p] > 0 \/ file["finalized"][p] > 0)
    BY <1>2, <2>1 DEF Kept
  <2>5. op.at \notin {"write", "move", "undo"} => FileFate(p) = "accepted"
    BY <1>1, <2>4 DEF FileFate
  <2>6. QED
    BY <2>1, <2>3, <2>5
<1>5. QED
  BY <1>3, <1>4 DEF Claiming

\* The fate of a claimed proposal, of which the bytes know first.
Ahead(p) == op.at = "write" \/ IF Content(p) THEN op.at \in {"back", "redo"} ELSE op.at = "move"

FateKnown ==
  op.at # "free" /\ Claiming => \A p \in Proposals : op.p = p => Fate(p) = IF Ahead(p) THEN Src ELSE Dst

LEMMA OwnFate == IndInv => FateKnown
<1> SUFFICES ASSUME IndInv, op.at # "free", Claiming, NEW p \in Proposals, op.p = p
             PROVE  Fate(p) = IF Ahead(p) THEN Src ELSE Dst
  BY DEF FateKnown
<1>1. Shape
  BY Parts DEF IndInv, TypeInv
<1>2. /\ op.at \in {"write", "move", "undo"} => FileFate(p) = Src
      /\ op.at \notin {"write", "move", "undo"} => FileFate(p) = Dst
  BY FiledFate DEF IndInv
<1>3. CASE Content(p)
  BY <1>2, <1>3 DEF Fate, Ahead, Src, Dst
<1>4. CASE ~Content(p)
  BY <1>1, <1>2, <1>4 DEF Fate, Ahead, Shape
<1>5. QED
  BY <1>3, <1>4

\* The fate that an operation leaves.
LEMMA FreedFate ==
  ASSUME IndInv, Operate, Claiming, op' = Free, NEW p \in Proposals, op.p = p
  PROVE  /\ file' = file => Fate(p)' = IF op.at \in {"write", "move", "undo"} THEN Src ELSE Dst
         /\ op.at = "move" /\ file[Goal][p] = 0 /\ Rename(op.from, Goal) => Fate(p)' = Dst
         /\ op.at = "back" /\ file[op.from][p] = 0 /\ Rename(Goal, op.from) => Fate(p)' = Src
<1>0. /\ OpOK /\ Shape /\ TypeInv /\ CopyOnce /\ ReviewKept /\ Position
      /\ op.at # "free" /\ Goal \in Dirs /\ op.from \in Dirs
  BY OperateOp, GoalKept, Parts DEF IndInv, TypeInv
<1>1. Fate(p)' = FileFate(p)'
  BY DEF Free, Fate, Claiming
<1>2. file' = file => FileFate(p)' = FileFate(p)
  BY DEF FileFate
<1>3. /\ op.at \in {"write", "move", "undo"} => FileFate(p) = Src
      /\ op.at \notin {"write", "move", "undo"} => FileFate(p) = Dst
  BY <1>0, FiledFate
<1>4. \A d \in Kept : d \in Dirs /\ file[d][p] \in Nat
  BY <1>0, Counted DEF Kept, Dirs
<1>5. op.kind = "revert" => op.from \in {"applied", "finalized"} /\ Goal = "reverted" /\ Src = "accepted" /\ Dst = "reverted"
  BY <1>0 DEF Shape, Active, Goal, Src, Dst
<1>6. op.kind # "revert" => op.from = "pending" /\ Goal \in {"applied", "finalized"} /\ Src = "open" /\ Dst = "accepted"
  BY <1>0 DEF Shape, Goal, Src, Dst, Claiming
<1>7. ASSUME op.at = "move", file[Goal][p] = 0, Rename(op.from, Goal) PROVE FileFate(p)' = Dst
  <2>1. file'[Goal][p] > 0 /\ file'[op.from][p] = 0
    BY <1>0, <1>7, MoveIs DEF Position
  <2>2. \A d \in Kept : d \notin {op.from, Goal} => file'[d][p] = 0
    BY <1>0, <1>4, <1>7, MoveIs, OnlyThere
  <2>3. CASE op.kind = "revert"
    BY <1>5, <2>1, <2>3 DEF FileFate
  <2>4. CASE op.kind # "revert"
    <3>1. file'["reverted"][p] = 0
      BY <1>6, <2>2, <2>4 DEF Kept
    <3>2. file'["applied"][p] \in Nat /\ file'["finalized"][p] \in Nat
      <4>1. \A d \in {"applied", "finalized"} : file'[d][p] = file[d][p] \/ file'[d][p] = file[op.from][p]
        BY <1>0, <1>4, <1>6, <1>7, <2>4, MoveIs DEF Kept
      <4>2. file[op.from][p] \in Nat
        BY <1>0, Counted
      <4>3. QED
        BY <1>4, <4>1, <4>2 DEF Kept
    <3>3. file'["applied"][p] > 0 \/ file'["finalized"][p] > 0
      BY <1>6, <2>1, <2>4
    <3>4. QED
      BY <1>6, <2>4, <3>1, <3>2, <3>3 DEF FileFate
  <2>5. QED
    BY <2>3, <2>4
<1>8. ASSUME op.at = "back", file[op.from][p] = 0, Rename(Goal, op.from) PROVE FileFate(p)' = Src
  <2>1. file'[op.from][p] > 0 /\ file'[Goal][p] = 0
    BY <1>0, <1>8, MoveIs DEF Position
  <2>2. \A d \in Kept : d \notin {op.from, Goal} => file'[d][p] = 0
    BY <1>0, <1>4, <1>8, MoveIs, OnlyThere
  <2>3. CASE op.kind = "revert"
    <3>1. file'["reverted"][p] = 0
      BY <1>5, <2>1, <2>3
    <3>2. file'["applied"][p] \in Nat /\ file'["finalized"][p] \in Nat
      <4>1. \A d \in {"applied", "finalized"} : file'[d][p] = file[d][p] \/ file'[d][p] = file[Goal][p]
        BY <1>0, <1>4, <1>5, <1>8, <2>3, MoveIs DEF Kept
      <4>2. file[Goal][p] \in Nat
        BY <1>0, Counted
      <4>3. QED
        BY <1>4, <4>1, <4>2 DEF Kept
    <3>3. file'["applied"][p] > 0 \/ file'["finalized"][p] > 0
      BY <1>5, <2>1, <2>3
    <3>4. QED
      BY <1>5, <2>3, <3>1, <3>2, <3>3 DEF FileFate
  <2>4. CASE op.kind # "revert"
    <3>1. file'["applied"][p] = 0 /\ file'["finalized"][p] = 0 /\ file'["reverted"][p] = 0
      BY <1>6, <2>1, <2>2, <2>4 DEF Kept
    <3>2. QED
      BY <1>6, <2>1, <2>4, <3>1 DEF FileFate
  <2>5. QED
    BY <2>3, <2>4
<1>9. QED
  BY <1>1, <1>2, <1>3, <1>7, <1>8

\* The other proposals keep their fates.
LEMMA OthersKeep ==
  ASSUME TypeInv, NEW p \in Proposals, op.p = p, op.at # "free", op'.p \in {p, NoOne},
         \A d \in Dirs, q \in Proposals : q # p => file'[d][q] = file[d][q]
  PROVE  Others(p)
<1> SUFFICES ASSUME NEW q \in Proposals, q # p PROVE Fate(q)' = Fate(q)
  BY DEF Others
<1>1. q # NoOne
  BY MaintenanceAssumption
<1>2. Fate(q) = FileFate(q) /\ Fate(q)' = FileFate(q)'
  BY <1>1 DEF Fate
<1>3. FileFate(q)' = FileFate(q)
  <2>1. \A d \in {"reverted", "applied", "finalized", "pending", "rejected"} : file'[d][q] = file[d][q]
    BY DEF Dirs
  <2>2. QED
    BY <2>1 DEF FileFate
<1>4. QED
  BY <1>2, <1>3

\* A finalization is nothing new to MemoryChange.
LEMMA FinalizeSim ==
  ASSUME IndInv, Operate, ~Claiming
  PROVE  UNCHANGED Change!vars
<1>0. /\ OpOK /\ Shape /\ TypeInv /\ CopyOnce /\ ReviewKept /\ Position
      /\ op.at # "free" /\ op.p \in Proposals /\ Goal \in Dirs /\ op.from \in Dirs
      /\ op.kind = "finalize" /\ op.at \in {"move", "settle"}
  BY OperateOp, GoalKept, Parts, Claims DEF IndInv, TypeInv
<1> DEFINE p == op.p
<1>1. tree' = tree /\ adrift' = adrift
  BY <1>0 DEF Operate, WriteTarget, MoveProposal, UndoWrite, WriteEvent, UnwriteTarget,
     MoveBack, RedoWrite, SettleCandidate, EndSettle
<1>2. ~Claiming' /\ op'.p \in {op.p, NoOne}
  BY <1>0, OperateOp DEF Claiming, Free
<1>3. \A q \in Proposals : q # op.p => Fate(q)' = Fate(q)
  <2>1. \A d \in Dirs, q \in Proposals : q # op.p => file'[d][q] = file[d][q]
    BY <1>0, OperateFile, MoveIs
  <2>2. PICK x \in Proposals : x = op.p
    BY <1>0
  <2>3. Others(x)
    BY <1>0, <1>2, <2>1, <2>2, OthersKeep
  <2>4. QED
    BY <2>2, <2>3 DEF Others
<1>4. ASSUME NEW q \in Proposals, q = op.p PROVE Fate(q)' = Fate(q)
  <2>1. Fate(q) = FileFate(q) /\ Fate(q)' = FileFate(q)'
    BY <1>2 DEF Fate
  <2>2. CASE file' = file
    BY <2>1, <2>2 DEF FileFate
  <2>3. CASE op.at = "move" /\ file[Goal][op.p] = 0 /\ Rename(op.from, Goal)
    <3>1. op.from = "applied" /\ Goal = "finalized"
      BY <1>0, <2>3 DEF Shape, Goal
    <3>2. file'["finalized"][q] > 0 /\ file'["applied"][q] = 0 /\ file["applied"][q] > 0
      BY <1>0, <1>4, <2>3, <3>1, MoveIs DEF Position
    <3>3. file'["reverted"][q] = file["reverted"][q] /\ ~(file["reverted"][q] > 0)
      BY <1>0, <1>4, <2>3, <3>1, MoveIs, OnlyThere DEF Kept, Dirs
    <3>4. file["applied"][q] \in Nat /\ file["finalized"][q] \in Nat /\ file'["finalized"][q] \in Nat
      BY <1>0, <1>4, <2>3, <3>1, Counted, MoveIs DEF Dirs
    <3>5. FileFate(q) = "accepted" /\ FileFate(q)' = "accepted"
      BY <3>2, <3>3, <3>4 DEF FileFate
    <3>6. QED
      BY <2>1, <3>5
  <2>4. QED
    BY <1>0, <2>2, <2>3, OperateFile
<1>5. SameFates
  BY <1>3, <1>4 DEF SameFates
<1>6. Held' = Held /\ Fresh' = Fresh
  BY <1>2 DEF Held, Fresh
<1>7. QED
  BY <1>1, <1>5, <1>6, StutterIs

\* The steps of an operation that claims its proposal.
LEMMA OperateSim ==
  ASSUME IndInv, IndInv', Operate, Claiming
  PROVE  Change!Next \/ UNCHANGED Change!vars
<1>0. /\ OpOK /\ Shape /\ TypeInv /\ CopyOnce /\ ReviewKept /\ Position
      /\ op.at # "free" /\ op.p \in Proposals /\ Goal \in Dirs /\ op.from \in Dirs
  BY OperateOp, GoalKept, Parts DEF IndInv, TypeInv
<1>1. PICK p \in Proposals : p = op.p
  BY <1>0
<1>2. /\ p # NoOne
      /\ op' = Free \/ (op'.p = p /\ op'.kind = op.kind /\ op'.from = op.from /\ op'.raced = op.raced)
  <2>1. p # NoOne
    BY MaintenanceAssumption
  <2>2. op' = Free \/ (op'.p = op.p /\ op'.kind = op.kind /\ op'.from = op.from /\ op'.raced = op.raced)
    BY <1>0, OperateOp
  <2>3. QED
    BY <1>1, <2>1, <2>2
<1>3. KeptOrFreed(p)
  BY <1>2 DEF KeptOrFreed
<1>4. Others(p)
  <2>1. \A d \in Dirs, q \in Proposals : q # p => file'[d][q] = file[d][q]
    BY <1>0, <1>1, OperateFile, MoveIs
  <2>2. op'.p \in {p, NoOne}
    BY <1>2 DEF Free
  <2>3. QED
    BY <1>0, <1>1, <2>1, <2>2, OthersKeep
<1>5. Fate(p) = IF Ahead(p) THEN Src ELSE Dst
  BY <1>0, <1>1, OwnFate DEF FateKnown
<1>6. ASSUME NEW x \in Steps \ {"free"}, Goto(x)
      PROVE  /\ Fate(p)' = IF x = "write" \/ (IF Content(p) THEN x \in {"back", "redo"} ELSE x = "move") THEN Src ELSE Dst
             /\ Held' = Held /\ Fresh' = Fresh
  <2>1. op'.at = x /\ op'.kind = op.kind /\ op'.p = p /\ op'.raced = op.raced /\ op'.at # "free"
    BY <1>0, <1>1, <1>6 DEF Goto, OpOK
  <2>2. Claiming' /\ Src' = Src /\ Dst' = Dst
    BY <2>1 DEF Claiming, Src, Dst
  <2>3. \A q \in Proposals : (op'.p = q => Fate(q)' = IF Ahead(q)' THEN Src' ELSE Dst')
    <3>1. FateKnown'
      BY OwnFate, PTL
    <3>2. QED
      BY <2>1, <2>2, <3>1 DEF FateKnown
  <2>4. QED
    BY <1>1, <2>1, <2>2, <2>3 DEF Ahead, Held, Fresh
<1>7. op' = Free =>
         /\ file' = file => Fate(p)' = IF op.at \in {"write", "move", "undo"} THEN Src ELSE Dst
         /\ op.at = "move" /\ file[Goal][p] = 0 /\ Rename(op.from, Goal) => Fate(p)' = Dst
         /\ op.at = "back" /\ file[op.from][p] = 0 /\ Rename(Goal, op.from) => Fate(p)' = Src
  BY <1>1, FreedFate
<1>8. \/ Src = "open" /\ Dst = "accepted" /\ Old = "before" /\ New = "after" /\ op.kind # "revert"
      \/ Src = "accepted" /\ Dst = "reverted" /\ Old = "after" /\ New = "before" /\ op.kind = "revert"
  BY DEF Src, Dst, Old, New
\* What a step amounts to, by the fates before and after.
<1>9. ASSUME Fate(p) = Src, Fate(p)' = Dst, adrift' = adrift, IF Content(p) THEN Put(New) ELSE tree' = tree
      PROVE  Change!Next
  BY <1>0, <1>1, <1>3, <1>4, <1>8, <1>9, SwapIs
<1>10. ASSUME Fate(p) = Dst, Fate(p)' = Src, adrift' = adrift, IF Content(p) THEN Put(Old) ELSE tree' = tree
       PROVE  Change!Next
  BY <1>0, <1>1, <1>3, <1>4, <1>8, <1>10, SwapIs
<1>11. ASSUME Fate(p)' \in {Src, Dst}, tree' = tree, adrift' = adrift \cup {p}
       PROVE  Change!Next
  BY <1>0, <1>1, <1>3, <1>4, <1>8, <1>11, SeverIs
<1>12. ASSUME Fate(p)' = Fate(p), tree' = tree, adrift' = adrift, op' = Free
       PROVE  Change!Next
  <2>1. SameFates
    BY <1>4, <1>12 DEF SameFates, Others
  <2>2. QED
    BY <1>0, <1>12, <2>1, ReleaseIs
<1>13. ASSUME Fate(p)' = Fate(p), tree' = tree, adrift' = adrift, Held' = Held, Fresh' = Fresh
       PROVE  UNCHANGED Change!vars
  <2>1. SameFates
    BY <1>4, <1>13 DEF SameFates, Others
  <2>2. QED
    BY <1>13, <2>1, StutterIs
<1>14. op.at \in {"write", "undo", "unwrite", "redo"} => Content(p)
  BY <1>0, <1>1 DEF Shape
<1>15. op.kind # "finalize"
  BY DEF Claiming
<1>16. CASE WriteTarget
  <2>1. op.at = "write" /\ file' = file /\ adrift' = adrift /\ Fate(p) = Src /\ Content(p)
    BY <1>5, <1>14, <1>16 DEF WriteTarget, Ahead
  <2>2. CASE Put(New) /\ Goto("move")
    BY <1>6, <1>9, <2>1, <2>2, Names
  <2>3. CASE End(FALSE) /\ tree' = tree
    BY <1>7, <1>12, <2>1, <2>3 DEF End
  <2>4. QED
    BY <1>16, <2>2, <2>3 DEF WriteTarget
<1>17. CASE MoveProposal
  <2>0. op.at = "move" /\ tree' = tree /\ adrift' = adrift /\ Fate(p) = IF Content(p) THEN Dst ELSE Src
    BY <1>5, <1>17 DEF MoveProposal, Ahead
  <2>1. CASE file[Goal][p] = 0 /\ Rename(op.from, Goal) /\ op' = Free
    <3>1. Fate(p)' = Dst
      BY <1>7, <2>0, <2>1
    <3>2. QED
      BY <1>9, <1>12, <2>0, <2>1, <3>1
  <2>2. CASE Goto("event")
    <3>1. Fate(p)' = Dst /\ Held' = Held /\ Fresh' = Fresh
      BY <1>6, <2>2, Names
    <3>2. QED
      BY <1>9, <1>13, <2>0, <3>1
  <2>3. CASE Content(p) /\ Goto("undo")
    <3>1. Fate(p)' = Dst /\ Held' = Held /\ Fresh' = Fresh
      BY <1>6, <2>3, Names
    <3>2. QED
      BY <1>13, <2>0, <2>3, <3>1
  <2>4. CASE ~Content(p) /\ file' = file /\ op' = Free
    BY <1>7, <1>12, <2>0, <2>4
  <2>5. QED
    BY <1>1, <1>15, <1>17, <2>1, <2>2, <2>3, <2>4 DEF MoveProposal, End
<1>18. CASE UndoWrite
  <2>1. op.at = "undo" /\ file' = file /\ op' = Free /\ Fate(p) = Dst /\ Content(p)
    BY <1>5, <1>14, <1>18 DEF UndoWrite, Ahead, End
  <2>2. Fate(p)' = Src
    BY <1>7, <2>1
  <2>3. CASE Put(Old) /\ adrift' = adrift
    BY <1>10, <2>1, <2>2, <2>3
  <2>4. CASE Adrift /\ tree' = tree
    BY <1>1, <1>11, <2>2, <2>4 DEF Adrift
  <2>5. QED
    BY <1>18, <2>3, <2>4 DEF UndoWrite
<1>19. CASE WriteEvent
  <2>1. /\ op.at = "event" /\ file' = file /\ tree' = tree /\ adrift' = adrift /\ Fate(p) = Dst
    BY <1>5, <1>19 DEF WriteEvent, Ahead
  <2>2. CASE Goto("settle") \/ Goto("unwrite") \/ (Goto("back") /\ ~Content(p))
    <3>1. Fate(p)' = Dst /\ Held' = Held /\ Fresh' = Fresh
      BY <1>6, <2>2, Names
    <3>2. QED
      BY <1>13, <2>1, <3>1
  <2>3. CASE op' = Free
    BY <1>7, <1>12, <2>1, <2>3
  <2>4. QED
    BY <1>1, <1>19, <2>2, <2>3 DEF WriteEvent, End
<1>20. CASE UnwriteTarget
  <2>1. op.at = "unwrite" /\ file' = file /\ Fate(p) = Dst /\ Content(p)
    BY <1>5, <1>14, <1>20 DEF UnwriteTarget, Ahead
  <2>2. CASE Put(Old) /\ Goto("back") /\ adrift' = adrift
    <3>1. Fate(p)' = Src
      BY <1>6, <2>1, <2>2, Names
    <3>2. QED
      BY <1>10, <2>1, <2>2, <3>1
  <2>3. CASE Adrift /\ tree' = tree /\ (Goto("back") \/ op' = Free)
    <3>1. Fate(p)' \in {Src, Dst}
      BY <1>6, <1>7, <2>1, <2>3, Names
    <3>2. QED
      BY <1>1, <1>11, <2>3, <3>1 DEF Adrift
  <2>4. QED
    BY <1>20, <2>2, <2>3 DEF UnwriteTarget, End
<1>21. CASE MoveBack
  <2>0. op.at = "back" /\ tree' = tree /\ Fate(p) = IF Content(p) THEN Src ELSE Dst
    BY <1>5, <1>21 DEF MoveBack, Ahead
  <2>1. CASE file[op.from][p] = 0 /\ Rename(Goal, op.from) /\ op' = Free /\ adrift' = adrift
    <3>1. Fate(p)' = Src
      BY <1>7, <2>0, <2>1
    <3>2. QED
      BY <1>10, <1>12, <2>0, <2>1, <3>1
  <2>2. CASE Adrift /\ file' = file /\ (Goto("redo") \/ op' = Free)
    <3>1. Fate(p)' \in {Src, Dst}
      BY <1>6, <1>7, <2>2, Names
    <3>2. QED
      BY <1>1, <1>11, <2>0, <2>2, <3>1 DEF Adrift
  <2>3. QED
    BY <1>1, <1>21, <2>1, <2>2 DEF MoveBack, End
<1>22. CASE RedoWrite
  <2>1. op.at = "redo" /\ file' = file /\ op' = Free /\ adrift' = adrift /\ Fate(p) = Src /\ Content(p) /\ p \in adrift
    BY <1>1, <1>5, <1>14, <1>22 DEF RedoWrite, Ahead, End, IndInv, Authorship
  <2>2. Fate(p)' = Dst
    BY <1>7, <2>1
  <2>3. CASE Put(New)
    BY <1>9, <2>1, <2>2, <2>3
  <2>4. CASE tree' = tree
    <3>1. adrift' = adrift \cup {p}
      BY <2>1
    <3>2. QED
      BY <1>11, <2>2, <2>4, <3>1
  <2>5. QED
    BY <1>22, <2>3, <2>4 DEF RedoWrite
<1>23. CASE SettleCandidate \/ EndSettle
  <2>1. op.at = "settle" /\ file' = file /\ tree' = tree /\ adrift' = adrift /\ Fate(p) = Dst
    BY <1>5, <1>23 DEF SettleCandidate, EndSettle, Ahead
  <2>2. CASE Goto("settle")
    <3>1. Fate(p)' = Dst /\ Held' = Held /\ Fresh' = Fresh
      BY <1>6, <2>2, Names
    <3>2. QED
      BY <1>13, <2>1, <3>1
  <2>3. CASE op' = Free
    BY <1>7, <1>12, <2>1, <2>3
  <2>4. QED
    BY <1>23, <2>2, <2>3 DEF SettleCandidate, EndSettle, End
<1>24. QED
  BY <1>16, <1>17, <1>18, <1>19, <1>20, <1>21, <1>22, <1>23 DEF Operate

\* A beginning is a claim, of bytes that are as they should be.
LEMMA BegunSim ==
  ASSUME IndInv, Begun
  PROVE  Change!Next \/ UNCHANGED Change!vars
<1>0. TypeInv /\ OpOK /\ CopyOnce /\ ReviewKept /\ op.p = NoOne /\ ~Claiming
  BY Parts DEF IndInv, TypeInv, OpOK, Begun, Unlocked, Claiming
<1>1. tree' = tree /\ file' = file /\ adrift' = adrift
  BY DEF Begun
<1>2. PICK p \in Proposals : p = op'.p
  BY DEF Begun
<1>3. \A q \in Proposals : FileFate(q)' = FileFate(q) /\ Fate(q) = FileFate(q)
  BY <1>0, <1>1 DEF FileFate, Fate
<1>4. \A q \in Proposals : Fate(q)' = FileFate(q)'
  BY DEF Begun, Fate, Claiming, FirstStep
<1>5. SameFates
  BY <1>3, <1>4 DEF SameFates
<1>6. CASE ~Claiming'
  BY <1>0, <1>1, <1>5, <1>6, StutterIs DEF Held, Fresh
<1>7. CASE Claiming'
  <2>1. p.target # NoTarget => tree[p.target] = IF op'.kind = "revert" THEN p.after ELSE p.before
    BY <1>2, <1>7 DEF Begun, Claiming, Verified, Applicable, InPlace, Snapshot, Content
  <2>2. \A d \in Kept : file[d][p] \in Nat
    BY <1>0, Counted DEF Kept, Dirs
  <2>3. FileFate(p) = IF op'.kind = "revert" THEN "accepted" ELSE "open"
    <3>1. CASE op'.kind = "revert"
      <4>1. ~(file["reverted"][p] > 0) /\ (file["applied"][p] > 0 \/ file["finalized"][p] > 0)
        BY <1>0, <1>2, <3>1, OneCopy DEF Begun, Kept, Active
      <4>2. QED
        BY <2>2, <3>1, <4>1 DEF FileFate, Kept
    <3>2. CASE op'.kind # "revert"
      <4>1. file["pending"][p] > 0 /\ \A d \in Kept : ~(file[d][p] > 0)
        BY <1>0, <1>2, <1>7, <3>2, OneCopy DEF Begun, Claiming, Verified
      <4>2. QED
        BY <2>2, <3>2, <4>1 DEF FileFate, Kept
    <3>3. QED
      BY <3>1, <3>2
  <2>4. [q \in Proposals |-> Fate(q)]' = [q \in Proposals |-> Fate(q)]
    BY <1>5 DEF SameFates
  <2>5. Fate(p) = FileFate(p) /\ ~op'.raced
    BY <1>3 DEF Begun
  <2>6. Change!Claim(p)
    BY <1>0, <1>1, <1>2, <1>7, <2>1, <2>3, <2>4, <2>5 DEF Change!Claim, Change!Matches
  <2>7. QED
    BY <2>6 DEF Change!Next
<1>8. QED
  BY <1>6, <1>7

\* Submissions open a proposal, rejections close it, and neither can claim it.
LEMMA QuietSim ==
  ASSUME IndInv, Quiet
  PROVE  Change!Next \/ UNCHANGED Change!vars
<1>0. TypeInv /\ OpOK /\ file \in [Dirs -> [Proposals -> 0..MaxCopies]]
  BY Parts DEF IndInv, TypeInv, FilesOK
<1>1. op' = op /\ tree' = tree /\ adrift' = adrift /\ Held' = Held /\ Fresh' = Fresh
  BY DEF Quiet, Held, Fresh, Claiming
<1>2. ASSUME \A q \in Proposals : FileFate(q)' = FileFate(q) PROVE UNCHANGED Change!vars
  <2>1. SameFates
    BY <1>1, <1>2 DEF SameFates, Fate, Claiming
  <2>2. QED
    BY <1>1, <2>1, StutterIs
<1>3. CASE file' = file
  <2>1. \A q \in Proposals : FileFate(q)' = FileFate(q)
    BY <1>3 DEF FileFate
  <2>2. QED
    BY <1>2, <2>1
<1>4. ASSUME Unlocked, NEW p \in Proposals, \A q \in Proposals : q # p => FileFate(q)' = FileFate(q),
             \/ FileFate(p) = "new" /\ FileFate(p)' = "open"
             \/ FileFate(p) = "open" /\ FileFate(p)' = "rejected"
      PROVE  Change!Next
  <2>1. op.p = NoOne /\ ~Claiming /\ ~Claiming'
    BY <1>0, <1>1, <1>4 DEF OpOK, Unlocked, Claiming
  <2>2. \A q \in Proposals : Fate(q) = FileFate(q) /\ Fate(q)' = FileFate(q)'
    BY <2>1 DEF Fate
  <2>3. Others(p)
    BY <1>4, <2>2 DEF Others
  <2>4. [q \in Proposals |-> Fate(q)]' = [[q \in Proposals |-> Fate(q)] EXCEPT ![p] = Fate(p)']
    BY <2>3, FatesAre
  <2>5. CASE FileFate(p) = "new" /\ FileFate(p)' = "open"
    <3>1. Fate(p) = "new" /\ Fate(p)' = "open"
      BY <2>2, <2>5
    <3>2. Change!Open(p)
      BY <1>1, <2>1, <2>4, <3>1 DEF Change!Open
    <3>3. QED
      BY <3>2 DEF Change!Next
  <2>6. CASE FileFate(p) = "open" /\ FileFate(p)' = "rejected"
    <3>1. Fate(p) = "open" /\ Fate(p)' = "rejected"
      BY <2>2, <2>6
    <3>2. Change!Reject(p)
      BY <1>1, <2>1, <2>4, <3>1 DEF Change!Reject
    <3>3. QED
      BY <3>2 DEF Change!Next
  <2>7. QED
    BY <1>4, <2>5, <2>6
<1>5. ASSUME Unlocked, NEW p \in Proposals, Submittable(p), WriteProposal(p) PROVE Change!Next \/ UNCHANGED Change!vars
  <2>1. CASE file["pending"][p] > 0
    BY <1>3, <1>5, <2>1 DEF WriteProposal
  <2>2. CASE ~(file["pending"][p] > 0)
    <3>0. file["pending"][p] = 0 /\ copies[p] + 1 > 0
      BY <1>0, <2>2, Counted DEF Dirs
    <3>1. file["rejected"][p] = 0 /\ file["reverted"][p] = 0 /\ file' = [file EXCEPT !["pending"][p] = copies[p] + 1]
      BY <1>5, <2>2, <3>0 DEF Submittable, WriteProposal
    <3>2. /\ file'["pending"][p] > 0
          /\ \A d \in Dirs, q \in Proposals : q # p \/ d # "pending" => file'[d][q] = file[d][q]
      BY <1>0, <3>0, <3>1, Names
    <3>3. \A q \in Proposals : q # p => FileFate(q)' = FileFate(q)
      BY <3>2 DEF FileFate, Dirs
    <3>4. CASE file["applied"][p] + file["finalized"][p] > 0
      <4>1. FileFate(p)' = FileFate(p)
        BY <3>2, <3>4 DEF FileFate, Dirs
      <4>2. QED
        BY <1>2, <3>3, <4>1
    <3>5. CASE ~(file["applied"][p] + file["finalized"][p] > 0)
      <4>1. FileFate(p) = "new" /\ FileFate(p)' = "open"
        <5>1. FileFate(p) = "new"
          BY <2>2, <3>1, <3>5 DEF FileFate
        <5>2. /\ file'["reverted"][p] = 0 /\ file'["applied"][p] = file["applied"][p]
              /\ file'["finalized"][p] = file["finalized"][p]
          BY <3>1, <3>2 DEF Dirs
        <5>3. ~(file'["applied"][p] + file'["finalized"][p] > 0) /\ ~(file'["reverted"][p] > 0)
          BY <3>5, <5>2
        <5>4. FileFate(p)' = "open"
          BY <3>2, <5>3 DEF FileFate
        <5>5. QED
          BY <5>1, <5>4
      <4>2. QED
        BY <1>4, <1>5, <3>3, <4>1
    <3>6. QED
      BY <3>4, <3>5
  <2>3. QED
    BY <2>1, <2>2
<1>6. ASSUME Unlocked, NEW p \in Proposals, file["pending"][p] > 0, MoveToRejected(p)
      PROVE  Change!Next \/ UNCHANGED Change!vars
  <2>1. /\ file'["pending"][p] = 0 /\ file'["rejected"][p] > 0
        /\ \A d \in Dirs, q \in Proposals : q # p \/ d \notin {"pending", "rejected"} => file'[d][q] = file[d][q]
    <3>1. file["rejected"][p] \in Nat
      BY <1>0, Counted DEF Dirs
    <3>2. QED
      BY <1>0, <1>6, <3>1, Names DEF MoveToRejected
  <2>2. \A q \in Proposals : q # p => FileFate(q)' = FileFate(q)
    BY <2>1 DEF FileFate, Dirs
  <2>3. CASE file["reverted"][p] > 0 \/ file["applied"][p] + file["finalized"][p] > 0
    <3>1. FileFate(p)' = FileFate(p)
      BY <2>1, <2>3 DEF FileFate, Dirs
    <3>2. QED
      BY <1>2, <2>2, <3>1
  <2>4. CASE ~(file["reverted"][p] > 0 \/ file["applied"][p] + file["finalized"][p] > 0)
    <3>1. FileFate(p) = "open" /\ FileFate(p)' = "rejected"
      BY <1>6, <2>1, <2>4 DEF FileFate, Dirs
    <3>2. QED
      BY <1>4, <1>6, <2>2, <3>1
  <2>5. QED
    BY <2>3, <2>4
<1>7. QED
  BY <1>3, <1>5, <1>6 DEF Quiet

\* A user's edit is seen as one.
LEMMA EditSim ==
  ASSUME IndInv, Edited
  PROVE  Change!Next
<1>0. OpOK
  BY Parts DEF IndInv, TypeInv
<1>1. PICK t \in Targets, bytes \in Bytes \cup {Absent} : Edit(t, bytes)
  BY DEF Edited
<1>2. /\ file' = file /\ adrift' = adrift /\ tree' = [tree EXCEPT ![t] = bytes]
      /\ op'.at = op.at /\ op'.kind = op.kind /\ op'.p = op.p
      /\ op'.raced = (op.raced \/ (~Unlocked /\ op.p.target = t))
  <2>1. CASE ~Unlocked /\ op.p.target = t
    BY <1>0, <1>1, <2>1 DEF Edit, OpOK
  <2>2. CASE ~(~Unlocked /\ op.p.target = t)
    BY <1>0, <1>1, <2>2 DEF Edit, OpOK
  <2>3. QED
    BY <2>1, <2>2
<1>3. [p \in Proposals |-> Fate(p)]' = [p \in Proposals |-> Fate(p)]
  BY <1>2 DEF Fate, FileFate, Claiming
<1>4. Claiming => ~Unlocked /\ op.p # NoOne
  BY <1>0 DEF Claiming, OpOK, Unlocked
<1>5. Held' = Held /\ (Claiming' <=> Claiming)
  BY <1>2 DEF Held, Claiming
<1>6. Fresh' = (Fresh /\ (Held # NoOne => Held.target # t))
  <2>1. CASE Claiming
    BY <1>2, <1>4, <1>5, <2>1 DEF Fresh, Held
  <2>2. CASE ~Claiming
    BY <1>5, <2>2 DEF Fresh, Held
  <2>3. QED
    BY <2>1, <2>2
<1>7. Change!Edit(t, bytes)
  BY <1>2, <1>3, <1>5, <1>6 DEF Change!Edit, Held, Fresh
<1>8. QED
  BY <1>7 DEF Change!Next

\* A death releases a claim that has written nothing, and severs another.
LEMMA CrashSim ==
  ASSUME IndInv, CrashOperation
  PROVE  Change!Next \/ UNCHANGED Change!vars
<1>0. /\ OpOK /\ Shape /\ TypeInv /\ CopyOnce /\ ReviewKept /\ Position
      /\ op.at # "free" /\ op.p \in Proposals
  BY Parts, GoalKept DEF IndInv, TypeInv, CrashOperation, Unlocked
<1>1. op' = Free /\ file' = file /\ tree' = tree
  BY DEF CrashOperation
<1>2. PICK p \in Proposals : p = op.p
  BY <1>0
<1>3. \A q \in Proposals : Fate(q)' = FileFate(q)
  BY <1>1 DEF Fate, FileFate, Claiming, Free
<1>4. Others(p)
  BY <1>2, <1>3 DEF Others, Fate
<1>5. CASE ~Claiming
  <2>1. adrift' = adrift
    BY <1>0, <1>5, Claims DEF CrashOperation, Untouched
  <2>2. SameFates /\ Held' = Held /\ Fresh' = Fresh
    BY <1>1, <1>3, <1>5 DEF SameFates, Held, Fresh, Fate, Claiming, Free
  <2>3. QED
    BY <1>1, <2>1, <2>2, StutterIs
<1>6. CASE Claiming
  <2>1. FileFate(p) \in {Src, Dst}
    BY <1>0, <1>2, <1>6, FiledFate
  <2>2. CASE Untouched
    <3>1. adrift' = adrift
      BY <2>2 DEF CrashOperation
    <3>2. Fate(p) = FileFate(p)
      BY <1>2, <2>2, <1>6 DEF Untouched, Fate, Claiming
    <3>3. SameFates
      BY <1>2, <1>3, <1>4, <3>2 DEF SameFates, Others
    <3>4. QED
      BY <1>0, <1>1, <1>6, <3>1, <3>3, ReleaseIs
  <2>3. CASE ~Untouched
    <3>1. adrift' = adrift \cup {p}
      BY <1>2, <2>3 DEF CrashOperation
    <3>2. Fate(p)' \in {"open", "accepted", "reverted"}
      BY <1>3, <2>1 DEF Src, Dst
    <3>3. QED
      BY <1>0, <1>1, <1>2, <1>4, <1>6, <3>1, <3>2, SeverIs DEF KeptOrFreed
  <2>4. QED
    BY <2>2, <2>3
<1>7. QED
  BY <1>5, <1>6

\* The files, written one at a time by processes that fail and die beside
\* users who edit, implement changes that take bytes and fate from one state
\* to the next together, under a claim; but for those that are severed.
THEOREM Refines == Spec => Implements
<1>1. Init => Change!Init
  <2> SUFFICES ASSUME Init PROVE Change!Init
    OBVIOUS
  <2>1. op = Free /\ tree = [t \in Targets |-> Absent] /\ adrift = {}
    BY DEF Init
  <2>2. \A p \in Proposals, d \in Dirs : file[d][p] = 0
    BY DEF Init
  <2>3. \A p \in Proposals : FileFate(p) = "new"
    BY <2>2 DEF FileFate, Dirs
  <2>4. ~Claiming
    BY <2>1 DEF Claiming, Free
  <2>5. [p \in Proposals |-> Fate(p)] = [p \in Proposals |-> "new"]
    BY <2>3, <2>4 DEF Fate
  <2>6. QED
    BY <2>1, <2>4, <2>5 DEF Change!Init
<1>2. IndInv /\ IndInv' /\ [Next]_vars => [Change!Next]_(Change!vars)
  <2> SUFFICES ASSUME IndInv, IndInv', [Next]_vars PROVE Change!Next \/ UNCHANGED Change!vars
    OBVIOUS
  <2>1. TypeInv
    BY DEF IndInv
  <2>2. QED
    BY <2>1, Summary, OperateSim, FinalizeSim, BegunSim, QuietSim, EditSim, CrashSim
<1>3. QED
  BY <1>1, <1>2, Ind, PTL DEF Spec, Implements, Change!Spec
=============================================================================
