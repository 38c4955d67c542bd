----------------------------- MODULE Maintenance -----------------------------
(***************************************************************************)
(* Changes to the memory: candidates staged for maintenance, proposals as  *)
(* files that move between state directories, their reviews, the target    *)
(* file a proposal rewrites, and the history of what was done.  The daemon *)
(* runs cycles over the candidates, commands do the same steps by hand, a  *)
(* user edits the targets with any editor, and processes die.              *)
(*                                                                         *)
(* maintenance.rs (submit, submit_review, apply, automatic_apply, revert,  *)
(* finalize, reject, pause, run_once_with), maintenance_worker.rs (run),   *)
(* staging.rs (write, consume, dismiss).                                   *)
(*                                                                         *)
(* A proposal's id is the hash of its content, so a proposal is its id.    *)
(* The copy of it that a submission writes also has a time, hashed by the  *)
(* review: copy n is the n-th written.  Between two submissions of one id  *)
(* lie model calls or a person, so their times differ.                     *)
(*                                                                         *)
(* Checks that only compare with the clock, the log or the catalog (the    *)
(* validity, the evidence, the citations, what git has) are not state:     *)
(* each may fail at any time, and the step that needs it is then not taken *)
(* or, in a cycle, fails.  So may waiting for the lock.                    *)
(***************************************************************************)
EXTENDS Integers, FiniteSets

CONSTANTS
  Candidates, Targets,
  Bytes,       \* contents of a target
  Absent,      \* no file
  NoTarget,    \* of a decision: dismiss or noop
  PausedBytes, \* contents whose front matter turns automatic maintenance off
  Proposals,   \* what a proposal may say
  Modelled,    \* those the model comes up with
  Manual,      \* those a person does
  NoOne, None,
  Limit,       \* max_candidates: examined in one cycle
  MaxCopies,   \* bound: submissions of one id
  MaxSubmissions, \* bound: submissions in all
  MaxEdits,    \* bound: edits of targets
  MaxFaults,   \* bound: file operations that fail, and crashes
  Crashes      \* whether processes die

Dirs == {"pending", "applied", "finalized", "rejected", "reverted"}
Active == {"applied", "finalized"}
Content(p) == p.target # NoTarget

ASSUME MaintenanceAssumption ==
  /\ Absent \notin Bytes /\ NoTarget \notin Targets
  /\ NoOne \notin Proposals \cup (Proposals \X {"after", "before"})
  /\ None \notin [of : 1..MaxCopies, verdict : {"pass", "fail"}]
  /\ PausedBytes \subseteq Bytes /\ Crashes \in BOOLEAN
  /\ Limit \in Nat \ {0} /\ MaxCopies \in Nat /\ MaxSubmissions \in Nat /\ MaxEdits \in Nat /\ MaxFaults \in Nat
  /\ Proposals \subseteq [candidates : SUBSET Candidates, target : Targets \cup {NoTarget},
                          before : Bytes \cup {Absent}, after : Bytes \cup {Absent}]
  /\ Modelled \subseteq Proposals /\ Manual \subseteq Proposals
  /\ \A p \in Proposals : Content(p) => p.after \in Bytes /\ p.before # p.after

VARIABLES
  \* ---- files
  tree,     \* content of each target
  file,     \* by state directory and proposal: which copy is there, or 0
  review,   \* the immutable review of each id: of which copy, and its verdict
  staged,   \* candidates: not yet, pending, or in dismissed/, by whose hand
  history,  \* the events written, but for exceptions
  \* ---- processes
  op,       \* the operation that holds maintenance.lock
  worker,   \* the daemon's thread
  \* ---- history variables and bounds
  copies,   \* submissions so far
  wrote,    \* whose bytes a target has: of an operation, or NoOne (a user)
  adrift,   \* proposals whose operation was cut short, or could not be undone
  edits, faults

files == <<tree, file, review, staged, history, copies>>
ghosts == <<wrote, adrift>>
bounds == <<edits, faults>>
vars == <<files, op, worker, ghosts, bounds>>

Steps == {"free", "write", "move", "event", "settle", "undo", "unwrite", "back", "redo"}
Kinds == {"none", "apply", "auto", "revert", "finalize"}
Free == [at |-> "free", kind |-> "none", p |-> NoOne, from |-> "pending", by |-> "cli", raced |-> FALSE]
Asleep == [at |-> "sleep", left |-> {}, p |-> NoOne]

TypeOK ==
  /\ tree \in [Targets -> Bytes \cup {Absent}]
  /\ file \in [Dirs -> [Proposals -> 0..MaxCopies]]
  /\ copies \in [Proposals -> 0..MaxCopies]
  /\ review \in [Proposals -> {None} \cup [of : 1..MaxCopies, verdict : {"pass", "fail"}]]
  /\ staged \in [Candidates -> {"unborn", "pending", "settled", "curated"}]
  /\ history \subseteq Proposals \X {"applied", "reverted"}
  /\ op \in [at : Steps, kind : Kinds, p : Proposals \cup {NoOne}, from : Dirs,
             by : {"cli", "worker"}, raced : BOOLEAN]
  /\ (op.at = "free" <=> op.p = NoOne) /\ (op.at = "free" <=> op.kind = "none")
  /\ worker \in [at : {"sleep", "next", "review", "apply", "applying", "clean"},
                 left : SUBSET Candidates, p : Proposals \cup {NoOne}]
  /\ (worker.p # NoOne) = (worker.at \in {"review", "apply", "applying", "clean"})
  /\ wrote \in [Targets -> (Proposals \X {"after", "before"}) \cup {NoOne}]
  /\ adrift \subseteq Proposals
  /\ edits \in 0..MaxEdits /\ faults \in 0..MaxFaults

\* Users fill the memory as they edit it.
Init ==
  /\ tree = [t \in Targets |-> Absent]
  /\ file = [d \in Dirs |-> [p \in Proposals |-> 0]]
  /\ copies = [p \in Proposals |-> 0]
  /\ review = [p \in Proposals |-> None]
  /\ staged = [c \in Candidates |-> "unborn"]
  /\ history = {}
  /\ op = Free /\ worker = Asleep
  /\ wrote = [t \in Targets |-> NoOne] /\ adrift = {} /\ edits = 0 /\ faults = 0

Pending == {c \in Candidates : staged[c] = "pending"}
Unlocked == op.at = "free"

Fault == faults < MaxFaults /\ faults' = faults + 1
NoFault == UNCHANGED faults
-----------------------------------------------------------------------------
(* The deterministic gates.                                                *)

\* A plausible bug: proposals that are finalized are looked at instead.
SingleWriterOfFinalized(p) ==
  Content(p) => \A q \in Proposals \ {p} : file["finalized"][q] > 0 => q.target # p.target

\* verify_no_competing_apply: nobody else has applied and not finalized here.
SingleWriter(p) ==
  Content(p) => \A q \in Proposals \ {p} : file["applied"][q] > 0 => q.target # p.target

CandidatesPending(p) == p.candidates \subseteq Pending

\* A plausible bug: as at submission, only whether there is a file.
SnapshotExists(p, bytes) == Content(p) => (tree[p.target] = Absent <=> bytes = Absent)

\* verify_target: the bytes are the captured ones.
Snapshot(p, bytes) == Content(p) => tree[p.target] = bytes

\* A plausible bug: the hash leaves out the time, as the id does.
ReviewedAnyCopy(p, copy) == review[p] # None /\ review[p].verdict = "pass"

\* valid_review: it passed, and hashed these very bytes, their time included.
Reviewed(p, copy) == review[p] = [of |-> copy, verdict |-> "pass"]

\* verify_proposal, before and after application.
Applicable(p) == CandidatesPending(p) /\ Snapshot(p, p.before) /\ SingleWriter(p)
Verified(p) == Applicable(p) /\ Reviewed(p, file["pending"][p])
InPlace(p, dir) == Snapshot(p, p.after) /\ SingleWriter(p) /\ Reviewed(p, file[dir][p])

\* verify_automatic_policy, for the pause in the front matter.
Automatic(p) == Content(p) => p.before \notin PausedBytes /\ p.after \notin PausedBytes
-----------------------------------------------------------------------------
(* Steps that hold the lock once: submit, submit_review, reject.           *)

Copies == {x \in Proposals \X (1..MaxCopies) : x[2] <= copies[x[1]]}

\* An id that is pending already is returned as it is.  The directories of
\* what was applied are not looked at.
Submittable(p) ==
  /\ Unlocked /\ CandidatesPending(p) /\ Snapshot(p, p.before)
  /\ file["pending"][p] = 0 =>
       /\ file["rejected"][p] = 0 /\ file["reverted"][p] = 0
       /\ copies[p] < MaxCopies /\ Cardinality(Copies) < MaxSubmissions

WriteProposal(p) ==
  IF file["pending"][p] > 0 THEN UNCHANGED <<file, copies>>
  ELSE /\ copies' = [copies EXCEPT ![p] = @ + 1]
       /\ file' = [file EXCEPT !["pending"][p] = copies[p] + 1]

\* A second review of an id must say the same of the same copy.
Reviewable(p, verdict) ==
  /\ Unlocked /\ file["pending"][p] > 0 /\ Applicable(p)
  /\ review[p] \in {None, [of |-> file["pending"][p], verdict |-> verdict]}

WriteReview(p, verdict) ==
  review' = [review EXCEPT ![p] = [of |-> file["pending"][p], verdict |-> verdict]]

\* With a rejected copy there already, only the pending twin goes.
MoveToRejected(p) ==
  file' = [file EXCEPT !["pending"][p] = 0,
                       !["rejected"][p] = IF @ = 0 THEN file["pending"][p] ELSE @]

Submit(p) ==
  /\ Submittable(p) /\ WriteProposal(p)
  /\ UNCHANGED <<tree, review, staged, history, op, worker, ghosts, bounds>>

SubmitReview(p, verdict) ==
  /\ Reviewable(p, verdict) /\ WriteReview(p, verdict)
  /\ UNCHANGED <<tree, file, copies, staged, history, op, worker, ghosts, bounds>>

Reject(p) ==
  /\ Unlocked /\ file["pending"][p] > 0 /\ MoveToRejected(p)
  /\ UNCHANGED <<tree, copies, review, staged, history, op, worker, ghosts, bounds>>

-----------------------------------------------------------------------------
(* The operations that move a change in or out of the memory.  They verify *)
(* first, and then act on what they verified, one file at a time.          *)

Begin(kind, p, at, from, by) ==
  op' = [at |-> at, kind |-> kind, p |-> p, from |-> from, by |-> by, raced |-> FALSE]

FirstStep(p) == IF Content(p) THEN "write" ELSE "move"

\* locate(&[APPLIED, FINALIZED])
Located(p) == IF file["applied"][p] > 0 THEN "applied" ELSE "finalized"

BeginApply(p) ==
  /\ Unlocked /\ file["pending"][p] > 0 /\ Verified(p)
  /\ Begin("apply", p, FirstStep(p), "pending", "cli")
  /\ UNCHANGED <<files, worker, ghosts, bounds>>

\* A plausible bug: the lock is not taken.
AdmittedUnlocked(p) == file["pending"][p] > 0 /\ Verified(p) /\ Automatic(p)

Admitted(p) == Unlocked /\ file["pending"][p] > 0 /\ Verified(p) /\ Automatic(p)

BeginAuto(p) ==
  /\ Admitted(p) /\ Begin("auto", p, FirstStep(p), "pending", "cli")
  /\ UNCHANGED <<files, worker, ghosts, bounds>>

BeginRevert(p) ==
  /\ Unlocked /\ file[Located(p)][p] > 0 /\ InPlace(p, Located(p))
  /\ Begin("revert", p, FirstStep(p), Located(p), "cli")
  /\ UNCHANGED <<files, worker, ghosts, bounds>>

\* A plausible bug: candidates are settled before the proposal has moved.
BeginFinalizeSettling(p) ==
  /\ Unlocked /\ file[Located(p)][p] > 0 /\ InPlace(p, Located(p))
  /\ Begin("finalize", p, "settle", Located(p), "cli")
  /\ UNCHANGED <<files, worker, ghosts, bounds>>

\* Of an applied proposal git must have the bytes; of a finalized one only
\* the candidates are left to settle.
BeginFinalize(p) ==
  /\ Unlocked /\ file[Located(p)][p] > 0
  /\ \/ /\ Located(p) = "applied" /\ InPlace(p, "applied")
        /\ Begin("finalize", p, "move", "applied", "cli")
     \/ /\ Located(p) = "finalized"
        /\ Begin("finalize", p, "settle", "finalized", "cli")
  /\ UNCHANGED <<files, worker, ghosts, bounds>>

Goal == CASE op.kind = "apply" -> "applied" [] op.kind = "revert" -> "reverted" [] OTHER -> "finalized"
Old == IF op.kind = "revert" THEN "after" ELSE "before"
New == IF op.kind = "revert" THEN "before" ELSE "after"
Side(p, side) == IF side = "after" THEN p.after ELSE p.before

Put(side) ==
  /\ tree' = [tree EXCEPT ![op.p.target] = Side(op.p, side)]
  /\ wrote' = [wrote EXCEPT ![op.p.target] = <<op.p, side>>]

Rename(from, to) ==
  file' = [file EXCEPT ![from][op.p] = 0, ![to][op.p] = file[from][op.p]]

Goto(at) == op' = [op EXCEPT !.at = at] /\ UNCHANGED worker

\* The lock is released; a cycle that waits for the operation goes on.
End(ok) ==
  /\ op' = Free
  /\ worker' = IF op.by = "cli" THEN worker
               ELSE IF ok THEN [worker EXCEPT !.at = "next", !.p = NoOne]
               ELSE [worker EXCEPT !.at = "clean"]

Adrift == adrift' = adrift \cup {op.p}

\* A revert that should remove a file which a user has removed meanwhile.
NothingToRemove == op.kind = "revert" /\ tree[op.p.target] = Absent /\ op.p.before = Absent

WriteTarget ==
  /\ op.at = "write"
  /\ \/ ~NothingToRemove /\ Put(New) /\ Goto("move") /\ NoFault
     \/ /\ (NothingToRemove /\ NoFault) \/ Fault
        /\ End(FALSE) /\ UNCHANGED <<tree, wrote>>
  /\ UNCHANGED <<file, copies, review, staged, history, adrift, edits>>

\* move_proposal, the commit point of apply and finalize.
MoveProposal ==
  /\ op.at = "move"
  /\ \/ /\ file[Goal][op.p] = 0 /\ NoFault /\ Rename(op.from, Goal)
        /\ CASE op.kind = "apply" -> End(TRUE)
             [] op.kind = "finalize" -> Goto("settle")
             [] OTHER -> Goto("event")
     \/ /\ (file[Goal][op.p] > 0 /\ NoFault) \/ Fault
        /\ UNCHANGED file
        /\ IF Content(op.p) /\ op.kind # "finalize" THEN Goto("undo") ELSE End(FALSE)
  /\ UNCHANGED <<tree, copies, review, staged, history, ghosts, edits>>

\* A plausible bug: an error is returned and nothing undone.
UndoForgotten ==
  /\ op.at = "undo" /\ End(FALSE)
  /\ UNCHANGED <<files, ghosts, bounds>>

\* The move failed: the old bytes are written back.
UndoWrite ==
  /\ op.at = "undo" /\ End(FALSE)
  /\ \/ NoFault /\ Put(Old) /\ UNCHANGED adrift
     \/ Fault /\ Adrift /\ UNCHANGED <<tree, wrote>>
  /\ UNCHANGED <<file, copies, review, staged, history, edits>>

Outcome == IF op.kind = "revert" THEN "reverted" ELSE "applied"

WriteEvent ==
  /\ op.at = "event"
  /\ \/ /\ NoFault /\ history' = history \cup {<<op.p, Outcome>>}
        /\ IF op.kind = "auto" THEN Goto("settle") ELSE End(TRUE)
     \/ /\ Fault /\ UNCHANGED history
        /\ Goto(IF Content(op.p) THEN "unwrite" ELSE "back")
  /\ UNCHANGED <<tree, file, copies, review, staged, ghosts, edits>>

\* The event failed: the old bytes, then the old state, are put back.  When
\* the bytes were none, failing to remove the file is ignored.
UnwriteTarget ==
  /\ op.at = "unwrite"
  /\ \/ NoFault /\ Put(Old) /\ Goto("back") /\ UNCHANGED adrift
     \/ /\ Fault /\ Adrift /\ UNCHANGED <<tree, wrote>>
        /\ IF op.kind = "auto" /\ op.p.before = Absent THEN Goto("back") ELSE End(FALSE)
  /\ UNCHANGED <<file, copies, review, staged, history, edits>>

\* A plausible bug: only the bytes are put back.
BackForgotten ==
  /\ op.at = "back" /\ End(FALSE)
  /\ UNCHANGED <<files, ghosts, bounds>>

MoveBack ==
  /\ op.at = "back"
  /\ \/ /\ file[op.from][op.p] = 0 /\ NoFault /\ Rename(Goal, op.from)
        /\ End(FALSE) /\ UNCHANGED adrift
     \/ /\ (file[op.from][op.p] > 0 /\ NoFault) \/ Fault
        /\ Adrift /\ UNCHANGED file
        /\ IF Content(op.p) /\ op.kind = "auto" THEN Goto("redo") ELSE End(FALSE)
  /\ UNCHANGED <<tree, copies, review, staged, history, wrote, edits>>

\* Only automatic_apply: finalized it is, so its bytes are written again.
RedoWrite ==
  /\ op.at = "redo" /\ End(FALSE)
  /\ \/ NoFault /\ Put(New)
     \/ Fault /\ UNCHANGED <<tree, wrote>>
  /\ UNCHANGED <<file, copies, review, staged, history, adrift, edits>>

\* settle_candidates.  A failure ends it: an error of finalize, and ignored
\* by automatic_apply.
SettleCandidate ==
  /\ op.at = "settle" /\ op.p.candidates \cap Pending # {}
  /\ \/ /\ NoFault /\ Goto("settle")
        /\ \E c \in op.p.candidates \cap Pending : staged' = [staged EXCEPT ![c] = "settled"]
     \/ Fault /\ UNCHANGED staged /\ End(TRUE)
  /\ UNCHANGED <<tree, file, copies, review, history, ghosts, edits>>

EndSettle ==
  /\ op.at = "settle" /\ op.p.candidates \cap Pending = {} /\ End(TRUE)
  /\ UNCHANGED <<files, ghosts, bounds>>

Operate ==
  \/ WriteTarget \/ MoveProposal \/ UndoWrite \/ WriteEvent \/ UnwriteTarget
  \/ MoveBack \/ RedoWrite \/ SettleCandidate \/ EndSettle
-----------------------------------------------------------------------------
(* The daemon: maintenance_worker::run around run_once_with.               *)

\* A cycle takes the newest candidates, at most Limit.  When one is due, or
\* held up by a pause, is left open here.
StartCycle ==
  /\ worker.at = "sleep" /\ Pending # {}
  /\ \E batch \in SUBSET Pending :
       /\ \/ Cardinality(batch) = Limit
          \/ batch = Pending /\ Cardinality(batch) < Limit
       /\ worker' = [worker EXCEPT !.at = "next", !.left = batch]
  /\ UNCHANGED <<files, op, ghosts, bounds>>

\* packet, propose, submit: of this candidate alone.
Propose(c) ==
  /\ worker.at = "next" /\ c \in worker.left
  /\ \/ \E p \in Modelled :
          /\ p.candidates = {c} /\ Submittable(p) /\ WriteProposal(p)
          /\ worker' = [worker EXCEPT !.at = "review", !.left = @ \ {c}, !.p = p]
     \/ /\ worker' = [worker EXCEPT !.left = @ \ {c}]
        /\ UNCHANGED <<file, copies>>
  /\ UNCHANGED <<tree, review, staged, history, op, ghosts, bounds>>

\* The independent review, by a second call of the model.
Examine ==
  /\ worker.at = "review"
  /\ \/ \E verdict \in {"pass", "fail"} :
          /\ Reviewable(worker.p, verdict) /\ WriteReview(worker.p, verdict)
          /\ worker' = [worker EXCEPT !.at = IF verdict = "pass" THEN "apply" ELSE "clean"]
     \/ worker' = [worker EXCEPT !.at = "clean"] /\ UNCHANGED review
  /\ UNCHANGED <<tree, file, copies, staged, history, op, ghosts, bounds>>

ApplyReviewed ==
  /\ worker.at = "apply"
  /\ \/ /\ Admitted(worker.p)
        /\ Begin("auto", worker.p, FirstStep(worker.p), "pending", "worker")
        /\ worker' = [worker EXCEPT !.at = "applying"]
     \/ worker' = [worker EXCEPT !.at = "clean"] /\ UNCHANGED op
  /\ UNCHANGED <<files, ghosts, bounds>>

\* A proposal still pending is rejected; an error of that is ignored.
CleanUp ==
  /\ worker.at = "clean"
  /\ \/ Unlocked /\ file["pending"][worker.p] > 0 /\ MoveToRejected(worker.p)
     \/ UNCHANGED file
  /\ worker' = [worker EXCEPT !.at = "next", !.p = NoOne]
  /\ UNCHANGED <<tree, copies, review, staged, history, op, ghosts, bounds>>

EndCycle ==
  /\ worker.at = "next" /\ worker.left = {} /\ worker' = Asleep
  /\ UNCHANGED <<files, op, ghosts, bounds>>

Cycle ==
  \/ StartCycle \/ Examine \/ ApplyReviewed \/ CleanUp \/ EndCycle
  \/ \E c \in Candidates : Propose(c)
-----------------------------------------------------------------------------
(* Everybody else.                                                         *)

\* A hook stages a candidate, once: a settled one never comes back.
Stage(c) ==
  /\ staged[c] = "unborn" /\ staged' = [staged EXCEPT ![c] = "pending"]
  /\ UNCHANGED <<tree, file, copies, review, history, op, worker, ghosts, bounds>>

\* cfetch memories consume, or dismiss.
Curate(c) ==
  /\ staged[c] = "pending" /\ staged' = [staged EXCEPT ![c] = "curated"]
  /\ UNCHANGED <<tree, file, copies, review, history, op, worker, ghosts, bounds>>

\* A user writes or removes a target, without any lock.
Edit(t, bytes) ==
  /\ edits < MaxEdits /\ edits' = edits + 1
  /\ tree[t] # bytes /\ tree' = [tree EXCEPT ![t] = bytes]
  /\ wrote' = [wrote EXCEPT ![t] = NoOne]
  /\ op' = IF ~Unlocked /\ op.p.target = t THEN [op EXCEPT !.raced = TRUE] ELSE op
  /\ UNCHANGED <<file, copies, review, staged, history, worker, adrift, faults>>

\* Nothing is written before the first step, and only candidates are left to
\* settle after the last; in between the operation is cut in two.
Untouched == op.at = "write" \/ op.at = "settle" \/ (op.at = "move" /\ (~Content(op.p) \/ op.kind = "finalize"))

\* The process that holds the lock dies, and with it the lock.
CrashOperation ==
  /\ Crashes /\ Fault /\ ~Unlocked /\ op' = Free
  /\ worker' = IF op.by = "worker" THEN Asleep ELSE worker
  /\ adrift' = IF Untouched THEN adrift ELSE adrift \cup {op.p}
  /\ UNCHANGED <<files, wrote, edits>>

\* The daemon dies in between, and is started again.
CrashDaemon ==
  /\ Crashes /\ Fault /\ worker.at \notin {"sleep", "applying"} /\ worker' = Asleep
  /\ UNCHANGED <<files, op, ghosts, edits>>

Command ==
  \/ \E p \in Manual, verdict \in {"pass", "fail"} : Submit(p) \/ SubmitReview(p, verdict)
  \/ \E p \in Proposals :
       Reject(p) \/ BeginApply(p) \/ BeginAuto(p) \/ BeginRevert(p) \/ BeginFinalize(p)
  \/ \E c \in Candidates : Curate(c)

Outside ==
  \/ \E c \in Candidates : Stage(c)
  \/ \E t \in Targets, bytes \in Bytes \cup {Absent} : Edit(t, bytes)
  \/ CrashOperation \/ CrashDaemon

Next == Operate \/ Cycle \/ Command \/ Outside

Spec == Init /\ [][Next]_vars
-----------------------------------------------------------------------------
(* What the memory and its records say of each other.                      *)

(* Between operations, bytes that maintenance put into a target belong to  *)
(* a proposal filed as applied or finalized, and bytes that it put back    *)
(* to one that is not.  Left out are operations cut in two by a crash, and *)
(* those whose undoing failed as well.                                     *)
Agreement ==
  Unlocked => \A t \in Targets, p \in Proposals \ adrift :
    /\ wrote[t] = <<p, "after">> => file["applied"][p] + file["finalized"][p] > 0
    /\ wrote[t] = <<p, "before">> => file["applied"][p] + file["finalized"][p] = 0

(* An id is applied, finalized or reverted once at most, whatever twins of *)
(* it later submissions leave in the other directories.                    *)
OneFate ==
  \A p \in Proposals : \A d, e \in {"applied", "finalized", "reverted"} :
    file[d][p] > 0 /\ file[e][p] > 0 => d = e

(* No two proposals are applied to one target and not finalized.           *)
OneOwner ==
  \A p, q \in Proposals :
    file["applied"][p] > 0 /\ file["applied"][q] > 0 /\ Content(p) => p = q \/ p.target # q.target

(* History and files tell the same: a reversion is in both or in neither,  *)
(* and what history calls applied was finalized.                           *)
HistoryTrue ==
  Unlocked => \A p \in Proposals \ adrift :
    /\ <<p, "reverted">> \in history <=> file["reverted"][p] > 0
    /\ <<p, "applied">> \in history => file["finalized"][p] + file["reverted"][p] > 0

(* A candidate is taken off the list only by a decision that committed.    *)
SettledIsDecided ==
  \A c \in Candidates : staged[c] = "settled" =>
    \E p \in Proposals : c \in p.candidates /\ file["finalized"][p] + file["reverted"][p] > 0

(* An operation overwrites nothing but the bytes it verified, or wrote     *)
(* itself, unless the user wrote to the target after the verification; and *)
(* nothing automatic writes to a target whose front matter forbids it.     *)
EditsSurvive ==
  [][Operate => \A t \in Targets : tree'[t] # tree[t] /\ ~op.raced =>
       /\ tree[t] = Side(op.p, IF op.at \in {"write", "redo"} THEN Old ELSE New)
       /\ op.kind = "auto" => tree[t] \notin PausedBytes]_vars
-----------------------------------------------------------------------------
(* The operations in one step each: MemoryChange is what they implement.   *)

FileFate(p) ==
  IF file["reverted"][p] > 0 THEN "reverted"
  ELSE IF file["applied"][p] + file["finalized"][p] > 0 THEN "accepted"
  ELSE IF file["pending"][p] > 0 THEN "open"
  ELSE IF file["rejected"][p] > 0 THEN "rejected"
  ELSE "new"

Claiming == op.kind \in {"apply", "auto", "revert"}

\* Between the write and the move of an operation, or of its undoing, the
\* bytes say what the files do not say yet.
Fate(p) ==
  IF Claiming /\ op.p = p /\ Content(p)
  THEN CASE op.at \in {"move", "undo"} -> IF op.kind = "revert" THEN "reverted" ELSE "accepted"
         [] op.at \in {"back", "redo"} -> IF op.kind = "revert" THEN "accepted" ELSE "open"
         [] OTHER -> FileFate(p)
  ELSE FileFate(p)

Change == INSTANCE MemoryChange WITH
  mem <- tree,
  fate <- [p \in Proposals |-> Fate(p)],
  held <- IF Claiming THEN op.p ELSE NoOne,
  fresh <- (Claiming => ~op.raced),
  severed <- adrift

Implements == Change!Spec
=============================================================================
