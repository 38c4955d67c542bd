---------------------------- MODULE MCMaintenance ----------------------------
(* Instances of Maintenance for TLC: one target, contents that matter to   *)
(* the proposals below, and a content that pauses maintenance.             *)
EXTENDS Maintenance, TLC

CONSTANTS c1, t, a, b

MCBytes == {a, b}
Edited(c, from, to) == [candidates |-> {c}, target |-> t, before |-> from, after |-> to]
Decision(cs) == [candidates |-> cs, target |-> NoTarget, before |-> Absent, after |-> Absent]

Add == Edited(c1, Absent, a)
Fold == Edited(c1, a, b)
MCProposals == {Add, Fold, Decision({c1})}
MCModelled == {Add, Decision({c1})}
MCManual == {Fold}
=============================================================================
