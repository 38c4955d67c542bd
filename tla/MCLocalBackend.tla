---------------------------- MODULE MCLocalBackend ----------------------------
(* Instances of LocalBackend for TLC: two scopes, two lengths.             *)
EXTENDS LocalBackend

CONSTANTS npu, cpu

MCBatches == {<<1, 2, 1>>, <<2>>, <<1, 0>>}
MCRank == [s \in {npu, cpu} |-> IF s = npu THEN 1 ELSE 2]
=============================================================================
