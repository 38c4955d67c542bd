------------------------- MODULE MCInferenceGovernor -------------------------
(* Instances of InferenceGovernor for TLC.  Every compile costs one bucket  *)
(* and at most two of them are provisioned, so the budget is reached; half  *)
(* a tick of cooldown per tick of work, rounded up, and one tick on top are *)
(* just what PolicyValidated allows for operations of up to two ticks.      *)
EXTENDS InferenceGovernor, TLC

OneBucket == [a \in Adapters |-> 1]
Operations == [k \in Kinds |-> IF k = "compile" THEN 2 ELSE 1]
Charges == [k \in Kinds |-> IF k = "compile" THEN 2 ELSE 1]
Ticks(n) == [k \in Kinds |-> n]
One == Ticks(1)
Two == Ticks(2)

AdapterSymmetry == Permutations(Adapters)
=============================================================================
