----------------------------- MODULE MCFreshness -----------------------------
(* Instances of Freshness for TLC: model values for files and queries; the  *)
(* files are interchangeable, which the safety runs use.                    *)
EXTENDS Freshness, TLC

FileSymmetry == Permutations(Files)
=============================================================================
