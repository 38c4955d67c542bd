---------------------------- MODULE MCVectorStore ----------------------------
(* Instances of VectorStore for TLC; the texts are interchangeable, which   *)
(* the safety runs use.                                                    *)
EXTENDS VectorStore, TLC

TextSymmetry == Permutations(Texts)
=============================================================================
