---------------------------- MODULE MCRepositories ----------------------------
(* An instance of Repositories for TLC: two checkouts of one upstream, a   *)
(* daemon that goes through both and a command that goes through the first.*)
EXTENDS Repositories

CONSTANTS x, x1, x2, daemon, command

MCUpstream == [c \in {x1, x2} |-> x]
MCRoots == [p \in {daemon, command} |-> IF p = daemon THEN <<x1, x2>> ELSE <<x1>>]
=============================================================================
