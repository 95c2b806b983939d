---------------------------- MODULE MCPushDispatcher ---------------------------
(***************************************************************************)
(* Instances of PushDispatcher for TLC.                                    *)
(***************************************************************************)
EXTENDS PushDispatcher, TLC

CONSTANTS a, b, c1, c2

\* Items, and the calls of one dispatcher, are alike.
Symmetry == Permutations(WorkItems) \cup Permutations(Calls)
===============================================================================
