--------------------------- MODULE MCWorkQueueStore ---------------------------
(***************************************************************************)
(* Instances of WorkQueueStore for TLC.                                    *)
(***************************************************************************)
EXTENDS WorkQueueStore, TLC

CONSTANTS a, b, c

\* Every item has a dedupe key of its own, as the materialisation provider does.
OwnKeys == [i \in WorkItems |-> i]

\* Two producers name the same work differently.
AliasedBC == [i \in WorkItems |-> IF i = c THEN b ELSE i]

\* No concurrency keys, or one that two items share.
NoKeys == [i \in WorkItems |-> NoKey]
SharedByAB == [i \in WorkItems |-> IF i \in {a, b} THEN "key" ELSE NoKey]

Symmetry == Permutations(WorkItems)
===============================================================================
