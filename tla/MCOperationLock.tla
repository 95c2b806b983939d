---------------------------- MODULE MCOperationLock ----------------------------
(* A small instance of OperationLock for TLC. *)
EXTENDS OperationLock, TLC

CONSTANTS p1, p2, c1, c2, c3  \* model values

\* Two calls of one process, and one of another.
TwoAndOne == (c1 :> p1) @@ (c2 :> p1) @@ (c3 :> p2)

\* The calls of one process are interchangeable.
SameProcess == Permutations({c1, c2})
================================================================================
