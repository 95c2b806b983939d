----------------------------- MODULE MCQueueWorker -----------------------------
(***************************************************************************)
(* Instances of QueueWorker for TLC.                                       *)
(***************************************************************************)
EXTENDS QueueWorker, TLC

CONSTANTS a, b
===============================================================================
