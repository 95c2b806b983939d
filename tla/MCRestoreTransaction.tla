-------------------------- MODULE MCRestoreTransaction --------------------------
(* Small instances of RestoreTransaction for TLC. *)
EXTENDS RestoreTransaction

OneOfEach == <<"replace", "create", "delete">>
TwoFiles == <<"replace", "create">>
=================================================================================
