--------------------------- MODULE RestoreTransaction ---------------------------
(***************************************************************************)
(* The restore of a storage backup and its recovery                        *)
(* (packages/foundation/src/storage/restore-transaction.ts): a journal     *)
(* directory under tmp/, the current files moved to rollback names and the *)
(* staged ones installed, the commit point, the receipt, and what startup  *)
(* does with a transaction it finds (reconcileStorageRestoreTransactionsSync).*)
(*                                                                         *)
(* A process may be killed between any two calls, a call may fail, and the *)
(* power may go.  Of the file system the model keeps the names and what is *)
(* under each: a name that changed is durable only when its directory was  *)
(* synchronised since, and until then a loss of power leaves it as it was  *)
(* or as it is now.  A rename of which neither directory was synchronised  *)
(* never loses its file.                                                   *)
(***************************************************************************)
EXTENDS Naturals, Sequences

CONSTANTS
  Records,      \* the records of the transaction: "replace", "create" or "delete"
  HastyLosses,  \* whether the power may go where Hasty says
  MaxFaults,    \* bound on crashes, losses of power and failing calls
  MaxMeddling   \* bound on changes of a target by somebody else

ASSUME RestoreAssumption ==
  /\ Records \in Seq({"replace", "create", "delete"}) /\ Records # <<>>
  /\ {MaxFaults, MaxMeddling} \subseteq Nat /\ HastyLosses \in BOOLEAN

Files == DOMAIN Records
HadOriginal(r) == Records[r] # "create"
Installs(r) == Records[r] # "delete"

\* The names: of each file the governed one, the one it is moved to and the staged one;
\* the transaction's directory, its journal, the staged receipt and the published one.
Target(r) == <<"target", r>>
Rollback(r) == <<"rollback", r>>
Staged(r) == <<"staged", r>>
Root == <<"root", 0>>
Journal == <<"journal", 0>>
StagedReceipt == <<"stagedReceipt", 0>>
Report == <<"report", 0>>

Inner == {Rollback(r) : r \in Files} \cup {Staged(r) : r \in Files} \cup {Journal, StagedReceipt}
Names == {Target(r) : r \in Files} \cup Inner \cup {Root, Report}

Before(r) == IF HadOriginal(r) THEN "old" ELSE "none"
After(r) == IF Installs(r) THEN "new" ELSE "none"

VARIABLES
  seen,     \* what is under each name
  durable,  \* what was, when its directory was last synchronised
  moving,   \* the renames since of which neither directory was synchronised
  at,       \* where the process is; "down" and "running" when there is no transaction at work
  file,     \* the file it is at
  mode,     \* restore, its catch clause, or startup
  published,\* the local variable of the restore
  outcome,  \* what the restore told its caller
  faults, meddling

disk == <<seen, durable, moving>>
control == <<at, file, mode, published, outcome>>
vars == <<disk, control, faults, meddling>>

Has(n) == seen[n] # "none"

\* The directory of a name is synchronised.
Synced(n) ==
  /\ durable' = [durable EXCEPT ![n] = seen[n]]
  /\ moving' = {m \in moving : n \notin {m[1], m[2]}}
  /\ UNCHANGED seen

Renamed(from, to) ==
  /\ seen' = [seen EXCEPT ![from] = "none", ![to] = seen[from]]
  /\ moving' = moving \cup {<<from, to>>}
  /\ UNCHANGED durable

Written(n, what) == seen' = [seen EXCEPT ![n] = what] /\ UNCHANGED <<durable, moving>>

\* removeSafeFileSync: a file is removed and its directory synchronised, if there is one.
Removed(n) ==
  IF Has(n) THEN /\ seen' = [seen EXCEPT ![n] = "none"]
                 /\ durable' = [durable EXCEPT ![n] = "none"]
                 /\ moving' = {m \in moving : n \notin {m[1], m[2]}}
            ELSE UNCHANGED disk

\* What a loss of power may leave.
Losses ==
  LET Dirty == {n \in Names : seen[n] # durable[n]}
      Left(S) == [n \in Names |-> IF n \in S THEN seen[n] ELSE durable[n]]
      Kept == {Left(S) : S \in {T \in SUBSET Dirty :
                 \A m \in moving : m[2] \in T \/ m[1] \notin T}}
  IN {[n \in Names |-> IF d[Root] = "none" /\ n \in Inner THEN "none" ELSE d[n]] : d \in Kept}

Goes(to) == at' = to /\ UNCHANGED <<file, mode, published, outcome>>
Resting == UNCHANGED <<faults, meddling>>

Init ==
  /\ seen = [n \in Names |-> IF n \in {Target(r) : r \in Files} THEN Before(n[2]) ELSE "none"]
  /\ durable = seen /\ moving = {}
  /\ at = "begin" /\ file = 1 /\ mode = "restore"
  /\ published = FALSE /\ outcome = "none"
  /\ faults = 0 /\ meddling = 0

-----------------------------------------------------------------------------
(***************************************************************************)
(* executeDurableRestoreTransaction                                        *)
(***************************************************************************)
Begin == at = "begin" /\ Written(Root, "pending") /\ Goes("stage") /\ Resting

\* Files, receipt and journal are staged and the tree is synchronised.  What is left when
\* this ends in the middle is removed whole, whatever it is.
Stage ==
  /\ at = "stage"
  /\ seen' = [n \in Names |->
                CASE n = Journal -> "prepared"
                  [] n = StagedReceipt -> "receipt"
                  [] n[1] = "staged" -> After(n[2])
                  [] OTHER -> seen[n]]
  /\ durable' = [n \in Names |-> IF n \in Inner THEN seen'[n] ELSE durable[n]]
  /\ UNCHANGED moving
  /\ Goes("publish") /\ Resting

Publish == at = "publish" /\ Written(Root, "transaction") /\ Goes("syncPublished") /\ Resting

SyncPublished ==
  /\ at = "syncPublished" /\ Synced(Root)
  /\ at' = "mark" /\ published' = TRUE
  /\ UNCHANGED <<file, mode, outcome>> /\ Resting

Mark == at = "mark" /\ Written(Journal, "rollback-required") /\ Goes("syncMark") /\ Resting

SyncMark == at = "syncMark" /\ Synced(Journal) /\ Goes("check") /\ Resting

\* Somebody changes a target after the restore was planned, or makes the file it creates,
\* up to the check.  From there to the last move nobody does: restores run under the
\* storage's maintenance lock, and the code does not look again.
Meddle(r) ==
  /\ meddling < MaxMeddling
  /\ at \in {"begin", "stage", "publish", "syncPublished", "mark", "syncMark", "check"}
  /\ seen' = [seen EXCEPT ![Target(r)] = "other"]
  /\ durable' = [durable EXCEPT ![Target(r)] = "other"]
  /\ meddling' = meddling + 1
  /\ UNCHANGED <<moving, control, faults>>

\* The catch clause recovers what was published and removes what was not.
Catches ==
  /\ UNCHANGED disk
  /\ mode' = "catch"
  /\ IF published /\ Has(Root) THEN at' = "reconcile" /\ UNCHANGED outcome
     ELSE IF seen[Root] = "pending" THEN at' = "remove" /\ UNCHANGED outcome
     ELSE at' = "down" /\ outcome' = "failed"
  /\ UNCHANGED <<file, published>>

\* A verification throws: the restore goes to its catch clause; what throws there, or at
\* startup, leaves the transaction as it is.
Throws ==
  IF mode = "restore" THEN Catches
  ELSE /\ UNCHANGED <<disk, file, mode, published>>
       /\ at' = "down"
       /\ outcome' = IF mode = "catch" THEN "unrecovered" ELSE outcome

\* assertPreimageUnchanged, for every file before any is touched.
CheckPreimages ==
  /\ at = "check"
  /\ IF \A r \in Files : seen[Target(r)] = Before(r)
       THEN /\ UNCHANGED disk
            /\ at' = "move" /\ file' = 1
            /\ UNCHANGED <<mode, published, outcome>>
       ELSE Throws
  /\ Resting

\* moveOriginalToRollback
MoveOriginal ==
  /\ at = "move"
  /\ IF HadOriginal(file)
       THEN Renamed(Target(file), Rollback(file)) /\ Goes("syncMoved")
       ELSE UNCHANGED disk /\ Goes("install")
  /\ Resting

\* MUTANT of MoveSyncs: the deletion of the source name is made durable first.
MutMoveSyncs(r) == <<Target(r), Rollback(r)>>

\* The rollback name is made durable before the deletion of the source name.
MoveSyncs(r) == <<Rollback(r), Target(r)>>

SyncMoved == at = "syncMoved" /\ Synced(MoveSyncs(file)[1]) /\ Goes("syncSource") /\ Resting

SyncSource == at = "syncSource" /\ Synced(MoveSyncs(file)[2]) /\ Goes("install") /\ Resting

\* On to the next file.
NextFile ==
  /\ IF file < Len(Records) THEN at' = "move" /\ file' = file + 1
                            ELSE at' = "verify" /\ UNCHANGED file
  /\ UNCHANGED <<mode, published, outcome>>

Install ==
  /\ at = "install"
  /\ IF Installs(file)
       THEN Renamed(Staged(file), Target(file)) /\ Goes("syncInstalled")
       ELSE UNCHANGED disk /\ NextFile
  /\ Resting

\* MUTANT of MakeInstalledDurable: the directory of an installed file is left alone.
MutMakeInstalledDurable == UNCHANGED disk

MakeInstalledDurable == Synced(Target(file))

SyncInstalled == at = "syncInstalled" /\ MakeInstalledDurable /\ NextFile /\ Resting

AllInstalled == \A r \in Files : seen[Target(r)] = After(r)

\* verifyCommittedRecordsSync
Verify ==
  /\ at = "verify"
  /\ IF AllInstalled THEN UNCHANGED disk /\ Goes("commit") ELSE Throws
  /\ Resting

\* The commit point.
Commit == at = "commit" /\ Written(Journal, "commit-complete") /\ Goes("syncCommit") /\ Resting

\* MUTANT of MakeCommitDurable: the journal's new phase is not synchronised.
MutMakeCommitDurable == UNCHANGED disk

MakeCommitDurable == Synced(Journal)

SyncCommit == at = "syncCommit" /\ MakeCommitDurable /\ Goes("finalize") /\ Resting

-----------------------------------------------------------------------------
(***************************************************************************)
(* Finalisation, roll back, removal: by the restore, its catch clause and  *)
(* startup alike.                                                          *)
(***************************************************************************)
\* finalizeCommittedTransactionSync
Finalize ==
  /\ at = "finalize"
  /\ IF AllInstalled THEN UNCHANGED disk /\ Goes("receipt") ELSE Throws
  /\ Resting

PublishReceipt ==
  /\ at = "receipt"
  /\ IF ~Has(StagedReceipt) /\ ~Has(Report) THEN Throws
     ELSE /\ Goes(IF Has(StagedReceipt) THEN "syncReport" ELSE "remove")
          /\ IF ~Has(StagedReceipt) THEN UNCHANGED disk
             ELSE IF Has(Report) THEN Written(StagedReceipt, "none")
             ELSE Renamed(StagedReceipt, Report)
  /\ Resting

SyncReport == at = "syncReport" /\ Synced(Report) /\ Goes("remove") /\ Resting

\* rmSync of the transaction's directory, one entry after the other in whatever order the
\* file system lists them.
Remove ==
  /\ at = "remove"
  /\ \/ \E n \in Inner : Has(n) /\ Written(n, "none") /\ Goes("remove")
     \/ (\A n \in Inner : ~Has(n)) /\ Written(Root, "none") /\ Goes("syncRemoved")
  /\ Resting

\* The transaction is over: the restore returns or throws, or the storage opens.
SyncRemoved ==
  /\ at = "syncRemoved" /\ Synced(Root)
  /\ at' = IF mode = "startup" THEN "running" ELSE "down"
  /\ outcome' = CASE mode = "restore" -> "restored"
                  [] mode = "catch" -> "failed"
                  [] OTHER -> outcome
  /\ UNCHANGED <<file, mode, published>> /\ Resting

\* A process starts.
Startup ==
  /\ at = "down"
  /\ at' = "reconcile" /\ mode' = "startup" /\ published' = FALSE
  /\ UNCHANGED <<disk, file, outcome>> /\ Resting

\* MUTANT of PhaseLeadsTo: a transaction that was not committed is only discarded.
MutPhaseLeadsTo ==
  IF seen[Journal] = "commit-complete" THEN "finalize" ELSE "remove"

\* reconcileTransactionSync
PhaseLeadsTo ==
  CASE seen[Journal] = "prepared" -> "remove"
    [] seen[Journal] = "rollback-required" -> "rollback"
    [] seen[Journal] = "commit-complete" -> "finalize"

Reconcile ==
  /\ at = "reconcile"
  /\ IF ~Has(Root) THEN UNCHANGED disk /\ Goes("running")
     ELSE IF seen[Root] = "pending" THEN UNCHANGED disk /\ Goes("remove")
     ELSE IF ~Has(Journal) THEN Throws
     ELSE /\ UNCHANGED disk
          /\ at' = PhaseLeadsTo /\ file' = Len(Records)
          /\ UNCHANGED <<mode, published, outcome>>
  /\ Resting

\* rollbackRecordsSync, from the last file to the first.
PreviousFile ==
  /\ IF file > 1 THEN at' = "rollback" /\ file' = file - 1
                 ELSE at' = "remove" /\ UNCHANGED file
  /\ UNCHANGED <<mode, published, outcome>>

\* MUTANT of PriorInPlace: a file must have been moved when there was one before.
MutPriorInPlace == FALSE

\* The file was not moved yet, or has been put back before.
PriorInPlace == seen[Target(file)] = "old"

RollBack ==
  /\ at = "rollback"
  /\ IF Has(Rollback(file))
       THEN IF seen[Rollback(file)] = "old"
              THEN Removed(Target(file)) /\ Goes("putBack")
              ELSE Throws
     ELSE IF HadOriginal(file)
       THEN IF PriorInPlace THEN UNCHANGED disk /\ PreviousFile ELSE Throws
     ELSE Removed(Target(file)) /\ PreviousFile
  /\ Resting

PutBack ==
  /\ at = "putBack"
  /\ Renamed(Rollback(file), Target(file)) /\ Goes("syncPutBack")
  /\ Resting

SyncPutBack == at = "syncPutBack" /\ Synced(Target(file)) /\ PreviousFile /\ Resting

-----------------------------------------------------------------------------
(***************************************************************************)
(* Faults.                                                                 *)
(***************************************************************************)
Fault == faults < MaxFaults /\ faults' = faults + 1 /\ UNCHANGED meddling

Crash ==
  /\ Fault /\ at # "down"
  /\ at' = "down" /\ mode' = "startup"
  /\ UNCHANGED <<disk, file, published, outcome>>

\* The catch clause or startup went on from names it saw and nobody made durable, because
\* what it recovers was interrupted between a rename and the synchronisation: it has
\* published the receipt of a commit phase, or removed the transaction of a target or a
\* receipt, that a loss of power may still take back.
Hasty ==
  /\ mode # "restore"
  /\ \/ Has(Report) /\ durable[Journal] = "rollback-required" /\ durable[Root] # "none"
     \/ ~Has(Root) /\ \E n \in Names \ (Inner \cup {Root}) : durable[n] # seen[n]

PowerLoss ==
  /\ Fault /\ (HastyLosses \/ ~Hasty)
  /\ \E d \in Losses : seen' = d /\ durable' = d
  /\ moving' = {}
  /\ at' = "down" /\ mode' = "startup"
  /\ UNCHANGED <<file, published, outcome>>

\* The call the process is at fails.
CallFails == Fault /\ at \notin {"down", "running"} /\ Throws

Process ==
  \/ Begin \/ Stage \/ Publish \/ SyncPublished \/ Mark \/ SyncMark
  \/ CheckPreimages \/ MoveOriginal \/ SyncMoved \/ SyncSource \/ Install \/ SyncInstalled
  \/ Verify \/ Commit \/ SyncCommit
  \/ Finalize \/ PublishReceipt \/ SyncReport \/ Remove \/ SyncRemoved
  \/ Reconcile \/ RollBack \/ PutBack \/ SyncPutBack
  \/ Startup

Next ==
  \/ Process
  \/ \E r \in Files : Meddle(r)
  \/ Crash \/ PowerLoss \/ CallFails

\* The process goes on with what it is at, and is started again when it went down.
Spec == Init /\ [][Next]_vars /\ WF_vars(Process)

-----------------------------------------------------------------------------
(***************************************************************************)
(* Properties.                                                             *)
(***************************************************************************)
\* The generation before the restore; what somebody else wrote is left to him.
Prior == \A r \in Files : seen[Target(r)] \in {Before(r), "other"}

\* The storage opens on one generation whole, the one before the restore or the restored
\* one, whatever was interrupted where, as long as the power does not go where Hasty says
\* (rollbackRecordsSync, finalizeCommittedTransactionSync).
OneGenerationWhole == at = "running" => Prior \/ AllInstalled

\* Below the commit point a copy of every file of the prior generation is on the disk,
\* whatever a loss of power left of the renames (moveOriginalToRollback).  RestoreHasty
\* refutes it for a loss of power after a crash or a failing call, while a recovery has
\* acted on names that nobody synchronised.
PriorSurvives ==
  \A r \in Files :
    HadOriginal(r) /\ Has(Root) /\ seen[Journal] = "rollback-required" =>
      \/ seen[Target(r)] \in {"old", "other"}
      \/ seen[Rollback(r)] = "old"

\* The published receipt tells what is there: there is one exactly if the storage opens
\* on the restored generation, and it is never taken back, as long as the power does not
\* go where Hasty says.
ReceiptIsTrue ==
  /\ Has(Report) => AllInstalled
  /\ at = "running" /\ AllInstalled => Has(Report)

\* A restore that was acknowledged survives every later crash and loss of power.
AcknowledgedIsDurable == outcome = "restored" => AllInstalled

\* The transaction's directory without its journal: its removal was interrupted.
HalfRemoved == seen[Root] = "transaction" /\ ~Has(Journal)

\* Startup cannot verify the prior generation, because somebody else changed it.
FailsClosed ==
  /\ seen[Root] = "transaction" /\ seen[Journal] = "rollback-required"
  /\ \E r \in Files : HadOriginal(r) /\ seen[Target(r)] = "other"

\* After every crash the storage opens again, unless what it finds is one of these.
StartupRecovers == at = "down" ~> at = "running" \/ HalfRemoved \/ FailsClosed

\* What RestoreHalfRemoved refutes: an interrupted transaction is reconciled at startup.
StartupReconciles == at = "down" ~> at = "running" \/ FailsClosed

\* What RestoreReported refutes: a restore that failed restored the prior state.
FailedMeansPrior == outcome = "failed" => Prior

\* What RestoreMeddled refutes: a file somebody else made is left alone.
OthersAreLeftAlone ==
  [][\A r \in Files : seen[Target(r)] = "other" => seen'[Target(r)] = "other"]_vars
=================================================================================
