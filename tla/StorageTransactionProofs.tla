------------------------ MODULE StorageTransactionProofs ------------------------
(***************************************************************************)
(* Theorems about the two transactions of the storage (packages/foundation *)
(* /src/storage), which share no state.                                    *)
(*                                                                         *)
(* RestoreTransaction, for any number of files, crashes, losses of power,  *)
(* failing calls and changes by somebody else: whichever generation of the *)
(* governed files the storage opens on is whole, and what a restore told   *)
(* its caller remains true.                                                *)
(*                                                                         *)
(* A transaction passes through three stages, and the invariant says what  *)
(* is on the disk in each of them, seen and durable:                       *)
(*   Untouched: no file has been moved yet (the journal may be there);     *)
(*   Working:   of each file that is replaced a copy is kept, under its    *)
(*              own name or where it was moved to, or on the way between;  *)
(*   Committed: the new files are durable under their names, and what is   *)
(*              left is to publish the receipt and to clean up.            *)
(* Crashes, losses of power and startup move between stages only where     *)
(* the journal says so.  For the first three theorems the power is assumed *)
(* not to go where RestoreHasty.cfg shows that the code has no defence     *)
(* (HastyLosses = FALSE); that a restore that was acknowledged is never    *)
(* undone needs no such assumption.                                        *)
(*                                                                         *)
(* ServiceManifests, for every set of services, manifests and requests and *)
(* every capacity: the open versions are the entries of the candidate set, *)
(* and every version that was closed lies in the past of the candidate, so *)
(* that the interval tests of readSnapshot tell the two sets apart.        *)
(***************************************************************************)
EXTENDS RestoreTransaction, ServiceManifests, FiniteSetTheorems, TLAPS

\* What is seen under a name, and what would survive a loss of power.
Both(n, what) == seen[n] = what /\ durable[n] = what
Clean(n) == seen[n] = durable[n]

\* Where a restore works on the files.
RestorePlaces ==
  {"move", "syncMoved", "syncSource", "install", "syncInstalled", "verify", "commit"}

\* What the steps need to know of the variables' shapes.  The receipt is never taken back.
Shape ==
  /\ seen = [n \in Names |-> seen[n]] /\ durable = [n \in Names |-> durable[n]]
  /\ moving \subseteq Names \X Names
  /\ file \in Files
  /\ mode \in {"restore", "catch", "startup"}
  /\ durable[Report] # "none" => Has(Report)

-----------------------------------------------------------------------------
(***************************************************************************)
(* Untouched.  A target may have been changed by somebody else; it was     *)
(* not by the restore.                                                     *)
(***************************************************************************)
TargetUntouched(r) == Clean(Target(r)) /\ seen[Target(r)] \in {Before(r), "other"}
NotMoved(r) == Both(Rollback(r), "none")

UntouchedPlace ==
  /\ at \in {"begin", "stage", "publish", "syncPublished", "mark", "syncMark", "check",
             "reconcile", "rollback", "remove", "syncRemoved", "down", "running"}
  /\ at \in {"reconcile", "rollback", "remove", "syncRemoved"} => mode # "restore"
  /\ at \in {"begin", "stage", "publish", "syncPublished", "mark", "syncMark", "check"} =>
       mode = "restore"
  /\ at = "syncPublished" => seen[Root] = "transaction"
  /\ at \in {"mark", "syncMark", "check"} => Both(Root, "transaction")
  /\ at = "syncMark" => seen[Journal] = "rollback-required"
  /\ at = "check" => Both(Journal, "rollback-required")

Untouched ==
  /\ \A r \in Files : TargetUntouched(r) /\ NotMoved(r)
  /\ Both(Report, "none")
  /\ {seen[Journal], durable[Journal]} \subseteq {"none", "prepared", "rollback-required"}
  /\ UntouchedPlace

-----------------------------------------------------------------------------
(***************************************************************************)
(* Working.                                                                *)
(***************************************************************************)
\* File r is as if it had not been moved.
Undone(r) == seen[Target(r)] = Before(r) /\ seen[Rollback(r)] = "none"

\* A copy of the original of r that survives a loss of power, which leaves a rename done
\* or not done while neither of its directories was synchronised.
SomeCopy(r) ==
  \/ Both(Target(r), "old")
  \/ Both(Rollback(r), "old")
  \/ /\ <<Target(r), Rollback(r)>> \in moving
     /\ seen[Rollback(r)] = "old" /\ durable[Target(r)] = "old"
  \/ /\ <<Rollback(r), Target(r)>> \in moving
     /\ durable[Rollback(r)] = "old" /\ seen[Target(r)] = "old"

Kept(r) ==
  IF HadOriginal(r)
  THEN /\ {seen[Rollback(r)], durable[Rollback(r)]} \subseteq {"none", "old"}
       /\ SomeCopy(r)
       /\ seen[Rollback(r)] = "old" /\ Has(Target(r)) => durable[Rollback(r)] = "old"
  ELSE NotMoved(r)

\* What r had to move is moved, durably.
Moved(r) == HadOriginal(r) => Both(Rollback(r), "old")
Replaced(r) == Clean(Target(r)) /\ Moved(r)
Waiting(r) == Both(Target(r), Before(r)) /\ NotMoved(r)

\* The file the restore is at, and how far the others are.
FileAtWork(r) ==
  CASE at = "move" -> Waiting(r)
    [] at = "syncMoved" -> /\ HadOriginal(r) /\ <<Target(r), Rollback(r)>> \in moving
                           /\ seen[Rollback(r)] = "old" /\ durable[Target(r)] = "old" 
                           /\ seen[Target(r)] = "none"
    [] at = "syncSource" -> HadOriginal(r) /\ Moved(r) /\ seen[Target(r)] = "none"
    [] at = "install" -> Moved(r) /\ Both(Target(r), "none")
    [] at = "syncInstalled" -> Moved(r)
    [] OTHER -> Replaced(r)

RestoreProgress ==
  /\ mode = "restore" /\ Both(Root, "transaction") /\ Both(Journal, "rollback-required")
  /\ \A r \in Files : /\ r < file => Replaced(r)
                      /\ r > file => IF at \in {"verify", "commit"} THEN Replaced(r) ELSE Waiting(r)
                      /\ r = file => FileAtWork(r)
  /\ at = "commit" => AllInstalled

\* The rollback goes from the last file to the first.
RollbackProgress ==
  /\ Has(Root) /\ mode # "restore"
  /\ \A r \in Files : r > file => Undone(r)
  /\ at = "putBack" => seen[Rollback(file)] = "old" /\ seen[Target(file)] = "none"
  /\ at = "syncPutBack" =>
       HadOriginal(file) /\ seen[Target(file)] = "old" /\ seen[Rollback(file)] = "none"

RemovalOfPrior ==
  /\ mode # "restore"
  /\ \A r \in Files : Undone(r)
  /\ at = "syncRemoved" => ~Has(Root)

\* Where the process may be.
WorkingPlace ==
  \/ at \in RestorePlaces /\ RestoreProgress
  \/ at \in {"rollback", "putBack", "syncPutBack"} /\ RollbackProgress
  \/ at \in {"remove", "syncRemoved"} /\ RemovalOfPrior
  \/ at \in {"reconcile", "down"} /\ mode # "restore"
  \/ at = "running" /\ ~Has(Root)

Working ==
  /\ \A r \in Files : Kept(r)
  /\ Both(Report, "none")
  /\ {seen[Journal], durable[Journal]} \subseteq {"rollback-required", "none"}
  /\ {seen[Root], durable[Root]} \subseteq {"transaction", "none"}
  /\ Has(Root) => durable[Root] = "transaction"
  /\ ~Has(Root) => \A r \in Files : seen[Target(r)] = Before(r)
  /\ mode = "restore" => at \in RestorePlaces
  /\ WorkingPlace

-----------------------------------------------------------------------------
(***************************************************************************)
(* Committed.  As long as the commit point may be lost with the power, the *)
(* originals are kept; the transaction's directory goes last, and only     *)
(* when the receipt is durable.                                            *)
(***************************************************************************)
Unreported ==
  /\ Both(Root, "transaction")
  /\ \/ Both(Journal, "none") /\ at \in {"down", "reconcile"} /\ mode # "restore"
     \/ /\ seen[Journal] = "commit-complete"
        /\ durable[Journal] \in {"rollback-required", "commit-complete"}
        /\ durable[Journal] = "rollback-required" => \A r \in Files : Kept(r) /\ Moved(r)
        /\ at \in {"syncCommit", "finalize", "receipt", "down", "reconcile"}

Reported ==
  /\ Has(Root) => Both(Root, "transaction")
  /\ at \in {"finalize", "receipt", "syncReport", "remove", "syncRemoved", "down", "reconcile",
             "running"}
  /\ at \in {"finalize", "receipt", "syncReport"} => Has(Root) /\ seen[Journal] = "commit-complete"
  /\ at = "syncRemoved" => ~Has(Root)
  /\ mode = "restore" => /\ at \in {"syncReport", "remove", "syncRemoved", "down"}
                         /\ durable[Journal] = "commit-complete"
                         /\ at # "syncReport" => Clean(Report)

Committed ==
  /\ \A r \in Files : Both(Target(r), After(r))
  /\ seen[Journal] \in {"commit-complete", "none"}
  /\ durable[Journal] \in {"rollback-required", "commit-complete", "none"}
  /\ {seen[Root], durable[Root]} \subseteq {"transaction", "none"}
  /\ mode = "restore" /\ at # "syncCommit" => durable[Journal] = "commit-complete"
  /\ at = "reconcile" => mode # "restore"
  /\ IF Has(Report) THEN Reported ELSE Unreported

IInv ==
  /\ Shape
  /\ Untouched \/ Working \/ Committed
  /\ outcome = "restored" => Committed /\ durable[Report] # "none"

-----------------------------------------------------------------------------
\* No two names are the same.
NamesDiffer ==
  /\ \A r \in Files : /\ {Target(r), Rollback(r), Staged(r)} \subseteq Names
                      /\ {Rollback(r), Staged(r)} \subseteq Inner
                      /\ Target(r) \notin Inner \cup {Root, Report}
                      /\ Rollback(r) \notin {Journal, StagedReceipt}
                      /\ Staged(r) \notin {Journal, StagedReceipt}
                      /\ Target(r)[1] = "target" /\ Target(r)[2] = r /\ Rollback(r)[1] = "rollback"
  /\ \A r, s \in Files : /\ Target(r) = Target(s) => r = s
                         /\ Rollback(r) = Rollback(s) => r = s
                         /\ Staged(r) # Rollback(s)
  /\ Inner \subseteq Names
  /\ {Root, Report} \subseteq Names \ Inner /\ Root # Report
  /\ {Journal, StagedReceipt} \subseteq Inner /\ Journal # StagedReceipt
  /\ \A n \in Names \ Inner : n[1] # "staged"
  /\ \A n \in {Root, Report} : n[1] # "target"
  /\ Journal[1] # "staged"

LEMMA NameFacts == NamesDiffer
<1>1. \A r, s \in Files : Target(r) = Target(s) => r = s
  BY DEF Target
<1>2. \A r, s \in Files : Rollback(r) = Rollback(s) => r = s
  BY DEF Rollback
<1>3. \A r, s \in Files : Staged(r) # Rollback(s) /\ Target(r) # Rollback(s) /\ Target(r) # Staged(s)
  BY DEF Rollback, Staged, Target
<1>4. \A r \in Files : /\ Target(r) \notin {Root, Report, Journal, StagedReceipt}
                       /\ Rollback(r) \notin {Root, Report, Journal, StagedReceipt}
                       /\ Staged(r) \notin {Root, Report, Journal, StagedReceipt}
  BY DEF Rollback, Staged, Target, Root, Report, Journal, StagedReceipt
<1>5. /\ Root # Report /\ Root # Journal /\ Root # StagedReceipt /\ Report # Journal
      /\ Report # StagedReceipt /\ Journal # StagedReceipt
  BY DEF Root, Report, Journal, StagedReceipt
<1>6. \A r \in Files : Target(r)[1] = "target" /\ Target(r)[2] = r /\ Rollback(r)[1] = "rollback"
  BY DEF Target, Rollback
<1>7. (\A n \in {Root, Report} : n[1] \notin {"target", "staged"}) /\ Journal[1] # "staged"
  BY DEF Root, Report, Journal
<1>8. \A r \in Files : {Rollback(r), Staged(r)} \subseteq Inner /\ Target(r) \notin Inner
  BY <1>3, <1>4 DEF Inner
<1>9. Root \notin Inner /\ Report \notin Inner /\ Journal \in Inner /\ StagedReceipt \in Inner
  BY <1>4, <1>5 DEF Inner
<1> QED
  BY <1>1, <1>2, <1>3, <1>4, <1>5, <1>6, <1>7, <1>8, <1>9 DEF NamesDiffer, Names

LEMMA SyncedIs ==
  ASSUME Shape, NEW n \in Names, Synced(n)
  PROVE  /\ seen' = seen
         /\ durable' = [m \in Names |-> durable'[m]]
         /\ durable'[n] = seen[n]
         /\ \A m \in Names : m # n => durable'[m] = durable[m]
         /\ moving' \subseteq moving
         /\ \A m \in moving : m[1] # n /\ m[2] # n => m \in moving'
BY DEF Shape, Synced

LEMMA RenamedIs ==
  ASSUME Shape, NEW from \in Names, NEW to \in Names, from # to, Renamed(from, to)
  PROVE  /\ durable' = durable
         /\ seen' = [m \in Names |-> seen'[m]]
         /\ seen'[from] = "none" /\ seen'[to] = seen[from]
         /\ \A m \in Names : m # from /\ m # to => seen'[m] = seen[m]
         /\ moving' = moving \cup {<<from, to>>} /\ moving' \subseteq Names \X Names
<1>1. /\ durable' = durable
      /\ seen' = [m \in Names |-> seen'[m]]
      /\ seen'[from] = "none" /\ seen'[to] = seen[from]
      /\ \A m \in Names : m # from /\ m # to => seen'[m] = seen[m]
  BY DEF Shape, Renamed
<1>2. moving' = moving \cup {<<from, to>>} /\ moving \subseteq Names \X Names
  BY DEF Shape, Renamed
<1>3. <<from, to>> \in Names \X Names
  OBVIOUS
<1>4. moving' \subseteq Names \X Names
  BY <1>2, <1>3
<1> QED
  BY <1>1, <1>2, <1>4

LEMMA WrittenIs ==
  ASSUME Shape, NEW n \in Names, NEW what, Written(n, what)
  PROVE  /\ durable' = durable /\ moving' = moving
         /\ seen' = [m \in Names |-> seen'[m]]
         /\ seen'[n] = what
         /\ \A m \in Names : m # n => seen'[m] = seen[m]
BY DEF Shape, Written

LEMMA RemovedIs ==
  ASSUME Shape, NEW n \in Names, Removed(n)
  PROVE  /\ seen' = [m \in Names |-> seen'[m]]
         /\ durable' = [m \in Names |-> durable'[m]]
         /\ seen'[n] = "none"
         /\ Has(n) => durable'[n] = "none"
         /\ ~Has(n) => durable'[n] = durable[n]
         /\ \A m \in Names : m # n => seen'[m] = seen[m] /\ durable'[m] = durable[m]
         /\ moving' \subseteq moving
         /\ \A m \in moving : ~Has(n) \/ (m[1] # n /\ m[2] # n) => m \in moving'
<1>1. CASE Has(n)
  BY <1>1 DEF Shape, Removed, Has
<1>2. CASE ~Has(n)
  BY <1>2 DEF Shape, Removed, Has, disk
<1> QED
  BY <1>1, <1>2

\* What a loss of power leaves of each name, and of each rename.
LEMMA LossIs ==
  ASSUME Shape, NEW d \in Losses
  PROVE  /\ d = [n \in Names |-> d[n]]
         /\ \A n \in Names \ Inner : d[n] \in {seen[n], durable[n]}
         /\ \A n \in Inner : IF d[Root] = "none" THEN d[n] = "none"
                                                ELSE d[n] \in {seen[n], durable[n]}
         /\ d[Root] # "none" => \A m \in moving : d[m[1]] = durable[m[1]] \/ d[m[2]] = seen[m[2]]
<1> DEFINE Dirty == {n \in Names : seen[n] # durable[n]}
           Left(S) == [n \in Names |-> IF n \in S THEN seen[n] ELSE durable[n]]
<1>1. PICK S \in SUBSET Dirty :
        /\ \A m \in moving : m[2] \in S \/ m[1] \notin S
        /\ d = [n \in Names |-> IF Left(S)[Root] = "none" /\ n \in Inner THEN "none" ELSE Left(S)[n]]
  BY DEF Losses
<1>2. d[Root] = Left(S)[Root]
  BY <1>1, NameFacts DEF NamesDiffer
<1>3. \A n \in Names : Left(S)[n] \in {seen[n], durable[n]}
  OBVIOUS
<1>4. d[Root] # "none" => d = Left(S)
  BY <1>1, <1>2
<1>5. \A m \in moving : m[1] \in Names /\ m[2] \in Names
  BY DEF Shape
<1>6. \A m \in moving : Left(S)[m[1]] = durable[m[1]] \/ Left(S)[m[2]] = seen[m[2]]
  BY <1>1, <1>5
<1>7. Inner \subseteq Names
  BY NameFacts DEF NamesDiffer
<1> QED
  BY <1>1, <1>2, <1>3, <1>4, <1>6, <1>7

-----------------------------------------------------------------------------
(***************************************************************************)
(* The shape of the state.                                                 *)
(***************************************************************************)
LEMMA RecordFacts ==
  /\ Len(Records) \in Nat \ {0} /\ Files = 1..Len(Records)
  /\ \A r \in Files : Records[r] \in {"replace", "create", "delete"}
BY RestoreAssumption DEF Files

LEMMA WithoutFile ==
  ASSUME Shape, UNCHANGED <<file, durable>>, seen' = [n \in Names |-> seen'[n]],
         moving' \subseteq Names \X Names, mode' \in {mode, "catch", "startup"},
         Has(Report) => Has(Report)'
  PROVE  Shape'
BY DEF Shape

LEMMA DiskLeft ==
  ASSUME Shape, UNCHANGED disk, file' \in Files, mode' \in {mode, "catch", "startup"}
  PROVE  Shape'
BY DEF Shape, disk, Has

LEMMA ThrowsShape == ASSUME Shape, Throws PROVE Shape'
BY DEF Shape, Throws, Catches, disk, Has

LEMMA SyncedShape ==
  ASSUME Shape, NEW n \in Names, Synced(n), file' \in Files, mode' = mode
  PROVE  Shape'
<1>1. Report \in Names
  BY NameFacts DEF NamesDiffer
<1>2. durable'[Report] # "none" => Has(Report)'
  BY <1>1, SyncedIs DEF Shape, Has
<1> QED
  BY <1>2, SyncedIs DEF Shape

LEMMA WrittenShape ==
  ASSUME Shape, NEW n \in Names, NEW what, Written(n, what), file' \in Files, mode' = mode,
         n = Report => what # "none"
  PROVE  Shape'
<1>1. Report \in Names
  BY NameFacts DEF NamesDiffer
<1>2. durable'[Report] # "none" => Has(Report)'
  BY <1>1, WrittenIs DEF Shape, Has
<1> QED
  BY <1>2, WrittenIs DEF Shape

LEMMA RenamedShape ==
  ASSUME Shape, NEW from \in Names, NEW to \in Names, from # to, Renamed(from, to),
         file' \in Files, mode' = mode, from # Report, to = Report => Has(from)
  PROVE  Shape'
<1>1. Has(Report) => Has(Report)'
  BY RenamedIs, NameFacts DEF Has, NamesDiffer
<1> QED
  BY <1>1, RenamedIs DEF Shape, Has

LEMMA RemovedShape ==
  ASSUME Shape, NEW n \in Names \ {Report}, Removed(n), file' \in Files, mode' = mode
  PROVE  Shape'
<1>1. durable'[Report] = durable[Report] /\ seen'[Report] = seen[Report]
  BY RemovedIs, NameFacts DEF NamesDiffer
<1> QED
  BY <1>1, RemovedIs DEF Shape, Has

LEMMA MovesAlong ==
  ASSUME file \in Files
  PROVE  (NextFile => file' \in Files /\ mode' = mode) /\ (PreviousFile => file' \in Files /\ mode' = mode)
BY RecordFacts DEF NextFile, PreviousFile

LEMMA ShapeStep == ASSUME Shape, [Next]_vars PROVE Shape'
<1> USE NameFacts
<1>f. file \in Files /\ mode \in {"restore", "catch", "startup"}
  BY DEF Shape
<1>1. CASE Begin
  BY <1>1, <1>f, WrittenShape DEF Begin, Goes, NamesDiffer
<1>2. CASE Stage
  <2>1. /\ Report \in Names \ Inner /\ Report # Journal /\ Report # StagedReceipt
        /\ Report[1] # "staged"
    BY DEF NamesDiffer
  <2>2. seen'[Report] = seen[Report] /\ durable'[Report] = durable[Report]
    BY <1>2, <2>1 DEF Stage
  <2>3. seen' = [n \in Names |-> seen'[n]] /\ durable' = [n \in Names |-> durable'[n]]
    BY <1>2 DEF Stage
  <2> QED
    BY <1>2, <2>2, <2>3 DEF Stage, Goes, Shape, Has
<1>3. CASE Publish
  BY <1>3, <1>f, WrittenShape DEF Publish, Goes, NamesDiffer
<1>4. CASE SyncPublished
  BY <1>4, <1>f, SyncedShape DEF SyncPublished, NamesDiffer
<1>5. CASE Mark
  BY <1>5, <1>f, WrittenShape DEF Mark, Goes, NamesDiffer
<1>6. CASE SyncMark
  BY <1>6, <1>f, SyncedShape DEF SyncMark, Goes, NamesDiffer
<1>7. CASE CheckPreimages
  BY <1>7, <1>f, ThrowsShape, DiskLeft, RecordFacts DEF CheckPreimages
<1>8. CASE MoveOriginal
  BY <1>8, <1>f, RenamedShape, DiskLeft DEF MoveOriginal, Goes, NamesDiffer
<1>9. CASE SyncMoved
  BY <1>9, <1>f, SyncedShape DEF SyncMoved, MoveSyncs, Goes, NamesDiffer
<1>10. CASE SyncSource
  BY <1>10, <1>f, SyncedShape DEF SyncSource, MoveSyncs, Goes, NamesDiffer
<1>11. CASE Install
  BY <1>11, <1>f, RenamedShape, DiskLeft, MovesAlong DEF Install, Goes, NamesDiffer
<1>12. CASE SyncInstalled
  BY <1>12, <1>f, SyncedShape, MovesAlong DEF SyncInstalled, MakeInstalledDurable, NamesDiffer
<1>13. CASE Verify
  BY <1>13, <1>f, ThrowsShape, DiskLeft DEF Verify, Goes
<1>14. CASE Commit
  BY <1>14, <1>f, WrittenShape DEF Commit, Goes, NamesDiffer
<1>15. CASE SyncCommit
  BY <1>15, <1>f, SyncedShape DEF SyncCommit, MakeCommitDurable, Goes, NamesDiffer
<1>16. CASE Finalize
  BY <1>16, <1>f, ThrowsShape, DiskLeft DEF Finalize, Goes
<1>17. CASE PublishReceipt
  BY <1>17, <1>f, ThrowsShape, DiskLeft, WrittenShape, RenamedShape DEF PublishReceipt, Goes, NamesDiffer
<1>18. CASE SyncReport
  BY <1>18, <1>f, SyncedShape DEF SyncReport, Goes, NamesDiffer
<1>19. CASE Remove
  BY <1>19, <1>f, WrittenShape DEF Remove, Goes, NamesDiffer
<1>20. CASE SyncRemoved
  BY <1>20, <1>f, SyncedShape DEF SyncRemoved, NamesDiffer
<1>21. CASE Reconcile
  BY <1>21, <1>f, ThrowsShape, DiskLeft, RecordFacts DEF Reconcile, Goes
<1>22. CASE RollBack
  BY <1>22, <1>f, ThrowsShape, DiskLeft, RemovedShape, MovesAlong DEF RollBack, Goes, NamesDiffer
<1>23. CASE PutBack
  BY <1>23, <1>f, RenamedShape DEF PutBack, Goes, NamesDiffer
<1>24. CASE SyncPutBack
  BY <1>24, <1>f, SyncedShape, MovesAlong DEF SyncPutBack, NamesDiffer
<1>25. CASE Startup
  BY <1>25, <1>f, DiskLeft DEF Startup
<1>26. ASSUME NEW r \in Files, Meddle(r) PROVE Shape'
  BY <1>26 DEF Meddle, Shape, control, NamesDiffer, Has
<1>27. CASE Crash
  BY <1>27, <1>f, DiskLeft DEF Crash
<1>28. CASE PowerLoss
  BY <1>28, LossIs DEF PowerLoss, Shape, Has
<1>29. CASE CallFails
  BY <1>29, ThrowsShape DEF CallFails
<1>30. CASE UNCHANGED vars
  BY <1>30, <1>f, DiskLeft DEF vars, control
<1> QED
  BY <1>1, <1>2, <1>3, <1>4, <1>5, <1>6, <1>7, <1>8, <1>9, <1>10, <1>11, <1>12, <1>13, <1>14,
     <1>15, <1>16, <1>17, <1>18, <1>19, <1>20, <1>21, <1>22, <1>23, <1>24, <1>25, <1>26, <1>27,
     <1>28, <1>29, <1>30 DEF Next, Process

\* What throws leaves the disk alone, and never goes on with the restore.
LEMMA ThrowsIs ==
  ASSUME Throws, Shape
  PROVE  /\ UNCHANGED <<seen, durable, moving, file>>
         /\ mode' # "restore"
         /\ \/ at' = "reconcile"
            \/ at' = "remove" /\ seen[Root] = "pending"
            \/ at' = "down"
         /\ outcome' # "restored" \/ outcome' = outcome
BY DEF Throws, Catches, Shape, disk

-----------------------------------------------------------------------------
(***************************************************************************)
(* Nothing was moved yet.                                                  *)
(***************************************************************************)
FilesUntouched == \A r \in Files : TargetUntouched(r) /\ NotMoved(r)

LEMMA FilesStay ==
  ASSUME FilesUntouched,
         \A r \in Files : /\ UNCHANGED <<seen[Target(r)], durable[Target(r)]>>
                          /\ UNCHANGED <<seen[Rollback(r)], durable[Rollback(r)]>>
  PROVE  FilesUntouched'
BY DEF FilesUntouched, TargetUntouched, NotMoved, Both, Clean

LEMMA UntouchedStep ==
  ASSUME Shape, Untouched, [Next]_vars, PowerLoss => ~Hasty
  PROVE  (Untouched \/ Working)'
<1> USE NameFacts
<1>f. file \in Files /\ mode \in {"restore", "catch", "startup"} /\ FilesUntouched
  BY DEF Shape, Untouched, FilesUntouched
<1> SUFFICES Untouched' \/ Working'
  OBVIOUS
<1>1. CASE Begin
  <2>1. FilesUntouched'
    BY <1>1, <1>f, WrittenIs, FilesStay DEF Begin, NamesDiffer
  <2>2. /\ durable' = durable /\ seen'[Report] = seen[Report]
        /\ seen'[Root] = "pending"
        /\ seen'[Journal] = seen[Journal]
    BY <1>1, WrittenIs DEF Begin, NamesDiffer
  <2> QED
    BY <1>1, <2>1, <2>2 DEF Untouched, FilesUntouched, UntouchedPlace, Begin, Goes, Both
<1>2. CASE Stage
  <2>1. \A n \in Names \ Inner : UNCHANGED <<seen[n], durable[n]>>
    <3> TAKE n \in Names \ Inner
    <3>1. n # Journal /\ n # StagedReceipt /\ n[1] # "staged"
      BY DEF NamesDiffer
    <3> QED
      BY <1>2, <3>1 DEF Stage
  <2>2. \A r \in Files : UNCHANGED <<seen[Rollback(r)], durable[Rollback(r)]>>
    <3> TAKE r \in Files
    <3>1. /\ Rollback(r) # Journal /\ Rollback(r) # StagedReceipt /\ Rollback(r)[1] # "staged"
          /\ Rollback(r) \in Inner /\ Rollback(r) \in Names
      BY DEF NamesDiffer
    <3>2. seen'[Rollback(r)] = seen[Rollback(r)] /\ durable'[Rollback(r)] = seen'[Rollback(r)]
      BY <1>2, <3>1 DEF Stage
    <3> QED
      BY <3>2, <1>f DEF FilesUntouched, NotMoved, Both
  <2>3. \A r \in Files : UNCHANGED <<seen[Target(r)], durable[Target(r)]>>
    BY <2>1 DEF NamesDiffer
  <2>4. seen'[Journal] = "prepared" /\ durable'[Journal] = "prepared"
    <3>1. /\ Journal \in Inner /\ Journal \in Names
          /\ Journal # StagedReceipt /\ Journal[1] # "staged"
      BY DEF NamesDiffer
    <3> QED
      BY <1>2, <3>1 DEF Stage
  <2>5. Both(Report, "none")'
    BY <2>1 DEF NamesDiffer, Both, Untouched
  <2>6. FilesUntouched'
    BY <1>f, <2>2, <2>3, FilesStay
  <2> QED
    BY <1>2, <2>4, <2>5, <2>6 DEF Untouched, FilesUntouched, UntouchedPlace, Stage, Goes
<1>3. CASE Publish
  <2>1. FilesUntouched'
    BY <1>3, <1>f, WrittenIs, FilesStay DEF Publish, NamesDiffer
  <2>2. /\ durable' = durable /\ seen'[Report] = seen[Report]
        /\ seen'[Root] = "transaction"
        /\ seen'[Journal] = seen[Journal]
    BY <1>3, WrittenIs DEF Publish, NamesDiffer
  <2> QED
    BY <1>3, <2>1, <2>2 DEF Untouched, FilesUntouched, UntouchedPlace, Publish, Goes, Both
<1>4. CASE SyncPublished
  <2>1. FilesUntouched'
    BY <1>4, <1>f, SyncedIs, FilesStay DEF SyncPublished, NamesDiffer
  <2>2. Both(Root, "transaction")' /\ UNCHANGED <<seen, durable[Report], durable[Journal]>>
    BY <1>4, SyncedIs DEF SyncPublished, NamesDiffer, Both, Untouched, UntouchedPlace
  <2> QED
    BY <1>4, <2>1, <2>2 DEF Untouched, FilesUntouched, UntouchedPlace, SyncPublished, Both
<1>5. CASE Mark
  <2>1. FilesUntouched'
    BY <1>5, <1>f, WrittenIs, FilesStay DEF Mark, NamesDiffer
  <2>2. /\ durable' = durable /\ seen'[Report] = seen[Report]
        /\ seen'[Journal] = "rollback-required"
        /\ seen'[Root] = seen[Root]
    BY <1>5, WrittenIs DEF Mark, NamesDiffer
  <2> QED
    BY <1>5, <2>1, <2>2 DEF Untouched, FilesUntouched, UntouchedPlace, Mark, Goes, Both
<1>6. CASE SyncMark
  <2>1. FilesUntouched'
    BY <1>6, <1>f, SyncedIs, FilesStay DEF SyncMark, NamesDiffer
  <2>2. /\ UNCHANGED <<seen, durable[Report], durable[Root]>>
        /\ durable'[Journal] = "rollback-required"
    BY <1>6, SyncedIs DEF SyncMark, NamesDiffer, Untouched, UntouchedPlace
  <2> QED
    BY <1>6, <2>1, <2>2 DEF Untouched, FilesUntouched, UntouchedPlace, SyncMark, Goes, Both
<1>7. CASE CheckPreimages
  <2>1. CASE \A r \in Files : seen[Target(r)] = Before(r)
    <3>1. /\ UNCHANGED <<seen, durable, moving, mode>> /\ at' = "move" /\ file' = 1
      BY <1>7, <2>1 DEF CheckPreimages, disk
    <3>2. Both(Root, "transaction") /\ Both(Journal, "rollback-required") /\ mode = "restore" /\ Both(Report, "none")
      BY <1>7 DEF CheckPreimages, Untouched, UntouchedPlace
    <3>3. \A r \in Files : Waiting(r)
      BY <2>1, <1>f DEF Waiting, FilesUntouched, TargetUntouched, Clean, Both
    <3>4. \A r \in Files : Waiting(r)'
      BY <3>1, <3>3 DEF Waiting, NotMoved, Both
    <3>5. \A r \in Files : Kept(r)'
      BY <3>4 DEF Kept, SomeCopy, Waiting, NotMoved, Both, Before, Has
    <3>6. \A r \in Files : ~(r < file')
      BY <3>1, RecordFacts
    <3>7. RestoreProgress'
      BY <3>1, <3>2, <3>4, <3>6 DEF RestoreProgress, FileAtWork, Both
    <3> QED
      BY <3>1, <3>2, <3>5, <3>7 DEF Working, WorkingPlace, RestorePlaces, Both, Has
  <2>2. CASE Throws
    BY <2>2, <1>f, ThrowsIs, FilesStay DEF Untouched, FilesUntouched, UntouchedPlace, Both
  <2> QED
    BY <1>7, <2>1, <2>2 DEF CheckPreimages
<1>19. CASE Remove
  <2>1. ASSUME NEW n \in Inner, Has(n), Written(n, "none"), Goes("remove") PROVE Untouched'
    <3>1. \A r \in Files : n # Rollback(r) /\ n # Target(r)
      BY <2>1, <1>f DEF FilesUntouched, NotMoved, Both, Has, NamesDiffer
    <3>2. n \in Names /\ n # Report /\ n # Root
      BY DEF NamesDiffer
    <3>3. FilesUntouched'
      BY <2>1, <3>1, <3>2, <1>f, WrittenIs, FilesStay DEF NamesDiffer
    <3>4. Both(Report, "none")' /\ seen'[Journal] \in {seen[Journal], "none"} /\ durable' = durable
      BY <2>1, <3>2, WrittenIs DEF NamesDiffer, Untouched, Both
    <3> QED
      BY <1>19, <2>1, <3>3, <3>4 DEF Untouched, FilesUntouched, UntouchedPlace, Remove, Goes
  <2>2. CASE Written(Root, "none") /\ Goes("syncRemoved")
    <3>1. FilesUntouched'
      BY <2>2, <1>f, WrittenIs, FilesStay DEF NamesDiffer
    <3>2. UNCHANGED <<durable, seen[Report], seen[Journal]>>
      BY <2>2, WrittenIs DEF NamesDiffer
    <3> QED
      BY <1>19, <2>2, <3>1, <3>2 DEF Untouched, FilesUntouched, UntouchedPlace, Remove, Goes, Both
  <2> QED
    BY <1>19, <2>1, <2>2 DEF Remove
<1>20. CASE SyncRemoved
  <2>1. at' \in {"running", "down"}
    BY <1>20 DEF SyncRemoved
  <2>2. FilesUntouched'
    BY <1>20, <1>f, SyncedIs, FilesStay DEF SyncRemoved, NamesDiffer
  <2> QED
    BY <1>20, <2>1, <2>2, SyncedIs DEF Untouched, FilesUntouched, UntouchedPlace, SyncRemoved, NamesDiffer, Both
<1>21. CASE Reconcile
  <2>1. CASE Throws
    BY <2>1, <1>f, ThrowsIs, FilesStay DEF Untouched, FilesUntouched, UntouchedPlace, Both
  <2>2. CASE UNCHANGED disk /\ at' \in {"running", "remove", "rollback"} /\ mode' = mode
    <3>1. mode # "restore"
      BY <1>21 DEF Reconcile, Untouched, UntouchedPlace
    <3> QED
      BY <2>2, <3>1, <1>f, FilesStay DEF Untouched, FilesUntouched, UntouchedPlace, Both, disk
  <2>3. Has(Journal) => PhaseLeadsTo \in {"remove", "rollback"}
    BY DEF PhaseLeadsTo, Untouched, Has
  <2> QED
    BY <1>21, <2>1, <2>2, <2>3 DEF Reconcile, Goes
<1>22. CASE RollBack
  <2>1. CASE Throws
    BY <2>1, <1>f, ThrowsIs, FilesStay DEF Untouched, FilesUntouched, UntouchedPlace, Both
  <2>2. CASE UNCHANGED disk /\ PreviousFile
    BY <1>22, <2>2, <1>f, FilesStay DEF RollBack, PreviousFile, Untouched, FilesUntouched, UntouchedPlace, Both, disk
  <2>3. CASE ~HadOriginal(file) /\ Removed(Target(file)) /\ PreviousFile
    <3>1. seen'[Target(file)] = "none" /\ durable'[Target(file)] = "none"
      BY <2>3, <1>f, RemovedIs DEF NamesDiffer, FilesUntouched, TargetUntouched, Clean, Has
    <3>2. \A n \in Names : n # Target(file) => UNCHANGED <<seen[n], durable[n]>>
      BY <2>3, <1>f, RemovedIs DEF NamesDiffer
    <3>3. \A r \in Files : TargetUntouched(r)'
      BY <2>3, <3>1, <3>2, <1>f DEF FilesUntouched, TargetUntouched, Clean, Before, NamesDiffer
    <3>4. \A s \in Files : NotMoved(s)'
      BY <3>2, <1>f DEF FilesUntouched, NotMoved, Both, NamesDiffer
    <3>5. \A n \in {Report, Root, Journal} : UNCHANGED <<seen[n], durable[n]>>
      BY <3>2, <1>f DEF NamesDiffer
    <3> QED
      BY <1>22, <2>3, <3>3, <3>4, <3>5 DEF RollBack, PreviousFile, Untouched, UntouchedPlace, Both
  <2>4. ~Has(Rollback(file))
    BY <1>f DEF FilesUntouched, NotMoved, Both, Has
  <2> QED
    BY <1>22, <2>1, <2>2, <2>3, <2>4 DEF RollBack
<1>25. CASE Startup
  BY <1>25, <1>f, FilesStay DEF Startup, Untouched, FilesUntouched, UntouchedPlace, disk, Both
<1>26. ASSUME NEW r \in Files, Meddle(r) PROVE Untouched'
  <2>1. /\ seen' = [seen EXCEPT ![Target(r)] = "other"]
        /\ durable' = [durable EXCEPT ![Target(r)] = "other"]
        /\ UNCHANGED <<at, file, mode>>
    BY <1>26 DEF Meddle, control
  <2>2. seen'[Target(r)] = "other" /\ durable'[Target(r)] = "other"
    BY <2>1 DEF Shape, NamesDiffer
  <2>3. \A n \in Names : n # Target(r) => UNCHANGED <<seen[n], durable[n]>>
    BY <2>1 DEF Shape
  <2>4. \A s \in Files : TargetUntouched(s)'
    BY <2>2, <2>3, <1>f DEF FilesUntouched, TargetUntouched, Clean, NamesDiffer
  <2>5. \A s \in Files : NotMoved(s)'
    BY <2>3, <1>f DEF FilesUntouched, NotMoved, Both, NamesDiffer
  <2>6. \A n \in {Report, Root, Journal} : UNCHANGED <<seen[n], durable[n]>>
    BY <2>3 DEF NamesDiffer
  <2> QED
    BY <2>1, <2>4, <2>5, <2>6 DEF Untouched, UntouchedPlace, Both
<1>27. CASE Crash
  BY <1>27, <1>f, FilesStay DEF Crash, Untouched, FilesUntouched, UntouchedPlace, disk, Both
<1>28. CASE PowerLoss
  <2>1. PICK d \in Losses : seen' = d /\ durable' = d
    BY <1>28 DEF PowerLoss
  <2>2. \A r \in Files : TargetUntouched(r)'
    BY <2>1, <1>f, LossIs DEF FilesUntouched, TargetUntouched, Clean, NamesDiffer
  <2>3. \A r \in Files : NotMoved(r)'
    BY <2>1, <1>f, LossIs DEF FilesUntouched, NotMoved, Both, NamesDiffer
  <2>4. Both(Report, "none")'
    BY <2>1, LossIs DEF Untouched, Both, NamesDiffer
  <2>5. seen'[Journal] \in {"none", seen[Journal], durable[Journal]} /\ durable'[Journal] = seen'[Journal]
    BY <2>1, LossIs DEF NamesDiffer
  <2> QED
    BY <1>28, <2>2, <2>3, <2>4, <2>5 DEF PowerLoss, Untouched, UntouchedPlace
<1>29. CASE CallFails
  BY <1>29, <1>f, ThrowsIs, FilesStay DEF CallFails, Untouched, FilesUntouched, UntouchedPlace, Both
<1>30. CASE UNCHANGED vars
  BY <1>30, <1>f, FilesStay DEF vars, control, Untouched, FilesUntouched, UntouchedPlace, disk, Both
<1>31. at \notin {"move", "syncMoved", "syncSource", "install", "syncInstalled", "verify", "commit",
                  "syncCommit", "finalize", "receipt", "syncReport", "putBack", "syncPutBack"}
  BY DEF Untouched, UntouchedPlace
<1> QED
  BY <1>1, <1>2, <1>3, <1>4, <1>5, <1>6, <1>7, <1>19, <1>20, <1>21, <1>22, <1>25, <1>26, <1>27,
     <1>28, <1>29, <1>30, <1>31 
  DEF Next, Process, MoveOriginal, SyncMoved, SyncSource, Install, SyncInstalled, Verify, Commit,
      SyncCommit, Finalize, PublishReceipt, SyncReport, PutBack, SyncPutBack

-----------------------------------------------------------------------------
(***************************************************************************)
(* Files are moved, installed and put back.                                *)
(***************************************************************************)
\* Nothing happens to the names of a file.
Apart(r) ==
  /\ UNCHANGED <<seen[Target(r)], durable[Target(r)], seen[Rollback(r)], durable[Rollback(r)]>>
  /\ \A m \in {<<Target(r), Rollback(r)>>, <<Rollback(r), Target(r)>>} : m \in moving => m \in moving'

NothingElse ==
  UNCHANGED <<seen[Root], durable[Root], seen[Journal], durable[Journal], seen[Report], durable[Report]>>

LEMMA ApartKeeps ==
  ASSUME NEW r \in Files, Apart(r)
  PROVE  /\ Kept(r) => Kept(r)'
         /\ Waiting(r) => Waiting(r)'
         /\ Replaced(r) => Replaced(r)'
         /\ Moved(r) => Moved(r)'
         /\ Undone(r) => Undone(r)'
<1>1. Kept(r) => Kept(r)'
  BY DEF Apart, Kept, SomeCopy, NotMoved, Both, Has
<1> QED
  BY <1>1 DEF Apart, Waiting, Replaced, Moved, Undone, NotMoved, Both, Clean

LEMMA SyncedApart ==
  ASSUME Shape, NEW f \in Files, NEW n \in {Target(f), Rollback(f)}, Synced(n)
  PROVE  NothingElse /\ \A r \in Files \ {f} : Apart(r)
<1> USE NameFacts
<1>1. n \in Names /\ n \notin {Root, Report, Journal}
  BY DEF NamesDiffer
<1>2. NothingElse
  BY <1>1, SyncedIs DEF NothingElse, NamesDiffer
<1>3. ASSUME NEW r \in Files \ {f} PROVE Apart(r)
  <2>1. Target(r) \in Names /\ Rollback(r) \in Names /\ Target(r) # n /\ Rollback(r) # n
    BY DEF NamesDiffer
  <2> QED
    BY <2>1, <1>1, SyncedIs DEF Apart
<1> QED
  BY <1>2, <1>3

LEMMA RenamedApart ==
  ASSUME Shape, NEW f \in Files,
         NEW from \in {Target(f), Rollback(f), Staged(f)}, NEW to \in {Target(f), Rollback(f)},
         from # to, Renamed(from, to)
  PROVE  NothingElse /\ \A r \in Files \ {f} : Apart(r)
<1> USE NameFacts
<1>1. /\ from \in Names /\ from \notin {Root, Report, Journal}
      /\ to \in Names /\ to \notin {Root, Report, Journal}
  BY DEF NamesDiffer
<1>2. NothingElse
  BY <1>1, RenamedIs DEF NothingElse, NamesDiffer
<1>3. ASSUME NEW r \in Files \ {f} PROVE Apart(r)
  <2>1. /\ Target(r) \in Names /\ Target(r) # from /\ Target(r) # to
        /\ Rollback(r) \in Names /\ Rollback(r) # from /\ Rollback(r) # to
    BY DEF NamesDiffer
  <2> QED
    BY <2>1, <1>1, RenamedIs DEF Apart
<1> QED
  BY <1>2, <1>3

LEMMA RemovedApart ==
  ASSUME Shape, NEW f \in Files, Removed(Target(f))
  PROVE  NothingElse /\ \A r \in Files \ {f} : Apart(r)
<1> USE NameFacts
<1>1. Target(f) \in Names /\ Target(f) \notin {Root, Report, Journal}
  BY DEF NamesDiffer
<1>2. NothingElse
  BY <1>1, RemovedIs DEF NothingElse, NamesDiffer
<1>3. ASSUME NEW r \in Files \ {f} PROVE Apart(r)
  <2>1. /\ Target(r) \in Names /\ Target(r) # Target(f)
        /\ Rollback(r) \in Names /\ Rollback(r) # Target(f)
    BY DEF NamesDiffer
  <2> QED
    BY <2>1, <1>1, RemovedIs DEF Apart
<1> QED
  BY <1>2, <1>3

LEMMA LeftApart ==
  ASSUME UNCHANGED disk
  PROVE  NothingElse /\ \A r \in Files : Apart(r)
BY DEF disk, NothingElse, Apart

\* The record at work is done with.
LEMMA NextFileProgress ==
  ASSUME Shape, RestoreProgress, at \in {"install", "syncInstalled"}, NextFile, NothingElse,
         NEW f \in Files, f = file, Replaced(f)', \A r \in Files \ {f} : Apart(r)
  PROVE  RestoreProgress' /\ at' \in {"move", "verify"}
<1>4. \A r \in Files : r \in Nat
  BY RecordFacts DEF Shape
<1>1. \A r \in Files : r < file => Replaced(r)'
  BY <1>4, ApartKeeps DEF RestoreProgress
<1>2. \A r \in Files : r > file => Waiting(r)'
  BY <1>4, ApartKeeps DEF RestoreProgress
<1>3. mode' = "restore" /\ Both(Root, "transaction")' /\ Both(Journal, "rollback-required")'
  BY DEF RestoreProgress, NextFile, NothingElse, Both
<1>5. CASE at' = "move" /\ file' = file + 1
  <2>1. \A r \in Files : r < file' => Replaced(r)'
    BY <1>1, <1>4, <1>5
  <2>2. \A r \in Files : r >= file' => Waiting(r)'
    BY <1>2, <1>4, <1>5
  <2>3. \A r \in Files : r > file' \/ r = file' => Waiting(r)'
    BY <2>2, <1>4, <1>5
  <2> QED
    BY <1>3, <1>5, <2>1, <2>3 DEF RestoreProgress, FileAtWork
<1>6. CASE at' = "verify" /\ file' = file /\ ~(file < Len(Records))
  <2>1. \A r \in Files : Replaced(r)'
    BY <1>1, <1>4, <1>6, RecordFacts
  <2> QED
    BY <1>3, <1>6, <2>1 DEF RestoreProgress, FileAtWork
<1> QED
  BY <1>5, <1>6 DEF NextFile

LEMMA RestoreStays ==
  ASSUME Working, NothingElse, \A r \in Files : Kept(r)', RestoreProgress', at' \in RestorePlaces
  PROVE  Working'
BY DEF Working, WorkingPlace, NothingElse, Both, RestoreProgress, Has

\* The record at work is gone on with.
LEMMA FileGoesOn ==
  ASSUME Shape, Working, RestoreProgress, NEW f \in Files, f = file,
         at \in {"move", "syncMoved", "syncSource", "install"},
         Goes(at'), at' \in {"syncMoved", "syncSource", "install", "syncInstalled"},
         NothingElse, \A r \in Files \ {f} : Apart(r), Kept(f)', FileAtWork(f)'
  PROVE  Working'
<1>1. file' = f /\ mode' = mode
  BY DEF Goes
<1>2. \A r \in Files : Kept(r)'
  BY ApartKeeps DEF Working
<1>3. \A r \in Files : r \in Nat
  BY RecordFacts
<1>4. \A r \in Files : r < f => Replaced(r)'
  BY <1>3, ApartKeeps DEF RestoreProgress
<1>5. \A r \in Files : r > f => Waiting(r)'
  BY <1>3, ApartKeeps DEF RestoreProgress
<1>6. mode' = "restore" /\ Both(Root, "transaction")' /\ Both(Journal, "rollback-required")'
  BY <1>1 DEF RestoreProgress, NothingElse, Both
<1>7. RestoreProgress'
  BY <1>1, <1>3, <1>4, <1>5, <1>6 DEF RestoreProgress
<1> QED
  BY <1>2, <1>7, RestoreStays DEF RestorePlaces

LEMMA WorkingAt ==
  ASSUME Working, at \in RestorePlaces
  PROVE  RestoreProgress
BY DEF Working, WorkingPlace, RestorePlaces

LEMMA MovingStep ==
  ASSUME Shape, Working, MoveOriginal \/ SyncMoved \/ SyncSource \/ Install \/ SyncInstalled
  PROVE  Working'
<1> USE NameFacts
<1> SUFFICES ASSUME NEW f \in Files, f = file PROVE Working'
  BY DEF Shape
<1>1. at \in {"move", "syncMoved", "syncSource", "install", "syncInstalled"}
  BY DEF MoveOriginal, SyncMoved, SyncSource, Install, SyncInstalled
<1>2. RestoreProgress
  BY <1>1, WorkingAt DEF RestorePlaces
<1>3. FileAtWork(f) /\ Kept(f)
  BY <1>2 DEF RestoreProgress, Working
<1>4. /\ Target(f) \in Names /\ Rollback(f) \in Names /\ Staged(f) \in Names
      /\ Target(f) # Rollback(f) /\ Target(f) # Staged(f) /\ Rollback(f) # Staged(f)
  BY DEF NamesDiffer
<1>5. CASE MoveOriginal
  <2>1. Waiting(f)
    BY <1>3, <1>5 DEF MoveOriginal, FileAtWork
  <2>2. CASE HadOriginal(f)
    <3>1. Renamed(Target(f), Rollback(f)) /\ Goes(at') /\ at' = "syncMoved"
      BY <1>5, <2>2 DEF MoveOriginal, Goes
    <3>2. /\ seen'[Target(f)] = "none" /\ seen'[Rollback(f)] = "old"
          /\ durable'[Target(f)] = "old" /\ durable'[Rollback(f)] = "none"
          /\ <<Target(f), Rollback(f)>> \in moving'
      BY <1>4, <2>1, <2>2, <3>1, RenamedIs DEF Waiting, NotMoved, Both, Before
    <3>3. Kept(f)' /\ FileAtWork(f)'
      BY <2>2, <3>1, <3>2 DEF Kept, SomeCopy, FileAtWork, Has
    <3> QED
      BY <1>1, <1>2, <1>4, <1>5, <3>1, <3>3, RenamedApart, FileGoesOn DEF MoveOriginal
  <2>3. CASE ~HadOriginal(f)
    <3>1. UNCHANGED disk /\ Goes(at') /\ at' = "install"
      BY <1>5, <2>3 DEF MoveOriginal, Goes
    <3>2. Kept(f)' /\ FileAtWork(f)'
      <4>1. Kept(f)' /\ Waiting(f)'
        BY <1>3, <2>1, <3>1, LeftApart, ApartKeeps
      <4> QED
        BY <4>1, <2>3, <3>1 DEF FileAtWork, Waiting, Moved, Before
    <3> QED
      BY <1>1, <1>2, <1>5, <3>1, <3>2, LeftApart, FileGoesOn DEF MoveOriginal
  <2> QED
    BY <2>2, <2>3
<1>6. CASE SyncMoved
  <2>1. /\ HadOriginal(f) /\ seen[Rollback(f)] = "old" /\ durable[Target(f)] = "old"
        /\ seen[Target(f)] = "none"
    BY <1>3, <1>6 DEF SyncMoved, FileAtWork
  <2>2. Synced(Rollback(f)) /\ Goes(at') /\ at' = "syncSource"
    BY <1>6 DEF SyncMoved, MoveSyncs, Goes
  <2>3. Both(Rollback(f), "old")' /\ seen'[Target(f)] = "none"
    BY <1>4, <2>1, <2>2, SyncedIs DEF Both
  <2>4. Kept(f)' /\ FileAtWork(f)'
    BY <2>1, <2>2, <2>3 DEF Kept, SomeCopy, FileAtWork, Moved, Both
  <2> QED
    BY <1>1, <1>2, <1>6, <2>2, <2>4, SyncedApart, FileGoesOn DEF SyncMoved
<1>7. CASE SyncSource
  <2>1. HadOriginal(f) /\ Both(Rollback(f), "old") /\ seen[Target(f)] = "none"
    BY <1>3, <1>7 DEF SyncSource, FileAtWork, Moved
  <2>2. Synced(Target(f)) /\ Goes(at') /\ at' = "install"
    BY <1>7 DEF SyncSource, MoveSyncs, Goes
  <2>3. Both(Rollback(f), "old")' /\ Both(Target(f), "none")'
    BY <1>4, <2>1, <2>2, SyncedIs DEF Both
  <2>4. Kept(f)' /\ FileAtWork(f)'
    BY <2>1, <2>2, <2>3 DEF Kept, SomeCopy, FileAtWork, Moved, Both
  <2> QED
    BY <1>1, <1>2, <1>7, <2>2, <2>4, SyncedApart, FileGoesOn DEF SyncSource
<1>8. CASE Install
  <2>1. Moved(f) /\ Both(Target(f), "none")
    BY <1>3, <1>8 DEF Install, FileAtWork
  <2>2. CASE Installs(f)
    <3>1. Renamed(Staged(f), Target(f)) /\ Goes(at') /\ at' = "syncInstalled"
      BY <1>8, <2>2 DEF Install, Goes
    <3>2. UNCHANGED <<seen[Rollback(f)], durable[Rollback(f)]>>
      BY <1>4, <3>1, RenamedIs
    <3>3. Moved(f)' /\ Kept(f)'
      BY <1>3, <2>1, <3>2 DEF Moved, Kept, SomeCopy, NotMoved, Both
    <3> QED
      BY <1>1, <1>2, <1>4, <1>8, <3>1, <3>3, RenamedApart, FileGoesOn DEF Install, FileAtWork
  <2>3. CASE ~Installs(f)
    <3>1. UNCHANGED disk /\ NextFile
      BY <1>8, <2>3 DEF Install
    <3>2. NothingElse /\ \A r \in Files : Apart(r)
      BY <3>1, LeftApart
    <3>3. Replaced(f)
      BY <2>1 DEF Replaced, Both, Clean
    <3>4. RestoreProgress' /\ at' \in RestorePlaces
      BY <1>2, <1>8, <3>1, <3>2, <3>3, ApartKeeps, NextFileProgress DEF Install, RestorePlaces
    <3>5. \A r \in Files : Kept(r)'
      BY <3>2, ApartKeeps DEF Working
    <3> QED
      BY <3>2, <3>4, <3>5, RestoreStays
  <2> QED
    BY <2>2, <2>3
<1>9. CASE SyncInstalled
  <2>1. Moved(f)
    BY <1>3, <1>9 DEF SyncInstalled, FileAtWork
  <2>2. Synced(Target(f)) /\ NextFile
    BY <1>9 DEF SyncInstalled, MakeInstalledDurable
  <2>3. Clean(Target(f))' /\ UNCHANGED <<seen[Rollback(f)], durable[Rollback(f)]>>
    BY <1>4, <2>2, SyncedIs DEF Clean
  <2>4. Replaced(f)' /\ Kept(f)'
    BY <1>3, <2>1, <2>3 DEF Replaced, Moved, Kept, SomeCopy, NotMoved, Both
  <2>5. NothingElse /\ \A r \in Files \ {f} : Apart(r)
    BY <2>2, SyncedApart
  <2>6. RestoreProgress' /\ at' \in RestorePlaces
    BY <1>2, <1>9, <2>2, <2>4, <2>5, NextFileProgress DEF SyncInstalled, RestorePlaces
  <2>7. \A r \in Files : Kept(r)'
    BY <2>4, <2>5, ApartKeeps DEF Working
  <2> QED
    BY <2>5, <2>6, <2>7, RestoreStays
<1> QED
  BY <1>5, <1>6, <1>7, <1>8, <1>9

LEMMA Interrupted ==
  ASSUME Working, NothingElse, \A r \in Files : Apart(r), at' \in {"reconcile", "down"}, mode' # "restore"
  PROVE  Working'
<1>1. \A r \in Files : Kept(r)' /\ seen'[Target(r)] = seen[Target(r)]
  BY ApartKeeps DEF Working, Apart
<1>2. Both(Report, "none")'
  BY DEF Working, NothingElse, Both
<1> QED
  BY <1>1, <1>2 DEF Working, WorkingPlace, NothingElse, Has

LEMMA WorkingThrows ==
  ASSUME Shape, Working, Throws
  PROVE  Working'
<1>1. UNCHANGED disk /\ mode' # "restore" /\ at' \in {"reconcile", "down"}
  BY ThrowsIs DEF disk, Working
<1> QED
  BY <1>1, LeftApart, Interrupted

LEMMA VerifyStep ==
  ASSUME Shape, Working, Verify
  PROVE  Working'
<1>1. CASE Throws
  BY <1>1, WorkingThrows
<1>2. CASE AllInstalled /\ UNCHANGED disk /\ Goes("commit")
  <2>1. RestoreProgress /\ at = "verify"
    BY WorkingAt DEF Verify, RestorePlaces
  <2>2. NothingElse /\ \A r \in Files : Apart(r)
    BY <1>2, LeftApart
  <2>3. \A r \in Files : r \in Nat /\ file \in Nat
    BY RecordFacts DEF Shape
  <2>4. \A r \in Files : Replaced(r)
    BY <2>1, <2>3 DEF RestoreProgress, FileAtWork
  <2>5. \A r \in Files : Replaced(r)' /\ Kept(r)'
    BY <2>2, <2>4, ApartKeeps DEF Working
  <2>6. AllInstalled'
    BY <1>2, <2>2 DEF AllInstalled, Apart
  <2>7. RestoreProgress'
    BY <1>2, <2>1, <2>2, <2>5, <2>6 DEF RestoreProgress, FileAtWork, NothingElse, Both, Goes
  <2> QED
    BY <1>2, <2>2, <2>5, <2>7, RestoreStays DEF Goes, RestorePlaces
<1> QED
  BY <1>1, <1>2 DEF Verify

LEMMA CommitStep ==
  ASSUME Shape, Working, Commit
  PROVE  Committed'
<1> USE NameFacts
<1>1. RestoreProgress /\ at = "commit" /\ AllInstalled
  BY WorkingAt DEF Commit, RestorePlaces, RestoreProgress
<1>2. \A r \in Files : r \in Nat /\ file \in Nat
  BY RecordFacts DEF Shape
<1>3. \A r \in Files : Replaced(r) /\ Kept(r)
  BY <1>1, <1>2 DEF RestoreProgress, FileAtWork, Working
<1>4. \A r \in Files : Both(Target(r), After(r)) /\ Moved(r)
  BY <1>1, <1>3 DEF AllInstalled, Replaced, Clean, Both
<1>5. /\ Written(Journal, "commit-complete") /\ at' = "syncCommit" /\ mode' = mode
      /\ Journal \in Names /\ Journal # Root /\ Journal # Report
  BY DEF Commit, Goes, NamesDiffer
<1>6. \A r \in Files : Apart(r)
  <2> TAKE r \in Files
  <2>1. /\ Target(r) \in Names /\ Rollback(r) \in Names /\ Target(r) # Journal
        /\ Rollback(r) # Journal
    BY DEF NamesDiffer
  <2> QED
    BY <1>5, <2>1, WrittenIs DEF Apart
<1>7. \A r \in Files : Both(Target(r), After(r))' /\ Moved(r)' /\ Kept(r)'
  BY <1>3, <1>4, <1>6, ApartKeeps DEF Apart, Both
<1>8. /\ seen'[Journal] = "commit-complete" /\ durable'[Journal] = "rollback-required"
      /\ Both(Root, "transaction")' /\ Both(Report, "none")'
  BY <1>1, <1>5, WrittenIs DEF RestoreProgress, Working, Both, NamesDiffer
<1>9. Unreported'
  BY <1>5, <1>7, <1>8 DEF Unreported
<1> QED
  BY <1>5, <1>7, <1>8, <1>9 DEF Committed, Both, Has

-----------------------------------------------------------------------------
LEMMA UndoingFacts ==
  ASSUME Working, at \in {"rollback", "putBack", "syncPutBack"}
  PROVE  RollbackProgress
BY DEF Working, WorkingPlace, RestorePlaces

\* The record at work is rolled back, and the one before it is next.
LEMMA PreviousFileStep ==
  ASSUME Shape, Working, at \in {"rollback", "syncPutBack"}, PreviousFile, NothingElse,
         NEW f \in Files, f = file, Undone(f)', Kept(f)', \A r \in Files \ {f} : Apart(r)
  PROVE  Working'
<1>1. RollbackProgress
  BY UndoingFacts
<1>2. \A r \in Files : r \in Nat
  BY RecordFacts
<1>3. \A r \in Files : r >= f => Undone(r)'
  BY <1>1, <1>2, ApartKeeps DEF RollbackProgress
<1>4. \A r \in Files : Kept(r)'
  BY ApartKeeps DEF Working
<1>5. Has(Root)' /\ durable'[Root] = "transaction" /\ Both(Report, "none")'
  BY <1>1 DEF Working, NothingElse, Both, RollbackProgress, Has
<1>6. mode' # "restore"
  BY <1>1 DEF RollbackProgress, PreviousFile
<1>7. CASE at' = "rollback" /\ file' = file - 1
  <2>1. \A r \in Files : r > file' => Undone(r)'
    BY <1>2, <1>3, <1>7
  <2>2. RollbackProgress'
    BY <1>5, <1>6, <1>7, <2>1 DEF RollbackProgress
  <2> QED
    BY <1>4, <1>5, <1>6, <1>7, <2>2 DEF Working, WorkingPlace, NothingElse
<1>8. CASE at' = "remove" /\ ~(file > 1)
  <2>1. \A r \in Files : Undone(r)'
    BY <1>2, <1>3, <1>8, RecordFacts
  <2>2. RemovalOfPrior'
    BY <1>6, <1>8, <2>1 DEF RemovalOfPrior
  <2> QED
    BY <1>4, <1>5, <1>6, <1>8, <2>2 DEF Working, WorkingPlace, NothingElse
<1> QED
  BY <1>7, <1>8 DEF PreviousFile

LEMMA UndoingStep ==
  ASSUME Shape, Working, RollBack \/ PutBack \/ SyncPutBack
  PROVE  Working'
<1> USE NameFacts
<1> SUFFICES ASSUME NEW f \in Files, f = file PROVE Working'
  BY DEF Shape
<1>1. at \in {"rollback", "putBack", "syncPutBack"}
  BY DEF RollBack, PutBack, SyncPutBack
<1>2. RollbackProgress /\ Kept(f)
  BY <1>1, UndoingFacts DEF Working
<1>3. Target(f) \in Names /\ Rollback(f) \in Names /\ Target(f) # Rollback(f)
  BY DEF NamesDiffer
<1>4. \A r \in Files : r \in Nat
  BY RecordFacts
<1>5. ASSUME NothingElse, \A r \in Files \ {f} : Apart(r), Kept(f)', Goes(at'),
             \/ at' = "putBack" /\ seen'[Rollback(f)] = "old" /\ seen'[Target(f)] = "none"
             \/ /\ at' = "syncPutBack" /\ HadOriginal(f)
                /\ seen'[Target(f)] = "old" /\ seen'[Rollback(f)] = "none"
      PROVE  Working'
  <2>1. \A r \in Files : r > f => Undone(r)'
    BY <1>2, <1>4, <1>5, ApartKeeps DEF RollbackProgress
  <2>2. \A r \in Files : Kept(r)'
    BY <1>5, ApartKeeps DEF Working
  <2>3. Has(Root)' /\ durable'[Root] = "transaction" /\ Both(Report, "none")'
    BY <1>2, <1>5 DEF Working, NothingElse, Both, RollbackProgress, Has
  <2>4. file' = f /\ mode' # "restore"
    BY <1>2, <1>5 DEF Goes, RollbackProgress
  <2>5. RollbackProgress'
    BY <1>5, <2>1, <2>3, <2>4 DEF RollbackProgress
  <2> QED
    BY <1>5, <2>2, <2>3, <2>4, <2>5 DEF Working, WorkingPlace, NothingElse
<1>6. CASE RollBack
  <2>1. CASE Throws
    BY <2>1, WorkingThrows
  <2>2. CASE seen[Rollback(f)] = "old" /\ Removed(Target(f)) /\ Goes("putBack")
    <3>1. HadOriginal(f)
      BY <1>2, <2>2 DEF Kept, NotMoved, Both
    <3>2. /\ seen'[Target(f)] = "none" /\ seen'[Rollback(f)] = "old"
          /\ durable'[Rollback(f)] = durable[Rollback(f)]
      BY <1>3, <2>2, RemovedIs
    <3>3. Has(Target(f)) => Kept(f)'
      BY <1>2, <2>2, <3>1, <3>2 DEF Kept, SomeCopy, Both, Has
    <3>4. ~Has(Target(f)) => UNCHANGED disk
      BY <2>2 DEF Removed
    <3>5. Kept(f)'
      BY <1>2, <3>3, <3>4, LeftApart, ApartKeeps
    <3> QED
      BY <1>5, <2>2, <3>2, <3>5, RemovedApart DEF Goes
  <2>3. CASE ~Has(Rollback(f)) /\ HadOriginal(f) /\ PriorInPlace /\ UNCHANGED disk /\ PreviousFile
    <3>1. NothingElse /\ \A r \in Files : Apart(r)
      BY <2>3, LeftApart
    <3>2. Undone(f)
      BY <2>3 DEF Undone, PriorInPlace, Before, Has
    <3> QED
      BY <1>2, <1>6, <2>3, <3>1, <3>2, ApartKeeps, PreviousFileStep DEF RollBack
  <2>4. CASE ~HadOriginal(f) /\ Removed(Target(f)) /\ PreviousFile
    <3>1. NotMoved(f)
      BY <1>2, <2>4 DEF Kept
    <3>2. seen'[Target(f)] = "none" /\ NotMoved(f)'
      BY <1>3, <2>4, <3>1, RemovedIs DEF NotMoved, Both
    <3>3. Undone(f)' /\ Kept(f)'
      BY <2>4, <3>2 DEF Undone, Kept, NotMoved, Both, Before
    <3> QED
      BY <1>6, <2>4, <3>3, RemovedApart, PreviousFileStep DEF RollBack
  <2> QED
    BY <1>6, <2>1, <2>2, <2>3, <2>4 DEF RollBack
<1>7. CASE PutBack
  <2>1. seen[Rollback(f)] = "old" /\ seen[Target(f)] = "none"
    BY <1>2, <1>7 DEF PutBack, RollbackProgress
  <2>2. Renamed(Rollback(f), Target(f)) /\ Goes(at') /\ at' = "syncPutBack"
    BY <1>7 DEF PutBack, Goes
  <2>3. HadOriginal(f)
    BY <1>2, <2>1 DEF Kept, NotMoved, Both
  <2>4. /\ seen'[Target(f)] = "old" /\ seen'[Rollback(f)] = "none" /\ durable' = durable
        /\ <<Rollback(f), Target(f)>> \in moving'
    BY <1>3, <2>1, <2>2, RenamedIs
  <2>5. Kept(f)'
    BY <1>2, <2>1, <2>3, <2>4 DEF Kept, SomeCopy, Both, Has
  <2> QED
    BY <1>3, <1>5, <2>2, <2>3, <2>4, <2>5, RenamedApart
<1>8. CASE SyncPutBack
  <2>1. HadOriginal(f) /\ seen[Target(f)] = "old" /\ seen[Rollback(f)] = "none"
    BY <1>2, <1>8 DEF SyncPutBack, RollbackProgress
  <2>2. Synced(Target(f)) /\ PreviousFile
    BY <1>8 DEF SyncPutBack
  <2>3. Both(Target(f), "old")' /\ UNCHANGED <<seen[Rollback(f)], durable[Rollback(f)]>>
    BY <1>3, <2>1, <2>2, SyncedIs DEF Both
  <2>4. Kept(f)' /\ Undone(f)'
    BY <1>2, <2>1, <2>3 DEF Kept, SomeCopy, Undone, Before, Both
  <2> QED
    BY <1>8, <2>2, <2>4, SyncedApart, PreviousFileStep DEF SyncPutBack
<1> QED
  BY <1>6, <1>7, <1>8

-----------------------------------------------------------------------------
LEMMA PriorRemovalStep ==
  ASSUME Shape, Working, Remove \/ SyncRemoved
  PROVE  Working'
<1> USE NameFacts
<1>1. at \in {"remove", "syncRemoved"} /\ RemovalOfPrior
  BY DEF Working, WorkingPlace, RestorePlaces, Remove, SyncRemoved
<1>2. ASSUME NEW n \in Inner, Has(n), Written(n, "none"), Goes("remove") PROVE Working'
  <2>1. n \in Names /\ n # Root /\ n # Report /\ \A r \in Files : n # Target(r)
    BY DEF NamesDiffer
  <2>2. \A r \in Files : n # Rollback(r)
    BY <1>1, <1>2 DEF RemovalOfPrior, Undone, Has
  <2>3. \A r \in Files : Apart(r)
    <3> TAKE r \in Files
    <3>1. Target(r) \in Names /\ Rollback(r) \in Names
      BY DEF NamesDiffer
    <3> QED
      BY <1>2, <2>1, <2>2, <3>1, WrittenIs DEF Apart
  <2>4. \A r \in Files : Kept(r)' /\ Undone(r)' /\ seen'[Target(r)] = seen[Target(r)]
    BY <1>1, <2>3, ApartKeeps DEF Working, RemovalOfPrior, Apart
  <2>5. /\ Both(Report, "none")' /\ seen'[Root] = seen[Root] /\ durable' = durable
        /\ seen'[Journal] \in {seen[Journal], "none"}
    BY <1>2, <2>1, WrittenIs DEF NamesDiffer, Working, Both
  <2>6. RemovalOfPrior'
    BY <1>1, <1>2, <2>4 DEF RemovalOfPrior, Goes
  <2> QED
    BY <1>1, <1>2, <2>4, <2>5, <2>6 DEF Working, WorkingPlace, Has, Goes, RemovalOfPrior
<1>3. CASE Written(Root, "none") /\ Goes("syncRemoved")
  <2>1. Root \in Names /\ Root # Report /\ Root # Journal
    BY DEF NamesDiffer
  <2>2. \A r \in Files : Apart(r)
    <3> TAKE r \in Files
    <3>1. Target(r) \in Names /\ Rollback(r) \in Names /\ Root # Target(r) /\ Root # Rollback(r)
      BY DEF NamesDiffer
    <3> QED
      BY <1>3, <2>1, <3>1, WrittenIs DEF Apart
  <2>3. \A r \in Files : Kept(r)' /\ Undone(r)'
    BY <1>1, <2>2, ApartKeeps DEF Working, RemovalOfPrior
  <2>4. Both(Report, "none")' /\ seen'[Root] = "none" /\ durable' = durable /\ seen'[Journal] = seen[Journal]
    BY <1>3, <2>1, WrittenIs DEF NamesDiffer, Working, Both
  <2>5. RemovalOfPrior'
    BY <1>1, <1>3, <2>3, <2>4 DEF RemovalOfPrior, Goes, Has
  <2> QED
    BY <1>1, <1>3, <2>3, <2>4, <2>5 DEF Working, WorkingPlace, Has, Goes, RemovalOfPrior, Undone
<1>4. CASE SyncRemoved
  <2>1. Root \in Names /\ Root # Report /\ Root # Journal
    BY DEF NamesDiffer
  <2>2. \A r \in Files : Apart(r)
    <3> TAKE r \in Files
    <3>1. Target(r) \in Names /\ Rollback(r) \in Names /\ Root # Target(r) /\ Root # Rollback(r)
      BY DEF NamesDiffer
    <3> QED
      BY <1>4, <2>1, <3>1, SyncedIs DEF SyncRemoved, Apart
  <2>3. \A r \in Files : Kept(r)' /\ Undone(r)'
    BY <1>1, <2>2, ApartKeeps DEF Working, RemovalOfPrior
  <2>4. Both(Report, "none")' /\ seen'[Root] = "none" /\ UNCHANGED <<seen[Journal], durable[Journal]>>
    BY <1>1, <1>4, <2>1, SyncedIs DEF NamesDiffer, Working, Both, RemovalOfPrior, Has, SyncRemoved
  <2>5. durable'[Root] = "none"
    BY <1>4, <2>1, <2>4, SyncedIs DEF SyncRemoved
  <2>6. at' \in {"running", "down"} /\ mode' = mode /\ mode # "restore"
    BY <1>1, <1>4 DEF SyncRemoved, RemovalOfPrior
  <2> QED
    BY <2>3, <2>4, <2>5, <2>6 DEF Working, WorkingPlace, Has, Undone
<1> QED
  BY <1>2, <1>3, <1>4 DEF Remove

LEMMA WorkingReconcile ==
  ASSUME Shape, Working, Reconcile
  PROVE  Working'
<1>1. CASE Throws
  BY <1>1, WorkingThrows
<1>2. mode # "restore"
  BY DEF Working, RestorePlaces, Reconcile
<1>3. CASE UNCHANGED disk /\ mode' = mode /\ ~Has(Root) /\ at' = "running"
  <2>1. NothingElse /\ \A r \in Files : Kept(r)' /\ seen'[Target(r)] = seen[Target(r)]
    BY <1>3, LeftApart, ApartKeeps DEF Working, Apart
  <2> QED
    BY <1>2, <1>3, <2>1 DEF Working, WorkingPlace, NothingElse, Has, Both
<1>4. CASE UNCHANGED disk /\ mode' = mode /\ Has(Root) /\ at' = "rollback" /\ file' = Len(Records)
  <2>1. NothingElse /\ \A r \in Files : Kept(r)'
    BY <1>4, LeftApart, ApartKeeps DEF Working
  <2>2. \A r \in Files : ~(r > file')
    BY <1>4, RecordFacts
  <2>3. RollbackProgress'
    BY <1>2, <1>4, <2>1, <2>2 DEF RollbackProgress, NothingElse, Has
  <2> QED
    BY <1>2, <1>4, <2>1, <2>3 DEF Working, WorkingPlace, NothingElse, Has, Both
<1>5. Has(Journal) => PhaseLeadsTo = "rollback"
  BY DEF Working, PhaseLeadsTo, Has
<1>6. seen[Root] # "pending"
  BY DEF Working
<1> QED
  BY <1>1, <1>3, <1>4, <1>5, <1>6 DEF Reconcile, Goes

\* A loss of power leaves a copy of every file of the prior generation, unless the removal
\* of the transaction went ahead of what the power took.
LEMMA WorkingLoss ==
  ASSUME Shape, Working, PowerLoss, ~Hasty
  PROVE  Working'
<1> USE NameFacts
<1>1. PICK d \in Losses : seen' = d /\ durable' = d /\ moving' = {}
  BY DEF PowerLoss
<1>2. at' = "down" /\ mode' = "startup" /\ ~Hasty
  BY DEF PowerLoss
<1>3. \A n \in Names : (Clean(n) /\ n \notin Inner) => seen'[n] = seen[n] /\ durable'[n] = seen[n]
  BY <1>1, LossIs DEF Clean
<1>4. Both(Report, "none")'
  BY <1>3 DEF Working, Both, Clean, NamesDiffer
<1>5. /\ seen'[Root] \in {seen[Root], durable[Root]} /\ durable'[Root] = seen'[Root]
      /\ seen'[Journal] \in {"none", seen[Journal], durable[Journal]} /\ durable'[Journal] = seen'[Journal]
  BY <1>1, LossIs DEF NamesDiffer
<1>6. ASSUME NEW r \in Files, ~Has(Root)
      PROVE  Both(Target(r), Before(r))'
  <2>1. mode # "restore" /\ seen[Target(r)] = Before(r)
    BY <1>6 DEF Working, WorkingPlace, RestorePlaces, RestoreProgress, Both, Has
  <2>2. Target(r) \in Names /\ Target(r) \notin Inner \cup {Root}
    BY DEF NamesDiffer
  <2>3. Clean(Target(r))
    BY <1>2, <1>6, <2>1, <2>2 DEF Hasty, Clean
  <2> QED
    BY <1>3, <2>1, <2>2, <2>3 DEF Both
<1>7. ASSUME NEW r \in Files PROVE Kept(r)'
  <2>1. /\ Target(r) \in Names \ Inner /\ Rollback(r) \in Inner
    BY DEF NamesDiffer
  <2>2. /\ seen'[Rollback(r)] \in {"none", seen[Rollback(r)], durable[Rollback(r)]}
        /\ durable'[Rollback(r)] = seen'[Rollback(r)]
    BY <1>1, <2>1, LossIs
  <2>3. CASE ~HadOriginal(r)
    BY <2>2, <2>3 DEF Kept, Working, NotMoved, Both
  <2>4. CASE HadOriginal(r) /\ ~Has(Root)
    BY <1>6, <2>2, <2>4 DEF Kept, Working, SomeCopy, Before
  <2>5. CASE HadOriginal(r) /\ Has(Root)
    <3>1. d[Root] = "transaction"
      BY <1>1, <1>5, <2>5 DEF Working, Has
    <3>2. /\ d[Target(r)] \in {seen[Target(r)], durable[Target(r)]}
          /\ d[Rollback(r)] \in {seen[Rollback(r)], durable[Rollback(r)]}
      BY <2>1, <3>1, LossIs
    <3>3. <<Target(r), Rollback(r)>> \in moving =>
            d[Target(r)] = durable[Target(r)] \/ d[Rollback(r)] = seen[Rollback(r)]
      BY <3>1, LossIs
    <3>4. <<Rollback(r), Target(r)>> \in moving =>
            d[Rollback(r)] = durable[Rollback(r)] \/ d[Target(r)] = seen[Target(r)]
      BY <3>1, LossIs
    <3>5. SomeCopy(r)
      BY <2>5 DEF Working, Kept
    <3>6. d[Target(r)] = "old" \/ d[Rollback(r)] = "old"
      BY <3>2, <3>3, <3>4, <3>5 DEF SomeCopy, Both
    <3> QED
      BY <1>1, <2>2, <2>5, <3>6 DEF Kept, Working, SomeCopy, Both
  <2> QED
    BY <2>3, <2>4, <2>5
<1>8. Has(Root) => seen'[Root] = "transaction"
  BY <1>5 DEF Working, Has
<1>9. ~Has(Root)' => \A r \in Files : seen'[Target(r)] = Before(r)
  BY <1>6, <1>8 DEF Has, Both
<1> QED
  BY <1>2, <1>4, <1>5, <1>7, <1>9 DEF Working, WorkingPlace, Has

LEMMA WorkingStep ==
  ASSUME Shape, Working, [Next]_vars, PowerLoss => ~Hasty
  PROVE  (Working \/ Committed)'
<1>1. CASE MoveOriginal \/ SyncMoved \/ SyncSource \/ Install \/ SyncInstalled
  BY <1>1, MovingStep
<1>2. CASE Verify
  BY <1>2, VerifyStep
<1>3. CASE Commit
  BY <1>3, CommitStep
<1>4. CASE Remove \/ SyncRemoved
  BY <1>4, PriorRemovalStep
<1>5. CASE Reconcile
  BY <1>5, WorkingReconcile
<1>6. CASE RollBack \/ PutBack \/ SyncPutBack
  BY <1>6, UndoingStep
<1>7. CASE Startup
  BY <1>7, LeftApart, Interrupted DEF Startup
<1>8. CASE Crash
  BY <1>8, LeftApart, Interrupted DEF Crash
<1>9. CASE PowerLoss
  BY <1>9, WorkingLoss
<1>10. CASE CallFails
  BY <1>10, WorkingThrows DEF CallFails
<1>11. CASE UNCHANGED vars
  <2>1. UNCHANGED <<seen, durable, moving, at, file, mode, published, outcome>>
    BY <1>11 DEF vars, disk, control
  <2> QED
    BY <2>1 DEF Working, WorkingPlace, RestoreProgress, RollbackProgress, RemovalOfPrior, FileAtWork,
                Replaced, Waiting, Undone, Moved, Kept, SomeCopy, NotMoved, Both, Clean, Has, AllInstalled
<1>12. at \notin {"begin", "stage", "publish", "syncPublished", "mark", "syncMark", "check",
                  "syncCommit", "finalize", "receipt", "syncReport"}
  BY DEF Working, WorkingPlace, RestorePlaces
<1> QED
  BY <1>1, <1>2, <1>3, <1>4, <1>5, <1>6, <1>7, <1>8, <1>9, <1>10, <1>11, <1>12
  DEF Next, Process, Begin, Stage, Publish, SyncPublished, Mark, SyncMark, CheckPreimages,
      SyncCommit, Finalize, PublishReceipt, SyncReport, Meddle

-----------------------------------------------------------------------------
(***************************************************************************)
(* After the commit point.                                                 *)
(***************************************************************************)
TargetsStay == \A r \in Files : UNCHANGED <<seen[Target(r)], durable[Target(r)]>>

LEMMA TargetsInstalled ==
  ASSUME Committed, TargetsStay
  PROVE  AllInstalled /\ \A r \in Files : Both(Target(r), After(r))'
BY DEF Committed, TargetsStay, AllInstalled, Both

\* What is left alone, or goes down, stays committed.
LEMMA CommittedInterrupted ==
  ASSUME Committed, NothingElse, \A r \in Files : Apart(r),
         at' \in {"reconcile", "down"}, mode' # "restore"
  PROVE  Committed'
<1>1. \A r \in Files : (Kept(r) => Kept(r)') /\ (Moved(r) => Moved(r)') /\ Both(Target(r), After(r))'
  BY ApartKeeps DEF Committed, Apart, Both
<1>2. CASE Has(Report)
  BY <1>1, <1>2 DEF Committed, Reported, NothingElse, Both, Has
<1>3. CASE ~Has(Report)
  <2>1. Unreported'
    BY <1>1, <1>3 DEF Committed, Unreported, NothingElse, Both
  <2> QED
    BY <1>1, <1>3, <2>1 DEF Committed, NothingElse, Both, Has
<1> QED
  BY <1>2, <1>3

LEMMA CommittedThrows ==
  ASSUME Shape, Committed, Throws
  PROVE  Committed'
<1>1. seen[Root] # "pending"
  BY DEF Committed
<1>2. UNCHANGED disk /\ mode' # "restore" /\ at' \in {"reconcile", "down"}
  BY <1>1, ThrowsIs DEF disk
<1> QED
  BY <1>2, LeftApart, CommittedInterrupted

LEMMA ReportingStep ==
  ASSUME Shape, Committed, SyncCommit \/ Finalize \/ PublishReceipt \/ SyncReport
  PROVE  Committed'
<1> USE NameFacts
<1>1. CASE SyncCommit
  <2>1. Synced(Journal) /\ at' = "finalize" /\ mode' = mode /\ at = "syncCommit"
    BY <1>1 DEF SyncCommit, MakeCommitDurable, Goes
  <2>2. Journal \in Names /\ \A n \in {Root, Report} \cup {Target(r) : r \in Files} : n \in Names /\ n # Journal
    BY DEF NamesDiffer
  <2>3. /\ seen' = seen /\ durable'[Journal] = seen[Journal] /\ durable'[Root] = durable[Root]
        /\ TargetsStay
    BY <2>1, <2>2, SyncedIs DEF TargetsStay
  <2>4. ~Has(Report) /\ seen[Journal] = "commit-complete" /\ Both(Root, "transaction")
    BY <2>1 DEF Committed, Reported, Unreported
  <2>5. Unreported'
    BY <2>1, <2>3, <2>4 DEF Unreported, Both
  <2> QED
    BY <2>1, <2>3, <2>4, <2>5, TargetsInstalled DEF Committed, Both, Has
<1>2. CASE Finalize
  <2>1. AllInstalled
    BY DEF Committed, AllInstalled, Both
  <2>2. UNCHANGED disk /\ at' = "receipt" /\ mode' = mode /\ at = "finalize"
    BY <1>2, <2>1 DEF Finalize, Goes
  <2>3. NothingElse /\ \A r \in Files : Apart(r)
    BY <2>2, LeftApart
  <2>4. \A r \in Files : (Kept(r) => Kept(r)') /\ (Moved(r) => Moved(r)') /\ Both(Target(r), After(r))'
    BY <2>3, ApartKeeps DEF Committed, Apart, Both
  <2>5. CASE Has(Report)
    BY <2>2, <2>3, <2>4, <2>5 DEF Committed, Reported, NothingElse, Both, Has
  <2>6. CASE ~Has(Report)
    <3>1. Unreported'
      BY <2>2, <2>3, <2>4, <2>6 DEF Committed, Unreported, NothingElse, Both
    <3> QED
      BY <2>2, <2>3, <2>4, <2>6, <3>1 DEF Committed, NothingElse, Both, Has
  <2> QED
    BY <2>5, <2>6
<1>3. CASE PublishReceipt
  <2>1. /\ StagedReceipt \in Names /\ Report \in Names /\ StagedReceipt # Report
        /\ \A n \in {Root, Journal} \cup {Target(r) : r \in Files} :
             n \in Names /\ n # StagedReceipt /\ n # Report
    BY DEF NamesDiffer
  <2>2. CASE Throws
    BY <2>2, CommittedThrows
  <2>3. CASE ~Has(StagedReceipt) /\ Has(Report) /\ UNCHANGED disk /\ Goes("remove")
    <3>1. NothingElse /\ TargetsStay
      BY <2>3, LeftApart DEF TargetsStay, Apart
    <3>2. mode # "restore"
      BY <1>3, <2>3 DEF PublishReceipt, Committed, Reported
    <3> QED
      BY <2>3, <3>1, <3>2, TargetsInstalled DEF Committed, Reported, NothingElse, Both, Has, Goes
  <2>4. CASE Has(StagedReceipt) /\ Has(Report) /\ Written(StagedReceipt, "none") /\ Goes("syncReport")
    <3>1. durable' = durable /\ \A n \in {Root, Journal, Report} : seen'[n] = seen[n]
      BY <2>1, <2>4, WrittenIs
    <3>2. TargetsStay
      BY <2>1, <2>4, WrittenIs DEF TargetsStay
    <3>3. mode # "restore" /\ at = "receipt"
      BY <1>3, <2>4 DEF PublishReceipt, Committed, Reported
    <3>4. Has(Root) /\ seen[Journal] = "commit-complete"
      BY <2>4, <3>3 DEF Committed, Reported
    <3> QED
      BY <2>4, <3>1, <3>2, <3>3, <3>4, TargetsInstalled DEF Committed, Reported, Both, Has, Goes
  <2>5. CASE Has(StagedReceipt) /\ ~Has(Report) /\ Renamed(StagedReceipt, Report) /\ Goes("syncReport")
    <3>1. /\ durable' = durable /\ \A n \in {Root, Journal} : seen'[n] = seen[n]
          /\ Has(Report)'
      BY <2>1, <2>5, RenamedIs DEF Has
    <3>2. TargetsStay
      BY <2>1, <2>5, RenamedIs DEF TargetsStay
    <3>3. at = "receipt" /\ Both(Root, "transaction") /\ seen[Journal] = "commit-complete"
      BY <1>3, <2>5 DEF PublishReceipt, Committed, Unreported
    <3>4. mode = "restore" => durable[Journal] = "commit-complete"
      BY <3>3 DEF Committed
    <3> QED
      BY <2>5, <3>1, <3>2, <3>3, <3>4, TargetsInstalled DEF Committed, Reported, Both, Has, Goes
  <2> QED
    BY <1>3, <2>2, <2>3, <2>4, <2>5 DEF PublishReceipt
<1>4. CASE SyncReport
  <2>1. /\ Report \in Names
        /\ \A n \in {Root, Journal} \cup {Target(r) : r \in Files} : n \in Names /\ n # Report
    BY DEF NamesDiffer
  <2>2. Synced(Report) /\ at' = "remove" /\ mode' = mode /\ at = "syncReport"
    BY <1>4 DEF SyncReport, Goes
  <2>3. /\ seen' = seen /\ durable'[Report] = seen[Report]
        /\ durable'[Root] = durable[Root] /\ durable'[Journal] = durable[Journal] /\ TargetsStay
    BY <2>1, <2>2, SyncedIs DEF TargetsStay
  <2>4. Has(Report) /\ Has(Root)
    BY <2>2 DEF Committed, Reported, Unreported
  <2> QED
    BY <2>2, <2>3, <2>4, TargetsInstalled DEF Committed, Reported, Both, Has, Clean
<1> QED
  BY <1>1, <1>2, <1>3, <1>4

LEMMA ReportedRemovalStep ==
  ASSUME Shape, Committed, Remove \/ SyncRemoved
  PROVE  Committed'
<1> USE NameFacts
<1>1. at \in {"remove", "syncRemoved"} /\ Has(Report) /\ Reported
  BY DEF Remove, SyncRemoved, Committed, Unreported
<1>2. \A r \in Files : Target(r) \in Names /\ Target(r) \notin Inner /\ Target(r) # Root
  BY DEF NamesDiffer
<1>3. /\ Root \in Names /\ Root \notin Inner /\ Report \in Names /\ Report \notin Inner
      /\ Root # Report /\ Root # Journal /\ Journal \in Names /\ Inner \subseteq Names
  BY DEF NamesDiffer
<1>4. ASSUME NEW n \in Inner, Has(n), Written(n, "none"), Goes("remove") PROVE Committed'
  <2>1. /\ durable' = durable /\ seen'[Root] = seen[Root] /\ seen'[Report] = seen[Report]
        /\ seen'[Journal] \in {seen[Journal], "none"} /\ TargetsStay
    BY <1>2, <1>3, <1>4, WrittenIs DEF TargetsStay
  <2> QED
    BY <1>1, <1>4, <2>1, TargetsInstalled DEF Committed, Reported, Both, Has, Goes, Clean
<1>5. CASE Written(Root, "none") /\ Goes("syncRemoved") /\ at = "remove"
  <2>1. /\ durable' = durable /\ seen'[Root] = "none" /\ seen'[Report] = seen[Report]
        /\ seen'[Journal] = seen[Journal] /\ TargetsStay
    BY <1>2, <1>3, <1>5, WrittenIs DEF TargetsStay
  <2> QED
    BY <1>1, <1>5, <2>1, TargetsInstalled DEF Committed, Reported, Both, Has, Goes, Clean
<1>6. CASE SyncRemoved
  <2>1. at' \in {"running", "down"} /\ mode' = mode /\ at = "syncRemoved" /\ (mode = "restore" => at' = "down")
    BY <1>6 DEF SyncRemoved
  <2>2. /\ seen' = seen /\ durable'[Root] = seen[Root] /\ durable'[Report] = durable[Report]
        /\ durable'[Journal] = durable[Journal] /\ TargetsStay
    BY <1>2, <1>3, <1>6, SyncedIs DEF TargetsStay, SyncRemoved
  <2> QED
    BY <1>1, <2>1, <2>2, TargetsInstalled DEF Committed, Reported, Both, Has, Clean
<1> QED
  BY <1>4, <1>5, <1>6 DEF Remove

LEMMA CommittedReconcile ==
  ASSUME Shape, Committed, Reconcile
  PROVE  Committed'
<1>1. CASE Throws
  BY <1>1, CommittedThrows
<1>2. at = "reconcile" /\ mode # "restore"
  BY DEF Reconcile, Committed, Reported, Unreported
<1>3. ASSUME UNCHANGED disk, mode' = mode, \/ at' = "running" /\ ~Has(Root)
                                           \/ at' = "finalize" /\ Has(Root) /\ Has(Journal)
      PROVE  Committed'
  <2>1. NothingElse /\ \A r \in Files : Apart(r)
    BY <1>3, LeftApart
  <2>2. \A r \in Files : (Kept(r) => Kept(r)') /\ (Moved(r) => Moved(r)') /\ Both(Target(r), After(r))'
    BY <2>1, ApartKeeps DEF Committed, Apart, Both
  <2>3. CASE Has(Report)
    BY <1>2, <1>3, <2>1, <2>2, <2>3 DEF Committed, Reported, NothingElse, Both, Has
  <2>4. CASE ~Has(Report)
    <3>1. at' = "finalize" /\ Has(Journal)
      BY <1>3, <2>4 DEF Committed, Unreported, Both, Has
    <3>2. Unreported'
      BY <1>2, <1>3, <2>1, <2>2, <2>4, <3>1 DEF Committed, Unreported, NothingElse, Both, Has
    <3> QED
      BY <1>2, <1>3, <2>1, <2>2, <2>4, <3>2 DEF Committed, NothingElse, Both, Has
  <2> QED
    BY <2>3, <2>4
<1>4. Has(Journal) => PhaseLeadsTo = "finalize"
  BY DEF Committed, PhaseLeadsTo, Has
<1>5. seen[Root] # "pending"
  BY DEF Committed
<1> QED
  BY <1>1, <1>3, <1>4, <1>5 DEF Reconcile, Goes

\* A loss of power may take back the commit phase, as long as nobody made it durable, but not
\* when a receipt tells of it.
LEMMA CommittedLoss ==
  ASSUME Shape, Committed, PowerLoss, ~Hasty
  PROVE  (Working \/ Committed)' /\ (durable[Report] # "none" => Committed' /\ durable'[Report] # "none")
<1> USE NameFacts
<1>1. PICK d \in Losses : seen' = d /\ durable' = d /\ moving' = {}
  BY DEF PowerLoss
<1>2. at' = "down" /\ mode' = "startup" /\ ~Hasty
  BY DEF PowerLoss
<1>3. \A n \in {Root, Report} \cup {Target(r) : r \in Files} :
        n \in Names /\ n \notin Inner /\ d[n] \in {seen[n], durable[n]}
  BY LossIs DEF NamesDiffer
<1>4. \A r \in Files : Both(Target(r), After(r))'
  BY <1>1, <1>3 DEF Committed, Both
<1>5. /\ Journal \in Inner
      /\ d[Root] # "none" => d[Journal] \in {seen[Journal], durable[Journal]}
      /\ d[Root] = "none" => d[Journal] = "none"
  BY LossIs DEF NamesDiffer
<1>6. CASE ~Has(Report)
  <2>1. Unreported /\ durable[Report] = "none"
    BY <1>6 DEF Committed, Shape
  <2>2. Both(Root, "transaction")' /\ Both(Report, "none")'
    BY <1>1, <1>3, <1>6, <2>1 DEF Unreported, Both, Has
  <2>3. d[Journal] \in {seen[Journal], durable[Journal]}
    BY <1>1, <1>5, <2>2 DEF Both
  <2>4. CASE d[Journal] # "rollback-required"
    <3>1. d[Journal] \in {"none", "commit-complete"}
      BY <2>1, <2>3, <2>4 DEF Unreported, Both
    <3>2. Unreported'
      BY <1>1, <1>2, <2>2, <3>1 DEF Unreported, Both
    <3> QED
      BY <1>1, <1>2, <1>4, <2>1, <2>2, <3>1, <3>2 DEF Committed, Both, Has
  <2>5. CASE d[Journal] = "rollback-required"
    <3>1. \A r \in Files : Kept(r) /\ Moved(r)
      BY <2>1, <2>3, <2>5 DEF Unreported, Both
    <3>2. \A r \in Files : UNCHANGED <<seen[Rollback(r)], durable[Rollback(r)]>> \/ ~HadOriginal(r)
      <4> TAKE r \in Files
      <4>1. Rollback(r) \in Inner
        BY DEF NamesDiffer
      <4> QED
        BY <1>1, <2>2, <3>1, <4>1, LossIs DEF Moved, Both
    <3>3. \A r \in Files : ~HadOriginal(r) => NotMoved(r)'
      <4> TAKE r \in Files
      <4>1. Rollback(r) \in Inner
        BY DEF NamesDiffer
      <4> QED
        BY <1>1, <2>2, <3>1, <4>1, LossIs DEF Kept, NotMoved, Both
    <3>4. \A r \in Files : Kept(r)'
      BY <3>1, <3>2, <3>3 DEF Kept, Moved, SomeCopy, Both
    <3>5. Working'
      BY <1>1, <1>2, <2>2, <2>5, <3>4 DEF Working, WorkingPlace, Both, Has
    <3> QED
      BY <2>1, <3>5
  <2> QED
    BY <2>4, <2>5
<1>7. CASE Has(Report) /\ d[Report] # "none"
  <2>1. Reported
    BY <1>7 DEF Committed
  <2>2. Has(Root) => d[Root] = "transaction"
    BY <1>3, <2>1 DEF Reported, Both
  <2>3. d[Root] \in {"transaction", "none"}
    BY <1>3 DEF Committed
  <2>4. d[Journal] \in {"commit-complete", "none"}
    <3>1. CASE d[Root] = "none"
      BY <1>5, <3>1
    <3>2. CASE d[Root] # "none" /\ durable[Journal] # "rollback-required"
      BY <1>5, <3>2 DEF Committed
    <3>3. CASE d[Root] # "none" /\ durable[Journal] = "rollback-required"
      <4>1. mode # "restore"
        BY <2>1, <3>3 DEF Reported
      <4>2. durable[Root] = "none"
        BY <1>2, <1>7, <3>3, <4>1 DEF Hasty
      <4> QED
        BY <1>3, <2>1, <3>3, <4>2 DEF Reported, Both, Has
    <3> QED
      BY <3>1, <3>2, <3>3
  <2>5. Has(Report)' /\ durable'[Report] # "none"
    BY <1>1, <1>7 DEF Has
  <2>6. Reported'
    BY <1>1, <1>2, <2>3 DEF Reported, Both, Has
  <2> QED
    BY <1>1, <1>2, <1>4, <2>3, <2>4, <2>5, <2>6 DEF Committed, Both
<1>8. CASE Has(Report) /\ d[Report] = "none"
  <2>1. Reported /\ durable[Report] = "none" /\ ~Clean(Report)
    BY <1>3, <1>8 DEF Committed, Has, Clean
  <2>2. Has(Root)
    <3>1. CASE mode = "restore"
      BY <2>1, <3>1 DEF Reported
    <3>2. CASE mode # "restore"
      BY <1>2, <1>3, <2>1, <3>2 DEF Hasty, Clean, Has
    <3> QED
      BY <3>1, <3>2
  <2>3. Both(Root, "transaction") /\ d[Root] = "transaction"
    BY <1>3, <2>1, <2>2 DEF Reported, Both
  <2>4. durable[Journal] # "rollback-required"
    BY <1>2, <1>8, <2>1, <2>3 DEF Hasty, Reported, Both
  <2>5. d[Journal] \in {"commit-complete", "none"}
    BY <1>5, <2>3, <2>4 DEF Committed
  <2>6. Both(Root, "transaction")' /\ Both(Report, "none")'
    BY <1>1, <1>8, <2>3 DEF Both
  <2>7. Unreported'
    BY <1>1, <1>2, <2>5, <2>6 DEF Unreported, Both
  <2> QED
    BY <1>1, <1>2, <1>4, <2>1, <2>5, <2>6, <2>7 DEF Committed, Both, Has
<1> QED
  BY <1>6, <1>7, <1>8

LEMMA CommittedStep ==
  ASSUME Shape, Committed, [Next]_vars, PowerLoss => ~Hasty
  PROVE  (Working \/ Committed)' /\ (durable[Report] # "none" => Committed' /\ durable'[Report] # "none")
<1> USE NameFacts
<1>r. /\ Report \in Names /\ Journal \in Names /\ Root \in Names /\ Inner \subseteq Names
      /\ StagedReceipt \in Names /\ Report # Journal /\ Report # Root
  BY DEF NamesDiffer
<1>1. CASE SyncCommit \/ Finalize \/ PublishReceipt \/ SyncReport
  <2>1. Committed'
    BY <1>1, ReportingStep
  <2>2. CASE SyncCommit
    BY <2>1, <2>2, <1>r, SyncedIs DEF SyncCommit, MakeCommitDurable
  <2>3. CASE Finalize
    BY <2>1, <2>3, ThrowsIs DEF Finalize, disk
  <2>4. CASE PublishReceipt
    <3>1. durable' = durable
      BY <2>4, ThrowsIs DEF PublishReceipt, disk, Written, Renamed
    <3> QED
      BY <2>1, <3>1
  <2>5. CASE SyncReport
    <3>1. durable'[Report] = seen[Report] 
      BY <2>5, <1>r, SyncedIs DEF SyncReport
    <3> QED
      BY <2>1, <3>1 DEF Shape, Has
  <2> QED
    BY <1>1, <2>2, <2>3, <2>4, <2>5
<1>2. CASE Remove \/ SyncRemoved
  <2>1. Committed'
    BY <1>2, ReportedRemovalStep
  <2>2. durable'[Report] = durable[Report]
    BY <1>2, <1>r, SyncedIs DEF Remove, Written, SyncRemoved
  <2> QED
    BY <2>1, <2>2
<1>3. CASE Reconcile
  BY <1>3, CommittedReconcile, ThrowsIs DEF Reconcile, disk
<1>4. CASE Startup
  BY <1>4, LeftApart, CommittedInterrupted DEF Startup, disk
<1>5. CASE Crash
  BY <1>5, LeftApart, CommittedInterrupted DEF Crash, disk
<1>6. CASE PowerLoss
  BY <1>6, CommittedLoss
<1>7. CASE CallFails
  BY <1>7, CommittedThrows, ThrowsIs DEF CallFails
<1>8. CASE UNCHANGED vars
  <2>1. UNCHANGED <<seen, durable, moving, at, file, mode, published, outcome>>
    BY <1>8 DEF vars, disk, control
  <2> QED
    BY <2>1 DEF Committed, Reported, Unreported, Moved, Kept, SomeCopy, NotMoved, Both, Clean, Has
<1>9. at \notin {"begin", "stage", "publish", "syncPublished", "mark", "syncMark", "check",
                 "move", "syncMoved", "syncSource", "install", "syncInstalled", "verify", "commit",
                 "rollback", "putBack", "syncPutBack"}
  BY DEF Committed, Reported, Unreported
<1> QED
  BY <1>1, <1>2, <1>3, <1>4, <1>5, <1>6, <1>7, <1>8, <1>9
  DEF Next, Process, Begin, Stage, Publish, SyncPublished, Mark, SyncMark, CheckPreimages,
      MoveOriginal, SyncMoved, SyncSource, Install, SyncInstalled, Verify, Commit,
      RollBack, PutBack, SyncPutBack, Meddle

-----------------------------------------------------------------------------
LEMMA OutcomeStep ==
  ASSUME Shape, [Next]_vars, outcome' = "restored", outcome # "restored"
  PROVE  SyncRemoved /\ mode = "restore"
<1>1. \A to : Goes(to) => outcome' = outcome
  BY DEF Goes
<1>2. ~Throws
  BY ThrowsIs
<1>3. ~NextFile /\ ~PreviousFile
  BY DEF NextFile, PreviousFile
<1>4. CASE SyncRemoved
  BY <1>4 DEF SyncRemoved
<1> QED
  BY <1>1, <1>2, <1>3, <1>4
  DEF Next, Process, Begin, Stage, Publish, SyncPublished, Mark, SyncMark, CheckPreimages,
      MoveOriginal, SyncMoved, SyncSource, Install, SyncInstalled, Verify, Commit, SyncCommit,
      Finalize, PublishReceipt, SyncReport, Remove, Reconcile, RollBack, PutBack, SyncPutBack,
      Startup, Meddle, Crash, PowerLoss, CallFails, vars, control

LEMMA InitIInv == ASSUME Init PROVE IInv
<1> USE NameFacts
<1>1. Shape
  BY RecordFacts DEF Init, Shape, Has, NamesDiffer
<1>2. \A r \in Files : Both(Target(r), Before(r)) /\ NotMoved(r)
  <2> TAKE r \in Files
  <2>1. /\ Target(r) \in Names /\ Target(r) \in {Target(s) : s \in Files} /\ Target(r)[2] = r
        /\ Rollback(r) \in Names /\ Rollback(r) \notin {Target(s) : s \in Files}
    BY DEF NamesDiffer
  <2> QED
    BY <2>1 DEF Init, Both, NotMoved
<1>3. \A n \in {Root, Report, Journal} : Both(n, "none")
  BY DEF Init, Both, NamesDiffer
<1>4. Untouched
  BY <1>2, <1>3 DEF Init, Untouched, UntouchedPlace, TargetUntouched, Both, Clean
<1> QED
  BY <1>1, <1>4 DEF Init, IInv

LEMMA IInvStep ==
  ASSUME IInv, [Next]_vars, PowerLoss => ~Hasty
  PROVE  IInv'
<1>1. Shape'
  BY ShapeStep DEF IInv
<1>2. (Untouched \/ Working \/ Committed)'
  BY UntouchedStep, WorkingStep, CommittedStep DEF IInv
<1>3. ASSUME outcome' = "restored" PROVE Committed' /\ durable'[Report] # "none"
  <2>1. CASE outcome = "restored"
    BY <2>1, CommittedStep DEF IInv
  <2>2. CASE outcome # "restored"
    <3>1. SyncRemoved /\ mode = "restore" /\ at = "syncRemoved"
      BY <1>3, <2>2, OutcomeStep DEF IInv, SyncRemoved
    <3>2. Committed
      BY <3>1 DEF IInv, Untouched, UntouchedPlace, Working, RestorePlaces
    <3>3. Has(Report) /\ Clean(Report)
      BY <3>1, <3>2 DEF Committed, Reported, Unreported
    <3> QED
      BY <3>2, <3>3, CommittedStep DEF IInv, Clean, Has, Next, Process
  <2> QED
    BY <2>1, <2>2
<1> QED
  BY <1>1, <1>2, <1>3 DEF IInv

-----------------------------------------------------------------------------
(***************************************************************************)
(* The theorems.                                                           *)
(***************************************************************************)
\* The generations are told apart by every file.
LEMMA GenerationsDiffer == \A r \in Files : After(r) # Before(r) /\ After(r) # "other" /\ Before(r) # "other"
BY RecordFacts DEF After, Before, HadOriginal, Installs

LEMMA IInvSafe ==
  ASSUME IInv
  PROVE  OneGenerationWhole /\ PriorSurvives /\ ReceiptIsTrue /\ AcknowledgedIsDurable
<1>1. CASE Untouched
  <2>1. Prior /\ ~Has(Report)
    BY <1>1 DEF Untouched, TargetUntouched, Prior, Both, Has
  <2>2. ~AllInstalled
    BY <2>1, RecordFacts, GenerationsDiffer DEF Prior, AllInstalled
  <2>3. PriorSurvives
    BY <1>1 DEF Untouched, TargetUntouched, PriorSurvives, Before
  <2>4. outcome # "restored"
    BY <1>1, <2>2 DEF IInv, Committed, AllInstalled, Both
  <2> QED
    BY <2>1, <2>2, <2>3, <2>4 DEF OneGenerationWhole, ReceiptIsTrue, AcknowledgedIsDurable
<1>2. CASE Working
  <2>1. at = "running" => Prior /\ ~AllInstalled
    <3> SUFFICES ASSUME at = "running" PROVE Prior /\ ~AllInstalled
      OBVIOUS
    <3>1. \A r \in Files : seen[Target(r)] = Before(r)
      BY <1>2 DEF Working, WorkingPlace, RestorePlaces
    <3> QED
      BY <3>1, RecordFacts, GenerationsDiffer DEF Prior, AllInstalled
  <2>2. ~Has(Report)
    BY <1>2 DEF Working, Both, Has
  <2>3. PriorSurvives
    BY <1>2 DEF Working, Kept, SomeCopy, Both, PriorSurvives
  <2>4. outcome = "restored" => AllInstalled
    BY DEF IInv, Committed, AllInstalled, Both
  <2> QED
    BY <2>1, <2>2, <2>3, <2>4 DEF OneGenerationWhole, ReceiptIsTrue, AcknowledgedIsDurable
<1>3. CASE Committed
  <2>1. AllInstalled
    BY <1>3 DEF Committed, AllInstalled, Both
  <2>2. seen[Journal] # "rollback-required"
    BY <1>3 DEF Committed
  <2>3. at = "running" => Has(Report)
    BY <1>3 DEF Committed, Unreported
  <2> QED
    BY <2>1, <2>2, <2>3 DEF OneGenerationWhole, PriorSurvives, ReceiptIsTrue, AcknowledgedIsDurable
<1> QED
  BY <1>1, <1>2, <1>3 DEF IInv

\* The invariant: in every state the transaction is in one of its three stages, and one
\* that was acknowledged is committed with a durable receipt, as long as the power does not
\* go after a crash or a failing call while a recovery has acted on names that nobody made
\* durable.
THEOREM RestoreInvariant == ASSUME HastyLosses = FALSE PROVE Spec => []IInv
<1>1. Init => IInv
  BY InitIInv
<1>2. IInv /\ [Next]_vars => IInv'
  BY IInvStep DEF PowerLoss
<1> QED
  BY <1>1, <1>2, PTL DEF Spec

\* The storage opens on one generation whole, wherever the restore, its catch clause or an
\* earlier startup was interrupted (rollbackRecordsSync, finalizeCommittedTransactionSync),
\* on the same assumption.
THEOREM OpensOnOneGeneration == ASSUME HastyLosses = FALSE PROVE Spec => []OneGenerationWhole
<1>1. IInv => OneGenerationWhole
  BY IInvSafe
<1> QED
  BY <1>1, RestoreInvariant, PTL

\* Below the commit point a copy of every original is on the disk, whichever of the renames
\* a loss of power undoes (moveOriginalToRollback and the synchronisations after it), unless
\* a recovery had acted on names not durable yet, for which RestoreHasty has a counterexample.
THEOREM OriginalsAreKept == ASSUME HastyLosses = FALSE PROVE Spec => []PriorSurvives
<1>1. IInv => PriorSurvives
  BY IInvSafe
<1> QED
  BY <1>1, RestoreInvariant, PTL

\* There is a published receipt exactly if the storage opens on the restored generation, and
\* no crash between the commit, the receipt and the clean-up makes it a lie, on the same
\* assumption.
THEOREM ReceiptsAreTrue == ASSUME HastyLosses = FALSE PROVE Spec => []ReceiptIsTrue
<1>1. IInv => ReceiptIsTrue
  BY IInvSafe
<1> QED
  BY <1>1, RestoreInvariant, PTL

-----------------------------------------------------------------------------
(***************************************************************************)
(* A restore that returned success is done with: its transaction is gone   *)
(* and its receipt is there, durably, so that no loss of power meets what  *)
(* startup relied on too early.                                            *)
(***************************************************************************)
Settled == Committed /\ Both(Root, "none") /\ Clean(Report) /\ Has(Report)

LEMMA SettledIsNotHasty ==
  ASSUME Shape, Settled
  PROVE  ~Hasty
<1> USE NameFacts
<1>1. \A n \in Names \ (Inner \cup {Root}) : n = Report \/ \E r \in Files : n = Target(r)
  BY DEF Names, Inner
<1>2. \A n \in Names \ (Inner \cup {Root}) : Clean(n)
  BY <1>1 DEF Settled, Committed, Both, Clean
<1> QED
  BY <1>2 DEF Hasty, Settled, Both, Clean

LEMMA SettledStep ==
  ASSUME Shape, Settled, [Next]_vars
  PROVE  Settled'
<1> USE NameFacts
<1>r. {Report, Root} \subseteq Names \ Inner /\ Report # Root
  BY DEF NamesDiffer
<1>1. Committed' /\ durable'[Report] # "none"
  BY SettledIsNotHasty, CommittedStep DEF Settled, Clean, Has
<1>2. /\ Reported /\ ~Has(Root)
      /\ at \in {"remove", "syncRemoved", "down", "reconcile", "running"}
  BY <1>r DEF Settled, Committed, Reported, Both, Has
<1>3. Both(Root, "none")' /\ Clean(Report)'
  <2>1. CASE Remove
    BY <1>r, <1>2, <2>1 DEF Remove, Written, Settled, Both, Clean, Shape
  <2>2. CASE SyncRemoved
    BY <1>r, <2>2, SyncedIs DEF SyncRemoved, Settled, Both, Clean
  <2>3. CASE Reconcile \/ Startup \/ Crash
    BY <2>3, ThrowsIs DEF Reconcile, Startup, Crash, disk, Settled, Both, Clean
  <2>4. CASE CallFails
    BY <2>4, ThrowsIs DEF CallFails, Settled, Both, Clean
  <2>5. CASE PowerLoss
    BY <2>5, <1>r, LossIs DEF PowerLoss, Settled, Both, Clean
  <2>6. CASE UNCHANGED vars
    BY <2>6 DEF vars, disk, Settled, Both, Clean
  <2> QED
    BY <1>2, <2>1, <2>2, <2>3, <2>4, <2>5, <2>6
    DEF Next, Process, Begin, Stage, Publish, SyncPublished, Mark, SyncMark, CheckPreimages,
        MoveOriginal, SyncMoved, SyncSource, Install, SyncInstalled, Verify, Commit, SyncCommit,
        Finalize, PublishReceipt, SyncReport, RollBack, PutBack, SyncPutBack, Meddle
<1> QED
  BY <1>1, <1>3, ShapeStep DEF Settled, Clean, Has

\* The restore itself is never resumed.
LEMMA ModeStep ==
  ASSUME [Next]_vars, mode # "restore"
  PROVE  mode' # "restore"
<1>1. \A to : Goes(to) => mode' = mode
  BY DEF Goes
<1>2. Throws => mode' # "restore"
  BY DEF Throws, Catches
<1>3. NextFile \/ PreviousFile => mode' = mode
  BY DEF NextFile, PreviousFile
<1> QED
  BY <1>1, <1>2, <1>3
  DEF Next, Process, Begin, Stage, Publish, SyncPublished, Mark, SyncMark, CheckPreimages,
      MoveOriginal, SyncMoved, SyncSource, Install, SyncInstalled, Verify, Commit, SyncCommit,
      Finalize, PublishReceipt, SyncReport, Remove, SyncRemoved, Reconcile, RollBack, PutBack,
      SyncPutBack, Startup, Meddle, Crash, PowerLoss, CallFails, vars, control

\* The last step of a restore that succeeds.
LEMMA Settles ==
  ASSUME IInv, [Next]_vars, outcome # "restored", outcome' = "restored"
  PROVE  Settled'
<1> USE NameFacts
<1>1. SyncRemoved /\ mode = "restore" /\ at = "syncRemoved"
  BY OutcomeStep DEF IInv, SyncRemoved
<1>2. Committed
  BY <1>1 DEF IInv, Untouched, UntouchedPlace, Working, RestorePlaces
<1>3. Has(Report) /\ Clean(Report) /\ ~Has(Root)
  BY <1>1, <1>2 DEF Committed, Reported, Unreported
<1>4. /\ seen' = seen /\ durable'[Root] = "none" /\ durable'[Report] = durable[Report]
  BY <1>1, <1>3, SyncedIs DEF IInv, SyncRemoved, Has, NamesDiffer
<1>5. Committed'
  BY <1>1, <1>2, ReportedRemovalStep DEF IInv
<1> QED
  BY <1>3, <1>4, <1>5 DEF Settled, Both, Clean, Has

\* The invariant of the acknowledgement: what startup and the catch clause do is of no
\* concern unless the restore was acknowledged.
AckInv ==
  /\ Shape
  /\ mode = "restore" => IInv
  /\ outcome = "restored" => Settled

LEMMA AckStep ==
  ASSUME AckInv, [Next]_vars
  PROVE  AckInv'
<1>1. Shape'
  BY ShapeStep DEF AckInv
<1>2. ASSUME mode = "restore"
      PROVE  IInv'
  BY <1>2, IInvStep DEF AckInv, Hasty
<1>3. mode' = "restore" => IInv'
  BY <1>2, ModeStep
<1>4. ASSUME outcome' = "restored" PROVE Settled'
  <2>1. CASE outcome = "restored"
    BY <2>1, SettledStep DEF AckInv
  <2>2. CASE outcome # "restored"
    BY <1>4, <2>2, OutcomeStep, Settles DEF AckInv
  <2> QED
    BY <2>1, <2>2
<1> QED
  BY <1>1, <1>3, <1>4 DEF AckInv

\* A restore that returned success is not undone by anything that happens later, whenever
\* the power goes: this needs no assumption on the losses.
THEOREM AcknowledgementsLast == Spec => []AcknowledgedIsDurable
<1>1. Init => AckInv
  BY InitIInv DEF AckInv, IInv, Init
<1>2. AckInv /\ [Next]_vars => AckInv'
  BY AckStep
<1>3. AckInv => AcknowledgedIsDurable
  BY DEF AckInv, Settled, Committed, Both, AllInstalled, AcknowledgedIsDurable
<1> QED
  BY <1>1, <1>2, <1>3, PTL DEF Spec

-----------------------------------------------------------------------------
(***************************************************************************)
(* The authority over service manifests.                                   *)
(***************************************************************************)
Version == [service : Services, from : Nat \ {0}, to : Nat,
            revision : Nat \ {0}, manifest : Manifests]

Entry(v) == [service |-> v.service, revision |-> v.revision, manifest |-> v.manifest]

ManifestTypes ==
  /\ candidateRev \in Nat /\ publishedRev \in 0..candidateRev
  /\ services \in [Services -> [revision : Nat, manifest : Manifests \cup {"none"}]]
  /\ versions \subseteq Version

\* The interval of a version begins and, once closed, ends in the past.
Intervals ==
  \A v \in versions : /\ v.from <= candidateRev
                      /\ v.to = 0 \/ (v.from < v.to /\ v.to <= candidateRev)

\* The open versions are those of manifest_services.
OpenVersions ==
  /\ \A v \in versions : v.to = 0 =>
       services[v.service] = [revision |-> v.revision, manifest |-> v.manifest]
  /\ \A s \in Services : services[s].revision # 0 =>
       \E v \in versions : v.service = s /\ v.to = 0

BlobsAreThose == blobs = {v.manifest : v \in versions}

ManifestInv == ManifestTypes /\ Intervals /\ OpenVersions /\ BlobsAreThose

-----------------------------------------------------------------------------
(***************************************************************************)
(* What the snapshots are.                                                 *)
(***************************************************************************)
LEMMA SnapshotIs ==
  ASSUME ManifestInv, NEW r
  PROVE  Snapshot(r) = {Entry(v) : v \in {v \in versions : ValidAt(v, r)}}
<1>1. \A v \in versions : v.manifest \in blobs
  BY DEF ManifestInv, BlobsAreThose
<1>2. {v \in versions : ValidAt(v, r) /\ v.manifest \in blobs} = {v \in versions : ValidAt(v, r)}
  BY <1>1
<1> QED
  BY <1>2 DEF Snapshot, Entry

\* At the candidate exactly the open versions are valid.
LEMMA OpenAreValid ==
  ASSUME ManifestInv, NEW v \in versions
  PROVE  ValidAt(v, candidateRev) <=> v.to = 0
<1>1. candidateRev \in Nat /\ v.from \in Nat /\ v.to \in Nat
  BY DEF ManifestInv, ManifestTypes, Version
<1>2. v.from <= candidateRev /\ (v.to = 0 \/ v.to <= candidateRev)
  BY DEF ManifestInv, Intervals
<1> QED
  BY <1>1, <1>2 DEF ValidAt

LEMMA CandidateIs ==
  ASSUME ManifestInv
  PROVE  Snapshot(candidateRev) = {Entry(v) : v \in {v \in versions : v.to = 0}}
<1>1. {v \in versions : ValidAt(v, candidateRev)} = {v \in versions : v.to = 0}
  BY OpenAreValid
<1> QED
  BY <1>1, SnapshotIs

-----------------------------------------------------------------------------
(***************************************************************************)
(* commitManifest.                                                         *)
(***************************************************************************)
\* The version a change adds.
Added(input) ==
  [service |-> input.service, from |-> candidateRev + 1, to |-> 0,
   revision |-> services[input.service].revision + 1, manifest |-> input.manifest]

Closed(v) == [v EXCEPT !.to = candidateRev + 1]

LEMMA AddedIs ==
  ASSUME ManifestTypes, NEW input \in Inputs
  PROVE  Added(input) \in Version
BY DEF ManifestTypes, Inputs, Added, Version

LEMMA ClosedIs ==
  ASSUME ManifestTypes, NEW v \in versions
  PROVE  /\ Closed(v) \in Version /\ Closed(v).to = candidateRev + 1
         /\ Closed(v).from = v.from /\ Entry(Closed(v)) = Entry(v)
         /\ Closed(v).service = v.service /\ Closed(v).revision = v.revision
         /\ Closed(v).manifest = v.manifest
<1>1. v \in Version /\ candidateRev + 1 \in Nat
  BY DEF ManifestTypes
<1> QED
  BY <1>1 DEF Closed, Entry, Version

\* The versions after a change: those of other services and those closed before,
\* those closed by the change, and the one it adds.
LEMMA ChangedVersions ==
  ASSUME NEW input \in Inputs, CommitChange(input)
  PROVE  \A w : w \in versions' <=>
           \/ w \in versions /\ ~(w.service = input.service /\ w.to = 0)
           \/ \E v \in versions : v.service = input.service /\ v.to = 0 /\ w = Closed(v)
           \/ w = Added(input)
BY DEF CommitChange, Superseded, Closed, Added

LEMMA ChangeIs ==
  ASSUME ManifestInv, NEW input \in Inputs, CommitChange(input)
  PROVE  /\ input.service \in Services /\ input.manifest \in Manifests
         /\ services[input.service].manifest # input.manifest
         /\ services' = [services EXCEPT ![input.service] =
              [revision |-> services[input.service].revision + 1, manifest |-> input.manifest]]
         /\ candidateRev' = candidateRev + 1 /\ publishedRev' = publishedRev
         /\ blobs' = blobs \cup {input.manifest}
         /\ candidateRev - publishedRev < Backlog
BY DEF CommitChange, Inputs

LEMMA ChangeKeepsTypes ==
  ASSUME ManifestInv, NEW input \in Inputs, CommitChange(input)
  PROVE  ManifestTypes' /\ Intervals'
<1>1. ManifestTypes /\ Intervals
  BY DEF ManifestInv
<1>2. candidateRev \in Nat /\ candidateRev' = candidateRev + 1
  BY <1>1, ChangeIs DEF ManifestTypes
<1>3. ASSUME NEW w \in versions'
      PROVE  /\ w \in Version /\ w.from <= candidateRev'
             /\ w.to = 0 \/ (w.from < w.to /\ w.to <= candidateRev')
  <2>1. CASE w \in versions
    BY <1>1, <1>2, <2>1 DEF ManifestTypes, Intervals, Version
  <2>2. ASSUME NEW v \in versions, w = Closed(v)
        PROVE  w \in Version /\ w.from < w.to /\ w.to = candidateRev'
    BY <1>1, <1>2, <2>2, ClosedIs DEF Intervals, ManifestTypes, Version
  <2>3. CASE w = Added(input)
    BY <1>1, <1>2, <2>3, AddedIs DEF Added
  <2>4. w \in Version => w.from \in Nat /\ w.to \in Nat
    BY DEF Version
  <2> QED
    BY <1>2, <2>1, <2>2, <2>3, <2>4, ChangedVersions
<1>4. services' \in [Services -> [revision : Nat, manifest : Manifests \cup {"none"}]]
  <2> DEFINE s == input.service
             entry == [revision |-> services[s].revision + 1, manifest |-> input.manifest]
  <2>1. /\ s \in Services /\ input.manifest \in Manifests
        /\ services' = [services EXCEPT ![s] = entry]
    BY ChangeIs
  <2>2. services \in [Services -> [revision : Nat, manifest : Manifests \cup {"none"}]]
    BY <1>1 DEF ManifestTypes
  <2>3. services[s].revision \in Nat
    BY <2>1, <2>2
  <2>4. entry \in [revision : Nat, manifest : Manifests \cup {"none"}]
    BY <2>1, <2>3
  <2> QED
    BY <2>1, <2>2, <2>4
<1>5. publishedRev' \in 0..candidateRev'
  <2>1. publishedRev' = publishedRev /\ publishedRev \in 0..candidateRev
    BY <1>1, ChangeIs DEF ManifestTypes
  <2> QED
    BY <1>2, <2>1
<1> QED
  BY <1>2, <1>3, <1>4, <1>5 DEF ManifestTypes, Intervals

LEMMA ChangeKeepsOpen ==
  ASSUME ManifestInv, NEW input \in Inputs, CommitChange(input)
  PROVE  OpenVersions'
<1> DEFINE s == input.service
<1>1. ManifestTypes /\ OpenVersions
  BY DEF ManifestInv
<1>2. /\ services'[s] = [revision |-> services[s].revision + 1, manifest |-> input.manifest]
      /\ \A t \in Services : t # s => services'[t] = services[t]
      /\ s \in Services
  BY <1>1, ChangeIs DEF ManifestTypes
<1>3. \A v \in versions : Closed(v).to # 0
  BY <1>1, ClosedIs DEF ManifestTypes
<1>4. /\ Added(input).service = s /\ Added(input).to = 0
      /\ services'[s] = [revision |-> Added(input).revision, manifest |-> Added(input).manifest]
  BY <1>2 DEF Added
<1>5. ASSUME NEW v \in versions', v.to = 0
      PROVE  services'[v.service] = [revision |-> v.revision, manifest |-> v.manifest]
  <2>1. CASE v = Added(input)
    BY <1>4, <2>1
  <2>2. CASE v \in versions /\ v.service # s
    <3>1. v.service \in Services
      BY <1>1, <2>2 DEF ManifestTypes, Version
    <3> QED
      BY <1>1, <1>2, <1>5, <2>2, <3>1 DEF OpenVersions
  <2> QED
    BY <1>3, <1>5, <2>1, <2>2, ChangedVersions
<1>6. ASSUME NEW t \in Services, services'[t].revision # 0
      PROVE  \E v \in versions' : v.service = t /\ v.to = 0
  <2>1. CASE t = s
    BY <1>4, <2>1, ChangedVersions
  <2>2. CASE t # s
    <3>1. PICK v \in versions : v.service = t /\ v.to = 0
      BY <1>1, <1>2, <1>6, <2>2 DEF OpenVersions
    <3> QED
      BY <2>2, <3>1, ChangedVersions
  <2> QED
    BY <2>1, <2>2
<1> QED
  BY <1>5, <1>6 DEF OpenVersions

LEMMA ChangeKeepsBlobs ==
  ASSUME ManifestInv, NEW input \in Inputs, CommitChange(input)
  PROVE  BlobsAreThose'
<1>1. ManifestTypes /\ BlobsAreThose
  BY DEF ManifestInv
<1>2. Added(input) \in versions' /\ Added(input).manifest = input.manifest
  BY ChangedVersions DEF Added
<1>3. \A v \in versions : \E w \in versions' : w.manifest = v.manifest
  BY <1>1, ChangedVersions, ClosedIs
<1>4. \A w \in versions' : w = Added(input) \/ \E v \in versions : w.manifest = v.manifest
  BY <1>1, ChangedVersions, ClosedIs
<1>5. blobs' = {v.manifest : v \in versions} \cup {input.manifest}
  BY <1>1, ChangeIs DEF BlobsAreThose
<1> QED
  BY <1>2, <1>3, <1>4, <1>5 DEF BlobsAreThose

\* What is valid at a revision of the past remains so, entry for entry.
LEMMA PastIsKept ==
  ASSUME ManifestInv, ManifestInv', NEW input \in Inputs, CommitChange(input)
  PROVE  Snapshot(publishedRev)' = Snapshot(publishedRev)
<1>1. /\ candidateRev \in Nat /\ publishedRev \in 0..candidateRev
      /\ \A v \in versions : v.from \in Nat /\ v.to \in Nat
      /\ ManifestTypes
  BY DEF ManifestInv, ManifestTypes, Version
<1>2. publishedRev' = publishedRev
  BY ChangeIs
<1>3. ~ValidAt(Added(input), publishedRev)
  BY <1>1 DEF Added, ValidAt
<1>4. \A v \in versions : v.to = 0 => (ValidAt(Closed(v), publishedRev) <=> ValidAt(v, publishedRev))
  BY <1>1, ClosedIs DEF ValidAt
<1>5. ASSUME NEW w \in versions', ValidAt(w, publishedRev)
      PROVE  \E v \in versions : ValidAt(v, publishedRev) /\ Entry(w) = Entry(v)
  BY <1>1, <1>3, <1>4, <1>5, ChangedVersions, ClosedIs
<1>6. ASSUME NEW v \in versions, ValidAt(v, publishedRev)
      PROVE  \E w \in versions' : ValidAt(w, publishedRev) /\ Entry(w) = Entry(v)
  BY <1>1, <1>4, <1>6, ChangedVersions, ClosedIs
<1>7. Snapshot(publishedRev) = {Entry(v) : v \in {v \in versions : ValidAt(v, publishedRev)}}
  BY SnapshotIs
<1>8. Snapshot(publishedRev)' = {Entry(v) : v \in {v \in versions' : ValidAt(v, publishedRev')}}
  <2>1. \A v \in versions' : v.manifest \in blobs'
    BY DEF ManifestInv, BlobsAreThose
  <2>2. {v \in versions' : ValidAt(v, publishedRev') /\ v.manifest \in blobs'}
          = {v \in versions' : ValidAt(v, publishedRev')}
    BY <2>1
  <2> QED
    BY <2>2 DEF Snapshot, Entry, ValidAt
<1> QED
  BY <1>2, <1>5, <1>6, <1>7, <1>8

\* The new candidate has the added entry in the place of the service's old one.
LEMMA CandidateChanges ==
  ASSUME ManifestInv, ManifestInv', NEW input \in Inputs, CommitChange(input)
  PROVE  Snapshot(candidateRev)' =
           {x \in Snapshot(candidateRev) : x.service # input.service} \cup {Entry(Added(input))}
<1>1. ManifestTypes
  BY DEF ManifestInv
<1>2. Snapshot(candidateRev) = {Entry(v) : v \in {v \in versions : v.to = 0}}
  BY CandidateIs
<1>3. Snapshot(candidateRev)' = {Entry(v) : v \in {v \in versions' : v.to = 0}}
  <2>1. \A v \in versions' : v.manifest \in blobs'
    BY DEF ManifestInv, BlobsAreThose
  <2>2. \A v \in versions' : ValidAt(v, candidateRev') <=> v.to = 0
    <3> SUFFICES ASSUME NEW v \in versions' PROVE ValidAt(v, candidateRev') <=> v.to = 0
      OBVIOUS
    <3>1. candidateRev' \in Nat /\ v.from \in Nat /\ v.to \in Nat
      BY DEF ManifestInv, ManifestTypes, Version
    <3>2. v.from <= candidateRev' /\ (v.to = 0 \/ v.to <= candidateRev')
      BY DEF ManifestInv, Intervals
    <3> QED
      BY <3>1, <3>2 DEF ValidAt
  <2>3. {v \in versions' : ValidAt(v, candidateRev') /\ v.manifest \in blobs'}
          = {v \in versions' : v.to = 0}
    BY <2>1, <2>2
  <2> QED
    BY <2>3 DEF Snapshot, Entry, ValidAt
<1>4. \A v \in versions : Closed(v).to # 0
  BY <1>1, ClosedIs DEF ManifestTypes
<1>5. Added(input).to = 0 /\ Added(input) \in versions'
  BY ChangedVersions DEF Added
<1>6. \A v : v \in versions' /\ v.to = 0 <=>
        \/ v \in versions /\ v.to = 0 /\ v.service # input.service
        \/ v = Added(input)
  BY <1>4, <1>5, ChangedVersions
<1>7. \A v : Entry(v).service = v.service
  BY DEF Entry
<1> QED
  BY <1>2, <1>3, <1>6, <1>7

LEMMA ChangeRefines ==
  ASSUME ManifestInv, ManifestInv', NEW input \in Inputs, CommitChange(input)
  PROVE  TwoSets!Change(input.service, input.manifest)
<1> DEFINE s == input.service
           C == Snapshot(candidateRev)
           r == services[s].revision + 1
<1>1. ManifestTypes /\ OpenVersions
  BY DEF ManifestInv
<1>2. /\ services[s].manifest # input.manifest /\ s \in Services
      /\ candidateRev \in Nat /\ publishedRev \in Nat
      /\ candidateRev' - publishedRev' = (candidateRev - publishedRev) + 1
      /\ candidateRev - publishedRev < Backlog
  <2>1. /\ services[s].manifest # input.manifest /\ s \in Services
        /\ candidateRev - publishedRev < Backlog
    BY ChangeIs
  <2>2. /\ candidateRev' = candidateRev + 1 /\ publishedRev' = publishedRev
        /\ candidateRev \in Nat /\ publishedRev \in 0..candidateRev
    BY <1>1, ChangeIs DEF ManifestTypes
  <2> QED
    BY <2>1, <2>2
<1>3. ASSUME NEW x \in C, x.service = s
      PROVE  x.revision = services[s].revision /\ x.manifest = services[s].manifest
  <2>1. PICK v \in versions : v.to = 0 /\ x = Entry(v)
    BY CandidateIs
  <2>2. services[s] = [revision |-> v.revision, manifest |-> v.manifest]
    BY <1>1, <1>3, <2>1 DEF OpenVersions, Entry
  <2> QED
    BY <2>1, <2>2 DEF Entry
<1>4. ASSUME NEW x \in C PROVE x.service # s \/ services[s].revision # 0
  <2>1. PICK v \in versions : v.to = 0 /\ x = Entry(v)
    BY CandidateIs
  <2>2. v.revision # 0 /\ x.revision = v.revision /\ x.service = v.service
    BY <1>1, <2>1 DEF ManifestTypes, Version, Entry
  <2> QED
    BY <1>3, <2>2
<1>5. services[s].revision # 0 => \E x \in C : x.service = s
  <2> SUFFICES ASSUME services[s].revision # 0 PROVE \E x \in C : x.service = s
    OBVIOUS
  <2>1. PICK v \in versions : v.service = s /\ v.to = 0
    BY <1>1, <1>2 DEF OpenVersions
  <2>2. Entry(v) \in C /\ Entry(v).service = s
    BY <2>1, CandidateIs DEF Entry
  <2> QED
    BY <2>2
<1>6. r \in {x.revision + 1 : x \in C} \cup {1}
  BY <1>1, <1>2, <1>3, <1>5 DEF ManifestTypes
<1>7. Entry(Added(input)) = [service |-> s, revision |-> r, manifest |-> input.manifest]
  BY DEF Entry, Added
<1>8. \A x \in C \ TwoSets!Others(s) : r = x.revision + 1 /\ input.manifest # x.manifest
  BY <1>2, <1>3 DEF TwoSets!Others
<1>9. TwoSets!Others(s) = C => r = 1
  BY <1>1, <1>2, <1>5 DEF TwoSets!Others, ManifestTypes
<1>10. Snapshot(candidateRev)' = TwoSets!Others(s) \cup
         {[service |-> s, revision |-> r, manifest |-> input.manifest]}
  BY <1>7, CandidateChanges DEF TwoSets!Others
<1>11. Snapshot(publishedRev)' = Snapshot(publishedRev)
  BY PastIsKept
<1> QED
  BY <1>2, <1>6, <1>8, <1>9, <1>10, <1>11 DEF TwoSets!Change

-----------------------------------------------------------------------------
(***************************************************************************)
(* acknowledgePublished.                                                   *)
(***************************************************************************)
\* An acknowledgement removes closed versions only, and no blob of another one.
LEMMA AcknowledgeIs ==
  ASSUME ManifestInv, Acknowledge
  PROVE  /\ publishedRev' = candidateRev /\ candidateRev' = candidateRev /\ services' = services
         /\ versions' \subseteq versions
         /\ \A v \in versions \ versions' : v.to # 0 /\ v.to <= candidateRev
         /\ BlobsAreThose'
<1>1. PICK removed \in SUBSET Obsolete(candidateRev) :
        versions' = versions \ removed /\ blobs' = Referenced(removed)
  BY DEF Acknowledge
<1>2. \A v \in removed : v \in versions /\ v.to # 0 /\ v.to <= candidateRev
  BY <1>1 DEF Obsolete
<1>3. blobs = {v.manifest : v \in versions}
  BY DEF ManifestInv, BlobsAreThose
<1>4. blobs' = {v.manifest : v \in versions'}
  <2>1. ASSUME NEW m \in blobs' PROVE \E v \in versions' : v.manifest = m
    <3>1. /\ m \in blobs
          /\ (\E v \in removed : v.manifest = m) => \E v \in versions \ removed : v.manifest = m
      BY <1>1, <2>1 DEF Referenced
    <3> QED
      BY <1>1, <1>3, <3>1
  <2>2. ASSUME NEW v \in versions' PROVE v.manifest \in blobs'
    BY <1>1, <1>3, <2>2 DEF Referenced
  <2> QED
    BY <2>1, <2>2
<1> QED
  BY <1>1, <1>2, <1>4 DEF Acknowledge, BlobsAreThose

LEMMA AcknowledgeKeeps ==
  ASSUME ManifestInv, Acknowledge
  PROVE  ManifestInv'
<1>1. ManifestTypes'
  <2>1. publishedRev' = candidateRev /\ candidateRev' = candidateRev /\ services' = services
        /\ versions' \subseteq versions
    BY AcknowledgeIs
  <2> QED
    BY <2>1 DEF ManifestInv, ManifestTypes
<1>2. Intervals'
  BY AcknowledgeIs DEF ManifestInv, Intervals
<1>3. OpenVersions'
  <2>1. /\ services' = services /\ versions' \subseteq versions
        /\ \A v \in versions : v.to = 0 => v \in versions'
    BY AcknowledgeIs
  <2> QED
    BY <2>1 DEF ManifestInv, OpenVersions
<1> QED
  BY <1>1, <1>2, <1>3, AcknowledgeIs DEF ManifestInv

LEMMA AcknowledgeRefines ==
  ASSUME ManifestInv, ManifestInv', Acknowledge
  PROVE  TwoSets!Publish
<1>1. /\ candidateRev' = candidateRev /\ publishedRev' = candidateRev /\ candidateRev \in Nat
      /\ versions' \subseteq versions
      /\ \A v \in versions \ versions' : v.to # 0 /\ v.to <= candidateRev
  BY AcknowledgeIs DEF ManifestInv, ManifestTypes
<1>2. \A v \in versions : v.to \in Nat
  BY DEF ManifestInv, ManifestTypes, Version
<1>3. {v \in versions' : ValidAt(v, candidateRev)} = {v \in versions : ValidAt(v, candidateRev)}
  BY <1>1, <1>2 DEF ValidAt
<1>4. \A v \in versions' : v.manifest \in blobs'
  BY DEF ManifestInv, BlobsAreThose
<1>5. {v \in versions' : ValidAt(v, candidateRev) /\ v.manifest \in blobs'}
        = {v \in versions : ValidAt(v, candidateRev)}
  BY <1>3, <1>4
<1>6. Snapshot(candidateRev) = {Entry(v) : v \in {v \in versions : ValidAt(v, candidateRev)}}
  BY SnapshotIs
<1>7. /\ Snapshot(candidateRev)' = Snapshot(candidateRev)
      /\ Snapshot(publishedRev)' = Snapshot(candidateRev)
  BY <1>1, <1>5, <1>6 DEF Snapshot, Entry, ValidAt
<1>8. candidateRev' - publishedRev' = 0
  BY <1>1
<1> QED
  BY <1>7, <1>8 DEF TwoSets!Publish

-----------------------------------------------------------------------------
LEMMA ManifestInvInit == ManifestInit => ManifestInv
<1> SUFFICES ASSUME ManifestInit PROVE ManifestInv
  OBVIOUS
<1>1. ManifestTypes
  BY DEF ManifestInit, ManifestTypes, NoService
<1>2. Intervals /\ BlobsAreThose
  BY DEF ManifestInit, Intervals, BlobsAreThose
<1>3. OpenVersions
  BY DEF ManifestInit, OpenVersions, NoService
<1> QED
  BY <1>1, <1>2, <1>3 DEF ManifestInv

LEMMA ManifestStep == ManifestInv /\ [ManifestNext]_manifestVars => ManifestInv'
<1> SUFFICES ASSUME ManifestInv, [ManifestNext]_manifestVars PROVE ManifestInv'
  OBVIOUS
<1>1. ASSUME NEW input \in Inputs, CommitChange(input) PROVE ManifestInv'
  BY <1>1, ChangeKeepsTypes, ChangeKeepsOpen, ChangeKeepsBlobs DEF ManifestInv
<1>2. CASE UNCHANGED <<versions, blobs, services, candidateRev, publishedRev>>
  BY <1>2 DEF ManifestInv, ManifestTypes, Intervals, OpenVersions, BlobsAreThose
<1>3. CASE Acknowledge
  BY <1>3, AcknowledgeKeeps
<1> QED
  BY <1>1, <1>2, <1>3 DEF ManifestNext, CommitUnchanged, manifestVars

LEMMA ManifestsInvariant == ManifestSpec => []ManifestInv
BY ManifestInvInit, ManifestStep, PTL DEF ManifestSpec

\* Through versions, shared blobs and bounded clean-up the authority behaves as two
\* plain sets: a commit replaces one entry of the candidate and nothing of what is
\* published, and publication takes over the candidate entry for entry
\* (readSnapshot, commitManifest, acknowledgePublished).
THEOREM ManifestsAreTwoSets == ManifestSpec => ImplementsPublishedSet
<1>1. ManifestInit => TwoSets!Init
  BY DEF ManifestInit, TwoSets!Init, Snapshot
<1>2. ManifestInv /\ ManifestInv' /\ [ManifestNext]_manifestVars => [TwoSets!Next]_TwoSets!setVars
  <2> SUFFICES ASSUME ManifestInv, ManifestInv', [ManifestNext]_manifestVars
               PROVE  [TwoSets!Next]_TwoSets!setVars
    OBVIOUS
  <2>1. ASSUME NEW input \in Inputs, CommitChange(input) PROVE TwoSets!Next
    BY <2>1, ChangeIs, ChangeRefines DEF TwoSets!Next
  <2>2. CASE UNCHANGED <<versions, blobs, services, candidateRev, publishedRev>>
    BY <2>2 DEF TwoSets!setVars, Snapshot, ValidAt
  <2>3. CASE Acknowledge
    BY <2>3, AcknowledgeRefines DEF TwoSets!Next
  <2> QED
    BY <2>1, <2>2, <2>3 DEF ManifestNext, CommitUnchanged, manifestVars
<1> QED
  BY <1>1, <1>2, ManifestsInvariant, PTL DEF ManifestSpec, ImplementsPublishedSet, TwoSets!Spec

-----------------------------------------------------------------------------
(***************************************************************************)
(* Nothing piles up, if one clean-up can take all that one backlog closed. *)
(***************************************************************************)
CleanupSuffices == Backlog \in Nat /\ Backlog <= MaxCleanup

\* Every unpublished revision closed one version at most, and nothing else is closed.
Tidy ==
  /\ candidateRev - publishedRev <= Backlog
  /\ \A v \in versions : v.to # 0 => v.to > publishedRev
  /\ \A v, w \in versions : v.to = 0 /\ w.to = 0 /\ v.service = w.service => v = w
  /\ \A v, w \in versions : v.to # 0 /\ v.to = w.to => v = w

LEMMA ChangeKeepsTidy ==
  ASSUME CleanupSuffices, ManifestInv, Tidy, NEW input \in Inputs, CommitChange(input)
  PROVE  Tidy'
<1>1. /\ candidateRev' = candidateRev + 1 /\ publishedRev' = publishedRev
      /\ candidateRev \in Nat /\ publishedRev \in 0..candidateRev
      /\ candidateRev - publishedRev < Backlog /\ Backlog \in Nat /\ ManifestTypes
  BY ChangeIs DEF ManifestInv, ManifestTypes, CleanupSuffices
<1>2. \A v \in versions : v.to \in Nat /\ v.to <= candidateRev
  BY <1>1 DEF ManifestInv, ManifestTypes, Intervals, Version
<1>3. \A v \in versions : Closed(v).to = candidateRev + 1 /\ Closed(v).service = v.service
  BY <1>1, ClosedIs
<1>4. Added(input).to = 0 /\ Added(input).service = input.service
  BY DEF Added
<1>5. candidateRev' - publishedRev' <= Backlog
  BY <1>1
<1>6. ASSUME NEW v \in versions', v.to # 0 PROVE v.to > publishedRev'
  BY <1>1, <1>3, <1>4, <1>6, ChangedVersions DEF Tidy
<1>7. ASSUME NEW v \in versions', NEW w \in versions', v.to = 0, w.to = 0,
             v.service = w.service
      PROVE  v = w
  BY <1>1, <1>3, <1>4, <1>7, ChangedVersions DEF Tidy
<1>8. ASSUME NEW v \in versions', NEW w \in versions', v.to # 0, v.to = w.to
      PROVE  v = w
  BY <1>1, <1>2, <1>3, <1>4, <1>8, ChangedVersions DEF Tidy
<1> QED
  BY <1>5, <1>6, <1>7, <1>8 DEF Tidy

\* All that is obsolete fits into one clean-up.
LEMMA ObsoleteIsFew ==
  ASSUME CleanupSuffices, ManifestInv, Tidy
  PROVE  /\ IsFiniteSet(Obsolete(candidateRev))
         /\ Cardinality(Obsolete(candidateRev)) <= MaxCleanup
<1> DEFINE O == Obsolete(candidateRev)
           f == [v \in O |-> v.to]
           I == (publishedRev + 1)..candidateRev
<1>1. /\ candidateRev \in Nat /\ publishedRev \in 0..candidateRev
      /\ candidateRev - publishedRev <= Backlog /\ Backlog <= MaxCleanup
      /\ Backlog \in Nat /\ MaxCleanup \in Nat
  BY ManifestBounds DEF ManifestInv, ManifestTypes, Tidy, CleanupSuffices
<1>2. \A v \in O : v \in versions /\ v.to # 0 /\ v.to <= candidateRev /\ v.to \in Nat
                  /\ v.to > publishedRev
  BY DEF Obsolete, ManifestInv, ManifestTypes, Version, Tidy
<1>3. f \in Injection(O, I)
  <2>1. f \in [O -> I]
    BY <1>1, <1>2
  <2>2. \A v, w \in O : f[v] = f[w] => v = w
    BY <1>2 DEF Tidy
  <2> QED
    BY <2>1, <2>2 DEF Injection, IsInjective
<1>4. IsFiniteSet(I) /\ Cardinality(I) = IF publishedRev + 1 > candidateRev THEN 0
                                           ELSE candidateRev - (publishedRev + 1) + 1
  BY <1>1, FS_Interval
<1>5. IsFiniteSet(O) /\ Cardinality(O) <= Cardinality(I)
  BY <1>3, <1>4, FS_Injection
<1>6. Cardinality(O) \in Nat
  BY <1>5, FS_CardinalityType
<1> QED
  BY <1>1, <1>4, <1>5, <1>6

LEMMA AcknowledgeKeepsTidy ==
  ASSUME CleanupSuffices, ManifestInv, Tidy, Acknowledge
  PROVE  Tidy'
<1> DEFINE O == Obsolete(candidateRev)
<1>1. PICK removed \in SUBSET O :
        Oldest(removed, O) /\ versions' = versions \ removed
  BY DEF Acknowledge
<1>2. IsFiniteSet(O) /\ Cardinality(O) <= MaxCleanup
      /\ Cardinality(O) \in Nat /\ MaxCleanup \in Nat
  BY ObsoleteIsFew, FS_CardinalityType, ManifestBounds
<1>3. removed = O
  <2> HIDE DEF O
  <2>1. Min({MaxCleanup, Cardinality(O)}) = Cardinality(O)
    BY <1>2 DEF Min
  <2>2. Cardinality(removed) = Cardinality(O)
    BY <1>1, <2>1 DEF Oldest
  <2> QED
    BY <1>2, <2>2, FS_Subset
<1>4. publishedRev' = candidateRev /\ candidateRev' = candidateRev /\ candidateRev \in Nat
  BY AcknowledgeIs DEF ManifestInv, ManifestTypes
<1>5. \A v \in versions' : v \in versions /\ v.to \in Nat /\ (v.to # 0 => ~(v.to <= candidateRev))
  BY <1>1, <1>3 DEF Obsolete, ManifestInv, ManifestTypes, Version
<1> QED
  BY <1>4, <1>5 DEF Tidy, CleanupSuffices

LEMMA TidyStep ==
  ASSUME CleanupSuffices, ManifestInv, Tidy, [ManifestNext]_manifestVars
  PROVE  Tidy'
<1>1. CASE UNCHANGED <<versions, blobs, services, candidateRev, publishedRev>>
  BY <1>1 DEF Tidy
<1> QED
  BY <1>1, ChangeKeepsTidy, AcknowledgeKeepsTidy DEF ManifestNext, CommitUnchanged, manifestVars

\* As long as one clean-up can take what one backlog of revisions closed, as the
\* budgets of storage-ports.ts provide (256 entries at least, for 256 revisions),
\* every acknowledgement removes all that became obsolete, and no blob outlives the
\* last version that refers to it (acknowledgePublished).
THEOREM CleanupKeepsUp == ASSUME CleanupSuffices PROVE ManifestSpec => []NothingPilesUp
<1>1. ManifestInit /\ CleanupSuffices => Tidy
  BY DEF ManifestInit, Tidy, CleanupSuffices
<1>2. CleanupSuffices /\ ManifestInv /\ Tidy /\ [ManifestNext]_manifestVars => Tidy'
  BY TidyStep
<1>3. ManifestInv /\ Tidy => NothingPilesUp
  BY DEF ManifestInv, BlobsAreThose, Tidy, NothingPilesUp
<1>4. CleanupSuffices
  OBVIOUS
<1> QED
  BY <1>1, <1>2, <1>3, <1>4, ManifestsInvariant, PTL DEF ManifestSpec
=================================================================================
