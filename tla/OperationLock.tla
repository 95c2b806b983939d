------------------------------ MODULE OperationLock ------------------------------
(***************************************************************************)
(* withOperationLock (packages/server-runtime/src/composition/             *)
(* operation-dispatch-lock.ts): an exclusive operation runs while its call *)
(* holds the lock of its concurrency group, renews the lease from a timer, *)
(* and succeeds only if the lease was never lost.  The calls are those of  *)
(* SqliteLocks.                                                            *)
(***************************************************************************)
EXTENDS SqliteLocks

VARIABLES
  run,      \* of each call: "none", "running", "ok" (it returned), "failed" (it threw)
  failure,  \* heartbeatFailure or callerAbortFailure is set
  overlaps  \* for the properties: the pairs of calls that were running at one time

opVars == <<vars, run, failure, overlaps>>

OpInit ==
  /\ Init
  /\ run = [c \in Calls |-> "none"]
  /\ failure = [c \in Calls |-> FALSE]
  /\ overlaps = {}

\* The call's acquire is over, and withOperationLock goes on with its handle.
Started(c) == run[c] = "none" /\ acquire[c] = "granted"

\* validHandle: a lease that ran out meanwhile is not used.
Begin(c) ==
  /\ Started(c) /\ Live(c)
  /\ run' = [run EXCEPT ![c] = "running"]
  /\ overlaps' = overlaps \cup {{c, d} : d \in {d \in Calls : run[d] = "running"}}
  /\ UNCHANGED <<vars, failure>>

\* Aborted by the caller, or without a valid handle: what was acquired is released.
GiveUp(c) ==
  /\ Started(c)
  /\ IF handle[c].released THEN UNCHANGED vars ELSE Release(c)
  /\ run' = [run EXCEPT ![c] = "failed"]
  /\ UNCHANGED <<failure, overlaps>>

\* heartbeat, by its timer.  A backend that fails counts as a lost lease.
Beat(c) ==
  /\ run[c] = "running" /\ ~failure[c]
  /\ \/ HeartbeatOk(c) /\ UNCHANGED failure
     \/ HeartbeatLost(c) /\ failure' = [failure EXCEPT ![c] = TRUE]
     \/ /\ failure' = [failure EXCEPT ![c] = TRUE]
        /\ UNCHANGED vars
  /\ UNCHANGED <<run, overlaps>>

\* abortFromCaller: the operation is told; that it stops is up to it.
CallerAborts(c) ==
  /\ run[c] = "running" /\ ~failure[c]
  /\ failure' = [failure EXCEPT ![c] = TRUE]
  /\ UNCHANGED <<vars, run, overlaps>>

\* MUTANT of Outcome: the lease is not looked at again.
MutOutcome(c) == IF failure[c] THEN "failed" ELSE "ok"

\* What the call comes to when run has returned.
Outcome(c) == IF failure[c] \/ ~Live(c) \/ ReleaseThrows(c) THEN "failed" ELSE "ok"

\* The operation has ended, by itself or with an error: the lock is released.  When the
\* backend fails to release it, the call fails.
End(c) ==
  /\ run[c] = "running"
  /\ \/ /\ IF handle[c].released THEN UNCHANGED vars ELSE Release(c)
        /\ run' = [run EXCEPT ![c] = Outcome(c)]
     \/ /\ IF handle[c].released THEN UNCHANGED vars ELSE Release(c)
        /\ run' = [run EXCEPT ![c] = "failed"]
     \/ /\ UNCHANGED vars
        /\ run' = [run EXCEPT ![c] = "failed"]
  /\ UNCHANGED <<failure, overlaps>>

\* Nothing of a process that ended runs on.
OpCrash(p) ==
  /\ Crash(p)
  /\ run' = [c \in Calls |-> IF ProcOf[c] = p /\ run[c] = "running" THEN "failed" ELSE run[c]]
  /\ UNCHANGED <<failure, overlaps>>

\* The steps of the managers that are no call's.
Managers ==
  /\ \/ Tick
     \/ \E p \in Procs : \/ PollFinds(p) \/ PollFails(p) \/ Expire(p) \/ Cleanup(p)
                         \/ Destroy(p) \/ FinishDestroy(p)
     \/ \E c \in Calls : AcquireNow(c) \/ Wait(c) \/ AcquireFails(c) \/ Leave(c)
  /\ UNCHANGED <<run, failure, overlaps>>

OpNext ==
  \/ \E c \in Calls : Begin(c) \/ GiveUp(c) \/ Beat(c) \/ CallerAborts(c) \/ End(c)
  \/ \E p \in Procs : OpCrash(p)
  \/ Managers

OpSpec == OpInit /\ [][OpNext]_opVars

-----------------------------------------------------------------------------
(***************************************************************************)
(* Properties.                                                             *)
(***************************************************************************)
\* Operations of a concurrency group that succeed ran one after the other: of two that
\* were running at one time, because a lease was lost under the first, at most one
\* succeeds (withOperationLock, its check of the lease after run).
SuccessIsExclusive ==
  \A pair \in overlaps : \E c \in pair : run[c] # "ok"
==================================================================================
