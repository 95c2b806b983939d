----------------------------- MODULE PushDispatcher ----------------------------
(***************************************************************************)
(* The push dispatcher of one queue (packages/foundation/src/work-queue/   *)
(* push-dispatcher.ts) over the worker runtime of module QueueWorker: the  *)
(* concurrent calls of dispatchOnce, the credit they reserve, and the map  *)
(* of executions in flight, which is keyed by work item.                   *)
(*                                                                         *)
(* The store answers across a thread or a network, so that a claim commits *)
(* in one step and its answer arrives in a later one.  The hand-off to a   *)
(* peer when no credit is left changes nothing here.                       *)
(***************************************************************************)
EXTENDS QueueWorker, FiniteSetsExt, Functions

CONSTANTS
  Calls,        \* the dispatchOnce calls that may be active together
  CreditLimit,  \* creditLimit, from maxInFlight
  BatchSize     \* the batch every call asks for

ASSUME DispatcherAssumption == CreditLimit \in Nat \ {0} /\ BatchSize \in Nat \ {0}

VARIABLES
  calls,     \* the calls of dispatchOnce
  reserved,  \* reserved
  inFlight   \* inFlight: the attempt under each work item's key, 0 for none

dispatcherVars == <<calls, reserved, inFlight>>
allVars == <<phase, attempt, lapsed, overdue, runs, calls, reserved, inFlight>>

\* A call waits for the claim, has a claim committed whose answer is under way,
\* or awaits notifyTerminal with its leases in hand.
Call == [at : {"idle", "claiming", "answered", "notifying"}, batch : 0..BatchSize,
         leases : SUBSET Executions, notices : BOOLEAN]

Idle == [at |-> "idle", batch |-> 0, leases |-> {}, notices |-> FALSE]

Entries == {i \in WorkItems : inFlight[i] # 0}

\* reserved = Math.max(0, reserved - batchSize)
Without(credit, batch) == IF credit > batch THEN credit - batch ELSE 0

Start(E) ==
  /\ runs' = Started(E)
  /\ inFlight' = [i \in WorkItems |->
                    IF \E e \in E : e[1] = i
                    THEN (CHOOSE e \in E : e[1] = i)[2] ELSE inFlight[i]]

-----------------------------------------------------------------------------
\* MUTANT of Dispatch: the batch is not cut down to the credit that is left.
MutDispatch(c) ==
  LET batch == IF reserved + Cardinality(Entries) < CreditLimit THEN BatchSize ELSE 0
  IN /\ calls[c].at = "idle" /\ batch > 0
     /\ calls' = [calls EXCEPT ![c] = [Idle EXCEPT !.at = "claiming", !.batch = batch]]
     /\ reserved' = reserved + batch
     /\ UNCHANGED <<inFlight, runs, phase, attempt, lapsed, overdue>>

\* dispatchOnce up to its first await
Dispatch(c) ==
  LET batch == Min({BatchSize, Without(CreditLimit, reserved + Cardinality(Entries))})
  IN /\ calls[c].at = "idle" /\ batch > 0
     /\ calls' = [calls EXCEPT ![c] = [Idle EXCEPT !.at = "claiming", !.batch = batch]]
     /\ reserved' = reserved + batch
     /\ UNCHANGED <<inFlight, runs, phase, attempt, lapsed, overdue>>

\* store.claim commits.
ClaimCommits(c) ==
  /\ calls[c].at = "claiming"
  /\ \E S \in SUBSET Claimable :
       /\ Cardinality(S) <= calls[c].batch
       /\ Claim(S)
       /\ calls' = [calls EXCEPT ![c] = [@ EXCEPT !.at = "answered", !.leases = Leases(S),
                                                  !.notices = Notices(S) # {}]]
  /\ UNCHANGED <<reserved, inFlight, runs>>

\* MUTANT of ClaimFails: the reservation is not released.
MutClaimFails(c) ==
  /\ calls[c].at = "claiming"
  /\ calls' = [calls EXCEPT ![c] = Idle]
  /\ UNCHANGED <<reserved, inFlight, runs, phase, attempt, lapsed, overdue>>

\* store.claim throws, having committed nothing.
ClaimFails(c) ==
  /\ calls[c].at = "claiming"
  /\ calls' = [calls EXCEPT ![c] = Idle]
  /\ reserved' = Without(reserved, calls[c].batch)
  /\ UNCHANGED <<inFlight, runs, phase, attempt, lapsed, overdue>>

\* The answer arrives: the reservation is released, and the leases are started
\* unless terminal items have to be reported first.
ClaimReturns(c) ==
  /\ calls[c].at = "answered"
  /\ reserved' = Without(reserved, calls[c].batch)
  /\ \/ /\ calls[c].notices
        /\ calls' = [calls EXCEPT ![c].at = "notifying", ![c].batch = 0]
        /\ UNCHANGED <<inFlight, runs>>
     \/ /\ ~calls[c].notices
        /\ calls' = [calls EXCEPT ![c] = Idle]
        /\ Start(calls[c].leases)
  /\ UNCHANGED <<phase, attempt, lapsed, overdue>>

\* notifyTerminal(workItem, "claim") is through.
Notified(c) ==
  /\ calls[c].at = "notifying"
  /\ calls' = [calls EXCEPT ![c] = Idle]
  /\ Start(calls[c].leases)
  /\ UNCHANGED <<reserved, phase, attempt, lapsed, overdue>>

\* notifyTerminal throws, and dispatchOnce with it.
NotifyFails(c) ==
  /\ calls[c].at = "notifying"
  /\ calls' = [calls EXCEPT ![c] = Idle]
  /\ UNCHANGED <<reserved, inFlight, runs, phase, attempt, lapsed, overdue>>

\* MUTANT of Finish: the entry is dropped only when the item was settled.
MutFinish(e) ==
  /\ Goes(e, {"returned"}, "gone")
  /\ inFlight' = [inFlight EXCEPT ![e[1]] = IF phase[e[1]] = "doubt" THEN @ ELSE 0]
  /\ UNCHANGED <<calls, reserved, phase, attempt, lapsed, overdue>>

\* The inspection and the notification that follow runLeased, or their failure,
\* are over: inFlight.delete(workItemId), whichever execution the entry is of.
Finish(e) ==
  /\ Goes(e, {"returned"}, "gone")
  /\ inFlight' = [inFlight EXCEPT ![e[1]] = 0]
  /\ UNCHANGED <<calls, reserved, phase, attempt, lapsed, overdue>>

DispatchInit ==
  /\ Init
  /\ calls = [c \in Calls |-> Idle]
  /\ reserved = 0
  /\ inFlight = [i \in WorkItems |-> 0]

CallStep(c) ==
  \/ ClaimCommits(c) \/ ClaimFails(c) \/ ClaimReturns(c) \/ Notified(c) \/ NotifyFails(c)

DispatchNext ==
  \/ \E c \in Calls : Dispatch(c) \/ CallStep(c)
  \/ \E e \in Executions : Finish(e)
  \/ (Environment \/ \E e \in Executions : HandlerStep(e) \/ RuntimeStep(e))
     /\ UNCHANGED dispatcherVars

DispatchSpec == DispatchInit /\ [][DispatchNext]_allVars

\* Store calls and notifications come to an end, and the timers of runLeased fire.
FairDispatchSpec ==
  /\ DispatchSpec
  /\ \A c \in Calls : WF_allVars(CallStep(c))
  /\ \A e \in Executions : WF_allVars(Finish(e)) /\ WF_allVars(RuntimeStep(e) /\ UNCHANGED dispatcherVars)

-----------------------------------------------------------------------------
(***************************************************************************)
(* Properties.                                                             *)
(***************************************************************************)
DispatcherTypeOK ==
  /\ TypeOK
  /\ calls \in [Calls -> Call]
  /\ reserved \in 0..CreditLimit
  /\ inFlight \in [WorkItems -> 0..MaxAttempts]

Active == {e \in Executions : runs[e].at \notin {"none", "gone"}}

\* The reservation is the sum of the batches of the calls that await a claim: no
\* way out of dispatchOnce leaks credit, which Math.max(0, ...) would hide.
ReservationsBacked == reserved = SumFunctionOnSet([c \in Calls |-> calls[c].batch], Calls)

\* The credit limit, with the leases that a call has in hand.
CreditRespected == reserved + Cardinality(Entries) <= CreditLimit

\* Nothing is in flight only when nothing is executing: what drain reports to
\* the port, which unregisters the handlers on it.
DrainedMeansIdle == Entries = {} => Active = {}

\* Every lease the dispatcher was granted is started, or is about to be.
LeasesAreStarted ==
  \A i \in WorkItems : phase[i] = "held" =>
    \/ runs[<<i, attempt[i]>>].at # "none"
    \/ \E c \in Calls : <<i, attempt[i]>> \in calls[c].leases

\* Credit comes back: whatever handlers, operators and failures do, a saturated
\* dispatcher does not stay saturated.
CreditReturns ==
  reserved + Cardinality(Entries) >= CreditLimit ~> reserved + Cardinality(Entries) < CreditLimit
===============================================================================
