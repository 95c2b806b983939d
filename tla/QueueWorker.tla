------------------------------ MODULE QueueWorker ------------------------------
(***************************************************************************)
(* The worker runtime (packages/foundation/src/work-queue/                 *)
(* worker-runtime.ts, runLeased) with the fallback coordinator it resorts  *)
(* to: the executions of handlers, each under the lease of one attempt.    *)
(*                                                                         *)
(* The store behind it is the one WorkAttempts promises (WorkQueueStore    *)
(* implements it), with the two details a worker can notice: a lease may   *)
(* lapse at any moment, as timers may be late, and from then on the store  *)
(* refuses it, although the row says running until the sweep of the next   *)
(* claim; and the work deadline may pass, after which every settlement     *)
(* expires the item instead.  Ids are enqueued once.                       *)
(*                                                                         *)
(* Every await of runLeased separates two actions; the renewals of a lease *)
(* still held change nothing the model keeps.                              *)
(***************************************************************************)
EXTENDS Naturals, FiniteSets

CONSTANTS
  WorkItems,       \* the work items of the queue
  MaxAttempts,     \* max_attempts
  Terminable,      \* the items whose handler declares itself terminable
  Outcomes,        \* the actions handlers return
  ContextCalls,    \* the settling calls handlers make on their context
  OperatorActions  \* what operators do behind the worker's back

AllOutcomes == {"completed", "retry", "cancelled", "failed", "progress"}

ASSUME WorkerAssumption ==
  /\ MaxAttempts \in Nat \ {0}
  /\ Terminable \subseteq WorkItems
  /\ Outcomes \subseteq AllOutcomes
  /\ ContextCalls \subseteq AllOutcomes \ {"progress"}
  /\ OperatorActions \subseteq {"cancel", "fail", "recover", "acknowledge"}

VARIABLES
  phase,    \* of each item in the store, as in WorkAttempts
  attempt,  \* of each item in the store, as in WorkAttempts
  lapsed,   \* the running items whose lease is over
  overdue,  \* the items whose work deadline has passed
  runs      \* runLeased, for every attempt at every item

storeVars == <<phase, attempt, lapsed, overdue>>
vars == <<phase, attempt, lapsed, overdue, runs>>

Store == INSTANCE WorkAttempts

\* An attempt at an item, and the lease it was granted.
Executions == WorkItems \X (1..MaxAttempts)

\* Where runLeased stands:
\*   racing     the handler against executionAborted
\*   fencing    the renewal before the outcome is applied
\*   applying   applyOutcome
\*   interrupt  the store call that follows an abort
\*   fallback   the retry runFallback attempts, and the failure it ends in,
\*   exhausted  when the retry is refused
\*   returned   settled or given up
\*   gone       and the dispatcher has dropped it
Places == {"none", "racing", "fencing", "applying", "interrupt", "fallback",
           "exhausted", "returned", "gone"}

Run == [at : Places, handler : {"idle", "alive", "ended"}, settled : BOOLEAN,
        outcome : Outcomes \cup {"none"}]

NoRun == [at |-> "none", handler |-> "idle", settled |-> FALSE, outcome |-> "none"]

\* requireLeasedRow, for the worker of execution e
Holds(e) == phase[e[1]] = "held" /\ attempt[e[1]] = e[2] /\ e[1] \notin lapsed

Late(i) == i \in overdue /\ phase[i] \in Store!Unfinished

-----------------------------------------------------------------------------
(***************************************************************************)
(* The store's side.                                                       *)
(***************************************************************************)
Becomes(i, p) ==
  /\ phase' = [phase EXCEPT ![i] = p]
  /\ lapsed' = IF p = "held" THEN lapsed ELSE lapsed \ {i}
  /\ UNCHANGED <<attempt, overdue>>

\* failTx fences a running item; an item in any other open state is failed.
FailTakes(e) ==
  IF phase[e[1]] = "held" THEN Holds(e) ELSE phase[e[1]] \in Store!Unfinished

\* What a settlement by execution e makes of its item.  A refused one throws.
Results(e, outcome) ==
  LET i == e[1]
  IN CASE Late(i) -> {"done"}
       [] ~Late(i) /\ outcome = "failed" /\ FailTakes(e) -> {"failed"}
       [] ~Late(i) /\ outcome = "retry" /\ Holds(e) ->
            IF attempt[i] < MaxAttempts THEN {"waiting", "done"} ELSE {"failed"}
       [] ~Late(i) /\ outcome \in {"completed", "cancelled"} /\ Holds(e) -> {"done"}
       [] OTHER -> {phase[i]}

Settle(e, outcome) == \E p \in Results(e, outcome) : Becomes(e[1], p)

\* markInDoubtTx: asks for the lease of the row, not whether it has lapsed.
MarkInDoubt(e) ==
  LET mine == phase[e[1]] = "held" /\ attempt[e[1]] = e[2]
  IN Becomes(e[1], IF mine THEN "doubt" ELSE phase[e[1]])

\* MUTANT of Swept: only deadlines are swept.
MutSwept(i) ==
  IF i \in overdue /\ phase[i] \in {"waiting", "revived", "held"} THEN "done" ELSE phase[i]

\* The sweeps of claimTx: the deadline first, then the lapsed leases.
Swept(i) ==
  CASE i \in overdue /\ phase[i] \in {"waiting", "revived", "held"} -> "done"
    [] i \notin overdue /\ phase[i] = "held" /\ i \in lapsed -> "doubt"
    [] OTHER -> phase[i]

\* MUTANT of Claimable: a lapsed lease is taken over by the next claim.
MutClaimable == {i \in WorkItems : Swept(i) \in {"waiting", "revived", "doubt"}}

Claimable == {i \in WorkItems : Swept(i) \in {"waiting", "revived"}}

Grants(S) == {i \in S : attempt[i] < MaxAttempts}

\* claimTx visits the items of S: it fails an exhausted one, and leases the others.
Claim(S) ==
  /\ phase' = [i \in WorkItems |-> CASE i \in Grants(S) -> "held"
                                     [] i \in S \ Grants(S) -> "failed"
                                     [] OTHER -> Swept(i)]
  /\ attempt' = [i \in WorkItems |-> IF i \in Grants(S) THEN attempt[i] + 1 ELSE attempt[i]]
  /\ lapsed' = {}
  /\ UNCHANGED overdue

Leases(S) == {<<i, attempt[i] + 1>> : i \in Grants(S)}

\* What claimTx reports as failed and expired, for notifyTerminal.
Notices(S) ==
  (S \ Grants(S)) \cup {i \in WorkItems : Swept(i) = "done" /\ phase[i] # "done"}

Enqueue(i) == phase[i] = "absent" /\ Becomes(i, "waiting") /\ UNCHANGED runs

Lapse(i) ==
  /\ phase[i] = "held" /\ i \notin lapsed
  /\ lapsed' = lapsed \cup {i}
  /\ UNCHANGED <<phase, attempt, overdue, runs>>

\* No lease outlives the work deadline.
Deadline(i) ==
  /\ phase[i] \in Store!Unfinished /\ i \notin overdue
  /\ overdue' = overdue \cup {i}
  /\ lapsed' = IF phase[i] = "held" THEN lapsed \cup {i} ELSE lapsed
  /\ UNCHANGED <<phase, attempt, runs>>

Operator(i) ==
  /\ \/ /\ "cancel" \in OperatorActions /\ phase[i] \in Store!Unfinished
        /\ Becomes(i, "done")
     \/ /\ "fail" \in OperatorActions /\ phase[i] \in Store!Unfinished \ {"held"}
        /\ Becomes(i, IF Late(i) THEN "done" ELSE "failed")
     \/ /\ "recover" \in OperatorActions /\ phase[i] = "failed" /\ i \notin overdue
        /\ Becomes(i, "revived")
     \/ /\ "acknowledge" \in OperatorActions /\ phase[i] = "doubt"
        /\ \E p \in {"done", "failed"} \cup
                    (IF attempt[i] < MaxAttempts THEN {"waiting"} ELSE {}) : Becomes(i, p)
  /\ UNCHANGED runs

-----------------------------------------------------------------------------
(***************************************************************************)
(* runLeased.                                                              *)
(***************************************************************************)
Goes(e, from, to) ==
  /\ runs[e].at \in from
  /\ runs' = [runs EXCEPT ![e].at = to]

\* The step with which the runtime takes the settlement upon itself.
GoesSettled(e, from, to) ==
  /\ runs[e].at \in from
  /\ runs' = [runs EXCEPT ![e].at = to, ![e].settled = TRUE]

Started(E) ==
  [e \in Executions |->
     IF e \in E THEN [NoRun EXCEPT !.at = "racing", !.handler = "alive"] ELSE runs[e]]

\* The handler is done.  Nobody listens when it had been abandoned.
HandlerReturns(e, outcome) ==
  LET r == runs[e]
  IN /\ r.handler = "alive"
     /\ runs' = [runs EXCEPT ![e] =
                   [r EXCEPT !.handler = "ended",
                             !.outcome = IF r.at = "racing" /\ ~r.settled THEN outcome ELSE @,
                             !.at = CASE r.at # "racing" -> r.at
                                      [] r.at = "racing" /\ r.settled -> "returned"
                                      [] OTHER -> "fencing"]]
     /\ UNCHANGED storeVars

HandlerThrows(e) ==
  LET r == runs[e]
  IN /\ r.handler = "alive"
     /\ runs' = [runs EXCEPT ![e] =
                   [r EXCEPT !.handler = "ended",
                             !.settled = @ \/ r.at = "racing",
                             !.at = CASE r.at # "racing" -> r.at
                                      [] r.at = "racing" /\ r.settled -> "returned"
                                      [] OTHER -> "fallback"]]
     /\ UNCHANGED storeVars

\* context.complete, retry, cancelRunning and fail: the handler settles its item
\* and goes on.  A handler that was abandoned after a lost lease still may.
ContextSettles(e, call) ==
  /\ runs[e].handler = "alive" /\ ~runs[e].settled
  /\ runs' = [runs EXCEPT ![e].settled = TRUE]
  /\ Settle(e, call)

\* The store call fails: the handler has used up its settlement all the same.
ContextCallFails(e) ==
  /\ runs[e].handler = "alive" /\ ~runs[e].settled
  /\ runs' = [runs EXCEPT ![e].settled = TRUE]
  /\ UNCHANGED storeVars

\* The handler's time limit, a cancellation or the caller's abort wins the race;
\* nothing waits for the handler to stop.
Abort(e) ==
  /\ IF runs[e].settled THEN Goes(e, {"racing"}, "returned")
                        ELSE GoesSettled(e, {"racing"}, "interrupt")
  /\ UNCHANGED storeVars

\* MUTANT of Interrupt: every handler is taken to stop when it is told to.
MutInterrupt(e) ==
  /\ Goes(e, {"interrupt"}, "returned")
  /\ Settle(e, "retry")

Interrupt(e) ==
  /\ Goes(e, {"interrupt"}, "returned")
  /\ IF e[1] \in Terminable THEN Settle(e, "retry") ELSE MarkInDoubt(e)

\* A renewal the store rejects is a lost lease: the race is over.
RenewalRejected(e) ==
  /\ ~runs[e].settled /\ ~Holds(e)
  /\ Goes(e, {"racing"}, "returned")
  /\ Settle(e, "progress")

Fence(e) ==
  /\ IF Holds(e) THEN GoesSettled(e, {"fencing"}, "applying")
                 ELSE Goes(e, {"fencing"}, "returned")
  /\ Settle(e, "progress")

Apply(e) ==
  /\ Goes(e, {"applying"}, "returned")
  /\ Settle(e, runs[e].outcome)

Fallback(e) ==
  /\ Goes(e, {"fallback"}, IF Holds(e) \/ Late(e[1]) THEN "returned" ELSE "exhausted")
  /\ Settle(e, "retry")

FallbackExhausted(e) ==
  /\ Goes(e, {"exhausted"}, "returned")
  /\ Settle(e, "failed")

\* The store call an execution waits for fails; one of a racing execution is a
\* renewal.  runFallback goes through its attempts and then fails the item.
StoreError(e) ==
  /\ runs[e].at = "racing" => ~runs[e].settled
  /\ \/ Goes(e, {"racing", "fencing", "applying", "interrupt", "exhausted"}, "returned")
     \/ Goes(e, {"fallback"}, "exhausted")
  /\ UNCHANGED storeVars

HandlerStep(e) ==
  \/ \E outcome \in Outcomes : HandlerReturns(e, outcome)
  \/ HandlerThrows(e)
  \/ \E call \in ContextCalls : ContextSettles(e, call) \/ ContextCallFails(e)

RuntimeStep(e) ==
  \/ Abort(e) \/ Interrupt(e) \/ RenewalRejected(e) \/ Fence(e) \/ Apply(e)
  \/ Fallback(e) \/ FallbackExhausted(e) \/ StoreError(e)

-----------------------------------------------------------------------------
Init ==
  /\ phase = [i \in WorkItems |-> "absent"]
  /\ attempt = [i \in WorkItems |-> 0]
  /\ lapsed = {}
  /\ overdue = {}
  /\ runs = [e \in Executions |-> NoRun]

\* A worker that starts what it claims at once.
ClaimAndStart(S) ==
  /\ Claim(S)
  /\ runs' = Started(Leases(S))

Environment ==
  \E i \in WorkItems : Enqueue(i) \/ Lapse(i) \/ Deadline(i) \/ Operator(i)

Next ==
  \/ Environment
  \/ \E S \in SUBSET Claimable : ClaimAndStart(S)
  \/ \E e \in Executions : HandlerStep(e) \/ RuntimeStep(e)

Spec == Init /\ [][Next]_vars

\* Whether a live execution renews the lease of item i.
Renewed(i) == \E n \in 1..MaxAttempts : n = attempt[i] /\ runs[<<i, n>>].at \in {"racing", "fencing"}

\* runLeased's timers fire and its store calls return; a lease nobody renews
\* lapses; the port's timer claims again and again.  Handlers owe nothing.
FairSpec ==
  /\ Spec
  /\ \A e \in Executions : WF_vars(RuntimeStep(e))
  /\ \A i \in WorkItems : WF_vars(~Renewed(i) /\ Lapse(i))
  /\ WF_vars(\E S \in SUBSET Claimable : ClaimAndStart(S))

-----------------------------------------------------------------------------
(***************************************************************************)
(* Properties.                                                             *)
(***************************************************************************)
TypeOK ==
  /\ phase \in [WorkItems -> Store!Phases]
  /\ attempt \in [WorkItems -> 0..MaxAttempts]
  /\ lapsed \subseteq {i \in WorkItems : phase[i] = "held"}
  /\ overdue \subseteq WorkItems
  /\ runs \in [Executions -> Run]

\* Two handlers never work on one item at the same time.  Leases do not give
\* this: a handler outlives its lease, its time limit and a cancellation.  It is
\* what in_doubt is for (runLeased and recoverExpiredLeasesLocked).
NoOverlap ==
  \A e, f \in Executions :
    e[1] = f[1] /\ runs[e].handler = "alive" /\ runs[f].handler = "alive" => e = f

\* Every attempt comes to an end, however its handler behaves and whatever calls
\* fail, also when an outcome leaves the item running with nobody at work on it.
EveryAttemptEnds == \A i \in WorkItems : phase[i] = "held" ~> phase[i] # "held"

\* A handler that is interrupted under its lease gives the item back at once.
InterruptionReturnsTheItem ==
  [][\A e \in Executions :
       Interrupt(e) /\ Holds(e) => phase'[e[1]] \in {"waiting", "failed", "done"}]_vars

\* The store's promise, as its callers rely on it.
ImplementsAttempts == Store!Spec
===============================================================================
