-------------------------- MODULE QueueApplicationPort -------------------------
(***************************************************************************)
(* The queue application port (packages/server-runtime/src/composition/    *)
(* queue-application-port.ts): the queues of one process, the dispatches   *)
(* each one coalesces its triggers into, the process-wide credit they      *)
(* share, and the closing of a facet and of the whole port.                *)
(*                                                                         *)
(* Of a queue's dispatcher and store the model keeps the work waiting and  *)
(* the executions in flight, in numbers (module PushDispatcher has the     *)
(* rest).  Every queue is registered from the start, and owns a consumer.  *)
(***************************************************************************)
EXTENDS Naturals, FiniteSets, FiniteSetsExt, Functions

CONSTANTS
  QueueCount,     \* the registered queues are 1..QueueCount, in that order
  GlobalLimit,    \* globalCredit.limit
  MaxInFlight,    \* maxInFlight of each queue
  BatchSize,      \* batchSize of each queue
  MaxWork,        \* bound on the unfinished work of a queue
  Closable,       \* the queues whose facet may be closed
  DrainTimeouts   \* whether a drain may reach its time limit

Queues == 1..QueueCount

ASSUME PortAssumption ==
  /\ {QueueCount, GlobalLimit, MaxInFlight, BatchSize, MaxWork} \subseteq Nat \ {0}
  /\ Closable \subseteq Queues
  /\ DrainTimeouts \in BOOLEAN

VARIABLES
  backlog,         \* claimable work of each queue, in the store
  inFlight,        \* executions in flight in each dispatcher
  globalReserved,  \* globalReserved
  dispatchCursor,  \* dispatchCursor
  dispatch,        \* the dispatchPromise of each registration
  triggerPending,  \* triggerPending of each registration
  facet,           \* close() of each facet
  port,            \* close() of the port
  storeOpen        \* whether the port's store is open

vars == <<backlog, inFlight, globalReserved, dispatchCursor, dispatch, triggerPending,
          facet, port, storeOpen>>
creditVars == <<globalReserved, dispatchCursor, dispatch, triggerPending>>

Excess(x, y) == IF x > y THEN x - y ELSE 0

Total(count, Q) == SumFunctionOnSet(count, Q)

\* close() removes the registration at once.
Registered == {q \in Queues : facet[q] = "open"}

\* A dispatch awaits dispatchOnce, has its finally clauses ahead of it, or is over.
NoDispatch == [at |-> "none", grant |-> 0]

Dispatching(q) == dispatch[q].at # "none"

\* MUTANT of Available: the credit that other dispatches reserved is not counted.
MutAvailable == Excess(GlobalLimit, Total(inFlight, Registered))

\* What reserveGlobalCredit finds.
Available == Excess(GlobalLimit, globalReserved + Total(inFlight, Registered))

\* triggerRegistration for each queue of a sequence in turn, in one go: a queue
\* that is dispatching remembers the trigger, another one reserves what credit
\* those before it have left.  A dispatch without credit ends at once.
Trigger(order) ==
  LET asked == {order[k] : k \in DOMAIN order}
      started == {q \in asked : ~Dispatching(q)}
      Upto(q) == {p \in started : \E j, k \in DOMAIN order :
                                    j <= k /\ order[j] = p /\ order[k] = q}
      Position(q) == Cardinality(Upto(q))
      Grant(k) == Min({BatchSize, Excess(Available, (k - 1) * BatchSize)})
  IN /\ dispatch' = [q \in Queues |->
                       IF q \in started
                       THEN [at |-> IF Grant(Position(q)) > 0 THEN "claiming" ELSE "settling",
                             grant |-> Grant(Position(q))]
                       ELSE dispatch[q]]
     /\ globalReserved' =
          globalReserved + Total([q \in started |-> Grant(Position(q))], started)
     /\ triggerPending' = [q \in Queues |->
          triggerPending[q] \/ (q \in asked /\ q \notin started)]

-----------------------------------------------------------------------------
\* facet.enqueue, and the work other processes put into the store
Enqueue(q) ==
  /\ q \in Registered /\ storeOpen /\ backlog[q] + inFlight[q] < MaxWork
  /\ backlog' = [backlog EXCEPT ![q] = @ + 1]
  /\ UNCHANGED <<inFlight, facet, port, storeOpen, creditVars>>

\* requestDispatch(queueDefinitionId)
RequestDispatch(q) ==
  /\ q \in Registered /\ port = "running"
  /\ Trigger(<<q>>)
  /\ UNCHANGED <<backlog, inFlight, dispatchCursor, facet, port, storeOpen>>

\* MUTANT of DispatchCycle: every cycle starts with the first queue.
MutDispatchCycle ==
  LET n == Cardinality(Registered)
  IN /\ port = "running" /\ Registered # {}
     /\ \E active \in [1..n -> Registered] :
          /\ \A j, k \in 1..n : j < k => active[j] < active[k]
          /\ Trigger(active)
     /\ UNCHANGED <<backlog, inFlight, dispatchCursor, facet, port, storeOpen>>

\* requestDispatch() by the timer: all queues, from the one the cursor is at.
DispatchCycle ==
  LET n == Cardinality(Registered)
      offset == dispatchCursor % n
  IN /\ port = "running" /\ Registered # {}
     /\ \E active \in [1..n -> Registered] :
          /\ \A j, k \in 1..n : j < k => active[j] < active[k]
          /\ Trigger([k \in 1..n |-> active[((offset + k - 1) % n) + 1]])
     /\ dispatchCursor' = (offset + 1) % n
     /\ UNCHANGED <<backlog, inFlight, facet, port, storeOpen>>

\* dispatchOnce: what the queue's own credit admits is claimed and started.
DispatchOnce(q) ==
  LET started == Min({dispatch[q].grant, Excess(MaxInFlight, inFlight[q]), backlog[q]})
  IN /\ dispatch[q].at = "claiming" /\ storeOpen
     /\ backlog' = [backlog EXCEPT ![q] = @ - started]
     /\ inFlight' = [inFlight EXCEPT ![q] = @ + started]
     /\ dispatch' = [dispatch EXCEPT ![q].at = "releasing"]
     /\ UNCHANGED <<globalReserved, dispatchCursor, triggerPending, facet, port, storeOpen>>

DispatchFails(q) ==
  /\ dispatch[q].at = "claiming"
  /\ dispatch' = [dispatch EXCEPT ![q].at = "releasing"]
  /\ UNCHANGED <<backlog, inFlight, globalReserved, dispatchCursor, triggerPending,
                 facet, port, storeOpen>>

\* The finally clause of dispatchRegistration.
Release(q) ==
  /\ dispatch[q].at = "releasing"
  /\ globalReserved' = Excess(globalReserved, dispatch[q].grant)
  /\ dispatch' = [dispatch EXCEPT ![q] = [at |-> "settling", grant |-> 0]]
  /\ UNCHANGED <<backlog, inFlight, dispatchCursor, triggerPending, facet, port, storeOpen>>

\* The finally clause of triggerRegistration: a remembered trigger starts the next
\* dispatch in the same step, so that nobody sees the registration idle between.
SettleDispatch(q) ==
  /\ dispatch[q].at = "settling"
  /\ IF triggerPending[q] /\ port = "running" /\ q \in Registered
     THEN LET grant == Min({BatchSize, Available})
          IN /\ dispatch' = [dispatch EXCEPT ![q] =
                  [at |-> IF grant > 0 THEN "claiming" ELSE "settling", grant |-> grant]]
             /\ globalReserved' = globalReserved + grant
             /\ triggerPending' = [triggerPending EXCEPT ![q] = FALSE]
     ELSE /\ dispatch' = [dispatch EXCEPT ![q] = NoDispatch]
          /\ UNCHANGED <<globalReserved, triggerPending>>
  /\ UNCHANGED <<backlog, inFlight, dispatchCursor, facet, port, storeOpen>>

\* An execution ends, or gives its item back to the queue.
ExecutionEnds(q) ==
  /\ inFlight[q] > 0
  /\ inFlight' = [inFlight EXCEPT ![q] = @ - 1]
  /\ \/ UNCHANGED backlog
     \/ backlog' = [backlog EXCEPT ![q] = @ + 1]
  /\ UNCHANGED <<facet, port, storeOpen, creditVars>>

-----------------------------------------------------------------------------
FacetGoes(q, from, to) ==
  /\ facet[q] = from
  /\ facet' = [facet EXCEPT ![q] = to]
  /\ UNCHANGED <<backlog, inFlight, port, storeOpen, creditVars>>

\* facet.close(): a second call returns at once, and changes nothing.
Close(q) == q \in Closable /\ FacetGoes(q, "open", "waiting")

\* MUTANT of CloseAwaitsDispatch: the dispatch under way is not awaited.
MutCloseAwaitsDispatch(q) == FacetGoes(q, "waiting", "draining")

CloseAwaitsDispatch(q) == ~Dispatching(q) /\ FacetGoes(q, "waiting", "draining")

CloseDrained(q) == inFlight[q] = 0 /\ FacetGoes(q, "draining", "closed")

\* The drain reaches its time limit, and close throws.
CloseTimesOut(q) == DrainTimeouts /\ inFlight[q] > 0 /\ FacetGoes(q, "draining", "failed")

PortGoes(from, to) ==
  /\ port = from /\ port' = to
  /\ UNCHANGED <<backlog, inFlight, facet, creditVars>>

\* close() of the port: stop() forbids further dispatches ...
Stop == PortGoes("running", "stopping") /\ UNCHANGED storeOpen

\* MUTANT of Stopped: the dispatches under way are not awaited.
MutStopped ==
  /\ \A q \in Registered : inFlight[q] = 0
  /\ PortGoes("stopping", "stopped")
  /\ storeOpen' = FALSE

\* ... awaits every registration's dispatch and drains it, and the store is closed.
Stopped ==
  /\ \A q \in Registered : ~Dispatching(q) /\ inFlight[q] = 0
  /\ PortGoes("stopping", "stopped")
  /\ storeOpen' = FALSE

\* The registrations are awaited one after the other; the first drain that reaches
\* its time limit makes stop() throw.
StopTimesOut ==
  /\ DrainTimeouts
  /\ \E q \in Registered :
       /\ ~Dispatching(q) /\ inFlight[q] > 0
       /\ \A p \in Registered : p < q => ~Dispatching(p) /\ inFlight[p] = 0
  /\ PortGoes("stopping", "failed")
  /\ UNCHANGED storeOpen

\* The composition root repeats a close that failed: stop() has nothing to do.
CloseAgain ==
  /\ PortGoes("failed", "stopped again")
  /\ storeOpen' = FALSE

Init ==
  /\ backlog = [q \in Queues |-> 0]
  /\ inFlight = [q \in Queues |-> 0]
  /\ globalReserved = 0
  /\ dispatchCursor = 0
  /\ dispatch = [q \in Queues |-> NoDispatch]
  /\ triggerPending = [q \in Queues |-> FALSE]
  /\ facet = [q \in Queues |-> "open"]
  /\ port = "running"
  /\ storeOpen = TRUE

QueueStep(q) ==
  \/ Enqueue(q) \/ RequestDispatch(q) \/ DispatchOnce(q) \/ DispatchFails(q)
  \/ Release(q) \/ SettleDispatch(q) \/ ExecutionEnds(q)
  \/ Close(q) \/ CloseAwaitsDispatch(q) \/ CloseDrained(q) \/ CloseTimesOut(q)

Next ==
  \/ \E q \in Queues : QueueStep(q)
  \/ DispatchCycle
  \/ Stop \/ Stopped \/ StopTimesOut \/ CloseAgain

Spec == Init /\ [][Next]_vars

\* The timer goes on, executions end, and a claim that is tried again and again
\* is answered some time.
FairSpec ==
  /\ Spec
  /\ WF_vars(DispatchCycle)
  /\ \A q \in Queues :
       /\ SF_vars(DispatchOnce(q))
       /\ WF_vars(Release(q)) /\ WF_vars(SettleDispatch(q)) /\ WF_vars(ExecutionEnds(q))

-----------------------------------------------------------------------------
(***************************************************************************)
(* Properties.                                                             *)
(***************************************************************************)
TypeOK ==
  /\ backlog \in [Queues -> Nat] /\ inFlight \in [Queues -> Nat]
  /\ globalReserved \in 0..GlobalLimit
  /\ dispatchCursor \in 0..(QueueCount - 1)
  /\ dispatch \in [Queues -> [at : {"none", "claiming", "releasing", "settling"},
                              grant : 0..BatchSize]]
  /\ triggerPending \in [Queues -> BOOLEAN]
  /\ facet \in [Queues -> {"open", "waiting", "draining", "closed", "failed"}]
  /\ port \in {"running", "stopping", "stopped", "failed", "stopped again"}
  /\ storeOpen \in BOOLEAN

\* One process-wide ceiling on the executions in flight, over all registered queues: what
\* a facet that is being closed still executes is not counted (close of a facet).
RegisteredCeiling == Total(inFlight, Registered) <= GlobalLimit

\* A facet whose close() has resolved, and whose handler is unregistered, starts
\* and executes nothing any more.
ClosedFacetIsIdle ==
  \A q \in Queues : facet[q] = "closed" => inFlight[q] = 0 /\ ~Dispatching(q)

\* A close of the port that resolves at the first attempt has closed the store after the
\* last execution, of the registered queues and of those whose facet was closed before.
OrderlyClose ==
  port = "stopped" =>
    \A q \in Queues :
      q \in Registered \/ facet[q] = "closed" => inFlight[q] = 0 /\ ~Dispatching(q)

\* Work that waits is taken up, unless executions of other queues fill the global limit.
Attended(q) ==
  backlog[q] > 0 ~> \/ inFlight[q] > 0 \/ backlog[q] = 0
                    \/ port # "running" \/ q \notin Registered
                    \/ Total(inFlight, Registered \ {q}) >= GlobalLimit

\* What the cursor is for: nothing but executions keeps a queue with work waiting, not the
\* credit that queues without work reserve.  A cycle offers the queue it starts with all
\* the credit; that another one comes first the next time gives the rest their turn.
\* Supposes that from some time on dispatches are answered before the timer's next tick.
OnlyExecutionsKeepWaiting ==
  \A q \in Queues :
    <>[][DispatchCycle => \A p \in Queues : ~Dispatching(p)]_vars => Attended(q)

\* What PortStarvation refutes, where dispatches may take longer than a tick: a trigger
\* that was remembered reserves the credit again before the cursor comes to anybody else.
EveryQueueIsAttended == \A q \in Queues : Attended(q)

\* What PortCeiling refutes: the ceiling is over all executions of the process.
GlobalCeiling == Total(inFlight, Queues) <= GlobalLimit

\* What PortRetriedClose refutes: the store is never closed underneath running work.
StoreOutlivesWork == ~storeOpen => \A q \in Queues : inFlight[q] = 0 /\ ~Dispatching(q)
===============================================================================
