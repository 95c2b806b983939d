-------------------------- MODULE WorkQueueLifecycle --------------------------
(***************************************************************************)
(* The finite state machine of a durable work item, as the store consults  *)
(* it before it appends a transition to the journal                        *)
(* (packages/foundation/src/workflow/state-machine/work-queue).            *)
(* A constant module: the transition table and the sets it is built from.  *)
(***************************************************************************)

\* WORK_QUEUE_STATES
States == {"queued", "running", "in_doubt", "retry_wait", "completed",
           "failed", "cancelled", "expired", "recovered"}

\* WORK_QUEUE_TERMINAL_STATES: a failed item is not terminal, it can be recovered.
TerminalStates == {"completed", "cancelled", "expired"}

\* fromState null: the item has no row yet (or its journal is being rewritten).
NoState == "none"

\* The states an operator may fail, cancel or expire an item from.
OpenStates == {"queued", "retry_wait", "running", "in_doubt", "recovered"}

Arc(from, to) == [from |-> from, to |-> to]

\* WORK_QUEUE_TRANSITIONS
Transitions ==
  [ enqueue                  |-> Arc({NoState}, {"queued", "retry_wait"}),
    retention_snapshot       |-> Arc({NoState}, States),
    claim                    |-> Arc({"queued", "recovered"}, {"running"}),
    progress                 |-> Arc({"running"}, {"running"}),
    interrupt                |-> Arc({"running"}, {"in_doubt"}),
    termination_acknowledged |-> Arc({"in_doubt"},
                                     {"queued", "retry_wait", "failed", "completed"}),
    complete                 |-> Arc({"running"}, {"completed"}),
    retry                    |-> Arc({"running"}, {"queued", "retry_wait", "failed"}),
    fail                     |-> Arc(OpenStates, {"failed"}),
    recover                  |-> Arc({"failed"}, {"recovered"}),
    lease_expired            |-> Arc({"running"}, {"in_doubt"}),
    delay_matured            |-> Arc({"retry_wait"}, {"queued"}),
    cancel_running           |-> Arc({"running"}, {"cancelled"}),
    cancel                   |-> Arc(OpenStates, {"cancelled"}),
    expire                   |-> Arc(OpenStates, {"expired"}),
    requeue_recovered        |-> Arc({"recovered"},
                                     {"queued", "retry_wait", "failed", "cancelled"}) ]

\* isLegalWorkQueueTransition; an illegal one throws and rolls the transaction back.
Legal(transition, from, to) ==
  /\ transition \in DOMAIN Transitions
  /\ from \in Transitions[transition].from
  /\ to \in Transitions[transition].to
===============================================================================
