---------------------------- MODULE WorkQueueStore ----------------------------
(***************************************************************************)
(* The durable work-queue store                                            *)
(* (packages/foundation/src/work-queue/sqlite-store.ts): one queue         *)
(* definition, one scope.  Every public operation of the store is one      *)
(* SQLite transaction, hence one action here; an operation that throws     *)
(* rolls back and an idempotent reply writes nothing, so both are          *)
(* stuttering steps.                                                       *)
(*                                                                         *)
(* Any process may call any operation at any time with any lease it was    *)
(* ever granted: the store never sees whether the worker behind a lease is *)
(* alive.  Priority classes and fairness partitions are the business of    *)
(* module FairClaim; here a claim may visit the claimable items in any     *)
(* order.  Retention runs as the policy says, once every SweepEvery        *)
(* transitions of the queue; the limit of the journal is not modelled.     *)
(***************************************************************************)
EXTENDS WorkQueueLifecycle, Naturals, FiniteSets

CONSTANTS
  WorkItems,        \* the work item ids producers use
  DedupeKey,        \* the dedupe key each producer passes with an id
  ConcurrencyKey,   \* the concurrency key of each item, or NoKey
  NoKey,            \* concurrency_key = ''
  MaxAttempts,      \* max_attempts
  LeaseTimeout,     \* leaseTimeoutMs, and the extension of a renewal
  Delays,           \* the delayMs callers pass or the back-off computes
  Lifetimes,        \* expiresAtMs - nowMs at enqueue
  BatchSizes,       \* the batchSize of a claim
  MaxOutstanding,   \* capacity.maxOutstanding
  MaxDelayed,       \* capacity.maxDelayed
  MaxLeased,        \* capacity.maxLeased
  MaxFailed,        \* capacity.maxFailed
  MaxTerminalItems, \* retention.maxTerminalItems
  CleanupBatch,     \* retention.cleanupBatchSize
  SweepEvery,       \* retentionMaintenanceThreshold
  ReceiptForms,     \* how recordSinkReceipt names the generation
  ControlModes,     \* the modes operators set
  MaxTime,          \* bound of the clock
  MaxIncarnations   \* bound on how often one id is enqueued

Modes == {"active", "paused", "draining"}

ASSUME ItemsAssumption == IsFiniteSet(WorkItems)
ASSUME PolicyAssumption ==
  {MaxAttempts, LeaseTimeout, MaxOutstanding, MaxDelayed, MaxLeased,
   MaxFailed, MaxTerminalItems, CleanupBatch, SweepEvery} \subseteq Nat \ {0}
ASSUME InputAssumption ==
  /\ Delays \subseteq Nat
  /\ Lifetimes \subseteq Nat \ {0}
  /\ BatchSizes \subseteq Nat \ {0}
  /\ ReceiptForms \subseteq {"explicit", "default"}
  /\ ControlModes \subseteq Modes
ASSUME BoundAssumption == MaxTime \in Nat /\ MaxIncarnations \in Nat

VARIABLES
  now,          \* the store's time source
  rows,         \* work_items: the projection of every item
  mode,         \* work_queue_controls.mode
  sinks,        \* work_queue_sink_fences, terminal receipts only
  pending,      \* work_queue_retention_state.pending_transitions
  incarnation,  \* history: how many times each id has been enqueued
  leases        \* history: every lease ever granted, as <<item, lease>>

vars == <<now, rows, mode, sinks, pending, incarnation, leases>>

(***************************************************************************)
(* Leases.  A lease id is fresh at every claim; <<incarnation, lease_seq>> *)
(* names it and remembers which attempt it was granted to.                 *)
(***************************************************************************)
Leases == (Nat \ {0}) \X (Nat \ {0})
NoLease == <<0, 0>>

Settlements == {"complete", "fail"}

Row == [state : States \cup {NoState}, attempt : Nat, leaseSeq : Nat,
        lease : Leases \cup {NoLease}, leaseExp : Nat, avail : Nat, expires : Nat]

NoRow == [state |-> NoState, attempt |-> 0, leaseSeq |-> 0, lease |-> NoLease,
          leaseExp |-> 0, avail |-> 0, expires |-> 0]

\* A receipt is keyed by item, generation and sink; "by" is history: the
\* attempt whose outcome the writer was reporting.
Receipt == [item : WorkItems, gen : Nat, sink : Settlements, by : Nat \X Nat]

InState(rs, S) == {i \in WorkItems : rs[i].state \in S}

\* What countOutstanding counts: in_doubt is not in it.
OutstandingStates == {"queued", "retry_wait", "running", "recovered"}
Outstanding == InState(rows, OutstandingStates)

\* MUTANT of SweptStates: a recovered item is not swept.
MutSweptStates == {"queued", "retry_wait", "running"}

\* The states the deadline sweep looks at.
SweptStates == {"queued", "retry_wait", "running", "recovered"}

Least(a, b) == IF a <= b THEN a ELSE b

-----------------------------------------------------------------------------
(***************************************************************************)
(* Pieces of a transition.                                                 *)
(***************************************************************************)

\* MUTANT of Released: the patch forgets the lease columns.
MutReleased(r, to) == [r EXCEPT !.state = to, !.avail = 0]

\* The patch of every transition that ends a lease.  available_at_ms is kept
\* only where it is read again, in retry_wait.
Released(r, to) ==
  [r EXCEPT !.state = to, !.lease = NoLease, !.leaseExp = 0, !.avail = 0]

Delayed(r, delay) ==
  IF delay > 0 THEN [Released(r, "retry_wait") EXCEPT !.avail = now + delay]
               ELSE Released(r, "queued")

Overdue(r) == r.expires <= now

LeaseEnd(r) == Least(now + LeaseTimeout, r.expires)

\* requireLeasedRow
Leased(i, l) ==
  /\ rows[i].state = "running"
  /\ rows[i].lease = l
  /\ rows[i].leaseExp > now

\* The attempt the row is at, whether or not its lease is still held.
Attempt(i) == <<incarnation[i], rows[i].leaseSeq>>

\* INSERT OR IGNORE INTO work_queue_sink_fences
WithReceipt(i, gen, sink, by) ==
  IF \E s \in sinks : s.item = i /\ s.gen = gen /\ s.sink = sink
  THEN sinks
  ELSE sinks \cup {[item |-> i, gen |-> gen, sink |-> sink, by |-> by]}

(***************************************************************************)
(* Retention.  Rows are deleted oldest first, of which the model keeps     *)
(* that the row a transition has just moved is excluded.  Sink fences of a *)
(* deleted row stay.                                                       *)
(***************************************************************************)

\* MUTANT of FailedRoom: room is made only when there is one failed row too many.
MutFailedRoom(next) ==
  LET held == InState(next, {"failed"})
  IN {gone \in SUBSET held :
        Cardinality(held \ gone) = Least(Cardinality(held), MaxFailed + 1)}

\* makeFailedCapacityRoom, before every transition to failed: the sets of failed
\* rows it may delete to keep the cap.
FailedRoom(next) ==
  LET held  == InState(next, {"failed"})
      moved == {i \in held : next[i] # rows[i]}
  IN {gone \in SUBSET held :
        /\ Cardinality(held \ gone) = Least(Cardinality(held), MaxFailed)
        /\ moved # {} => ~(moved \subseteq gone)}

\* What one sweep of maintainRetentionAfterAppend deletes: the rows of each
\* terminal state are counted up to one more than the cap.
Excess(next) ==
  LET Counted(s) == Least(Cardinality(InState(next, {s})), MaxTerminalItems + 1)
      count == Counted("completed") + Counted("cancelled") + Counted("expired")
  IN IF count > MaxTerminalItems THEN Least(CleanupBatch, count - MaxTerminalItems) ELSE 0

\* The sets of terminal rows a transaction of n transitions may delete.  A claim
\* may append many, between any two of which a sweep may fall, so for it only
\* how much its sweeps can delete is kept.
TerminalSweeps(next, n) ==
  LET held   == InState(next, TerminalStates)
      sweeps == (pending + n) \div SweepEvery
  IN {gone \in SUBSET held :
        /\ Cardinality(gone) <= sweeps * CleanupBatch
        /\ Cardinality(held \ gone) >= Least(Cardinality(held), MaxTerminalItems)
        /\ n = 1 /\ sweeps = 1 =>
             Cardinality(gone) = Excess(next) /\ \A i \in gone : next[i] = rows[i]}

\* The rows a transaction leaves that moved them to next in n transitions.
Commit(next, n) ==
  /\ \E terminal \in TerminalSweeps(next, n), failed \in FailedRoom(next) :
       rows' = [i \in WorkItems |-> IF i \in terminal \cup failed THEN NoRow ELSE next[i]]
  /\ pending' = (pending + n) % SweepEvery

\* transitionProjection of one item; an illegal transition throws.
Move(i, transition, r) ==
  /\ Legal(transition, rows[i].state, r.state)
  /\ Commit([rows EXCEPT ![i] = r], 1)

\* expireRow: what complete, retry, progress, cancel and fail do instead when
\* they find the deadline passed, whatever lease the caller presents.
ExpireInstead(i) ==
  /\ rows[i].state # NoState
  /\ Overdue(rows[i])
  /\ Move(i, "expire", Released(rows[i], "expired"))
  /\ UNCHANGED sinks

-----------------------------------------------------------------------------
(***************************************************************************)
(* The sweeps that open every claim.                                       *)
(***************************************************************************)

\* MUTANT of Lapsed: a lease is taken to have lapsed one tick early.
MutLapsed(r) ==
  IF r.state = "running" /\ r.leaseExp <= now + 1 THEN [r EXCEPT !.state = "in_doubt"] ELSE r

\* recoverExpiredLeasesLocked: the attempt becomes in_doubt and keeps its lease.
Lapsed(r) ==
  IF r.state = "running" /\ r.leaseExp <= now THEN [r EXCEPT !.state = "in_doubt"] ELSE r

\* reconcileInDoubtLocked: the first receipt in sink order, so complete wins.
Reconciled(i, r) ==
  LET receipts == {s.sink : s \in {t \in sinks : t.item = i /\ t.gen = r.leaseSeq}}
  IN IF r.state # "in_doubt" \/ receipts = {} THEN r
     ELSE Released(r, IF "complete" \in receipts THEN "completed" ELSE "failed")

\* expireEligibleLocked, recoverExpiredLeasesLocked, reconcileInDoubtLocked
Swept(i) ==
  LET r == rows[i]
  IN IF r.state \in SweptStates /\ Overdue(r)
     THEN Released(r, "expired")
     ELSE Reconciled(i, Lapsed(r))

\* materializeDelayedLocked
Matured(r) ==
  IF r.state = "retry_wait" /\ r.avail <= now THEN Released(r, "queued") ELSE r

\* MUTANT of Claimable: an attempt in doubt is taken over.
MutClaimable(r) == r.state \in {"queued", "recovered", "in_doubt"} /\ r.expires > now

Claimable(r) == r.state \in {"queued", "recovered"} /\ r.expires > now

SameKey(i, j) == ConcurrencyKey[i] # NoKey /\ ConcurrencyKey[i] = ConcurrencyKey[j]

\* No other running item holds the concurrency key of i.
KeyFree(i, running) == \A j \in running \ {i} : ~SameKey(i, j)

\* MUTANT of Granted: the lease is named with the previous sequence number.
MutGranted(i, r) ==
  [r EXCEPT !.state = "running", !.attempt = @ + 1, !.leaseSeq = @ + 1,
            !.lease = <<incarnation[i], r.leaseSeq>>, !.leaseExp = LeaseEnd(r)]

Granted(i, r) ==
  [r EXCEPT !.state = "running", !.attempt = @ + 1, !.leaseSeq = @ + 1,
            !.lease = <<incarnation[i], r.leaseSeq + 1>>, !.leaseExp = LeaseEnd(r)]

\* MUTANT of Visits: concurrency keys are compared with the items that ran before
\* the claim only, not with those the same batch has just granted.
MutVisits(ready, batch) ==
  LET running   == InState(ready, {"running"})
      candidate == {i \in WorkItems : Claimable(ready[i]) /\ KeyFree(i, running)}
  IN {v \in SUBSET candidate :
        /\ Cardinality(v) <= batch
        /\ Cardinality(running) + Cardinality(v) <= MaxLeased}

\* The visits of one claim: each one needs a free lease slot when it is made,
\* fails an exhausted item or grants a lease, and the claim stops only at the
\* batch size, at the lease capacity or when no candidate is left.
Visits(ready, batch) ==
  LET running   == InState(ready, {"running"})
      candidate == {i \in WorkItems : Claimable(ready[i]) /\ KeyFree(i, running)}
      Grants(v) == {i \in v : ready[i].attempt < MaxAttempts}
      Room(v)   == Cardinality(running) + Cardinality(Grants(v)) < MaxLeased
  IN {v \in SUBSET candidate :
        /\ Cardinality(v) <= batch
        /\ Cardinality(running) + Cardinality(Grants(v)) <= MaxLeased
        /\ v # {} => Cardinality(running) < MaxLeased
        /\ \A i, j \in Grants(v) : i # j => ~SameKey(i, j)
        /\ Cardinality(v) < batch /\ Room(v) =>
             \A i \in candidate \ v : ~KeyFree(i, Grants(v))}

\* The transitions a claim appends: what it swept (an attempt that lapses and is
\* settled by its receipt at once makes two), matured and visited.
Appended(swept, ready, visited) ==
  LET settled == {i \in WorkItems : /\ rows[i].state = "running"
                                   /\ swept[i].state \in {"completed", "failed"}}
  IN Cardinality({i \in WorkItems : swept[i] # rows[i]}) + Cardinality(settled)
       + Cardinality({i \in WorkItems : ready[i] # swept[i]}) + Cardinality(visited)

-----------------------------------------------------------------------------
Init ==
  /\ now = 0
  /\ rows = [i \in WorkItems |-> NoRow]
  /\ mode = "active"
  /\ sinks = {}
  /\ incarnation = [i \in WorkItems |-> 0]
  /\ pending = 0
  /\ leases = {}

\* MUTANT of Enqueue: only the id is looked up, not the dedupe key.
MutEnqueue(i, delay, lifetime) ==
  /\ incarnation[i] < MaxIncarnations /\ now + lifetime <= MaxTime
  /\ Move(i, "enqueue", [Delayed(NoRow, delay) EXCEPT !.expires = now + lifetime])
  /\ incarnation' = [incarnation EXCEPT ![i] = @ + 1]
  /\ UNCHANGED <<now, mode, sinks, leases>>

\* enqueueTx: a producer reuses the id of the work, so an id whose row retention
\* has deleted can be enqueued again; a retained row with the key deduplicates.
Enqueue(i, delay, lifetime) ==
  LET r == [Delayed(NoRow, delay) EXCEPT !.expires = now + lifetime]
  IN /\ incarnation[i] < MaxIncarnations /\ now + lifetime <= MaxTime
     /\ lifetime > delay
     /\ \A j \in WorkItems : rows[j].state # NoState => DedupeKey[j] # DedupeKey[i]
     /\ Cardinality(Outstanding) < MaxOutstanding
     /\ delay > 0 => Cardinality(InState(rows, {"retry_wait"})) < MaxDelayed
     /\ Move(i, "enqueue", r)
     /\ incarnation' = [incarnation EXCEPT ![i] = @ + 1]
     /\ UNCHANGED <<now, mode, sinks, leases>>

\* claimTx: the sweeps always run; a paused or draining queue grants nothing.
Claim(batch) ==
  LET swept == [i \in WorkItems |-> Swept(i)]
      ready == [i \in WorkItems |-> Matured(swept[i])]
  IN /\ \/ /\ mode # "active"
           /\ Commit(swept, Appended(swept, swept, {}))
           /\ UNCHANGED leases
        \/ /\ mode = "active"
           /\ \E visited \in Visits(ready, batch) :
                LET granted == {i \in visited : ready[i].attempt < MaxAttempts}
                    next == [i \in WorkItems |->
                               IF i \in granted THEN Granted(i, ready[i])
                               ELSE IF i \in visited THEN Released(ready[i], "failed")
                               ELSE ready[i]]
                IN /\ Commit(next, Appended(swept, ready, visited))
                   /\ leases' = leases \cup {<<i, next[i].lease>> : i \in granted}
     /\ UNCHANGED <<now, mode, sinks, incarnation>>

\* completeTx
Complete(i, l) ==
  /\ \/ ExpireInstead(i)
     \/ /\ ~Overdue(rows[i]) /\ Leased(i, l)
        /\ Move(i, "complete", Released(rows[i], "completed"))
        /\ sinks' = WithReceipt(i, rows[i].leaseSeq, "complete", l)
  /\ UNCHANGED <<now, mode, incarnation, leases>>

\* MUTANT of Retry: a spent attempt budget is not looked at.
MutRetry(i, l, delay) ==
  /\ ~Overdue(rows[i]) /\ Leased(i, l)
  /\ now + delay < rows[i].expires
  /\ Move(i, "retry", Delayed(rows[i], delay))
  /\ UNCHANGED <<now, mode, sinks, incarnation, leases>>

\* retryTx
Retry(i, l, delay) ==
  /\ \/ ExpireInstead(i)
     \/ /\ ~Overdue(rows[i]) /\ Leased(i, l)
        /\ \/ /\ rows[i].attempt >= MaxAttempts
              /\ Move(i, "retry", Released(rows[i], "failed"))
           \/ /\ rows[i].attempt < MaxAttempts /\ now + delay >= rows[i].expires
              /\ Move(i, "expire", Released(rows[i], "expired"))
           \/ /\ rows[i].attempt < MaxAttempts /\ now + delay < rows[i].expires
              /\ Move(i, "retry", Delayed(rows[i], delay))
        /\ UNCHANGED sinks
  /\ UNCHANGED <<now, mode, incarnation, leases>>

\* progressTx: the lease renewal
Progress(i, l) ==
  /\ \/ ExpireInstead(i)
     \/ /\ ~Overdue(rows[i]) /\ Leased(i, l)
        /\ Move(i, "progress", [rows[i] EXCEPT !.leaseExp = LeaseEnd(rows[i])])
        /\ UNCHANGED sinks
  /\ UNCHANGED <<now, mode, incarnation, leases>>

\* cancelRunningTx
CancelRunning(i, l) ==
  /\ \/ ExpireInstead(i)
     \/ /\ ~Overdue(rows[i]) /\ Leased(i, l)
        /\ Move(i, "cancel_running", Released(rows[i], "cancelled"))
        /\ UNCHANGED sinks
  /\ UNCHANGED <<now, mode, incarnation, leases>>

\* cancelTx: an operator's cancellation, whoever holds the lease
Cancel(i) ==
  /\ \/ ExpireInstead(i)
     \/ /\ ~Overdue(rows[i])
        /\ Move(i, "cancel", Released(rows[i], "cancelled"))
        /\ UNCHANGED sinks
  /\ UNCHANGED <<now, mode, incarnation, leases>>

\* failTx: the worker's failure, or an operator's, who presents no lease.  Only a
\* running item is fenced: the lease is not looked at in any other state.
Fail(i, l) ==
  /\ \/ ExpireInstead(i)
     \/ /\ ~Overdue(rows[i])
        /\ rows[i].state = "running" => Leased(i, l)
        /\ Move(i, "fail", Released(rows[i], "failed"))
        /\ sinks' = WithReceipt(i, rows[i].leaseSeq, "fail", IF l = NoLease THEN Attempt(i) ELSE l)
  /\ UNCHANGED <<now, mode, incarnation, leases>>

\* expireTx, forced or because the deadline has passed
Expire(i) ==
  /\ Move(i, "expire", Released(rows[i], "expired"))
  /\ UNCHANGED <<now, mode, sinks, incarnation, leases>>

\* markInDoubtTx: does not ask whether the lease has lapsed; leaseId is optional.
MarkInDoubt(i, l) ==
  /\ l \in {rows[i].lease, NoLease}
  /\ Move(i, "interrupt", [rows[i] EXCEPT !.state = "in_doubt"])
  /\ UNCHANGED <<now, mode, sinks, incarnation, leases>>

\* acknowledgeTerminationTx: to = "retry" stands for every non-terminal request.
AcknowledgeTermination(i, l, to, delay) ==
  LET r == rows[i]
      next == CASE to = "completed" -> Released(r, "completed")
                [] to = "retry" /\ r.attempt < MaxAttempts -> Delayed(r, delay)
                [] OTHER -> Released(r, "failed")
  IN /\ l \in {r.lease, NoLease}
     /\ Move(i, "termination_acknowledged", next)
     /\ sinks' = IF to = "retry" /\ next.state # "failed" THEN sinks
                 ELSE WithReceipt(i, r.leaseSeq,
                        IF next.state = "completed" THEN "complete" ELSE "fail", Attempt(i))
     /\ UNCHANGED <<now, mode, incarnation, leases>>

\* MUTANT of RecordSinkReceipt: always files the receipt under the row's generation.
MutRecordSinkReceipt(i, l, sink, form) ==
  /\ sinks' = WithReceipt(i, rows[i].leaseSeq, sink, l)
  /\ UNCHANGED <<now, rows, mode, pending, incarnation, leases>>

\* recordSinkReceiptTx by the worker of lease l: the generation it passes is its
\* own, or, when it passes none, whatever the row is at by then.
RecordSinkReceipt(i, l, sink, form) ==
  /\ sinks' = WithReceipt(i, IF form = "explicit" THEN l[2] ELSE rows[i].leaseSeq, sink, l)
  /\ UNCHANGED <<now, rows, mode, pending, incarnation, leases>>

\* reconcileInDoubtTx for one item
ReconcileInDoubt(i) ==
  /\ rows[i] # Reconciled(i, rows[i])
  /\ Move(i, "termination_acknowledged", Reconciled(i, rows[i]))
  /\ UNCHANGED <<now, mode, sinks, incarnation, leases>>

\* MUTANT of Recover: the recovered item starts over from its first attempt.
MutRecover(i) ==
  /\ ~Overdue(rows[i])
  /\ Cardinality(Outstanding) < MaxOutstanding
  /\ Move(i, "recover", [Released(rows[i], "recovered") EXCEPT !.attempt = 0, !.leaseSeq = 0])
  /\ UNCHANGED <<now, mode, sinks, incarnation, leases>>

\* recoverTx: an operator puts a failed item back; the attempts are not refunded.
Recover(i) ==
  /\ ~Overdue(rows[i])
  /\ Cardinality(Outstanding) < MaxOutstanding
  /\ Move(i, "recover", Released(rows[i], "recovered"))
  /\ UNCHANGED <<now, mode, sinks, incarnation, leases>>

\* setQueueControlTx
SetQueueControl(m) ==
  /\ mode' = m
  /\ UNCHANGED <<now, rows, sinks, pending, incarnation, leases>>

Tick ==
  /\ now < MaxTime
  /\ now' = now + 1
  /\ UNCHANGED <<rows, mode, sinks, pending, incarnation, leases>>

HeldLeases(i) == {p[2] : p \in {q \in leases : q[1] = i}}

ClaimSome == \E batch \in BatchSizes : Claim(batch)

Next ==
  \/ \E i \in WorkItems, delay \in Delays, lifetime \in Lifetimes : Enqueue(i, delay, lifetime)
  \/ ClaimSome
  \/ \E i \in WorkItems : \E l \in HeldLeases(i) :
       \/ Complete(i, l)
       \/ \E delay \in Delays : Retry(i, l, delay)
       \/ Progress(i, l)
       \/ CancelRunning(i, l)
       \/ \E sink \in Settlements, form \in ReceiptForms : RecordSinkReceipt(i, l, sink, form)
  \/ \E i \in WorkItems : \E l \in HeldLeases(i) \cup {NoLease} :
       \/ Fail(i, l)
       \/ MarkInDoubt(i, l)
       \/ \E to \in {"completed", "failed", "retry"}, delay \in Delays :
            AcknowledgeTermination(i, l, to, delay)
  \/ \E i \in WorkItems : Cancel(i) \/ Expire(i) \/ ReconcileInDoubt(i) \/ Recover(i)
  \/ \E m \in ControlModes : SetQueueControl(m)
  \/ Tick

Spec == Init /\ [][Next]_vars

\* The application port's timer dispatches every queue again and again, and
\* every dispatch is a claim.
FairSpec == Spec /\ WF_vars(ClaimSome) /\ WF_vars(Tick)

-----------------------------------------------------------------------------
(***************************************************************************)
(* Properties.                                                             *)
(***************************************************************************)

\* The type of the store's tables.
TypeOK ==
  /\ now \in 0..MaxTime
  /\ rows \in [WorkItems -> Row]
  /\ mode \in Modes
  /\ sinks \subseteq Receipt
  /\ pending \in 0..(SweepEvery - 1)
  /\ incarnation \in [WorkItems -> Nat]
  /\ leases \subseteq WorkItems \X Leases

\* The lease columns agree with the state and with the attempt counter: an item
\* holds a lease exactly while it runs or is in doubt, the lease is the one of
\* its latest attempt, and no renewal pushed it past the work deadline.  Six
\* operations clear these columns and two extend them, each by its own patch.
LeaseColumnsAgree ==
  \A i \in WorkItems : LET r == rows[i] IN
    /\ r.lease = IF r.state \in {"running", "in_doubt"} THEN Attempt(i) ELSE NoLease
    /\ r.leaseExp <= r.expires
    /\ r.attempt = r.leaseSeq

\* The attempt budget: lease_seq never passes max_attempts, and an item waiting
\* in the queue has an attempt left unless an operator recovered it, so that
\* claimTx's max_attempts_exhausted_before_claim can only meet recovered items.
AttemptBudget ==
  \A i \in WorkItems :
    /\ rows[i].attempt <= MaxAttempts
    /\ rows[i].state \in {"queued", "retry_wait"} => rows[i].attempt < MaxAttempts

\* Two items with one concurrency key never run at the same time, although a
\* claim hands out a whole batch (fairRankedCandidate's NOT EXISTS clause).
ConcurrencyKeyExclusion ==
  \A i, j \in InState(rows, {"running"}) : i # j => ~SameKey(i, j)

\* The capacities the store enforces within each transaction hold at every
\* commit: leases (hasLeaseCapacity) and retained failures, for which
\* makeFailedCapacityRoom makes room before each of the four operations and the
\* two phases of a claim that fail an item.
CapacitiesHold ==
  /\ Cardinality(InState(rows, {"running"})) <= MaxLeased
  /\ Cardinality(InState(rows, {"failed"})) <= MaxFailed

\* What the retention tests call bounded: terminal rows outnumber maxTerminalItems
\* by no more than the transitions between two sweeps.  Does not hold: a sweep
\* counts the rows of one state up to the cap and one, so it deletes a single row
\* however many have come since the last sweep.
TerminalRowsAreBounded ==
  Cardinality(InState(rows, TerminalStates)) <= MaxTerminalItems + SweepEvery

\* A producer that repeats an enqueue never creates a second work item: at most
\* one retained row has a given dedupe key (enqueueTx).
OneItemPerDedupeKey ==
  \A i, j \in WorkItems :
    (rows[i].state # NoState /\ rows[j].state # NoState /\ DedupeKey[i] = DedupeKey[j]) => i = j

\* The sink fence: a receipt that reconcileInDoubtLocked would settle an attempt
\* in doubt with was written about that very attempt.
ReceiptSettlesItsOwnAttempt ==
  \A i \in InState(rows, {"in_doubt"}) : \A s \in sinks :
    s.item = i /\ s.gen = rows[i].leaseSeq => s.by = rows[i].lease

\* A stale lease settles nothing: every receipt is filed under the generation of
\* the attempt that reported it, so no worker of an earlier attempt ever failed
\* or completed a later one.
ReceiptsNameTheirAttempt == \A s \in sinks : s.by[2] = s.gen

\* An attempt in doubt keeps the credit of its lease.
InDoubtRetainsCredit ==
  Cardinality(InState(rows, {"running", "in_doubt"})) <= MaxLeased

\* A lease that an item has given up is never in force again, and the leases of
\* an item are handed out in increasing order: what lease_seq, the fencing token
\* of the sink fences, is for.
LeasesMoveForward ==
  [][\A i \in WorkItems :
       rows'[i].lease \notin {NoLease, rows[i].lease} =>
         \A p \in leases : p[1] = i =>
           \/ p[2][1] < rows'[i].lease[1]
           \/ p[2][1] = rows'[i].lease[1] /\ p[2][2] < rows'[i].lease[2]]_vars

\* A claim never disturbs a live attempt: its sweeps, its grants to other items
\* and the retention it triggers leave alone every item whose lease is in force.
LiveLeaseUndisturbed ==
  [][ClaimSome => \A i \in WorkItems :
       rows[i].state = "running" /\ rows[i].leaseExp > now => rows'[i] = rows[i]]_vars

\* The work deadline is enforced without anybody's help: every outstanding item
\* leaves the queue, because each claim sweeps overdue items before it even looks
\* at the queue control (so also while the queue is paused).
DeadlineEnforced ==
  \A i \in WorkItems :
    (rows[i].state \in OutstandingStates) ~> (rows[i].state \notin OutstandingStates)

(***************************************************************************)
(* The store implements the abstract account of attempts.                  *)
(***************************************************************************)
Phase(r) ==
  CASE r.state = NoState -> "absent"
    [] r.state \in {"queued", "retry_wait"} -> "waiting"
    [] r.state = "recovered" -> "revived"
    [] r.state = "running" -> "held"
    [] r.state = "in_doubt" -> "doubt"
    [] r.state = "failed" -> "failed"
    [] OTHER -> "done"

Abstract == INSTANCE WorkAttempts WITH
  phase <- [i \in WorkItems |-> Phase(rows[i])],
  attempt <- [i \in WorkItems |-> rows[i].attempt]

\* Claims, renewals, receipts, operators and retention together keep the promise
\* of WorkAttempts: an attempt in doubt is never handed out again unsettled, an
\* item is handed out at most max_attempts times, a finished one never again.
ImplementsAttempts == Abstract!Spec
===============================================================================
