------------------------- MODULE WorkQueueStoreProofs -------------------------
(***************************************************************************)
(* Theorems about WorkQueueStore for every set of items, every policy and  *)
(* every bound.                                                            *)
(*                                                                         *)
(* The argument is per row: RowInv is what every row satisfies, each patch *)
(* the operations apply preserves it (the lemmas on Released, Delayed,     *)
(* Swept, Granted ...), and Commit either stores the patched row or        *)
(* deletes it.  On it rest the refinement of WorkAttempts, the exclusion   *)
(* by concurrency and dedupe keys, the capacities, which are cardinalities *)
(* of sets of rows, and the fencing tokens with the receipts.              *)
(***************************************************************************)
EXTENDS WorkQueueStore, FiniteSetTheorems, TLAPS

\* The inductive invariant of one row of incarnation n.
RowInv(r, n) ==
  /\ r \in Row
  /\ r.lease = IF r.state \in {"running", "in_doubt"} THEN <<n, r.leaseSeq>> ELSE NoLease
  /\ r.leaseExp <= r.expires
  /\ r.attempt = r.leaseSeq
  /\ r.attempt <= MaxAttempts
  /\ r.state \in {"queued", "retry_wait"} => r.attempt < MaxAttempts
  /\ r.state # NoState => n \in Nat \ {0}
  /\ r.state = NoState => r.attempt = 0

RowsInv ==
  /\ rows \in [WorkItems -> Row]
  /\ incarnation \in [WorkItems -> Nat]
  /\ \A i \in WorkItems : RowInv(rows[i], incarnation[i])

IInv ==
  /\ TypeOK
  /\ RowsInv

LEMMA PolicyTypes ==
  /\ MaxAttempts \in Nat \ {0} /\ LeaseTimeout \in Nat \ {0}
  /\ MaxLeased \in Nat \ {0} /\ MaxTime \in Nat
BY PolicyAssumption, BoundAssumption

-----------------------------------------------------------------------------
(***************************************************************************)
(* Every patch keeps the row invariant.                                    *)
(***************************************************************************)

LEMMA NoRowInv == ASSUME NEW n \in Nat PROVE RowInv(NoRow, n)
BY PolicyTypes DEF RowInv, NoRow, Row, NoState, NoLease

LEMMA ReleasedFields ==
  ASSUME NEW r \in Row, NEW to \in States
  PROVE  /\ Released(r, to) \in Row
         /\ Released(r, to).state = to
         /\ Released(r, to).attempt = r.attempt
         /\ Released(r, to).leaseSeq = r.leaseSeq
         /\ Released(r, to).lease = NoLease
         /\ Released(r, to).leaseExp = 0
         /\ Released(r, to).expires = r.expires
<1> DEFINE L == Leases \cup {NoLease}
           R == [state : States \cup {NoState}, attempt : Nat, leaseSeq : Nat,
                 lease : L, leaseExp : Nat, avail : Nat, expires : Nat]
<1>1. Row = R /\ NoLease \in L
  BY DEF Row
<1> HIDE DEF L
<1> QED
  BY <1>1 DEF Released

LEMMA ReleasedInv ==
  ASSUME NEW n \in Nat, NEW r, RowInv(r, n), r.state # NoState,
         NEW to \in States \ {"running", "in_doubt"},
         to \in {"queued", "retry_wait"} => r.attempt < MaxAttempts
  PROVE  RowInv(Released(r, to), n)
<1>1. r \in Row
  BY DEF RowInv
<1>2. r.attempt \in Nat /\ r.leaseSeq \in Nat /\ r.expires \in Nat
  BY <1>1 DEF Row
<1> QED
  BY <1>1, <1>2, ReleasedFields, PolicyTypes DEF RowInv, States, NoState

LEMMA DelayedInv ==
  ASSUME NEW n \in Nat, NEW r, RowInv(r, n), r.state # NoState, now \in Nat,
         NEW delay \in Nat, r.attempt < MaxAttempts
  PROVE  RowInv(Delayed(r, delay), n)
<1>1. CASE delay = 0
  BY <1>1, ReleasedInv DEF Delayed, States
<1>2. CASE delay > 0
  <2> DEFINE q == Released(r, "retry_wait")
  <2>1. RowInv(q, n) /\ q.state = "retry_wait" /\ q \in Row
    <3>1. RowInv(q, n)
      BY ReleasedInv DEF States
    <3>2. r \in Row
      BY DEF RowInv
    <3> QED
      BY <3>1, <3>2, ReleasedFields DEF RowInv, States
  <2>2. Delayed(r, delay) = [q EXCEPT !.avail = now + delay]
    BY <1>2 DEF Delayed
  <2>3. now + delay \in Nat
    OBVIOUS
  <2> HIDE DEF q
  <2> QED
    BY <2>1, <2>2, <2>3 DEF RowInv, Row
<1> QED
  BY <1>1, <1>2

LEMMA LapsedInv ==
  ASSUME NEW n \in Nat, NEW r, RowInv(r, n)
  PROVE  RowInv(Lapsed(r), n)
BY DEF RowInv, Lapsed, Row, NoState, States

LEMMA ReconciledInv ==
  ASSUME NEW n \in Nat, NEW r, RowInv(r, n), NEW i \in WorkItems
  PROVE  RowInv(Reconciled(i, r), n)
<1>1. CASE Reconciled(i, r) = r
  BY <1>1
<1>2. CASE r.state = "in_doubt" /\ Reconciled(i, r) = Released(r, "completed")
  BY <1>2, ReleasedInv DEF States, NoState
<1>3. CASE r.state = "in_doubt" /\ Reconciled(i, r) = Released(r, "failed")
  BY <1>3, ReleasedInv DEF States, NoState
<1> QED
  BY <1>1, <1>2, <1>3 DEF Reconciled

LEMMA SweptInv ==
  ASSUME RowsInv, NEW i \in WorkItems
  PROVE  RowInv(Swept(i), incarnation[i])
<1> DEFINE r == rows[i]
<1>1. RowInv(r, incarnation[i]) /\ incarnation[i] \in Nat
  BY DEF RowsInv
<1>2. CASE r.state \in SweptStates /\ Overdue(r)
  BY <1>1, <1>2, ReleasedInv DEF Swept, SweptStates, States, NoState
<1>3. CASE ~(r.state \in SweptStates /\ Overdue(r))
  BY <1>1, <1>3, LapsedInv, ReconciledInv DEF Swept
<1> QED
  BY <1>2, <1>3

LEMMA MaturedInv ==
  ASSUME NEW n \in Nat, NEW r, RowInv(r, n)
  PROVE  RowInv(Matured(r), n)
<1>1. CASE r.state = "retry_wait" /\ r.avail <= now
  <2>1. r.attempt < MaxAttempts
    BY <1>1 DEF RowInv
  <2> QED
    BY <1>1, <2>1, ReleasedInv DEF Matured, States, NoState
<1>2. CASE ~(r.state = "retry_wait" /\ r.avail <= now)
  BY <1>2 DEF Matured
<1> QED
  BY <1>1, <1>2

LEMMA GrantedFields ==
  ASSUME NEW i \in WorkItems, NEW r \in Row, incarnation[i] \in Nat \ {0}, now \in Nat
  PROVE  /\ Granted(i, r) \in Row
         /\ Granted(i, r).state = "running"
         /\ Granted(i, r).attempt = r.attempt + 1
         /\ Granted(i, r).leaseSeq = r.leaseSeq + 1
         /\ Granted(i, r).lease = <<incarnation[i], r.leaseSeq + 1>>
         /\ Granted(i, r).lease \in Leases
         /\ Granted(i, r).leaseExp <= r.expires
         /\ Granted(i, r).expires = r.expires
<1> DEFINE L == Leases \cup {NoLease}
           R == [state : States \cup {NoState}, attempt : Nat, leaseSeq : Nat,
                 lease : L, leaseExp : Nat, avail : Nat, expires : Nat]
           end == LeaseEnd(r)
           own == <<incarnation[i], r.leaseSeq + 1>>
           att == r.attempt + 1
           seq == r.leaseSeq + 1
<1>1. Row = R
  BY DEF Row
<1>2. own \in Leases /\ own \in L
  BY DEF Row, Leases
<1>3. end \in Nat /\ end <= r.expires
  BY PolicyTypes DEF Row, LeaseEnd, Least
<1>4. att \in Nat /\ seq \in Nat
  BY DEF Row
<1>5. Granted(i, r) = [r EXCEPT !.state = "running", !.attempt = att,
                                !.leaseSeq = seq, !.lease = own, !.leaseExp = end]
  BY DEF Granted
<1> HIDE DEF L, end, own, att, seq
<1>6. /\ Granted(i, r) \in R
      /\ Granted(i, r).state = "running"
      /\ Granted(i, r).attempt = att
      /\ Granted(i, r).leaseSeq = seq
      /\ Granted(i, r).lease = own
      /\ Granted(i, r).leaseExp = end
      /\ Granted(i, r).expires = r.expires
  BY <1>1, <1>2, <1>3, <1>4, <1>5 DEF States
<1> QED
  BY <1>1, <1>2, <1>3, <1>6 DEF own, att, seq

LEMMA GrantedInv ==
  ASSUME NEW i \in WorkItems, NEW r, incarnation[i] \in Nat,
         RowInv(r, incarnation[i]), r.state # NoState,
         r.attempt < MaxAttempts, now \in Nat
  PROVE  /\ RowInv(Granted(i, r), incarnation[i])
         /\ Granted(i, r).lease \in Leases
<1>1. r \in Row /\ incarnation[i] \in Nat \ {0}
  BY DEF RowInv
<1>2. r.attempt \in Nat /\ r.attempt = r.leaseSeq
  BY <1>1 DEF RowInv, Row
<1> QED
  BY <1>1, <1>2, GrantedFields, PolicyTypes DEF RowInv, NoState

LEMMA RenewedInv ==
  ASSUME NEW n \in Nat, NEW r, RowInv(r, n), now \in Nat
  PROVE  RowInv([r EXCEPT !.leaseExp = LeaseEnd(r)], n)
BY PolicyTypes DEF RowInv, LeaseEnd, Least, Row

LEMMA InterruptedInv ==
  ASSUME NEW n \in Nat, NEW r, RowInv(r, n), r.state = "running"
  PROVE  RowInv([r EXCEPT !.state = "in_doubt"], n)
BY DEF RowInv, Row, NoState, States

-----------------------------------------------------------------------------
(***************************************************************************)
(* Storing the patched rows.                                               *)
(***************************************************************************)

LEMMA InStateFinite ==
  ASSUME NEW rs, NEW S
  PROVE  IsFiniteSet(InState(rs, S)) /\ Cardinality(InState(rs, S)) \in Nat
<1>1. InState(rs, S) \subseteq WorkItems
  BY DEF InState
<1> QED
  BY <1>1, ItemsAssumption, FS_Subset, FS_CardinalityType

\* The rows next are stored, but for those retention deletes.
Stores(next) == \E n \in Nat : Commit(next, n)

\* Commit stores every patched row or deletes it.
LEMMA CommitRows ==
  ASSUME NEW next, Stores(next)
  PROVE  /\ rows' = [i \in WorkItems |-> rows'[i]]
         /\ \A i \in WorkItems : rows'[i] \in {next[i], NoRow}
<1>1. PICK n \in Nat : Commit(next, n)
  BY DEF Stores
<1> QED
  BY <1>1 DEF Commit

\* Every operation counts its transitions.
LEMMA CommitPending ==
  ASSUME NEW next, Stores(next), pending \in Nat
  PROVE  pending' \in 0..(SweepEvery - 1)
<1>1. PICK n \in Nat : pending' = (pending + n) % SweepEvery
  BY DEF Stores, Commit
<1>2. SweepEvery \in Nat \ {0} /\ pending + n \in Nat
  BY PolicyAssumption
<1>3. ASSUME NEW x \in Nat, NEW m \in Nat \ {0} PROVE x % m \in 0..(m - 1)
  OBVIOUS
<1> QED
  BY <1>1, <1>2, <1>3

LEMMA MoveStores ==
  ASSUME NEW i, NEW transition, NEW r, Move(i, transition, r)
  PROVE  Stores([rows EXCEPT ![i] = r]) /\ Legal(transition, rows[i].state, r.state)
BY DEF Move, Stores

LEMMA AppendedCounts ==
  ASSUME NEW swept, NEW ready, NEW visited \in SUBSET WorkItems
  PROVE  Appended(swept, ready, visited) \in Nat
<1>1. \A S \in SUBSET WorkItems : Cardinality(S) \in Nat
  BY ItemsAssumption, FS_Subset, FS_CardinalityType
<1> DEFINE A == {i \in WorkItems : swept[i] # rows[i]}
           B == {i \in WorkItems : /\ rows[i].state = "running"
                                   /\ swept[i].state \in {"completed", "failed"}}
           C == {i \in WorkItems : ready[i] # swept[i]}
<1>2. A \in SUBSET WorkItems /\ B \in SUBSET WorkItems /\ C \in SUBSET WorkItems
  OBVIOUS
<1>3. Appended(swept, ready, visited)
        = Cardinality(A) + Cardinality(B) + Cardinality(C) + Cardinality(visited)
  BY DEF Appended
<1> HIDE DEF A, B, C
<1> QED
  BY <1>1, <1>2, <1>3

\* What a claim stores.
LEMMA ClaimStores ==
  ASSUME NEW batch, Claim(batch)
  PROVE  LET swept == [i \in WorkItems |-> Swept(i)]
             ready == [i \in WorkItems |-> Matured(swept[i])]
         IN \/ Stores(swept) /\ UNCHANGED leases
            \/ \E visited \in Visits(ready, batch) :
                 LET granted == {i \in visited : ready[i].attempt < MaxAttempts}
                     next == [i \in WorkItems |->
                                IF i \in granted THEN Granted(i, ready[i])
                                ELSE IF i \in visited THEN Released(ready[i], "failed")
                                ELSE ready[i]]
                 IN /\ Stores(next)
                    /\ leases' = leases \cup {<<i, next[i].lease>> : i \in granted}
<1> DEFINE swept == [i \in WorkItems |-> Swept(i)]
           ready == [i \in WorkItems |-> Matured(swept[i])]
           granted(visited) == {i \in visited : ready[i].attempt < MaxAttempts}
           next(visited) == [i \in WorkItems |->
                               IF i \in granted(visited) THEN Granted(i, ready[i])
                               ELSE IF i \in visited THEN Released(ready[i], "failed")
                               ELSE ready[i]]
<1>1. \A visited \in Visits(ready, batch) : visited \in SUBSET WorkItems
  BY DEF Visits
<1>2. \/ Commit(swept, Appended(swept, swept, {})) /\ UNCHANGED leases
      \/ \E visited \in Visits(ready, batch) :
           /\ Commit(next(visited), Appended(swept, ready, visited))
           /\ leases' = leases \cup {<<i, next(visited)[i].lease>> : i \in granted(visited)}
  BY DEF Claim
<1> HIDE DEF swept, ready, next, granted
<1>3. \/ Stores(swept) /\ UNCHANGED leases
      \/ \E visited \in Visits(ready, batch) :
           /\ Stores(next(visited))
           /\ leases' = leases \cup {<<i, next(visited)[i].lease>> : i \in granted(visited)}
  BY <1>1, <1>2, AppendedCounts DEF Stores
<1> QED
  BY <1>3 DEF swept, ready, next, granted

LEMMA CommitInv ==
  ASSUME NEW next, Stores(next), incarnation' \in [WorkItems -> Nat],
         \A i \in WorkItems : RowInv(next[i], incarnation'[i])
  PROVE  RowsInv'
<1>1. /\ rows' = [i \in WorkItems |-> rows'[i]]
      /\ \A i \in WorkItems : rows'[i] \in {next[i], NoRow}
  BY CommitRows
<1>2. \A i \in WorkItems : RowInv(rows'[i], incarnation'[i])
  BY <1>1, NoRowInv
<1>3. \A i \in WorkItems : rows'[i] \in Row
  BY <1>2 DEF RowInv
<1> QED
  BY <1>1, <1>2, <1>3 DEF RowsInv

\* An operation that moves one item.
LEMMA MoveInv ==
  ASSUME RowsInv, NEW i \in WorkItems, NEW transition, NEW r,
         Move(i, transition, r), RowInv(r, incarnation[i]), UNCHANGED incarnation
  PROVE  RowsInv'
<1> DEFINE next == [rows EXCEPT ![i] = r]
<1>1. Stores(next)
  BY MoveStores
<1>2. \A j \in WorkItems : RowInv(next[j], incarnation'[j])
  BY DEF RowsInv
<1> HIDE DEF next
<1> QED
  BY <1>1, <1>2, CommitInv DEF RowsInv

\* The states a transition leaves from are states of a row that exists, and all
\* its targets are states.
LEMMA LegalStates ==
  ASSUME NEW transition, NEW from, NEW to, Legal(transition, from, to),
         transition # "enqueue", transition # "retention_snapshot"
  PROVE  from # NoState /\ to \in States
BY DEF Legal, Transitions, Arc, NoState, States, OpenStates

\* Moving an item by releasing it.
Settling(transition, to) ==
  /\ transition \notin {"enqueue", "retention_snapshot"}
  /\ to \in {"completed", "cancelled", "expired", "failed", "recovered"}

LEMMA SettlingMoves ==
  /\ Settling("complete", "completed") /\ Settling("retry", "failed")
  /\ Settling("expire", "expired") /\ Settling("cancel_running", "cancelled")
  /\ Settling("cancel", "cancelled") /\ Settling("fail", "failed")
  /\ Settling("recover", "recovered")
  /\ Settling("termination_acknowledged", "completed")
  /\ Settling("termination_acknowledged", "failed")
BY DEF Settling

LEMMA MoveReleasedInv ==
  ASSUME RowsInv, NEW i \in WorkItems, NEW transition, NEW to, Settling(transition, to),
         Move(i, transition, Released(rows[i], to)), UNCHANGED incarnation
  PROVE  RowsInv'
<1>1. RowInv(rows[i], incarnation[i]) /\ incarnation[i] \in Nat /\ rows[i] \in Row
  BY DEF RowsInv
<1>2. rows[i].state # NoState
  BY LegalStates DEF Move, Settling
<1>3. RowInv(Released(rows[i], to), incarnation[i])
  BY <1>1, <1>2, ReleasedInv DEF States, Settling
<1> QED
  BY <1>3, MoveInv

-----------------------------------------------------------------------------
(***************************************************************************)
(* Every operation keeps the row invariant.                                *)
(***************************************************************************)

LEMMA MoveBounds ==
  ASSUME RowsInv, NEW i \in WorkItems
  PROVE  /\ rows[i] \in Row
         /\ RowInv(rows[i], incarnation[i])
         /\ incarnation[i] \in Nat
BY DEF RowsInv

LEMMA EnqueueInv ==
  ASSUME IInv, NEW i \in WorkItems, NEW delay \in Delays, NEW lifetime \in Lifetimes,
         Enqueue(i, delay, lifetime)
  PROVE  RowsInv'
<1> DEFINE r == [Delayed(NoRow, delay) EXCEPT !.expires = now + lifetime]
           next == [rows EXCEPT ![i] = r]
<1>1. now \in Nat /\ delay \in Nat /\ lifetime \in Nat /\ now + lifetime \in Nat
  BY InputAssumption, PolicyTypes DEF IInv, TypeOK
<1>2. incarnation' \in [WorkItems -> Nat] /\ incarnation'[i] \in Nat \ {0}
  BY DEF IInv, RowsInv, Enqueue
<1>3. /\ Delayed(NoRow, delay) \in Row
      /\ Delayed(NoRow, delay).state \in {"queued", "retry_wait"}
      /\ Delayed(NoRow, delay).attempt = 0
      /\ Delayed(NoRow, delay).leaseSeq = 0
      /\ Delayed(NoRow, delay).lease = NoLease
      /\ Delayed(NoRow, delay).leaseExp = 0
  <2> DEFINE q == Released(NoRow, "retry_wait")
  <2>1. NoRow \in Row /\ NoRow.attempt = 0 /\ NoRow.leaseSeq = 0
    BY DEF NoRow, Row
  <2>2. "queued" \in States /\ "retry_wait" \in States /\ now + delay \in Nat
    BY <1>1 DEF States
  <2>3. CASE delay > 0
    <3>1. /\ q \in Row /\ q.state = "retry_wait" /\ q.attempt = 0 /\ q.leaseSeq = 0
          /\ q.lease = NoLease /\ q.leaseExp = 0
      BY <2>1, <2>2, ReleasedFields
    <3>2. Delayed(NoRow, delay) = [q EXCEPT !.avail = now + delay]
      BY <2>3 DEF Delayed
    <3> HIDE DEF q
    <3> QED
      BY <3>1, <3>2, <2>2 DEF Row
  <2>4. CASE ~(delay > 0)
    BY <2>1, <2>2, <2>4, ReleasedFields DEF Delayed
  <2> QED
    BY <2>3, <2>4
<1>4. RowInv(r, incarnation'[i])
  <2> DEFINE q == Delayed(NoRow, delay)
  <2> HIDE DEF q
  <2>1. /\ r \in Row /\ r.state = q.state /\ r.attempt = 0 /\ r.leaseSeq = 0
        /\ r.lease = NoLease /\ r.leaseExp = 0 /\ r.expires = now + lifetime
    BY <1>1, <1>3 DEF Row, q
  <2> HIDE DEF r
  <2> QED
    BY <1>1, <1>2, <1>3, <2>1, PolicyTypes DEF RowInv, q
<1>5. \A j \in WorkItems : RowInv(next[j], incarnation'[j])
  BY <1>4 DEF IInv, RowsInv, Enqueue
<1>6. Stores(next)
  BY MoveStores DEF Enqueue
<1> HIDE DEF next
<1> QED
  BY <1>2, <1>5, <1>6, CommitInv

LEMMA ReadyInv ==
  ASSUME IInv, NEW i \in WorkItems
  PROVE  RowInv(Matured(Swept(i)), incarnation[i])
<1>1. incarnation[i] \in Nat /\ RowInv(Swept(i), incarnation[i])
  BY SweptInv DEF IInv, RowsInv
<1> QED
  BY <1>1, MaturedInv

LEMMA ClaimInv ==
  ASSUME IInv, NEW batch \in BatchSizes, Claim(batch)
  PROVE  RowsInv' /\ leases' \subseteq WorkItems \X Leases
<1> DEFINE swept == [i \in WorkItems |-> Swept(i)]
           ready == [i \in WorkItems |-> Matured(swept[i])]
<1>1. now \in Nat /\ incarnation \in [WorkItems -> Nat] /\ incarnation' = incarnation
      /\ leases \subseteq WorkItems \X Leases
  BY PolicyTypes DEF IInv, TypeOK, Claim
<1>2. \A i \in WorkItems : RowInv(swept[i], incarnation[i]) /\ RowInv(ready[i], incarnation[i])
  BY SweptInv, ReadyInv DEF IInv
<1>3. CASE Stores(swept) /\ UNCHANGED leases
  <2>1. \A i \in WorkItems : RowInv(swept[i], incarnation'[i])
    BY <1>1, <1>2
  <2> HIDE DEF swept
  <2> QED
    BY <1>1, <1>3, <2>1, CommitInv
<1>4. ASSUME NEW visited \in Visits(ready, batch),
             LET granted == {i \in visited : ready[i].attempt < MaxAttempts}
                 next == [i \in WorkItems |->
                            IF i \in granted THEN Granted(i, ready[i])
                            ELSE IF i \in visited THEN Released(ready[i], "failed")
                            ELSE ready[i]]
             IN /\ Stores(next)
                /\ leases' = leases \cup {<<i, next[i].lease>> : i \in granted}
      PROVE  RowsInv' /\ leases' \subseteq WorkItems \X Leases
  <2> DEFINE granted == {i \in visited : ready[i].attempt < MaxAttempts}
             next == [i \in WorkItems |->
                        IF i \in granted THEN Granted(i, ready[i])
                        ELSE IF i \in visited THEN Released(ready[i], "failed")
                        ELSE ready[i]]
  <2>1. Stores(next) /\ leases' = leases \cup {<<i, next[i].lease>> : i \in granted}
    BY <1>4
  <2>2. visited \subseteq WorkItems /\ \A i \in visited : Claimable(ready[i])
    BY DEF Visits
  <2>3. \A i \in visited : ready[i].state # NoState
    BY <2>2 DEF Claimable, NoState
  <2> HIDE DEF ready
  <2>4. \A i \in granted : RowInv(next[i], incarnation[i]) /\ next[i].lease \in Leases
    BY <1>1, <1>2, <2>2, <2>3, GrantedInv
  <2>5. \A i \in visited \ granted : RowInv(next[i], incarnation[i])
    BY <1>1, <1>2, <2>2, <2>3, ReleasedInv DEF States
  <2>6. \A i \in WorkItems \ visited : RowInv(next[i], incarnation[i])
    BY <1>2
  <2>7. \A i \in WorkItems : RowInv(next[i], incarnation'[i])
    BY <1>1, <2>4, <2>5, <2>6
  <2> HIDE DEF next
  <2>8. leases' \subseteq WorkItems \X Leases
    BY <1>1, <2>1, <2>2, <2>4
  <2> QED
    BY <1>1, <2>1, <2>7, <2>8, CommitInv
<1> QED
  BY <1>1, <1>3, <1>4, ClaimStores

LEMMA ExpireInsteadInv ==
  ASSUME RowsInv, NEW i \in WorkItems, ExpireInstead(i), UNCHANGED incarnation
  PROVE  RowsInv'
BY MoveReleasedInv, SettlingMoves DEF ExpireInstead

LEMMA MoveDelayedInv ==
  ASSUME IInv, NEW i \in WorkItems, NEW transition, NEW delay \in Delays,
         transition \notin {"enqueue", "retention_snapshot"},
         rows[i].attempt < MaxAttempts,
         Move(i, transition, Delayed(rows[i], delay)), UNCHANGED incarnation
  PROVE  RowsInv'
<1>1. RowInv(rows[i], incarnation[i]) /\ incarnation[i] \in Nat /\ RowsInv
  BY DEF IInv, RowsInv
<1>2. now \in Nat /\ delay \in Nat
  BY InputAssumption, PolicyTypes DEF IInv, TypeOK
<1>3. rows[i].state # NoState
  BY LegalStates DEF Move
<1>4. RowInv(Delayed(rows[i], delay), incarnation[i])
  BY <1>1, <1>2, <1>3, DelayedInv
<1> QED
  BY <1>1, <1>4, MoveInv

LEMMA ProgressInv ==
  ASSUME IInv, NEW i \in WorkItems, NEW l, Progress(i, l)
  PROVE  RowsInv'
<1>1. RowInv(rows[i], incarnation[i]) /\ incarnation[i] \in Nat /\ RowsInv
      /\ UNCHANGED incarnation /\ now \in Nat
  BY PolicyTypes DEF IInv, RowsInv, TypeOK, Progress
<1>2. CASE ExpireInstead(i)
  BY <1>1, <1>2, ExpireInsteadInv
<1>3. CASE Move(i, "progress", [rows[i] EXCEPT !.leaseExp = LeaseEnd(rows[i])])
  BY <1>1, <1>3, RenewedInv, MoveInv
<1> QED
  BY <1>2, <1>3 DEF Progress

LEMMA RetryInv ==
  ASSUME IInv, NEW i \in WorkItems, NEW l, NEW delay \in Delays, Retry(i, l, delay)
  PROVE  RowsInv'
<1>1. RowsInv /\ UNCHANGED incarnation
  BY DEF IInv, Retry
<1>2. CASE ExpireInstead(i)
  BY <1>1, <1>2, ExpireInsteadInv
<1>3. CASE Move(i, "retry", Released(rows[i], "failed"))
  BY <1>1, <1>3, MoveReleasedInv, SettlingMoves
<1>4. CASE Move(i, "expire", Released(rows[i], "expired"))
  BY <1>1, <1>4, MoveReleasedInv, SettlingMoves
<1>5. CASE rows[i].attempt < MaxAttempts /\ Move(i, "retry", Delayed(rows[i], delay))
  BY <1>1, <1>5, MoveDelayedInv
<1> QED
  BY <1>2, <1>3, <1>4, <1>5 DEF Retry

LEMMA AcknowledgeInv ==
  ASSUME IInv, NEW i \in WorkItems, NEW l, NEW to \in {"completed", "failed", "retry"},
         NEW delay \in Delays, AcknowledgeTermination(i, l, to, delay)
  PROVE  RowsInv'
<1>1. RowsInv /\ UNCHANGED incarnation
  BY DEF IInv, AcknowledgeTermination
<1>2. CASE Move(i, "termination_acknowledged", Released(rows[i], "completed"))
  BY <1>1, <1>2, MoveReleasedInv, SettlingMoves
<1>3. CASE Move(i, "termination_acknowledged", Released(rows[i], "failed"))
  BY <1>1, <1>3, MoveReleasedInv, SettlingMoves
<1>4. CASE /\ rows[i].attempt < MaxAttempts
           /\ Move(i, "termination_acknowledged", Delayed(rows[i], delay))
  BY <1>1, <1>4, MoveDelayedInv
<1>5. CASE to = "completed"
  BY <1>2, <1>5 DEF AcknowledgeTermination
<1>6. CASE to = "retry" /\ rows[i].attempt < MaxAttempts
  BY <1>4, <1>6 DEF AcknowledgeTermination
<1>7. CASE to # "completed" /\ ~(to = "retry" /\ rows[i].attempt < MaxAttempts)
  BY <1>3, <1>7 DEF AcknowledgeTermination
<1> QED
  BY <1>5, <1>6, <1>7

LEMMA MarkInDoubtInv ==
  ASSUME IInv, NEW i \in WorkItems, NEW l, MarkInDoubt(i, l)
  PROVE  RowsInv'
<1> DEFINE r == [rows[i] EXCEPT !.state = "in_doubt"]
<1>1. RowInv(rows[i], incarnation[i]) /\ incarnation[i] \in Nat /\ RowsInv
      /\ UNCHANGED incarnation
  BY DEF IInv, RowsInv, MarkInDoubt
<1>2. Move(i, "interrupt", r)
  BY DEF MarkInDoubt
<1>3. rows[i].state = "running"
  BY <1>2 DEF Move, Legal, Transitions, Arc
<1> QED
  BY <1>1, <1>2, <1>3, InterruptedInv, MoveInv

LEMMA ReconcileInv ==
  ASSUME IInv, NEW i \in WorkItems, ReconcileInDoubt(i)
  PROVE  RowsInv'
<1>1. RowInv(rows[i], incarnation[i]) /\ incarnation[i] \in Nat /\ RowsInv
      /\ UNCHANGED incarnation
  BY DEF IInv, RowsInv, ReconcileInDoubt
<1>2. RowInv(Reconciled(i, rows[i]), incarnation[i])
  BY <1>1, ReconciledInv
<1> QED
  BY <1>1, <1>2, MoveInv DEF ReconcileInDoubt

\* The operations that only release an item.
LEMMA SettlingInv ==
  ASSUME IInv, NEW i \in WorkItems, NEW l,
         \/ Complete(i, l) \/ CancelRunning(i, l) \/ Fail(i, l)
         \/ Cancel(i) \/ Expire(i) \/ Recover(i)
  PROVE  RowsInv'
<1>1. RowsInv /\ UNCHANGED incarnation
  BY DEF IInv, Complete, CancelRunning, Fail, Cancel, Expire, Recover
<1>2. CASE Complete(i, l)
  BY <1>1, <1>2, ExpireInsteadInv, MoveReleasedInv, SettlingMoves DEF Complete
<1>3. CASE CancelRunning(i, l)
  BY <1>1, <1>3, ExpireInsteadInv, MoveReleasedInv, SettlingMoves DEF CancelRunning
<1>4. CASE Fail(i, l)
  BY <1>1, <1>4, ExpireInsteadInv, MoveReleasedInv, SettlingMoves DEF Fail
<1>5. CASE Cancel(i)
  BY <1>1, <1>5, ExpireInsteadInv, MoveReleasedInv, SettlingMoves DEF Cancel
<1>6. CASE Expire(i)
  BY <1>1, <1>6, MoveReleasedInv, SettlingMoves DEF Expire
<1>7. CASE Recover(i)
  BY <1>1, <1>7, MoveReleasedInv, SettlingMoves DEF Recover
<1> QED
  BY <1>2, <1>3, <1>4, <1>5, <1>6, <1>7

LEMMA RowsStep ==
  ASSUME IInv, [Next]_vars
  PROVE  RowsInv'
<1>1. ASSUME UNCHANGED <<rows, incarnation>> PROVE RowsInv'
  BY <1>1 DEF IInv, RowsInv
<1>2. ASSUME NEW i \in WorkItems, NEW delay \in Delays, NEW lifetime \in Lifetimes,
             Enqueue(i, delay, lifetime)
      PROVE  RowsInv'
  BY <1>2, EnqueueInv
<1>3. CASE ClaimSome
  BY <1>3, ClaimInv DEF ClaimSome
<1>4. ASSUME NEW i \in WorkItems, NEW l \in HeldLeases(i),
             \/ Complete(i, l)
             \/ \E delay \in Delays : Retry(i, l, delay)
             \/ Progress(i, l)
             \/ CancelRunning(i, l)
             \/ \E sink \in Settlements, form \in ReceiptForms :
                  RecordSinkReceipt(i, l, sink, form)
      PROVE  RowsInv'
  <2>1. CASE \E sink \in Settlements, form \in ReceiptForms :
                RecordSinkReceipt(i, l, sink, form)
    BY <1>1, <2>1 DEF RecordSinkReceipt
  <2> QED
    BY <1>4, <2>1, SettlingInv, RetryInv, ProgressInv
<1>5. ASSUME NEW i \in WorkItems, NEW l \in HeldLeases(i) \cup {NoLease},
             \/ Fail(i, l)
             \/ MarkInDoubt(i, l)
             \/ \E to \in {"completed", "failed", "retry"}, delay \in Delays :
                  AcknowledgeTermination(i, l, to, delay)
      PROVE  RowsInv'
  BY <1>5, SettlingInv, MarkInDoubtInv, AcknowledgeInv
<1>6. ASSUME NEW i \in WorkItems,
             Cancel(i) \/ Expire(i) \/ ReconcileInDoubt(i) \/ Recover(i)
      PROVE  RowsInv'
  BY <1>6, SettlingInv, ReconcileInv
<1>7. ASSUME NEW m \in ControlModes, SetQueueControl(m) PROVE RowsInv'
  BY <1>1, <1>7 DEF SetQueueControl
<1>8. CASE Tick
  BY <1>1, <1>8 DEF Tick
<1>9. CASE UNCHANGED vars
  BY <1>1, <1>9 DEF vars
<1> QED
  BY <1>2, <1>3, <1>4, <1>5, <1>6, <1>7, <1>8, <1>9 DEF Next

-----------------------------------------------------------------------------
(***************************************************************************)
(* Type correctness of the other variables.                                *)
(***************************************************************************)

LEMMA WithReceiptType ==
  ASSUME TypeOK, NEW i \in WorkItems, NEW gen \in Nat, NEW sink \in Settlements,
         NEW by \in Nat \X Nat
  PROVE  WithReceipt(i, gen, sink, by) \subseteq Receipt
<1>1. [item |-> i, gen |-> gen, sink |-> sink, by |-> by] \in Receipt
  BY DEF Receipt
<1> QED
  BY <1>1 DEF WithReceipt, TypeOK

LEMMA HeldLeasesType ==
  ASSUME TypeOK, NEW i \in WorkItems, NEW l \in HeldLeases(i)
  PROVE  l \in Nat \X Nat /\ l[1] \in Nat /\ l[2] \in Nat
BY DEF TypeOK, HeldLeases, Leases

LEMMA SinksStep ==
  ASSUME IInv, [Next]_vars
  PROVE  sinks' \subseteq Receipt
<1>1. CASE UNCHANGED sinks
  BY <1>1 DEF IInv, TypeOK
<1>2. ASSUME NEW i \in WorkItems
      PROVE  Attempt(i) \in Nat \X Nat /\ rows[i].leaseSeq \in Nat
  BY DEF IInv, TypeOK, Attempt, Row
<1>3. ASSUME NEW i \in WorkItems, NEW l \in HeldLeases(i), Complete(i, l)
      PROVE  sinks' \subseteq Receipt
  <2>1. CASE ExpireInstead(i)
    BY <1>1, <2>1 DEF ExpireInstead
  <2>2. CASE sinks' = WithReceipt(i, rows[i].leaseSeq, "complete", l)
    BY <1>2, <2>2, WithReceiptType, HeldLeasesType DEF Settlements, IInv
  <2> QED
    BY <1>3, <2>1, <2>2 DEF Complete
<1>4. ASSUME NEW i \in WorkItems, NEW l \in HeldLeases(i) \cup {NoLease}, Fail(i, l)
      PROVE  sinks' \subseteq Receipt
  <2> DEFINE by == IF l = NoLease THEN Attempt(i) ELSE l
  <2>1. CASE ExpireInstead(i)
    BY <1>1, <2>1 DEF ExpireInstead
  <2>2. CASE sinks' = WithReceipt(i, rows[i].leaseSeq, "fail", by)
    <3>1. by \in Nat \X Nat
      BY <1>2, HeldLeasesType DEF IInv
    <3> QED
      BY <1>2, <2>2, <3>1, WithReceiptType DEF Settlements, IInv
  <2> QED
    BY <1>4, <2>1, <2>2 DEF Fail
<1>5. ASSUME NEW i \in WorkItems, NEW l, NEW to, NEW delay,
             AcknowledgeTermination(i, l, to, delay)
      PROVE  sinks' \subseteq Receipt
  <2>1. \/ sinks' = sinks
        \/ sinks' = WithReceipt(i, rows[i].leaseSeq, "complete", Attempt(i))
        \/ sinks' = WithReceipt(i, rows[i].leaseSeq, "fail", Attempt(i))
    BY <1>5 DEF AcknowledgeTermination
  <2> QED
    BY <1>1, <1>2, <2>1, WithReceiptType DEF Settlements, IInv
<1>6. ASSUME NEW i \in WorkItems, NEW l \in HeldLeases(i), NEW sink \in Settlements,
             NEW form, RecordSinkReceipt(i, l, sink, form)
      PROVE  sinks' \subseteq Receipt
  BY <1>2, <1>6, WithReceiptType, HeldLeasesType DEF RecordSinkReceipt, IInv
<1>7. CASE ClaimSome \/ Tick \/ UNCHANGED vars
  BY <1>1, <1>7 DEF ClaimSome, Claim, Tick, vars
<1>8. ASSUME NEW i \in WorkItems,
             \/ \E delay \in Delays, lifetime \in Lifetimes : Enqueue(i, delay, lifetime)
             \/ \E l \in HeldLeases(i), delay \in Delays : Retry(i, l, delay)
             \/ \E l \in HeldLeases(i) : Progress(i, l) \/ CancelRunning(i, l)
             \/ \E l \in HeldLeases(i) \cup {NoLease} : MarkInDoubt(i, l)
             \/ Cancel(i) \/ Expire(i) \/ ReconcileInDoubt(i) \/ Recover(i)
      PROVE  sinks' \subseteq Receipt
  BY <1>1, <1>8 DEF Enqueue, Retry, Progress, CancelRunning, MarkInDoubt, Cancel,
     Expire, ReconcileInDoubt, Recover, ExpireInstead
<1>9. ASSUME NEW m \in ControlModes, SetQueueControl(m) PROVE sinks' \subseteq Receipt
  BY <1>1, <1>9 DEF SetQueueControl
<1> QED
  BY <1>3, <1>4, <1>5, <1>6, <1>7, <1>8, <1>9 DEF Next

\* Every operation stores its rows by Commit, or leaves them alone.
LEMMA RowsAreCommitted ==
  ASSUME [Next]_vars
  PROVE  UNCHANGED <<rows, pending>> \/ \E next : Stores(next)
<1> DEFINE Stored == \E next : Stores(next)
<1>1. ASSUME NEW i, NEW transition, NEW r, Move(i, transition, r) PROVE Stored
  BY <1>1, MoveStores
<1>2. ASSUME NEW i, ExpireInstead(i) PROVE Stored
  BY <1>1, <1>2 DEF ExpireInstead
<1>3. ASSUME NEW batch, Claim(batch) PROVE Stored
  BY <1>3, ClaimStores
<1> HIDE DEF Stored
<1>4. ASSUME NEW i, NEW l,
             \/ Complete(i, l) \/ Progress(i, l) \/ CancelRunning(i, l) \/ Fail(i, l)
             \/ MarkInDoubt(i, l) \/ Cancel(i) \/ Expire(i) \/ ReconcileInDoubt(i)
             \/ Recover(i)
      PROVE  Stored
  BY <1>1, <1>2, <1>4 DEF Complete, Progress, CancelRunning, Fail, MarkInDoubt, Cancel, Expire,
     ReconcileInDoubt, Recover
<1>5. ASSUME NEW i, NEW l, NEW to, NEW delay, NEW lifetime,
             \/ Enqueue(i, delay, lifetime)
             \/ Retry(i, l, delay)
             \/ AcknowledgeTermination(i, l, to, delay)
      PROVE  Stored
  BY <1>1, <1>2, <1>5 DEF Enqueue, Retry, AcknowledgeTermination
<1>6. ASSUME NEW i, NEW l, NEW sink, NEW form, RecordSinkReceipt(i, l, sink, form)
      PROVE  UNCHANGED <<rows, pending>>
  BY <1>6 DEF RecordSinkReceipt
<1>7. CASE Tick \/ (\E m \in ControlModes : SetQueueControl(m)) \/ UNCHANGED vars
  BY <1>7 DEF Tick, SetQueueControl, vars
<1> QED
  BY <1>3, <1>4, <1>5, <1>6, <1>7 DEF Next, ClaimSome, Stored

LEMMA OthersStep ==
  ASSUME IInv, [Next]_vars
  PROVE  now' \in 0..MaxTime /\ mode' \in Modes /\ leases' \subseteq WorkItems \X Leases
<1>1. now \in 0..MaxTime /\ mode \in Modes /\ leases \subseteq WorkItems \X Leases
  BY DEF IInv, TypeOK
<1>2. CASE UNCHANGED <<now, mode, leases>>
  BY <1>1, <1>2
<1>3. CASE ClaimSome
  <2>1. UNCHANGED <<now, mode>> /\ leases' \subseteq WorkItems \X Leases
    BY <1>3, ClaimInv DEF ClaimSome, Claim
  <2> QED
    BY <1>1, <2>1
<1>4. CASE Tick
  BY <1>1, <1>4, PolicyTypes DEF Tick
<1>5. ASSUME NEW m \in ControlModes, SetQueueControl(m) PROVE
        now' \in 0..MaxTime /\ mode' \in Modes /\ leases' \subseteq WorkItems \X Leases
  BY <1>1, <1>5, InputAssumption DEF SetQueueControl
<1>6. CASE UNCHANGED vars
  BY <1>2, <1>6 DEF vars
<1> QED
  BY <1>1, <1>2, <1>3, <1>4, <1>5, <1>6
  DEF Next, Enqueue, Complete, Retry, Progress, CancelRunning, RecordSinkReceipt, Fail,
      MarkInDoubt, AcknowledgeTermination, Cancel, Expire, ReconcileInDoubt, Recover

-----------------------------------------------------------------------------
LEMMA InitInv == Init => IInv
<1> SUFFICES ASSUME Init PROVE IInv
  OBVIOUS
<1>1. NoRow \in Row
  BY DEF NoRow, Row
<1>2. rows \in [WorkItems -> Row] /\ incarnation \in [WorkItems -> Nat]
  BY <1>1 DEF Init
<1>3. \A i \in WorkItems : RowInv(rows[i], incarnation[i])
  BY NoRowInv DEF Init
<1>4. now \in 0..MaxTime /\ mode \in Modes /\ sinks \subseteq Receipt
      /\ leases \subseteq WorkItems \X Leases /\ pending \in 0..(SweepEvery - 1)
  BY PolicyTypes, PolicyAssumption DEF Init, Modes
<1> QED
  BY <1>2, <1>3, <1>4 DEF IInv, RowsInv, TypeOK

LEMMA StepInv == IInv /\ [Next]_vars => IInv'
<1> SUFFICES ASSUME IInv, [Next]_vars PROVE IInv'
  OBVIOUS
<1>1. RowsInv' /\ sinks' \subseteq Receipt
  BY RowsStep, SinksStep
<1>2. now' \in 0..MaxTime /\ mode' \in Modes /\ leases' \subseteq WorkItems \X Leases
  BY OthersStep
<1>3. pending' \in 0..(SweepEvery - 1)
  <2>1. pending \in 0..(SweepEvery - 1)
    BY DEF IInv, TypeOK
  <2> QED
    BY <2>1, RowsAreCommitted, CommitPending, PolicyAssumption
<1> QED
  BY <1>1, <1>2, <1>3 DEF IInv, RowsInv, TypeOK

\* The inductive invariant of the store.
THEOREM Invariance == Spec => []IInv
<1>1. Init => IInv
  BY InitInv
<1>2. IInv /\ [Next]_vars => IInv'
  BY StepInv
<1> QED
  BY <1>1, <1>2, PTL DEF Spec

\* The tables keep their types.
THEOREM TypeCorrect == Spec => []TypeOK
<1>1. IInv => TypeOK
  BY DEF IInv
<1> QED
  BY <1>1, Invariance, PTL

\* The lease columns of every row always agree with its state, its attempt
\* counter and its deadline (the patches of all the store's operations).
THEOREM LeaseColumnsCorrect == Spec => []LeaseColumnsAgree
<1>1. IInv => LeaseColumnsAgree
  BY DEF IInv, RowsInv, RowInv, LeaseColumnsAgree, Attempt
<1> QED
  BY <1>1, Invariance, PTL

\* No item is ever attempted more than max_attempts times, and an item waits in
\* the queue only while it has an attempt left (claimTx, retryTx,
\* acknowledgeTerminationTx and recoverTx together).
THEOREM AttemptBudgetHolds == Spec => []AttemptBudget
<1>1. IInv => AttemptBudget
  BY DEF IInv, RowsInv, RowInv, AttemptBudget
<1> QED
  BY <1>1, Invariance, PTL

-----------------------------------------------------------------------------
(***************************************************************************)
(* The store implements WorkAttempts.                                      *)
(***************************************************************************)
\* One item's step of WorkAttempts, as a relation between two rows.
Advances(r, q) ==
  \/ Phase(q) = Phase(r) /\ q.attempt = r.attempt
  \/ Phase(r) = "absent" /\ Phase(q) = "waiting" /\ q.attempt = 0
  \/ /\ Phase(r) \in {"waiting", "revived"} /\ Phase(q) = "held"
     /\ r.attempt < MaxAttempts /\ q.attempt = r.attempt + 1
  \/ Phase(r) = "held" /\ Phase(q) = "doubt" /\ q.attempt = r.attempt
  \/ /\ Phase(r) \in {"held", "doubt"} /\ Phase(q) = "waiting"
     /\ r.attempt < MaxAttempts /\ q.attempt = r.attempt
  \/ /\ Phase(r) \in {"waiting", "revived", "held", "doubt"}
     /\ Phase(q) \in {"failed", "done"} /\ q.attempt = r.attempt
  \/ Phase(r) = "failed" /\ Phase(q) = "revived" /\ q.attempt = r.attempt
  \/ Phase(r) # "absent" /\ Phase(q) = "absent" /\ q.attempt = 0

LEMMA ForgetAdvances ==
  ASSUME NEW r, r.state = NoState => r.attempt = 0
  PROVE  Advances(r, NoRow)
BY DEF Advances, Phase, NoRow, NoState

LEMMA SameAdvances == ASSUME NEW r PROVE Advances(r, r)
BY DEF Advances

\* Rows that all advance, stored by Commit, advance.
LEMMA CommitAdvances ==
  ASSUME RowsInv, NEW next, Stores(next),
         \A i \in WorkItems : Advances(rows[i], next[i])
  PROVE  \A i \in WorkItems : Advances(rows[i], rows'[i])
<1>1. \A i \in WorkItems : rows'[i] \in {next[i], NoRow}
  BY CommitRows
<1>2. \A i \in WorkItems : Advances(rows[i], NoRow)
  BY ForgetAdvances DEF RowsInv, RowInv
<1> QED
  BY <1>1, <1>2

\* A legal transition other than a claim, or a retry out of a spent attempt, that
\* leaves the attempt counter alone is a step of WorkAttempts.
LEMMA LegalAdvances ==
  ASSUME NEW r, NEW q, NEW transition, Legal(transition, r.state, q.state),
         transition \notin {"claim", "enqueue", "retention_snapshot", "requeue_recovered"},
         q.attempt = r.attempt,
         r.state # "retry_wait" => (q.state \in {"queued", "retry_wait"} => r.attempt < MaxAttempts)
  PROVE  Advances(r, q)
<1>1. transition \in DOMAIN Transitions /\ r.state \in Transitions[transition].from
      /\ q.state \in Transitions[transition].to
  BY DEF Legal
<1>2. CASE transition \in {"progress", "delay_matured"}
  BY <1>1, <1>2 DEF Transitions, Arc, Advances, Phase, NoState
<1>3. CASE transition \in {"interrupt", "lease_expired"}
  BY <1>1, <1>3 DEF Transitions, Arc, Advances, Phase, NoState
<1>4. CASE transition \in {"termination_acknowledged", "retry"}
  BY <1>1, <1>4 DEF Transitions, Arc, Advances, Phase, NoState
<1>5. CASE transition \in {"complete", "fail", "cancel_running", "cancel", "expire"}
  BY <1>1, <1>5 DEF Transitions, Arc, OpenStates, Advances, Phase, NoState
<1>6. CASE transition = "recover"
  BY <1>1, <1>6 DEF Transitions, Arc, Advances, Phase, NoState
<1> QED
  BY <1>1, <1>2, <1>3, <1>4, <1>5, <1>6 DEF Transitions

\* An operation that moves one item by such a transition.
LEMMA MoveAdvances ==
  ASSUME RowsInv, NEW i \in WorkItems, NEW transition, NEW q,
         Move(i, transition, q), Advances(rows[i], q)
  PROVE  \A j \in WorkItems : Advances(rows[j], rows'[j])
<1> DEFINE next == [rows EXCEPT ![i] = q]
<1>1. Stores(next)
  BY MoveStores
<1>2. \A j \in WorkItems : Advances(rows[j], next[j])
  BY SameAdvances DEF RowsInv
<1> HIDE DEF next
<1> QED
  BY <1>1, <1>2, CommitAdvances

LEMMA ReleasedAdvances ==
  ASSUME RowsInv, NEW i \in WorkItems, NEW transition, NEW to, Settling(transition, to),
         transition \notin {"claim", "requeue_recovered"},
         Move(i, transition, Released(rows[i], to))
  PROVE  \A j \in WorkItems : Advances(rows[j], rows'[j])
<1> DEFINE q == Released(rows[i], to)
<1>1. q.state = to /\ q.attempt = rows[i].attempt
  BY ReleasedFields DEF RowsInv, Settling, States
<1>2. Legal(transition, rows[i].state, q.state)
  BY DEF Move
<1> HIDE DEF q
<1>3. Advances(rows[i], q)
  BY <1>1, <1>2, LegalAdvances DEF Settling
<1> QED
  BY <1>3, MoveAdvances DEF q

LEMMA DelayedAdvances ==
  ASSUME IInv, NEW i \in WorkItems, NEW delay \in Delays,
         NEW transition \in {"retry", "termination_acknowledged"},
         rows[i].attempt < MaxAttempts, Move(i, transition, Delayed(rows[i], delay))
  PROVE  \A j \in WorkItems : Advances(rows[j], rows'[j])
<1> DEFINE q == Delayed(rows[i], delay)
           w == Released(rows[i], "retry_wait")
<1>1. RowsInv /\ rows[i] \in Row
  BY DEF IInv, RowsInv
<1>2. /\ w \in Row /\ w.attempt = rows[i].attempt /\ w.state = "retry_wait"
      /\ Released(rows[i], "queued").attempt = rows[i].attempt
  BY <1>1, ReleasedFields DEF States
<1> HIDE DEF w
<1>3. q.attempt = rows[i].attempt
  BY <1>2 DEF Delayed, Row, w
<1>4. Legal(transition, rows[i].state, q.state)
  BY DEF Move
<1> HIDE DEF q
<1>5. Advances(rows[i], q)
  BY <1>3, <1>4, LegalAdvances
<1> QED
  BY <1>1, <1>5, MoveAdvances DEF q

LEMMA ReconciledCases ==
  ASSUME NEW i, NEW r
  PROVE  \/ Reconciled(i, r) = r
         \/ /\ r.state = "in_doubt"
            /\ Reconciled(i, r) \in {Released(r, "completed"), Released(r, "failed")}
BY DEF Reconciled

\* What the sweeps of a claim can do to an item.
LEMMA ReadyCases ==
  ASSUME RowsInv, NEW i \in WorkItems
  PROVE  LET q == Matured(Swept(i)) IN
         /\ q.attempt = rows[i].attempt /\ Swept(i).attempt = rows[i].attempt
         /\ q.state \in {"queued", "recovered"} =>
              rows[i].state \in {"queued", "retry_wait", "recovered"}
         /\ q.state = "running" => rows[i] = q
         /\ Advances(rows[i], Swept(i)) /\ Advances(rows[i], q)
<1> DEFINE r == rows[i]  s == Swept(i)  q == Matured(s)
<1>1. r \in Row
  BY DEF RowsInv
<1> HIDE DEF r
<1>2. /\ Lapsed(r).attempt = r.attempt /\ Lapsed(r) \in Row
      /\ Lapsed(r).state = r.state \/ (r.state = "running" /\ Lapsed(r).state = "in_doubt")
      /\ Lapsed(r).state = "running" => Lapsed(r) = r
  BY <1>1 DEF Lapsed, Row, States
<1>3. /\ Reconciled(i, Lapsed(r)) \in Row
      /\ Reconciled(i, Lapsed(r)).attempt = r.attempt
      /\ \/ Reconciled(i, Lapsed(r)) = Lapsed(r)
         \/ /\ r.state \in {"running", "in_doubt"}
            /\ Reconciled(i, Lapsed(r)).state \in {"completed", "failed"}
  <2> DEFINE d == Lapsed(r)
  <2>1. /\ d \in Row /\ d.attempt = r.attempt
        /\ d.state = "in_doubt" => r.state \in {"running", "in_doubt"}
    BY <1>2
  <2> HIDE DEF d
  <2>2. \A to \in {"completed", "failed"} :
          /\ Released(d, to) \in Row /\ Released(d, to).attempt = r.attempt
          /\ Released(d, to).state = to
    BY <2>1, ReleasedFields DEF States
  <2> QED
    BY <2>1, <2>2, ReconciledCases DEF d
<1>4. /\ s \in Row /\ s.attempt = r.attempt
      /\ \/ s = Lapsed(r)
         \/ r.state \in {"running", "in_doubt"} /\ s.state \in {"completed", "failed"}
         \/ r.state \in SweptStates /\ s.state = "expired"
  BY <1>1, <1>3, ReleasedFields DEF Swept, SweptStates, States, r
<1> HIDE DEF s
<1>5. /\ q.attempt = s.attempt
      /\ q = s \/ (s.state = "retry_wait" /\ q.state = "queued")
  BY <1>4, ReleasedFields DEF Matured, States
<1> HIDE DEF q
<1>6. Advances(r, s) /\ Advances(r, q)
  BY <1>2, <1>4, <1>5 DEF Advances, Phase, SweptStates, NoState
<1>7. /\ q.state \in {"queued", "recovered"} => r.state \in {"queued", "retry_wait", "recovered"}
      /\ q.state = "running" => r = q
  BY <1>2, <1>4, <1>5
<1> QED
  BY <1>4, <1>5, <1>6, <1>7 DEF r, s, q

LEMMA EnqueueAdvances ==
  ASSUME IInv, NEW i \in WorkItems, NEW delay \in Delays, NEW lifetime \in Lifetimes,
         Enqueue(i, delay, lifetime)
  PROVE  \A j \in WorkItems : Advances(rows[j], rows'[j])
<1> DEFINE w == Delayed(NoRow, delay)
           q == [w EXCEPT !.expires = now + lifetime]
<1>1. now \in Nat /\ delay \in Nat /\ lifetime \in Nat /\ RowsInv /\ now + delay \in Nat
  BY InputAssumption, PolicyTypes DEF IInv, TypeOK
<1>2. NoRow \in Row /\ NoRow.attempt = 0
  BY DEF NoRow, Row
<1>3. \A to \in {"queued", "retry_wait"} :
        /\ Released(NoRow, to) \in Row /\ Released(NoRow, to).attempt = 0
        /\ Released(NoRow, to).state = to
  BY <1>2, ReleasedFields DEF States
<1>4. w \in Row /\ w.attempt = 0 /\ w.state \in {"queued", "retry_wait"}
  <2> DEFINE z == Released(NoRow, "retry_wait")
  <2>1. z \in Row /\ z.attempt = 0 /\ z.state = "retry_wait"
    BY <1>3
  <2> HIDE DEF z
  <2>2. /\ [z EXCEPT !.avail = now + delay] \in Row
        /\ [z EXCEPT !.avail = now + delay].attempt = 0
        /\ [z EXCEPT !.avail = now + delay].state = "retry_wait"
    BY <1>1, <2>1 DEF Row
  <2> QED
    BY <1>1, <1>3, <2>2 DEF Delayed, z
<1> HIDE DEF w
<1>5. q.attempt = 0 /\ q.state \in {"queued", "retry_wait"}
  BY <1>4 DEF Row
<1>6. Move(i, "enqueue", q)
  BY DEF Enqueue, w
<1>7. rows[i].state = NoState
  BY <1>6 DEF Move, Legal, Transitions, Arc
<1> HIDE DEF q
<1>8. Advances(rows[i], q)
  BY <1>5, <1>7 DEF Advances, Phase, NoState
<1> QED
  BY <1>1, <1>6, <1>8, MoveAdvances

LEMMA ClaimAdvances ==
  ASSUME IInv, NEW batch \in BatchSizes, Claim(batch)
  PROVE  \A i \in WorkItems : Advances(rows[i], rows'[i])
<1> DEFINE swept == [i \in WorkItems |-> Swept(i)]
           ready == [i \in WorkItems |-> Matured(swept[i])]
<1>1. RowsInv /\ now \in Nat
  BY PolicyTypes DEF IInv, TypeOK
<1>2. \A i \in WorkItems : swept[i] = Swept(i) /\ ready[i] = Matured(Swept(i))
  OBVIOUS
<1>3. CASE Stores(swept)
  <2>1. \A i \in WorkItems : Advances(rows[i], swept[i])
    BY <1>1, ReadyCases
  <2> HIDE DEF swept
  <2> QED
    BY <1>1, <1>3, <2>1, CommitAdvances
<1>4. ASSUME NEW visited \in Visits(ready, batch),
             Stores([i \in WorkItems |->
                       IF i \in {j \in visited : ready[j].attempt < MaxAttempts}
                       THEN Granted(i, ready[i])
                       ELSE IF i \in visited THEN Released(ready[i], "failed")
                       ELSE ready[i]])
      PROVE  \A i \in WorkItems : Advances(rows[i], rows'[i])
  <2> DEFINE next == [i \in WorkItems |->
                        IF i \in {j \in visited : ready[j].attempt < MaxAttempts}
                        THEN Granted(i, ready[i])
                        ELSE IF i \in visited THEN Released(ready[i], "failed")
                        ELSE ready[i]]
  <2>1. Stores(next)
    BY <1>4
  <2>2. visited \subseteq WorkItems
        /\ \A i \in visited : ready[i].state \in {"queued", "recovered"}
    BY DEF Visits, Claimable
  <2>3. ASSUME NEW i \in WorkItems PROVE Advances(rows[i], next[i])
    <3> DEFINE q == ready[i]  r == rows[i]
    <3>1. /\ RowInv(q, incarnation[i]) /\ incarnation[i] \in Nat
          /\ q.attempt = r.attempt /\ Advances(r, q)
          /\ q.state \in {"queued", "recovered"} =>
               r.state \in {"queued", "retry_wait", "recovered"}
      BY <1>1, <1>2, ReadyInv, ReadyCases DEF RowsInv
    <3>2. q \in Row /\ (q.state # NoState => incarnation[i] \in Nat \ {0})
      BY <3>1 DEF RowInv
    <3>3. i \in visited => q.state \in {"queued", "recovered"}
      BY <2>2
    <3>4. next[i] = IF i \in visited /\ q.attempt < MaxAttempts THEN Granted(i, q)
                    ELSE IF i \in visited THEN Released(q, "failed") ELSE q
      OBVIOUS
    <3> HIDE DEF q, r, next
    <3>5. CASE i \in visited /\ q.attempt < MaxAttempts
      <4>1. Granted(i, q).state = "running" /\ Granted(i, q).attempt = q.attempt + 1
        BY <1>1, <3>2, <3>3, <3>5, GrantedFields DEF NoState
      <4> QED
        BY <3>1, <3>3, <3>4, <3>5, <4>1 DEF Advances, Phase, NoState, r
    <3>6. CASE i \in visited /\ ~(q.attempt < MaxAttempts)
      <4>1. Released(q, "failed").state = "failed"
            /\ Released(q, "failed").attempt = q.attempt
        BY <3>2, ReleasedFields DEF States
      <4> QED
        BY <3>1, <3>3, <3>4, <3>6, <4>1 DEF Advances, Phase, NoState, r
    <3>7. CASE i \notin visited
      BY <3>1, <3>4, <3>7 DEF r
    <3> QED
      BY <3>5, <3>6, <3>7
  <2> HIDE DEF next
  <2> QED
    BY <1>1, <2>1, <2>3, CommitAdvances
<1> QED
  BY <1>3, <1>4, ClaimStores

LEMMA ExpireInsteadAdvances ==
  ASSUME RowsInv, NEW i \in WorkItems, ExpireInstead(i)
  PROVE  \A j \in WorkItems : Advances(rows[j], rows'[j])
BY ReleasedAdvances, SettlingMoves DEF ExpireInstead

LEMMA SettlingAdvances ==
  ASSUME IInv, NEW i \in WorkItems, NEW l,
         \/ Complete(i, l) \/ CancelRunning(i, l) \/ Fail(i, l)
         \/ Cancel(i) \/ Expire(i) \/ Recover(i)
  PROVE  \A j \in WorkItems : Advances(rows[j], rows'[j])
<1>1. RowsInv
  BY DEF IInv
<1>2. CASE Complete(i, l)
  BY <1>1, <1>2, ExpireInsteadAdvances, ReleasedAdvances, SettlingMoves DEF Complete
<1>3. CASE CancelRunning(i, l)
  BY <1>1, <1>3, ExpireInsteadAdvances, ReleasedAdvances, SettlingMoves DEF CancelRunning
<1>4. CASE Fail(i, l)
  BY <1>1, <1>4, ExpireInsteadAdvances, ReleasedAdvances, SettlingMoves DEF Fail
<1>5. CASE Cancel(i)
  BY <1>1, <1>5, ExpireInsteadAdvances, ReleasedAdvances, SettlingMoves DEF Cancel
<1>6. CASE Expire(i)
  BY <1>1, <1>6, ReleasedAdvances, SettlingMoves DEF Expire
<1>7. CASE Recover(i)
  BY <1>1, <1>7, ReleasedAdvances, SettlingMoves DEF Recover
<1> QED
  BY <1>2, <1>3, <1>4, <1>5, <1>6, <1>7

LEMMA RetryAdvances ==
  ASSUME IInv, NEW i \in WorkItems, NEW l, NEW delay \in Delays, Retry(i, l, delay)
  PROVE  \A j \in WorkItems : Advances(rows[j], rows'[j])
<1>1. RowsInv
  BY DEF IInv
<1>2. CASE ExpireInstead(i)
  BY <1>1, <1>2, ExpireInsteadAdvances
<1>3. CASE Move(i, "retry", Released(rows[i], "failed"))
  BY <1>1, <1>3, ReleasedAdvances, SettlingMoves
<1>4. CASE Move(i, "expire", Released(rows[i], "expired"))
  BY <1>1, <1>4, ReleasedAdvances, SettlingMoves
<1>5. CASE rows[i].attempt < MaxAttempts /\ Move(i, "retry", Delayed(rows[i], delay))
  BY <1>5, DelayedAdvances
<1> QED
  BY <1>2, <1>3, <1>4, <1>5 DEF Retry

LEMMA AcknowledgeAdvances ==
  ASSUME IInv, NEW i \in WorkItems, NEW l, NEW to \in {"completed", "failed", "retry"},
         NEW delay \in Delays, AcknowledgeTermination(i, l, to, delay)
  PROVE  \A j \in WorkItems : Advances(rows[j], rows'[j])
<1>1. RowsInv
  BY DEF IInv
<1>2. CASE to = "completed"
  BY <1>1, <1>2, ReleasedAdvances, SettlingMoves DEF AcknowledgeTermination
<1>3. CASE to = "retry" /\ rows[i].attempt < MaxAttempts
  BY <1>3, DelayedAdvances DEF AcknowledgeTermination
<1>4. CASE to # "completed" /\ ~(to = "retry" /\ rows[i].attempt < MaxAttempts)
  BY <1>1, <1>4, ReleasedAdvances, SettlingMoves DEF AcknowledgeTermination
<1> QED
  BY <1>2, <1>3, <1>4

LEMMA UnfencedAdvances ==
  ASSUME IInv, NEW i \in WorkItems, NEW l,
         Progress(i, l) \/ MarkInDoubt(i, l) \/ ReconcileInDoubt(i)
  PROVE  \A j \in WorkItems : Advances(rows[j], rows'[j])
<1>1. RowsInv /\ rows[i] \in Row
  BY DEF IInv, RowsInv
<1>2. CASE Progress(i, l)
  <2> DEFINE q == [rows[i] EXCEPT !.leaseExp = LeaseEnd(rows[i])]
  <2>1. CASE ExpireInstead(i)
    BY <1>1, <2>1, ExpireInsteadAdvances
  <2>2. CASE Move(i, "progress", q)
    <3>1. q.state = rows[i].state /\ q.attempt = rows[i].attempt
      BY <1>1 DEF Row
    <3> HIDE DEF q
    <3>2. Advances(rows[i], q)
      BY <3>1 DEF Advances, Phase
    <3> QED
      BY <1>1, <2>2, <3>2, MoveAdvances
  <2> QED
    BY <1>2, <2>1, <2>2 DEF Progress
<1>3. CASE MarkInDoubt(i, l)
  <2> DEFINE q == [rows[i] EXCEPT !.state = "in_doubt"]
  <2>1. Move(i, "interrupt", q) /\ q.state = "in_doubt" /\ q.attempt = rows[i].attempt
    BY <1>1, <1>3 DEF MarkInDoubt, Row
  <2> HIDE DEF q
  <2>2. Legal("interrupt", rows[i].state, q.state)
    BY <2>1 DEF Move
  <2>3. rows[i].state = "running"
    BY <2>2 DEF Legal, Transitions, Arc
  <2>4. Advances(rows[i], q)
    BY <2>1, <2>3 DEF Advances, Phase, NoState
  <2> QED
    BY <1>1, <2>1, <2>4, MoveAdvances
<1>4. CASE ReconcileInDoubt(i)
  <2>1. /\ Move(i, "termination_acknowledged", Reconciled(i, rows[i]))
        /\ Reconciled(i, rows[i]) \in
             {Released(rows[i], "completed"), Released(rows[i], "failed")}
    BY <1>4, ReconciledCases DEF ReconcileInDoubt
  <2> QED
    BY <1>1, <2>1, ReleasedAdvances, SettlingMoves
<1> QED
  BY <1>2, <1>3, <1>4

LEMMA RowsAdvance ==
  ASSUME IInv, [Next]_vars
  PROVE  \A i \in WorkItems : Advances(rows[i], rows'[i])
<1>1. CASE UNCHANGED rows
  BY <1>1, SameAdvances
<1>2. CASE ClaimSome
  BY <1>2, ClaimAdvances DEF ClaimSome
<1>3. ASSUME NEW i \in WorkItems, NEW l \in HeldLeases(i),
             \/ Complete(i, l)
             \/ \E delay \in Delays : Retry(i, l, delay)
             \/ Progress(i, l)
             \/ CancelRunning(i, l)
      PROVE  \A j \in WorkItems : Advances(rows[j], rows'[j])
  BY <1>3, SettlingAdvances, RetryAdvances, UnfencedAdvances
<1>4. ASSUME NEW i \in WorkItems, NEW l \in HeldLeases(i) \cup {NoLease},
             \/ Fail(i, l)
             \/ MarkInDoubt(i, l)
             \/ \E to \in {"completed", "failed", "retry"}, delay \in Delays :
                  AcknowledgeTermination(i, l, to, delay)
      PROVE  \A j \in WorkItems : Advances(rows[j], rows'[j])
  BY <1>4, SettlingAdvances, UnfencedAdvances, AcknowledgeAdvances
<1>5. ASSUME NEW i \in WorkItems,
             Cancel(i) \/ Expire(i) \/ ReconcileInDoubt(i) \/ Recover(i)
      PROVE  \A j \in WorkItems : Advances(rows[j], rows'[j])
  BY <1>5, SettlingAdvances, UnfencedAdvances
<1>6. ASSUME NEW i \in WorkItems, NEW l, NEW sink, NEW form, RecordSinkReceipt(i, l, sink, form)
      PROVE  \A j \in WorkItems : Advances(rows[j], rows'[j])
  BY <1>1, <1>6 DEF RecordSinkReceipt
<1>7. CASE Tick \/ (\E m \in ControlModes : SetQueueControl(m)) \/ UNCHANGED vars
  BY <1>1, <1>7 DEF Tick, SetQueueControl, vars
<1> QED
  BY <1>2, <1>3, <1>4, <1>5, <1>6, <1>7, EnqueueAdvances DEF Next

LEMMA AdvancesRefines ==
  ASSUME \A i \in WorkItems : Advances(rows[i], rows'[i])
  PROVE  Abstract!Next
BY DEF Abstract!Next, Abstract!Submit, Abstract!Begin, Abstract!Doubt, Abstract!GiveBack,
       Abstract!Settle, Abstract!Revive, Abstract!Forget, Abstract!Same, Abstract!Goes,
       Abstract!Unfinished, Abstract!Phases, Advances, Phase, NoState

\* The store, with its leases, deadlines, receipts, batches, operators and
\* retention, implements the abstract account of attempts for every policy and
\* every number of items: no attempt in doubt is handed out again before it is
\* settled, and a finished item is never attempted again.
THEOREM StoreImplementsAttempts == Spec => ImplementsAttempts
<1>1. Init => Abstract!Init
  <2>1. Phase(NoRow) = "absent" /\ NoRow.attempt = 0
    BY DEF Phase, NoRow, NoState
  <2> QED
    BY <2>1 DEF Init, Abstract!Init
<1>2. IInv /\ [Next]_vars => [Abstract!Next]_<<[i \in WorkItems |-> Phase(rows[i])],
                                               [i \in WorkItems |-> rows[i].attempt]>>
  BY RowsAdvance, AdvancesRefines
<1> QED
  BY <1>1, <1>2, Invariance, PTL DEF Spec, ImplementsAttempts, Abstract!Spec

-----------------------------------------------------------------------------
(***************************************************************************)
(* Exclusion.  Only a claim puts items into running and only an enqueue    *)
(* adds a row, so every other operation shrinks the two sets.              *)
(***************************************************************************)
Running == InState(rows, {"running"})
Present == {i \in WorkItems : rows[i].state # NoState}

LEMMA NoRowAbsent == NoRow.state = NoState /\ NoState # "running"
BY DEF NoRow, NoState

LEMMA MoveShrinks ==
  ASSUME RowsInv, NEW i \in WorkItems, NEW transition, NEW q, Move(i, transition, q),
         transition \notin {"claim", "enqueue", "retention_snapshot"}
  PROVE  Running' \subseteq Running /\ Present' \subseteq Present
<1> DEFINE next == [rows EXCEPT ![i] = q]
<1>1. Stores(next) /\ Legal(transition, rows[i].state, q.state)
  BY MoveStores
<1>2. \A j \in WorkItems : rows'[j] \in {next[j], NoRow}
  BY <1>1, CommitRows
<1>3. rows[i].state # NoState
  BY <1>1, LegalStates
<1>4. q.state = "running" => rows[i].state = "running"
  <2>1. transition \in DOMAIN Transitions /\ rows[i].state \in Transitions[transition].from
        /\ q.state \in Transitions[transition].to
    BY <1>1 DEF Legal
  <2>2. CASE transition = "progress"
    BY <2>1, <2>2 DEF Transitions, Arc
  <2>3. CASE transition # "progress"
    BY <2>1, <2>3 DEF Transitions, Arc
  <2> QED
    BY <2>2, <2>3
<1>5. \A j \in WorkItems : next[j] = IF j = i THEN q ELSE rows[j]
  BY DEF RowsInv
<1> HIDE DEF next
<1> QED
  BY <1>2, <1>3, <1>4, <1>5, NoRowAbsent DEF Running, Present, InState

LEMMA OthersShrink ==
  ASSUME IInv, [Next]_vars
  PROVE  \/ Running' \subseteq Running /\ Present' \subseteq Present
         \/ ClaimSome
         \/ \E i \in WorkItems, delay \in Delays, lifetime \in Lifetimes :
              Enqueue(i, delay, lifetime)
<1>1. CASE UNCHANGED rows
  BY <1>1 DEF Running, Present, InState
<1>2. RowsInv
  BY DEF IInv
<1>3. ASSUME NEW i \in WorkItems, ExpireInstead(i)
      PROVE  Running' \subseteq Running /\ Present' \subseteq Present
  BY <1>2, <1>3, MoveShrinks DEF ExpireInstead
<1>4. ASSUME NEW i \in WorkItems, NEW l,
             Complete(i, l) \/ CancelRunning(i, l) \/ Progress(i, l)
      PROVE  Running' \subseteq Running /\ Present' \subseteq Present
  BY <1>2, <1>3, <1>4, MoveShrinks DEF Complete, CancelRunning, Progress
<1>5. ASSUME NEW i \in WorkItems, NEW l, NEW delay, Retry(i, l, delay)
      PROVE  Running' \subseteq Running /\ Present' \subseteq Present
  BY <1>2, <1>3, <1>5, MoveShrinks DEF Retry
<1>6. ASSUME NEW i \in WorkItems, NEW l, Fail(i, l) \/ Cancel(i) \/ MarkInDoubt(i, l)
      PROVE  Running' \subseteq Running /\ Present' \subseteq Present
  BY <1>2, <1>3, <1>6, MoveShrinks DEF Fail, Cancel, MarkInDoubt
<1>7. ASSUME NEW i \in WorkItems, NEW l, NEW to, NEW delay,
             AcknowledgeTermination(i, l, to, delay)
      PROVE  Running' \subseteq Running /\ Present' \subseteq Present
  BY <1>2, <1>7, MoveShrinks DEF AcknowledgeTermination
<1>8. ASSUME NEW i \in WorkItems, Expire(i) \/ ReconcileInDoubt(i) \/ Recover(i)
      PROVE  Running' \subseteq Running /\ Present' \subseteq Present
  BY <1>2, <1>8, MoveShrinks DEF Expire, ReconcileInDoubt, Recover
<1>9. ASSUME NEW i \in WorkItems, NEW l, NEW sink, NEW form, RecordSinkReceipt(i, l, sink, form)
      PROVE  Running' \subseteq Running /\ Present' \subseteq Present
  BY <1>9 DEF RecordSinkReceipt, Running, Present, InState
<1>10. CASE Tick \/ (\E m \in ControlModes : SetQueueControl(m)) \/ UNCHANGED vars
  BY <1>1, <1>10 DEF Tick, SetQueueControl, vars
<1> QED
  BY <1>4, <1>5, <1>6, <1>7, <1>8, <1>9, <1>10 DEF Next

\* The sweeps of a claim start nothing and create no row.
LEMMA ReadyRuns ==
  ASSUME RowsInv, NEW i \in WorkItems
  PROVE  LET s == Swept(i)  q == Matured(Swept(i)) IN
         /\ s.state = "running" => rows[i].state = "running"
         /\ q.state = "running" => rows[i].state = "running"
         /\ rows[i].state = NoState => s.state = NoState /\ q.state = NoState
<1> DEFINE r == rows[i]  s == Swept(i)  q == Matured(s)
<1>1. r \in Row
  BY DEF RowsInv
<1>2. Lapsed(r) \in Row /\ (Lapsed(r).state = r.state
                           \/ (r.state = "running" /\ Lapsed(r).state = "in_doubt"))
  BY <1>1 DEF Lapsed, Row, States
<1>3. /\ \A to \in {"completed", "failed"} : Released(Lapsed(r), to).state = to
      /\ Released(r, "expired").state = "expired"
  BY <1>1, <1>2, ReleasedFields DEF States
<1>4. \/ s.state = r.state
      \/ r.state # NoState /\ s.state \in {"in_doubt", "completed", "failed", "expired"}
  BY <1>2, <1>3, ReconciledCases DEF Swept, SweptStates, NoState
<1>5. s \in Row
  BY SweptInv DEF RowInv
<1>6. q = s \/ (s.state = "retry_wait" /\ q.state = "queued")
  BY <1>5, ReleasedFields DEF Matured, States
<1> HIDE DEF r, s, q
<1>7. /\ s.state = "running" => r.state = "running"
      /\ q.state = "running" => r.state = "running"
      /\ r.state = NoState => s.state = NoState /\ q.state = NoState
  BY <1>4, <1>6 DEF NoState
<1> QED
  BY <1>7 DEF r, s, q

LEMMA ClaimExclusion ==
  ASSUME IInv, ConcurrencyKeyExclusion, NEW batch \in BatchSizes, Claim(batch)
  PROVE  /\ \A i, j \in Running' : i # j => ~SameKey(i, j)
         /\ Present' \subseteq Present
<1> DEFINE swept == [i \in WorkItems |-> Swept(i)]
           ready == [i \in WorkItems |-> Matured(swept[i])]
<1>1. RowsInv /\ now \in Nat
  BY PolicyTypes DEF IInv, TypeOK
<1>2. \A i \in WorkItems :
        /\ RowInv(swept[i], incarnation[i]) /\ RowInv(ready[i], incarnation[i])
        /\ swept[i].state = "running" => rows[i].state = "running"
        /\ ready[i].state = "running" => rows[i].state = "running"
        /\ rows[i].state = NoState => swept[i].state = NoState /\ ready[i].state = NoState
  BY <1>1, SweptInv, ReadyInv, ReadyRuns
<1>3. CASE Stores(swept)
  <2>1. \A i \in WorkItems : rows'[i] \in {swept[i], NoRow}
    BY <1>3, CommitRows
  <2> HIDE DEF swept
  <2>2. Running' \subseteq Running /\ Present' \subseteq Present
    BY <1>2, <2>1, NoRowAbsent DEF Running, Present, InState
  <2> QED
    BY <2>2 DEF ConcurrencyKeyExclusion, Running
<1>4. ASSUME NEW visited \in Visits(ready, batch),
             Stores([i \in WorkItems |->
                       IF i \in {j \in visited : ready[j].attempt < MaxAttempts}
                       THEN Granted(i, ready[i])
                       ELSE IF i \in visited THEN Released(ready[i], "failed")
                       ELSE ready[i]])
      PROVE  /\ \A i, j \in Running' : i # j => ~SameKey(i, j)
             /\ Present' \subseteq Present
  <2> DEFINE granted == {j \in visited : ready[j].attempt < MaxAttempts}
             next == [i \in WorkItems |->
                        IF i \in granted THEN Granted(i, ready[i])
                        ELSE IF i \in visited THEN Released(ready[i], "failed")
                        ELSE ready[i]]
             before == InState(ready, {"running"})
  <2>1. \A i \in WorkItems : rows'[i] \in {next[i], NoRow}
    BY <1>4, CommitRows
  <2>2. /\ visited \subseteq WorkItems
        /\ \A i \in visited : Claimable(ready[i]) /\ KeyFree(i, before)
        /\ \A i, j \in granted : i # j => ~SameKey(i, j)
    BY DEF Visits
  <2>3. \A i \in visited \ granted : Released(ready[i], "failed").state = "failed"
    BY <1>2, <2>2, ReleasedFields DEF States, RowInv
  <2>4. \A i \in WorkItems :
          /\ next[i].state = "running" => i \in granted \/ i \in before
          /\ rows[i].state = NoState => next[i] = ready[i]
    <3>1. \A i \in visited : ready[i].state \in {"queued", "recovered"}
      BY <2>2 DEF Claimable
    <3>2. \A i \in visited : rows[i].state # NoState
      BY <1>2, <2>2, <3>1 DEF NoState
    <3> HIDE DEF ready
    <3> QED
      BY <2>2, <2>3, <3>2 DEF InState
  <2>5. before \subseteq Running
    BY <1>2 DEF Running, InState
  <2> HIDE DEF next, ready
  <2>6. \A i \in Running' : i \in WorkItems /\ (i \in granted \/ i \in before)
    BY <2>1, <2>4, NoRowAbsent DEF Running, InState
  <2>7. \A i \in granted, j \in before : i # j => ~SameKey(i, j) /\ ~SameKey(j, i)
    BY <2>2 DEF KeyFree, SameKey
  <2>8. \A i, j \in before : i # j => ~SameKey(i, j)
    BY <2>5 DEF ConcurrencyKeyExclusion, Running
  <2>9. \A i, j \in Running' : i # j => ~SameKey(i, j)
    BY <2>2, <2>6, <2>7, <2>8
  <2>10. Present' \subseteq Present
    BY <1>2, <2>1, <2>4, NoRowAbsent DEF Present
  <2> QED
    BY <2>9, <2>10
<1> QED
  BY <1>3, <1>4, ClaimStores

LEMMA EnqueueExclusion ==
  ASSUME IInv, NEW i \in WorkItems, NEW delay \in Delays, NEW lifetime \in Lifetimes,
         Enqueue(i, delay, lifetime)
  PROVE  /\ Running' \subseteq Running
         /\ Present' \subseteq Present \cup {i}
         /\ \A j \in Present : DedupeKey[j] # DedupeKey[i]
<1> DEFINE q == [Delayed(NoRow, delay) EXCEPT !.expires = now + lifetime]
           next == [rows EXCEPT ![i] = q]
<1>1. Stores(next) /\ Legal("enqueue", rows[i].state, q.state)
  BY MoveStores DEF Enqueue
<1>2. \A j \in WorkItems : rows'[j] \in {next[j], NoRow}
  BY <1>1, CommitRows
<1>3. q.state # "running"
  BY <1>1 DEF Legal, Transitions, Arc
<1>4. \A j \in WorkItems : next[j] = IF j = i THEN q ELSE rows[j]
  BY DEF IInv, RowsInv
<1> HIDE DEF next, q
<1>5. Running' \subseteq Running /\ Present' \subseteq Present \cup {i}
  BY <1>2, <1>3, <1>4, NoRowAbsent DEF Running, Present, InState
<1> QED
  BY <1>5 DEF Enqueue, Present

\* No two running items ever share a concurrency key, for every assignment of
\* keys, batch size and capacity (fairRankedCandidate inside claimTx).
THEOREM ConcurrencyKeyExcludes == Spec => []ConcurrencyKeyExclusion
<1>1. Init => ConcurrencyKeyExclusion
  BY NoRowAbsent DEF Init, ConcurrencyKeyExclusion, InState
<1>2. IInv /\ ConcurrencyKeyExclusion /\ [Next]_vars => ConcurrencyKeyExclusion'
  <2> SUFFICES ASSUME IInv, ConcurrencyKeyExclusion, [Next]_vars
               PROVE  \A i, j \in Running' : i # j => ~SameKey(i, j)
    BY DEF ConcurrencyKeyExclusion, Running
  <2>1. CASE Running' \subseteq Running
    BY <2>1 DEF ConcurrencyKeyExclusion, Running
  <2>2. CASE ClaimSome
    BY <2>2, ClaimExclusion DEF ClaimSome
  <2> QED
    BY <2>1, <2>2, OthersShrink, EnqueueExclusion
<1> QED
  BY <1>1, <1>2, Invariance, PTL DEF Spec

\* At most one retained row has a given dedupe key (enqueueTx, retention).
THEOREM DedupeKeysUnique == Spec => []OneItemPerDedupeKey
<1>1. Init => OneItemPerDedupeKey
  BY NoRowAbsent DEF Init, OneItemPerDedupeKey
<1>2. IInv /\ ConcurrencyKeyExclusion /\ OneItemPerDedupeKey /\ [Next]_vars
        => OneItemPerDedupeKey'
  <2> SUFFICES ASSUME IInv, ConcurrencyKeyExclusion, OneItemPerDedupeKey, [Next]_vars
               PROVE  \A i, j \in Present' : DedupeKey[i] = DedupeKey[j] => i = j
    BY DEF OneItemPerDedupeKey, Present
  <2>1. \A i, j \in Present : DedupeKey[i] = DedupeKey[j] => i = j
    BY DEF OneItemPerDedupeKey, Present
  <2>2. CASE Present' \subseteq Present
    BY <2>1, <2>2
  <2>3. CASE ClaimSome
    BY <2>2, <2>3, ClaimExclusion DEF ClaimSome
  <2>4. ASSUME NEW i \in WorkItems, NEW delay \in Delays, NEW lifetime \in Lifetimes,
               Enqueue(i, delay, lifetime)
        PROVE  \A k, j \in Present' : DedupeKey[k] = DedupeKey[j] => k = j
    BY <2>1, <2>4, EnqueueExclusion
  <2> QED
    BY <2>2, <2>3, <2>4, OthersShrink
<1> QED
  BY <1>1, <1>2, Invariance, ConcurrencyKeyExcludes, PTL DEF Spec

-----------------------------------------------------------------------------
(***************************************************************************)
(* The capacities.  Whatever an operation makes of the rows, Commit makes  *)
(* room among the failed ones, and only the visits of a claim add to the   *)
(* running ones.                                                           *)
(***************************************************************************)
LEMMA StoresCapacity ==
  ASSUME NEW next, Stores(next)
  PROVE  Cardinality(InState(rows', {"failed"})) <= MaxFailed
<1> DEFINE held == InState(next, {"failed"})
<1>1. PICK n \in Nat : Commit(next, n)
  BY DEF Stores
<1>2. PICK terminal \in TerminalSweeps(next, n), failed \in FailedRoom(next) :
        rows' = [i \in WorkItems |-> IF i \in terminal \cup failed THEN NoRow ELSE next[i]]
  BY <1>1 DEF Commit
<1>3. Cardinality(held \ failed) = Least(Cardinality(held), MaxFailed)
  BY DEF FailedRoom
<1>4. InState(rows', {"failed"}) \subseteq held \ failed
  BY <1>2, NoRowAbsent DEF InState, NoState
<1>5. IsFiniteSet(held \ failed) /\ Cardinality(held) \in Nat /\ MaxFailed \in Nat
  BY InStateFinite, FS_Difference, PolicyAssumption
<1> HIDE DEF held
<1>6. /\ Cardinality(InState(rows', {"failed"})) <= Cardinality(held \ failed)
      /\ Cardinality(InState(rows', {"failed"})) \in Nat
  BY <1>4, <1>5, FS_Subset, InStateFinite
<1>7. Cardinality(held \ failed) <= MaxFailed /\ Cardinality(held \ failed) \in Nat
  BY <1>3, <1>5 DEF Least
<1> QED
  BY <1>5, <1>6, <1>7

\* A claim stops at the lease capacity.
LEMMA ClaimCapacity ==
  ASSUME IInv, Cardinality(Running) <= MaxLeased, NEW batch \in BatchSizes, Claim(batch)
  PROVE  Cardinality(Running') <= MaxLeased
<1> DEFINE swept == [i \in WorkItems |-> Swept(i)]
           ready == [i \in WorkItems |-> Matured(swept[i])]
           before == InState(ready, {"running"})
<1>1. RowsInv /\ MaxLeased \in Nat
  BY PolicyTypes DEF IInv
<1>2. \A i \in WorkItems : /\ swept[i].state = "running" => rows[i].state = "running"
                           /\ ready[i].state = "running" => rows[i].state = "running"
  BY <1>1, ReadyRuns
<1>3. CASE Stores(swept)
  <2>1. \A i \in WorkItems : rows'[i] \in {swept[i], NoRow}
    BY <1>3, CommitRows
  <2> HIDE DEF swept
  <2>2. Running' \subseteq Running
    BY <1>2, <2>1, NoRowAbsent DEF Running, InState
  <2> QED
    BY <1>1, <2>2, InStateFinite, FS_Subset DEF Running
<1>4. ASSUME NEW visited \in Visits(ready, batch),
             Stores([i \in WorkItems |->
                       IF i \in {j \in visited : ready[j].attempt < MaxAttempts}
                       THEN Granted(i, ready[i])
                       ELSE IF i \in visited THEN Released(ready[i], "failed")
                       ELSE ready[i]])
      PROVE  Cardinality(Running') <= MaxLeased
  <2> DEFINE granted == {j \in visited : ready[j].attempt < MaxAttempts}
             next == [i \in WorkItems |->
                        IF i \in granted THEN Granted(i, ready[i])
                        ELSE IF i \in visited THEN Released(ready[i], "failed")
                        ELSE ready[i]]
  <2>1. \A i \in WorkItems : rows'[i] \in {next[i], NoRow}
    BY <1>4, CommitRows
  <2>2. /\ visited \subseteq WorkItems
        /\ Cardinality(before) + Cardinality(granted) <= MaxLeased
    BY DEF Visits
  <2>3. \A i \in visited \ granted : Released(ready[i], "failed").state = "failed"
    BY <1>1, <2>2, ReadyInv, ReleasedFields DEF States, RowInv, IInv
  <2>4. \A i \in WorkItems : next[i].state = "running" => i \in granted \/ i \in before
    <3> HIDE DEF ready
    <3> QED
      BY <2>3 DEF InState
  <2> HIDE DEF next, ready
  <2>5. Running' \subseteq before \cup granted
    BY <2>1, <2>4, NoRowAbsent DEF Running, InState
  <2>6. IsFiniteSet(before) /\ IsFiniteSet(granted)
    BY <2>2, InStateFinite, ItemsAssumption, FS_Subset
  <2>7. /\ IsFiniteSet(before \cup granted)
        /\ Cardinality(before \cup granted) =
             Cardinality(before) + Cardinality(granted) - Cardinality(before \cap granted)
    BY <2>6, FS_Union
  <2>8. Cardinality(Running') <= Cardinality(before \cup granted)
    BY <2>5, <2>7, FS_Subset
  <2>9. /\ Cardinality(before) \in Nat /\ Cardinality(granted) \in Nat
        /\ Cardinality(before \cap granted) \in Nat /\ Cardinality(before \cup granted) \in Nat
        /\ Cardinality(Running') \in Nat
    BY <2>6, <2>7, FS_Intersection, FS_CardinalityType, InStateFinite DEF Running
  <2> QED
    BY <1>1, <2>2, <2>7, <2>8, <2>9
<1> QED
  BY <1>3, <1>4, ClaimStores

\* No mix of operations, claim batches and recoveries exceeds the leases or the retained
\* failures the policy allows (hasLeaseCapacity, makeFailedCapacityRoom), for any number of
\* items, any caps and however seldom the retention sweeps.
THEOREM CapacitiesAreKept == Spec => []CapacitiesHold
<1>1. Init => CapacitiesHold
  <2> SUFFICES ASSUME Init PROVE CapacitiesHold
    OBVIOUS
  <2>1. /\ InState(rows, {"running"}) = {} /\ InState(rows, {"failed"}) = {}
    BY NoRowAbsent DEF Init, InState, NoState
  <2> QED
    BY <2>1, FS_EmptySet, PolicyAssumption DEF CapacitiesHold
<1>2. IInv /\ CapacitiesHold /\ [Next]_vars => CapacitiesHold'
  <2> SUFFICES ASSUME IInv, CapacitiesHold, [Next]_vars PROVE CapacitiesHold'
    OBVIOUS
  <2>1. CASE UNCHANGED rows
    BY <2>1 DEF CapacitiesHold, InState
  <2>2. ASSUME NEW next, Stores(next) PROVE CapacitiesHold'
    <3>1. Cardinality(InState(rows', {"failed"})) <= MaxFailed
      BY <2>2, StoresCapacity
    <3>2. Cardinality(Running) <= MaxLeased
      BY DEF CapacitiesHold, Running
    <3>3. CASE Running' \subseteq Running
      <4>1. /\ Cardinality(Running') <= Cardinality(Running)
            /\ Cardinality(Running') \in Nat /\ Cardinality(Running) \in Nat
        BY <3>3, InStateFinite, FS_Subset DEF Running
      <4>2. Cardinality(Running') <= MaxLeased
        BY <3>2, <4>1, PolicyTypes
      <4> QED
        BY <3>1, <4>2 DEF CapacitiesHold, Running
    <3>4. CASE ClaimSome
      BY <3>1, <3>2, <3>4, ClaimCapacity DEF ClaimSome, CapacitiesHold, Running
    <3> QED
      BY <3>3, <3>4, OthersShrink, EnqueueExclusion
  <2> QED
    BY <2>1, <2>2, RowsAreCommitted
<1> QED
  BY <1>1, <1>2, Invariance, PTL DEF Spec

-----------------------------------------------------------------------------
(***************************************************************************)
(* The leases as fencing tokens.                                           *)
(***************************************************************************)
\* What a claim makes of an item, and the leases it hands out.
LEMMA ClaimCases ==
  ASSUME NEW batch, Claim(batch), NEW i \in WorkItems
  PROVE  LET q == Matured(Swept(i)) IN
         /\ \/ rows'[i] \in {NoRow, Swept(i), q}
            \/ /\ q.state \in {"queued", "recovered"}
               /\ rows'[i] \in {Granted(i, q), Released(q, "failed")}
         /\ \A l : <<i, l>> \in leases' \ leases =>
              /\ q.state \in {"queued", "recovered"}
              /\ l = Granted(i, q).lease /\ rows'[i] \in {NoRow, Granted(i, q)}
<1> DEFINE swept == [j \in WorkItems |-> Swept(j)]
           ready == [j \in WorkItems |-> Matured(swept[j])]
           q == Matured(Swept(i))
<1>1. CASE Stores(swept) /\ leases' = leases
  <2>1. rows'[i] \in {Swept(i), NoRow}
    BY <1>1, CommitRows
  <2> HIDE DEF q
  <2> QED
    BY <1>1, <2>1 DEF q
<1>2. ASSUME NEW visited \in Visits(ready, batch),
             LET granted == {j \in visited : ready[j].attempt < MaxAttempts}
                 next == [j \in WorkItems |->
                            IF j \in granted THEN Granted(j, ready[j])
                            ELSE IF j \in visited THEN Released(ready[j], "failed")
                            ELSE ready[j]]
             IN /\ Stores(next)
                /\ leases' = leases \cup {<<j, next[j].lease>> : j \in granted}
      PROVE  /\ \/ rows'[i] \in {NoRow, Swept(i), q}
                \/ /\ q.state \in {"queued", "recovered"}
                   /\ rows'[i] \in {Granted(i, q), Released(q, "failed")}
             /\ \A l : <<i, l>> \in leases' \ leases =>
                  /\ q.state \in {"queued", "recovered"}
                  /\ l = Granted(i, q).lease /\ rows'[i] \in {NoRow, Granted(i, q)}
  <2> DEFINE granted == {j \in visited : ready[j].attempt < MaxAttempts}
             next == [j \in WorkItems |->
                        IF j \in granted THEN Granted(j, ready[j])
                        ELSE IF j \in visited THEN Released(ready[j], "failed")
                        ELSE ready[j]]
  <2>1. Stores(next) /\ leases' = leases \cup {<<j, next[j].lease>> : j \in granted}
    BY <1>2
  <2>2. rows'[i] \in {next[i], NoRow}
    BY <2>1, CommitRows
  <2>3. i \in visited => ready[i].state \in {"queued", "recovered"}
    BY DEF Visits, Claimable
  <2>4. /\ next[i] = IF i \in granted THEN Granted(i, ready[i])
                     ELSE IF i \in visited THEN Released(ready[i], "failed") ELSE ready[i]
        /\ ready[i] = q /\ granted \subseteq visited
    OBVIOUS
  <2>5. \A l : <<i, l>> \in leases' \ leases => i \in granted /\ l = next[i].lease
    BY <2>1
  <2> HIDE DEF q, next, granted, ready
  <2> QED
    BY <2>2, <2>3, <2>4, <2>5
<1> QED
  BY <1>1, <1>2, ClaimStores

\* A claim creates no row.
LEMMA ClaimRowless ==
  ASSUME IInv, NEW batch, Claim(batch)
  PROVE  Present' \subseteq Present
<1> SUFFICES ASSUME NEW i \in WorkItems, rows[i].state = NoState
             PROVE  rows'[i].state = NoState
  BY DEF Present
<1>1. Swept(i).state = NoState /\ Matured(Swept(i)).state = NoState
  BY ReadyRuns DEF IInv
<1> QED
  BY <1>1, ClaimCases, NoRowAbsent DEF NoState

\* The leases handed out under an item's id are not ahead of its row.
LeaseInv ==
  \A p \in leases :
    /\ p[2][1] <= incarnation[p[1]]
    /\ p[2][1] = incarnation[p[1]] /\ rows[p[1]].state # NoState =>
         p[2][2] <= rows[p[1]].leaseSeq

TokenInv == IInv /\ LeaseInv

\* The incarnation of an item changes with its enqueue alone, and rows come to be in no
\* other way.
LEMMA IncarnationStep ==
  ASSUME IInv, [Next]_vars, NEW i \in WorkItems
  PROVE  \/ /\ incarnation'[i] = incarnation[i]
            /\ rows[i].state = NoState => rows'[i].state = NoState
         \/ /\ incarnation'[i] = incarnation[i] + 1
            /\ rows[i].state = NoState /\ leases' = leases /\ sinks' = sinks
            /\ rows'[i].state \in {NoState, "queued", "retry_wait"}
<1>1. CASE \E j \in WorkItems, delay \in Delays, lifetime \in Lifetimes :
             Enqueue(j, delay, lifetime)
  <2>1. PICK j \in WorkItems, delay \in Delays, lifetime \in Lifetimes :
               Enqueue(j, delay, lifetime)
    BY <1>1
  <2>2. incarnation' = [incarnation EXCEPT ![j] = @ + 1] /\ leases' = leases /\ sinks' = sinks
    BY <2>1 DEF Enqueue
  <2> DEFINE q == [Delayed(NoRow, delay) EXCEPT !.expires = now + lifetime]
             next == [rows EXCEPT ![j] = q]
  <2>3. Stores(next) /\ Legal("enqueue", rows[j].state, q.state)
    BY <2>1, MoveStores DEF Enqueue
  <2>4. rows[j].state = NoState /\ q.state \in {"queued", "retry_wait"}
    BY <2>3 DEF Legal, Transitions, Arc
  <2>5. rows'[i] \in {next[i], NoRow} /\ next[i] = IF i = j THEN q ELSE rows[i]
    BY <2>3, CommitRows DEF IInv, RowsInv
  <2> HIDE DEF next, q
  <2> QED
    BY <2>2, <2>4, <2>5, NoRowAbsent DEF IInv, RowsInv
<1>2. CASE ~ \E j \in WorkItems, delay \in Delays, lifetime \in Lifetimes :
               Enqueue(j, delay, lifetime)
  <2>1. incarnation' = incarnation
    BY <1>2 DEF Next, ClaimSome, Claim, Complete, Retry, Progress, CancelRunning,
       RecordSinkReceipt, Fail, MarkInDoubt, AcknowledgeTermination, Cancel, Expire,
       ReconcileInDoubt, Recover, SetQueueControl, Tick, vars
  <2>2. Present' \subseteq Present
    <3>1. CASE ClaimSome
      BY <3>1, ClaimRowless DEF ClaimSome
    <3> QED
      BY <1>2, <3>1, OthersShrink
  <2> QED
    BY <2>1, <2>2 DEF Present
<1> QED
  BY <1>1, <1>2

\* An item that takes a lease it did not have takes the next one.
LEMMA NewLease ==
  ASSUME IInv, IInv', [Next]_vars, NEW i \in WorkItems,
         rows'[i].lease \notin {NoLease, rows[i].lease}
  PROVE  /\ rows[i].state # NoState
         /\ rows'[i].lease = <<incarnation[i], rows[i].leaseSeq + 1>>
         /\ rows[i].leaseSeq \in Nat
<1>1. /\ RowInv(rows[i], incarnation[i]) /\ RowInv(rows'[i], incarnation'[i])
      /\ Advances(rows[i], rows'[i])
  BY RowsAdvance DEF IInv, RowsInv
<1>2. rows'[i].state \in {"running", "in_doubt"}
  BY <1>1 DEF RowInv
<1>3. /\ rows'[i].lease = <<incarnation'[i], rows'[i].leaseSeq>>
      /\ rows'[i].leaseSeq = rows'[i].attempt /\ rows[i].leaseSeq = rows[i].attempt
      /\ rows[i].leaseSeq \in Nat
  BY <1>1, <1>2 DEF RowInv, Row
<1>4. incarnation'[i] = incarnation[i] /\ rows[i].state # NoState
  BY <1>2, IncarnationStep DEF NoState
<1>5. \/ Phase(rows'[i]) = Phase(rows[i]) /\ rows'[i].attempt = rows[i].attempt
      \/ rows'[i].attempt = rows[i].attempt + 1
      \/ Phase(rows[i]) = "held" /\ rows'[i].attempt = rows[i].attempt
  BY <1>1, <1>2 DEF Advances, Phase, NoState
<1>6. Phase(rows[i]) \in {"held", "doubt"} => rows[i].lease = <<incarnation[i], rows[i].leaseSeq>>
  BY <1>1 DEF RowInv, Phase, NoState
<1>7. Phase(rows'[i]) \in {"held", "doubt"}
  BY <1>2 DEF Phase, NoState
<1> QED
  BY <1>3, <1>4, <1>5, <1>6, <1>7

LEMMA LeaseStep == TokenInv /\ [Next]_vars => TokenInv'
<1> SUFFICES ASSUME TokenInv, [Next]_vars PROVE TokenInv'
  OBVIOUS
<1>1. IInv /\ IInv' /\ LeaseInv
  BY StepInv DEF TokenInv
<1>2. leases' \subseteq WorkItems \X Leases
  BY <1>1 DEF IInv, TypeOK
<1>3. ASSUME NEW p \in leases'
      PROVE  /\ p[2][1] <= incarnation'[p[1]]
             /\ p[2][1] = incarnation'[p[1]] /\ rows'[p[1]].state # NoState =>
                  p[2][2] <= rows'[p[1]].leaseSeq
  <2> DEFINE i == p[1]  l == p[2]
  <2>1. i \in WorkItems /\ l[1] \in Nat /\ l[2] \in Nat /\ p = <<i, l>>
    BY <1>2 DEF Leases
  <2> HIDE DEF i, l
  <2>2. /\ RowInv(rows[i], incarnation[i]) /\ RowInv(rows'[i], incarnation'[i])
        /\ incarnation[i] \in Nat /\ Advances(rows[i], rows'[i])
    BY <1>1, <2>1, RowsAdvance DEF IInv, RowsInv
  <2>3. /\ rows[i].leaseSeq \in Nat /\ rows[i].attempt = rows[i].leaseSeq
        /\ rows'[i].leaseSeq \in Nat /\ rows'[i].attempt = rows'[i].leaseSeq
    BY <2>2 DEF RowInv, Row
  <2>4. CASE p \in leases
    <3>1. /\ l[1] <= incarnation[i]
          /\ l[1] = incarnation[i] /\ rows[i].state # NoState => l[2] <= rows[i].leaseSeq
      BY <1>1, <2>4 DEF LeaseInv, i, l
    <3>2. CASE incarnation'[i] = incarnation[i] + 1
      BY <2>1, <2>2, <3>1, <3>2 DEF i, l
    <3>3. CASE /\ incarnation'[i] = incarnation[i]
               /\ rows[i].state = NoState => rows'[i].state = NoState
      <4>1. rows'[i].state # NoState => rows'[i].attempt >= rows[i].attempt
        BY <2>2, <2>3, <3>3 DEF Advances, Phase, NoState
      <4> QED
        BY <2>1, <2>2, <2>3, <3>1, <3>3, <4>1 DEF i, l
    <3> QED
      BY <1>1, <2>1, <3>2, <3>3, IncarnationStep
  <2>5. CASE p \notin leases
    <3> DEFINE q == Matured(Swept(i))
    <3>1. PICK batch \in BatchSizes : Claim(batch)
      BY <2>5 DEF Next, ClaimSome, Enqueue, Complete, Retry, Progress, CancelRunning,
         RecordSinkReceipt, Fail, MarkInDoubt, AcknowledgeTermination, Cancel, Expire,
         ReconcileInDoubt, Recover, SetQueueControl, Tick, vars
    <3>2. incarnation' = incarnation /\ now \in Nat
      BY <1>1, <3>1, PolicyTypes DEF Claim, IInv, TypeOK
    <3>3. /\ q.state \in {"queued", "recovered"}
          /\ l = Granted(i, q).lease /\ rows'[i] \in {NoRow, Granted(i, q)}
      BY <2>1, <2>5, <3>1, ClaimCases
    <3>4. RowInv(q, incarnation[i])
      BY <1>1, <2>1, ReadyInv
    <3> HIDE DEF q
    <3>5. q \in Row /\ incarnation[i] \in Nat \ {0}
      BY <3>3, <3>4 DEF RowInv, NoState
    <3>6. /\ l = <<incarnation[i], q.leaseSeq + 1>>
          /\ Granted(i, q).leaseSeq = q.leaseSeq + 1
      BY <2>1, <3>2, <3>3, <3>5, GrantedFields
    <3> QED
      BY <2>1, <2>2, <2>3, <3>2, <3>3, <3>6, NoRowAbsent DEF i, l
  <2> QED
    BY <2>4, <2>5
<1>4. LeaseInv'
  BY <1>3 DEF LeaseInv
<1> QED
  BY <1>1, <1>4 DEF TokenInv

\* The leases that were ever handed out are never ahead of the row they were handed out for.
THEOREM TokenInvariance == Spec => []TokenInv
<1>1. Init => TokenInv
  BY InitInv DEF Init, TokenInv, LeaseInv
<1> QED
  BY <1>1, LeaseStep, PTL DEF Spec

\* The lease of an attempt is later than every lease its item ever had, over retries,
\* recoveries, retention and the reuse of the id (claimTx, enqueueTx): a worker that kept an
\* old one can never find it in force again.
THEOREM LeasesNeverReturn == Spec => LeasesMoveForward
<1> DEFINE Forward ==
      \A i \in WorkItems :
        rows'[i].lease \notin {NoLease, rows[i].lease} =>
          \A p \in leases : p[1] = i =>
            \/ p[2][1] < rows'[i].lease[1]
            \/ p[2][1] = rows'[i].lease[1] /\ p[2][2] < rows'[i].lease[2]
<1>1. TokenInv /\ TokenInv' /\ [Next]_vars => [Forward]_vars
  <2> SUFFICES ASSUME TokenInv, TokenInv', [Next]_vars, NEW i \in WorkItems,
                      rows'[i].lease \notin {NoLease, rows[i].lease},
                      NEW p \in leases, p[1] = i
               PROVE  \/ p[2][1] < rows'[i].lease[1]
                      \/ p[2][1] = rows'[i].lease[1] /\ p[2][2] < rows'[i].lease[2]
    OBVIOUS
  <2>1. /\ rows[i].state # NoState /\ rows[i].leaseSeq \in Nat
        /\ rows'[i].lease = <<incarnation[i], rows[i].leaseSeq + 1>>
    BY NewLease DEF TokenInv
  <2>2. /\ p[2][1] <= incarnation[i]
        /\ p[2][1] = incarnation[i] => p[2][2] <= rows[i].leaseSeq
    BY <2>1 DEF TokenInv, LeaseInv
  <2>3. p[2][1] \in Nat /\ p[2][2] \in Nat /\ incarnation[i] \in Nat
    BY DEF TokenInv, IInv, TypeOK, Leases
  <2> QED
    BY <2>1, <2>2, <2>3
<1> QED
  BY <1>1, TokenInvariance, PTL DEF Spec, LeasesMoveForward

-----------------------------------------------------------------------------
(***************************************************************************)
(* What a claim leaves alone.                                              *)
(***************************************************************************)
\* Neither the sweeps of a claim nor its grants touch a live attempt, and retention never
\* deletes a row that runs (claimTx with everything it calls).
THEOREM LiveLeasesAreLeftAlone == Spec => LiveLeaseUndisturbed
<1> DEFINE Undisturbed ==
      ClaimSome => \A i \in WorkItems :
        rows[i].state = "running" /\ rows[i].leaseExp > now => rows'[i] = rows[i]
<1>1. IInv /\ [Next]_vars => [Undisturbed]_vars
  <2> SUFFICES ASSUME IInv, NEW batch \in BatchSizes, Claim(batch), NEW i \in WorkItems,
                      rows[i].state = "running", rows[i].leaseExp > now
               PROVE  rows'[i] = rows[i]
    BY DEF ClaimSome
  <2> DEFINE swept == [j \in WorkItems |-> Swept(j)]
             ready == [j \in WorkItems |-> Matured(swept[j])]
  <2>1. /\ rows[i].leaseExp <= rows[i].expires
        /\ rows[i].leaseExp \in Nat /\ rows[i].expires \in Nat /\ now \in Nat
    <3>1. RowInv(rows[i], incarnation[i]) /\ now \in Nat
      BY PolicyTypes DEF IInv, TypeOK, RowsInv
    <3> QED
      BY <3>1 DEF RowInv, Row
  <2>2. ~Overdue(rows[i]) /\ ~(rows[i].leaseExp <= now)
    BY <2>1 DEF Overdue
  <2>3. Swept(i) = rows[i] /\ Matured(rows[i]) = rows[i]
    BY <2>2 DEF Swept, Lapsed, Reconciled, Matured
  <2>4. swept[i] = rows[i] /\ ready[i] = rows[i]
    BY <2>3
  <2>5. ASSUME NEW next, Stores(next), next[i] = rows[i] PROVE rows'[i] = rows[i]
    <3>1. PICK n \in Nat : Commit(next, n)
      BY <2>5 DEF Stores
    <3> QED
      BY <2>5, <3>1 DEF Commit, TerminalSweeps, FailedRoom, InState, TerminalStates
  <2>6. CASE Stores(swept)
    BY <2>4, <2>5, <2>6
  <2>7. ASSUME NEW visited \in Visits(ready, batch),
               Stores([j \in WorkItems |->
                         IF j \in {k \in visited : ready[k].attempt < MaxAttempts}
                         THEN Granted(j, ready[j])
                         ELSE IF j \in visited THEN Released(ready[j], "failed")
                         ELSE ready[j]])
        PROVE  rows'[i] = rows[i]
    <3>1. i \notin visited
      <4> HIDE DEF ready
      <4> QED
        BY <2>4 DEF Visits, Claimable
    <3> HIDE DEF ready
    <3> QED
      BY <2>4, <2>5, <2>7, <3>1
  <2> QED
    BY <2>6, <2>7, ClaimStores
<1> QED
  BY <1>1, Invariance, PTL DEF Spec, LiveLeaseUndisturbed

-----------------------------------------------------------------------------
(***************************************************************************)
(* The sink fences.  Where workers name the generation they report about   *)
(* and no id is reused, a receipt that bears the generation of an attempt  *)
(* in progress was written about that attempt.  Without the first a late   *)
(* worker files its receipt under somebody else's attempt, without the     *)
(* second under somebody else's item (StoreReusedId.cfg).                  *)
(***************************************************************************)
WorkersNameTheirAttempt == ReceiptForms \subseteq {"explicit"} /\ MaxIncarnations <= 1

FenceInv ==
  \A s \in sinks :
    /\ incarnation[s.item] >= 1
    /\ rows[s.item].state # NoState => s.gen <= rows[s.item].leaseSeq
    /\ rows[s.item].state \in {"running", "in_doubt"} /\ s.gen = rows[s.item].leaseSeq =>
         s.by = rows[s.item].lease

ReceiptInv ==
  /\ TokenInv
  /\ \A i \in WorkItems : incarnation[i] <= 1
  /\ FenceInv

\* A receipt tells of the attempt it is filed under by an operation that ends that attempt,
\* or comes from the worker of a lease.
LEMMA NewReceipts ==
  ASSUME WorkersNameTheirAttempt, IInv, [Next]_vars, NEW s \in sinks' \ sinks
  PROVE  \/ /\ s.gen = rows[s.item].leaseSeq /\ rows[s.item].state # NoState
            /\ rows'[s.item].state \notin {"running", "in_doubt"}
            /\ UNCHANGED incarnation
         \/ /\ <<s.item, s.by>> \in leases /\ s.gen = s.by[2]
            /\ UNCHANGED <<rows, incarnation>>
<1> DEFINE Ends == /\ s.gen = rows[s.item].leaseSeq /\ rows[s.item].state # NoState
                   /\ rows'[s.item].state \notin {"running", "in_doubt"}
                   /\ UNCHANGED incarnation
           Own == /\ <<s.item, s.by>> \in leases /\ s.gen = s.by[2]
                  /\ UNCHANGED <<rows, incarnation>>
<1>1. ASSUME NEW i \in WorkItems, NEW gen, NEW sink, NEW by, sinks' = WithReceipt(i, gen, sink, by)
      PROVE  s.item = i /\ s.gen = gen /\ s.by = by
  BY <1>1 DEF WithReceipt
<1>2. ASSUME NEW i \in WorkItems, NEW sink, NEW by,
             NEW transition \in {"complete", "fail", "termination_acknowledged"}, NEW q,
             sinks' = WithReceipt(i, rows[i].leaseSeq, sink, by), UNCHANGED incarnation,
             Move(i, transition, q)
      PROVE  Ends
  <2> DEFINE next == [rows EXCEPT ![i] = q]
  <2>1. Stores(next) /\ Legal(transition, rows[i].state, q.state)
    BY <1>2, MoveStores
  <2>2. rows'[i] \in {next[i], NoRow} /\ next[i] = q
    BY <2>1, CommitRows DEF IInv, RowsInv
  <2>3. q.state \notin {"running", "in_doubt"} /\ rows[i].state # NoState
    BY <2>1 DEF Legal, Transitions, Arc, OpenStates, NoState
  <2> HIDE DEF next
  <2> QED
    BY <1>1, <1>2, <2>2, <2>3, NoRowAbsent DEF NoState
<1> HIDE DEF Ends, Own
<1>3. ASSUME NEW i \in WorkItems, NEW l, Complete(i, l) PROVE Ends
  BY <1>2, <1>3 DEF Complete, ExpireInstead
<1>4. ASSUME NEW i \in WorkItems, NEW l, Fail(i, l) PROVE Ends
  BY <1>2, <1>4 DEF Fail, ExpireInstead
<1>5. ASSUME NEW i \in WorkItems, NEW l, NEW to, NEW delay, AcknowledgeTermination(i, l, to, delay)
      PROVE  Ends
  BY <1>2, <1>5 DEF AcknowledgeTermination
<1>6. ASSUME NEW i \in WorkItems, NEW l \in HeldLeases(i), NEW sink, NEW form \in ReceiptForms,
             RecordSinkReceipt(i, l, sink, form)
      PROVE  Own
  <2>1. form = "explicit" /\ <<i, l>> \in leases
    BY DEF WorkersNameTheirAttempt, HeldLeases, IInv, TypeOK
  <2>2. sinks' = WithReceipt(i, l[2], sink, l) /\ UNCHANGED <<rows, incarnation>>
    BY <1>6, <2>1 DEF RecordSinkReceipt
  <2> QED
    BY <1>1, <2>1, <2>2 DEF Own
<1>7. CASE UNCHANGED sinks
  BY <1>7
<1> QED
  BY <1>3, <1>4, <1>5, <1>6, <1>7 DEF Ends, Own, Next, ClaimSome, Enqueue, Claim, Retry, Progress,
     CancelRunning, MarkInDoubt, Cancel, Expire, ReconcileInDoubt, Recover, ExpireInstead,
     SetQueueControl, Tick, vars

LEMMA ReceiptStep ==
  ASSUME WorkersNameTheirAttempt, ReceiptInv, [Next]_vars
  PROVE  ReceiptInv'
<1>1. TokenInv /\ TokenInv' /\ IInv /\ IInv'
  BY LeaseStep DEF ReceiptInv, TokenInv
<1>2. ASSUME NEW i \in WorkItems PROVE incarnation'[i] <= 1
  <2>1. incarnation[i] \in Nat /\ incarnation[i] <= 1
    BY <1>1 DEF ReceiptInv, IInv, TypeOK
  <2>2. CASE \E j \in WorkItems, delay \in Delays, lifetime \in Lifetimes :
               Enqueue(j, delay, lifetime)
    <3>1. PICK j \in WorkItems : /\ incarnation[j] < MaxIncarnations
                                 /\ incarnation' = [incarnation EXCEPT ![j] = @ + 1]
      BY <2>2 DEF Enqueue
    <3>2. incarnation[j] \in Nat /\ MaxIncarnations \in Nat /\ MaxIncarnations <= 1
      BY <1>1, BoundAssumption DEF IInv, TypeOK, WorkersNameTheirAttempt
    <3> QED
      BY <1>1, <2>1, <3>1, <3>2 DEF IInv, TypeOK
  <2>3. CASE ~ \E j \in WorkItems, delay \in Delays, lifetime \in Lifetimes :
                 Enqueue(j, delay, lifetime)
    BY <2>1, <2>3 DEF Next, ClaimSome, Claim, Complete, Retry, Progress, CancelRunning,
       RecordSinkReceipt, Fail, MarkInDoubt, AcknowledgeTermination, Cancel, Expire,
       ReconcileInDoubt, Recover, SetQueueControl, Tick, vars
  <2> QED
    BY <2>2, <2>3
<1>3. ASSUME NEW s \in sinks'
      PROVE  /\ incarnation'[s.item] >= 1
             /\ rows'[s.item].state # NoState => s.gen <= rows'[s.item].leaseSeq
             /\ rows'[s.item].state \in {"running", "in_doubt"}
                  /\ s.gen = rows'[s.item].leaseSeq => s.by = rows'[s.item].lease
  <2> DEFINE i == s.item
  <2>1. i \in WorkItems /\ s.gen \in Nat
    BY <1>1 DEF IInv, TypeOK, Receipt
  <2> HIDE DEF i
  <2>2. /\ RowInv(rows[i], incarnation[i]) /\ RowInv(rows'[i], incarnation'[i])
        /\ incarnation[i] \in Nat /\ Advances(rows[i], rows'[i]) /\ incarnation[i] <= 1
        /\ incarnation'[i] \in Nat
    BY <1>1, <2>1, RowsAdvance DEF IInv, RowsInv, ReceiptInv
  <2>3. /\ rows[i].leaseSeq \in Nat /\ rows[i].attempt = rows[i].leaseSeq
        /\ rows'[i].leaseSeq \in Nat /\ rows'[i].attempt = rows'[i].leaseSeq
    BY <2>2 DEF RowInv, Row
  <2>4. CASE s \in sinks
    <3>1. /\ incarnation[i] >= 1
          /\ rows[i].state # NoState => s.gen <= rows[i].leaseSeq
          /\ rows[i].state \in {"running", "in_doubt"} /\ s.gen = rows[i].leaseSeq =>
               s.by = rows[i].lease
      BY <2>4 DEF ReceiptInv, FenceInv, i
    <3>2. /\ incarnation'[i] = incarnation[i]
          /\ rows[i].state = NoState => rows'[i].state = NoState
      BY <1>1, <1>2, <2>1, <2>2, <3>1, IncarnationStep
    <3>3. rows'[i].state # NoState => rows'[i].attempt >= rows[i].attempt
      BY <2>2, <2>3, <3>2 DEF Advances, Phase, NoState
    <3>4. ASSUME rows'[i].state \in {"running", "in_doubt"}, s.gen = rows'[i].leaseSeq
          PROVE  s.by = rows'[i].lease
      <4>1. rows'[i].leaseSeq = rows[i].leaseSeq /\ rows[i].state # NoState
        BY <2>1, <2>3, <3>1, <3>2, <3>3, <3>4 DEF NoState
      <4>2. rows[i].state \in {"running", "in_doubt"}
        BY <2>2, <2>3, <3>4, <4>1 DEF Advances, Phase, NoState, RowInv, Row, States
      <4> QED
        BY <2>2, <3>1, <3>2, <3>4, <4>1, <4>2 DEF RowInv
    <3> QED
      BY <2>1, <2>3, <3>1, <3>2, <3>3, <3>4 DEF i
  <2>5. CASE /\ s.gen = rows[i].leaseSeq /\ rows[i].state # NoState
             /\ rows'[i].state \notin {"running", "in_doubt"} /\ UNCHANGED incarnation
    <3>1. incarnation'[i] >= 1
      BY <2>2, <2>5 DEF RowInv
    <3>2. rows'[i].state # NoState => rows'[i].attempt >= rows[i].attempt
      BY <2>2, <2>3, <2>5 DEF Advances, Phase, NoState
    <3> QED
      BY <2>3, <2>5, <3>1, <3>2 DEF i
  <2>6. CASE /\ <<i, s.by>> \in leases /\ s.gen = s.by[2]
             /\ UNCHANGED <<rows, incarnation>>
    <3>1. s.by \in Leases
      BY <1>1, <2>6 DEF IInv, TypeOK
    <3>2. /\ s.by[1] \in Nat \ {0} /\ s.by = <<s.by[1], s.by[2]>>
      BY <3>1 DEF Leases
    <3>3. s.by[1] <= incarnation[i]
          /\ (s.by[1] = incarnation[i] /\ rows[i].state # NoState => s.by[2] <= rows[i].leaseSeq)
      <4> DEFINE p == <<i, s.by>>
      <4>1. p \in leases /\ p[1] = i /\ p[2] = s.by
        BY <2>6
      <4> HIDE DEF p
      <4> QED
        BY <1>1, <4>1 DEF TokenInv, LeaseInv
    <3>4. s.by[1] = incarnation[i] /\ incarnation[i] = 1
      BY <2>2, <3>2, <3>3
    <3> QED
      BY <2>2, <2>6, <3>2, <3>3, <3>4 DEF RowInv, i, NoState
  <2> QED
    BY <1>1, <2>4, <2>5, <2>6, NewReceipts DEF i
<1> QED
  BY <1>1, <1>2, <1>3 DEF ReceiptInv, FenceInv

\* An attempt in doubt is only ever settled by a receipt about that very attempt
\* (recordSinkReceiptTx, failTx, completeTx, reconcileInDoubtLocked), however late the workers
\* of earlier attempts report.
THEOREM ReceiptsSettleTheirAttempts ==
  ASSUME WorkersNameTheirAttempt
  PROVE  Spec => []ReceiptSettlesItsOwnAttempt
<1>1. Init => ReceiptInv
  <2>1. Init => TokenInv
    BY InitInv DEF Init, TokenInv, LeaseInv
  <2> QED
    BY <2>1 DEF Init, ReceiptInv, FenceInv
<1>2. ReceiptInv /\ [Next]_vars => ReceiptInv'
  BY ReceiptStep
<1>3. ReceiptInv => ReceiptSettlesItsOwnAttempt
  BY DEF ReceiptInv, FenceInv, ReceiptSettlesItsOwnAttempt, InState
<1> QED
  BY <1>1, <1>2, <1>3, PTL DEF Spec
===============================================================================
