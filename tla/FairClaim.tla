------------------------------- MODULE FairClaim -------------------------------
(***************************************************************************)
(* Which item a claim takes (packages/foundation/src/work-queue: claimTx   *)
(* and selectFairCandidate of sqlite-store.ts, the ranking query of        *)
(* sqlite-statements.ts, scheduling.ts): the cycle of priority classes,    *)
(* ageing, the rotation over tenants, workspaces and projects by the       *)
(* visits each partition has had (virtual_finish), and the lease limits    *)
(* with their reservations.                                                *)
(*                                                                         *)
(* One queue, in one authorization scope.  Of an item's life the model     *)
(* keeps what the selection reads: leases, keys, attempts and deadlines    *)
(* are the matter of module WorkQueueStore.                                *)
(***************************************************************************)
EXTENDS Naturals, FiniteSets, Sequences, FiniteSetsExt, Functions

CONSTANTS
  WorkItems,      \* the work items
  Priority,       \* the priority class each one is enqueued with
  Partition,      \* the names each one is enqueued under, one per level:
                  \*   <<tenant, workspace, project>>, as numbers in name order
  PriorityCycle,  \* the classes in the order of their slots, each a number:
                  \*   1 is the lowest, TopClass the one that ages no further
  LeaseLimits,    \* maxLeased, and ..PerTenant, ..PerWorkspace, ..PerProject
  Reservation,    \* minReservedLeasesPerPartition
  Expiring,       \* the items that have a work deadline
  Retried,        \* the items whose attempts may end in a retry
  AgingInterval,  \* agingIntervalMs, in steps of the clock
  AgingBatch,     \* agingBatchSize
  BatchSizes,     \* the batch sizes claims ask for
  MaxVisits,      \* bound on the visits counted at any time
  MaxTime         \* bound on the clock

Classes == {PriorityCycle[k] : k \in DOMAIN PriorityCycle}
TopClass == Max(Classes)
Partitions == {Partition[i] : i \in WorkItems}
Levels == 1..(Len(LeaseLimits) - 1)

ASSUME FairClaimAssumption ==
  /\ IsFiniteSet(WorkItems) /\ {Reservation, AgingBatch, MaxVisits, MaxTime} \subseteq Nat
  /\ AgingInterval \in Nat \ {0} /\ BatchSizes \subseteq Nat \ {0}
  /\ PriorityCycle \in Seq(Nat) /\ TopClass \in Nat \ {0} /\ Classes = 1..TopClass
  /\ Expiring \subseteq WorkItems /\ Retried \subseteq WorkItems
  /\ Priority \in [WorkItems -> 1..TopClass]
  /\ LeaseLimits \in Seq(Nat) /\ LeaseLimits # <<>>
  /\ \A p \in Partitions : p \in Seq(Nat) /\ Len(p) + 1 = Len(LeaseLimits)

VARIABLES
  now,    \* the clock
  rows,   \* [WorkItems -> Row]
  visits, \* virtual_finish: the visits of each class and partition that has a row
  served  \* for the properties: the last visits since the scope last was idle, each with the
          \* class and slot it served, the classes then ready, and whether it was the
          \* first of its claim

vars == <<now, rows, visits, served>>

\* As many of the last visits as the cycle has slots.
LastOf(s) == IF Len(s) <= Len(PriorityCycle) THEN s
             ELSE SubSeq(s, Len(s) - Len(PriorityCycle) + 1, Len(s))

Row == [state : {"absent", "queued", "running", "done"}, class : 1..TopClass, since : 0..MaxTime]

Open == {i \in WorkItems : rows[i].state \in {"queued", "running"}}

-----------------------------------------------------------------------------
(***************************************************************************)
(* The selection, as a function of rows r and visits v.                    *)
(***************************************************************************)
Prefix(p, k) == SubSeq(p, 1, k)

Below(i, p, k) == Prefix(Partition[i], k) = Prefix(p, k)

\* countLeased
Leased(r, p, k) == Cardinality({i \in WorkItems : r[i].state = "running" /\ Below(i, p, k)})

\* countUnderReserved...: the siblings of p at level k with claimable work whose
\* reserved leases are not all taken.
UnderReserved(r, p, k) ==
  {x \in {Partition[i][k] : i \in {j \in WorkItems : r[j].state = "queued"
                                                     /\ Below(j, p, k - 1)}} \ {p[k]} :
     Leased(r, [p EXCEPT ![k] = x], k) < Reservation}

\* MUTANT of HasLeaseCapacity: the siblings' reservations are forgotten.
MutHasLeaseCapacity(r, p) ==
  \A k \in 0..Len(p) : Leased(r, p, k) < LeaseLimits[k + 1]

HasLeaseCapacity(r, p) ==
  /\ \A k \in 0..Len(p) : Leased(r, p, k) < LeaseLimits[k + 1]
  /\ \A k \in Levels :
       Leased(r, p, k) >= Reservation =>
         Leased(r, p, k - 1) + Cardinality(UnderReserved(r, p, k)) < LeaseLimits[k]

\* Where the ranking query puts partition p among those of rows with a count (A)
\* and with claimable work (E): at each level the visits of the whole subtree,
\* times the number of siblings, plus p's place among the claimable siblings.
Ranking(v, c, A, E, p) ==
  [k \in 1..Len(p) |->
     LET Names(S) == {q[k] : q \in {s \in S : Prefix(s, k - 1) = Prefix(p, k - 1)}}
         claims == SumFunctionOnSet([q \in A |-> v[<<c, q>>]],
                                    {q \in A : Prefix(q, k) = Prefix(p, k)})
     IN claims * Cardinality(Names(A)) + Cardinality({x \in Names(E) : x < p[k]})]

Precedes(s, t) ==
  \E k \in DOMAIN s : s[k] < t[k] /\ \A j \in 1..(k - 1) : s[j] = t[j]

\* The partitions of class c that have a row and claimable work.
Eligible(r, v, c) ==
  {p \in Partitions : /\ <<c, p>> \in DOMAIN v
                      /\ \E i \in WorkItems : /\ r[i].state = "queued"
                                              /\ r[i].class = c /\ Partition[i] = p}

\* fairRankedCandidate, until one has lease capacity; {} when none has.  A rejected
\* partition is out of the ranking altogether.
PickPartition(r, v, c) ==
  LET pick[rejected \in SUBSET Partitions] ==
        LET A == {p \in Partitions \ rejected : <<c, p>> \in DOMAIN v}
            E == Eligible(r, v, c) \ rejected
            best == CHOOSE p \in E : \A q \in E \ {p} :
                      Precedes(Ranking(v, c, A, E, p), Ranking(v, c, A, E, q))
        IN IF E = {} THEN {}
           ELSE IF HasLeaseCapacity(r, best) THEN {best}
           ELSE pick[rejected \cup {best}]
  IN pick[{}]

\* The items claimable in class c, of the chosen partition, longest first.
Candidates(r, v, c) ==
  LET picked == PickPartition(r, v, c)
      I == {i \in WorkItems : r[i].state = "queued" /\ r[i].class = c /\ Partition[i] \in picked}
  IN {i \in I : \A j \in I : r[i].since <= r[j].since}

ClassAt(cursor) == PriorityCycle[(cursor % Len(PriorityCycle)) + 1]

\* MUTANT of SlotsAhead: a slot without work is not passed over.
MutSlotsAhead(r, v, cursor) ==
  IF Candidates(r, v, ClassAt(cursor)) = {} THEN {} ELSE {0}

\* How many slots selectFairCandidate passes over, as a set of at most one.
SlotsAhead(r, v, cursor) ==
  LET S == {k \in 0..(Len(PriorityCycle) - 1) : Candidates(r, v, ClassAt(cursor + k)) # {}}
  IN {k \in S : \A j \in S : k <= j}

\* MUTANT of Total: the cursor follows the busiest partition.
MutTotal(v) == Max({0} \cup {v[key] : key \in DOMAIN v})

\* The sum virtualFinishCursor reads.
Total(v) == SumFunction(v)

\* One visit of claimTx's loop, from state s: the states it may end in.
Visit(s) ==
  LET ready == {c \in Classes : Candidates(s.rows, s.visits, c) # {}}
      Take(k, i) ==
        [rows |-> [s.rows EXCEPT ![i].state = "running"],
         visits |-> [s.visits EXCEPT ![<<s.rows[i].class, Partition[i]>>] = @ + 1],
         cursor |-> s.cursor + k + 1,
         served |-> Append(s.served, [class |-> s.rows[i].class, ready |-> ready,
                                      slot |-> s.cursor + k, first |-> s.first]),
         first |-> FALSE]
  IN UNION {{Take(k, i) : i \in Candidates(s.rows, s.visits, ClassAt(s.cursor + k))} :
              k \in SlotsAhead(s.rows, s.visits, s.cursor)}

\* The states the loop may end in when it visits up to n items.
Visits(start, n) ==
  LET after[k \in 0..n] ==
        IF k = 0 THEN {start}
        ELSE UNION {IF Visit(s) = {} THEN {s} ELSE Visit(s) : s \in after[k - 1]}
  IN after[n]

-----------------------------------------------------------------------------
(***************************************************************************)
(* The operations.                                                         *)
(***************************************************************************)
\* agedWorkQueuePriorityClass
AgedClass(i) == Min({TopClass, Priority[i] + (now - rows[i].since) \div AgingInterval})

\* The rows, with the classes of the items in I brought up to their age.
Aged(I) ==
  [i \in WorkItems |-> IF i \in I THEN [rows[i] EXCEPT !.class = AgedClass(i)] ELSE rows[i]]

\* promoteAgedCandidates takes the longest waiting of these.
AgedCandidates ==
  {i \in WorkItems : /\ rows[i].state = "queued" /\ rows[i].class # TopClass
                     /\ rows[i].since + AgingInterval <= now}

OldestAged(I) ==
  {S \in SUBSET I : /\ Cardinality(S) = Min({AgingBatch, Cardinality(I)})
                    /\ \A i \in S, j \in I \ S : rows[i].since <= rows[j].since}

Init ==
  /\ now = 0
  /\ rows = [i \in WorkItems |-> [state |-> "absent", class |-> Priority[i], since |-> 0]]
  /\ visits = <<>>
  /\ served = <<>>

\* enqueueTx: the row of the item's partition in its class is made if need be.
Enqueue(i) ==
  LET key == <<Priority[i], Partition[i]>>
  IN /\ rows[i].state = "absent"
     /\ rows' = [rows EXCEPT ![i] = [@ EXCEPT !.state = "queued", !.since = now]]
     /\ visits' = [k \in DOMAIN visits \cup {key} |->
                     IF k \in DOMAIN visits THEN visits[k] ELSE 0]
     /\ UNCHANGED <<now, served>>

\* claimTx for up to n items.  The deadlines of the items in X have passed: its
\* sweep expires them, through the store's runtime, which drops no rows.
Claim(n, X) ==
  /\ Total(visits) + n <= MaxVisits
  /\ \E S \in OldestAged(AgedCandidates \ X) :
       LET swept == [i \in WorkItems |->
                       IF i \in X THEN [rows[i] EXCEPT !.state = "done"] ELSE Aged(S)[i]]
           start == [rows |-> swept, visits |-> visits, cursor |-> Total(visits),
                     served |-> served, first |-> TRUE]
       IN \E s \in Visits(start, n) :
            /\ rows' = s.rows /\ visits' = s.visits
            /\ served' = LastOf(s.served)
  /\ UNCHANGED now

Claims == \E n \in BatchSizes : \E X \in SUBSET (Open \cap Expiring) : Claim(n, X)

\* retryTx: the item is claimable again, in the class it had reached.
Retry(i) ==
  /\ i \in Retried /\ rows[i].state = "running"
  /\ rows' = [rows EXCEPT ![i] = [@ EXCEPT !.state = "queued", !.since = now]]
  /\ UNCHANGED <<now, visits, served>>

\* cleanupVirtualFinishIfIdle
Dropped(r) ==
  IF \E i \in WorkItems : r[i].state \in {"queued", "running"} THEN visits ELSE <<>>

\* completeTx and cancelTx, and every other operation that ends an item.
Finish(i) ==
  /\ i \in Open
  /\ rows' = [rows EXCEPT ![i].state = "done"]
  /\ visits' = Dropped(rows')
  /\ served' = IF Open = {i} THEN <<>> ELSE served
  /\ UNCHANGED now

Tick == now < MaxTime /\ now' = now + 1 /\ UNCHANGED <<rows, visits, served>>

Next ==
  \/ \E i \in WorkItems : Enqueue(i) \/ Retry(i) \/ Finish(i)
  \/ Claims
  \/ Tick

Spec == Init /\ [][Next]_vars

-----------------------------------------------------------------------------
(***************************************************************************)
(* Properties.                                                             *)
(***************************************************************************)
TypeOK ==
  /\ now \in 0..MaxTime
  /\ rows \in [WorkItems -> Row]
  /\ DOMAIN visits \subseteq Classes \X Partitions
  /\ \A key \in DOMAIN visits : visits[key] \in 0..MaxVisits
  /\ Len(served) <= Len(PriorityCycle)

\* While a class has work that could be leased, it gets as many of a cycle's worth of
\* visits as it has slots, counted from the beginning of any claim: others cannot crowd
\* it out, whatever batches claims ask for and whatever comes and goes in between
\* (virtualFinishCursor, selectFairCandidate).  Within a claim the cursor runs ahead of
\* the count of visits, past slots without work, and the next claim falls back behind
\* it: counted from the middle of a batch, a class may be short of its share.
ClassesGetTheirShare ==
  Len(served) = Len(PriorityCycle) /\ served[1].first =>
    \A c \in Classes :
      (\A k \in DOMAIN served : c \in served[k].ready) =>
        Cardinality({k \in DOMAIN served : served[k].class = c})
          >= Cardinality({k \in DOMAIN PriorityCycle : PriorityCycle[k] = c})

\* The item's partition has a row in its class: work that was promoted may be without.
HasRow(i, r, v) == <<r[i].class, Partition[i]>> \in DOMAIN v

\* A claim that comes back with less than it asked for leaves no work behind that
\* the lease limits allow, in whatever class it is, if its partition has a row there.
ClaimsLeaveOnlyRowless ==
  [][LET taken == {i \in WorkItems : rows[i].state = "queued" /\ rows'[i].state = "running"}
         left == {i \in WorkItems : /\ rows'[i].state = "queued" /\ HasRow(i, rows', visits')
                                    /\ HasLeaseCapacity(rows', Partition[i])}
     IN left # {} => \A n \in BatchSizes : \A X \in SUBSET (Open \cap Expiring) :
                       Claim(n, X) => Cardinality(taken) = n]_vars

\* A claim that leases more to a tenant, workspace or project than is reserved for
\* it leaves every sibling with claimable work a lease of their parent's.
SiblingsKeepTheirReservation ==
  [][\A i \in WorkItems : rows[i].state = "queued" /\ rows'[i].state = "running" =>
       \A k \in Levels :
         LET p == Partition[i]
         IN Leased(rows', p, k) > Reservation =>
              Leased(rows', p, k - 1) + Cardinality(UnderReserved(rows', p, k))
                <= LeaseLimits[k]]_vars

\* What FairAgedWork refutes: the same without the exception of rows.
ClaimsLeaveNothingBehind ==
  [][\A n \in BatchSizes : \A X \in SUBSET (Open \cap Expiring) :
       LET taken == {i \in WorkItems : rows[i].state = "queued" /\ rows'[i].state = "running"}
       IN Claim(n, X) /\ Cardinality(taken) < n =>
            \A i \in WorkItems :
              rows'[i].state = "queued" => ~HasLeaseCapacity(rows', Partition[i])]_vars

\* Ageing promotes: no item is ever moved to a lower class.
AgeingOnlyPromotes ==
  [][\A i \in WorkItems : rows'[i].class >= rows[i].class]_vars

\* When all the work of a scope has ended, none of its counts of visits is left.
CountsAreDropped == Open = {} => visits = <<>>
===============================================================================
