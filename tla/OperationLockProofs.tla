------------------------- MODULE OperationLockProofs -------------------------
(***************************************************************************)
(* Theorems about SqliteLocks and OperationLock for every set of processes *)
(* and calls, every lease and every bound.                                 *)
(*                                                                         *)
(* The argument rests on the fencing tokens: no two handles share one, the *)
(* row has the last one or none, so that whoever deletes or extends the    *)
(* row by its token touches no lease but its own.                          *)
(***************************************************************************)
EXTENDS OperationLock, TLAPS

LockTypes ==
  /\ now \in Nat /\ sequence \in Nat
  /\ row \in [token : Nat, expires : Nat]
  /\ handle \in [Calls -> [token : Nat, expires : Nat, released : BOOLEAN]]
  /\ entry \in [Procs -> Calls \cup {NoCall}]
  /\ acquire \in [Calls -> {"idle", "waiting", "granted", "rejected", "lost"}]

\* The row has the last token given out, or there is none.
RowIsLast ==
  /\ row.token \in {0, sequence}
  /\ row.token = 0 => row.expires = 0

\* A handle that is not given up has a token, and shares it with no other.
TokensDiffer ==
  /\ \A c \in Calls : handle[c].token <= sequence
  /\ \A c \in Calls : ~handle[c].released => handle[c].token # 0
  /\ \A c, d \in Calls : handle[c].token = handle[d].token => c = d \/ handle[c].token = 0

FenceInv == LockTypes /\ RowIsLast /\ TokensDiffer /\ LiveHandleHoldsTheRow

LEMMA Constants ==
  /\ ProcOf \in [Calls -> Procs] /\ NoCall \notin Calls /\ Ttl \in Nat \ {0}
BY SqliteLocksAssumption

LEMMA FenceInit == Init => FenceInv
BY Constants DEF Init, FenceInv, LockTypes, RowIsLast, TokensDiffer, LiveHandleHoldsTheRow,
   Live, NoRow

-----------------------------------------------------------------------------
(***************************************************************************)
(* What the operations share.                                              *)
(***************************************************************************)
\* A lease is granted only when nobody's lasts.
LEMMA GrantKeeps ==
  ASSUME FenceInv, NEW c \in Calls, ~Held, Grant(c), now' = now
  PROVE  FenceInv'
<1> USE Constants DEF FenceInv
<1>1. LockTypes'
  <2>1. sequence + 1 \in Nat /\ now + Ttl \in Nat /\ ProcOf[c] \in Procs
    BY DEF LockTypes
  <2>2. [token |-> sequence + 1, expires |-> now + Ttl, released |-> FALSE]
          \in [token : Nat, expires : Nat, released : BOOLEAN]
    BY <2>1
  <2>3. handle' \in [Calls -> [token : Nat, expires : Nat, released : BOOLEAN]]
    BY <2>2 DEF LockTypes, Grant
  <2>4. row' \in [token : Nat, expires : Nat] /\ sequence' \in Nat /\ now' \in Nat
    BY <2>1 DEF LockTypes, Grant
  <2>5. entry' \in [Procs -> Calls \cup {NoCall}]
    BY <2>1 DEF LockTypes, Grant
  <2>6. acquire' \in [Calls -> {"idle", "waiting", "granted", "rejected", "lost"}]
    BY DEF LockTypes, Grant
  <2> QED
    BY <2>3, <2>4, <2>5, <2>6 DEF LockTypes
<1>2. RowIsLast' /\ TokensDiffer'
  BY DEF LockTypes, Grant, RowIsLast, TokensDiffer
<1>3. \A d \in Calls : ~Live(d)
  BY DEF LiveHandleHoldsTheRow, Live, Held
<1>4. LiveHandleHoldsTheRow'
  BY <1>3 DEF LiveHandleHoldsTheRow, Live, Grant, LockTypes
<1> QED
  BY <1>1, <1>2, <1>4

\* The end of one handle, whether or not its row goes, leaves the others alone.
LEMMA EndKeeps ==
  ASSUME FenceInv, NEW c \in Calls, Deletes(c) \/ row' = row, MarkExpired(c),
         UNCHANGED <<now, sequence, acquire>>
  PROVE  FenceInv'
<1> USE Constants DEF FenceInv
<1>1. LockTypes'
  <2>1. row' \in [token : Nat, expires : Nat]
    BY DEF LockTypes, Deletes, NoRow
  <2>2. handle' \in [Calls -> [token : Nat, expires : Nat, released : BOOLEAN]]
    BY DEF LockTypes, MarkExpired
  <2>3. entry' \in [Procs -> Calls \cup {NoCall}]
    BY DEF LockTypes, MarkExpired
  <2> QED
    BY <2>1, <2>2, <2>3 DEF LockTypes
<1>2. RowIsLast'
  BY DEF RowIsLast, LockTypes, Deletes, NoRow
<1>3. /\ handle'[c].released
      /\ \A d \in Calls : d # c => handle'[d] = handle[d]
      /\ \A d \in Calls : handle'[d].token = handle[d].token
  BY DEF MarkExpired, LockTypes
<1>4. TokensDiffer'
  BY <1>3 DEF TokensDiffer
<1>5. LiveHandleHoldsTheRow'
  BY <1>3 DEF LiveHandleHoldsTheRow, Live, TokensDiffer, Deletes
<1> QED
  BY <1>1, <1>2, <1>4, <1>5

\* Steps that touch neither the row nor a handle.
LEMMA IdleKeeps ==
  ASSUME FenceInv, LockTypes', now' >= now, UNCHANGED <<row, sequence, handle>>
  PROVE  FenceInv'
BY DEF FenceInv, LockTypes, RowIsLast, TokensDiffer, LiveHandleHoldsTheRow, Live

-----------------------------------------------------------------------------
(***************************************************************************)
(* The waiting calls of a process.                                         *)
(***************************************************************************)
\* q is a line of calls of p, none twice, that wait according to a.
Line(p, q, a) ==
  /\ q \in Seq(Calls)
  /\ \A k \in 1..Len(q) : ProcOf[q[k]] = p /\ a[q[k]] = "waiting"
  /\ \A j, k \in 1..Len(q) : q[j] = q[k] => j = k

\* Whoever waits is polled, a process that is up is the only one with waiters.
Attended(p) ==
  /\ poll[p] => queue[p] # <<>>
  /\ entry[p] # NoCall => ProcOf[entry[p]] = p
  /\ life[p] # "up" => queue[p] = <<>>
  /\ queue[p] # <<>> => poll[p] \/ entry[p] # NoCall

QueueTypes ==
  /\ queue \in [Procs -> Seq(Calls)]
  /\ poll \in [Procs -> BOOLEAN]
  /\ life \in [Procs -> {"up", "closing", "closed"}]

QueueInv ==
  /\ QueueTypes
  /\ \A p \in Procs : Line(p, queue[p], acquire) /\ Attended(p)

LockInv == FenceInv /\ QueueInv

LEMMA QueueInit == Init => QueueInv
BY Constants DEF Init, QueueInv, QueueTypes, Line, Attended

LEMMA WithoutIs ==
  ASSUME NEW q \in Seq(Calls), NEW k \in 1..Len(q)
  PROVE  /\ Without(q, k) \in Seq(Calls)
         /\ Len(Without(q, k)) = Len(q) - 1
         /\ \A j \in 1..(Len(q) - 1) : Without(q, k)[j] = IF j < k THEN q[j] ELSE q[j + 1]
<1> DEFINE a == SubSeq(q, 1, k - 1)
           b == SubSeq(q, k + 1, Len(q))
<1>1. a \in Seq(Calls) /\ Len(a) = k - 1 /\ \A j \in 1..(k - 1) : a[j] = q[j]
  OBVIOUS
<1>2. b \in Seq(Calls) /\ Len(b) = Len(q) - k /\ \A j \in 1..(Len(q) - k) : b[j] = q[k + j]
  OBVIOUS
<1> HIDE DEF a, b
<1>3. a \o b \in Seq(Calls) /\ Len(a \o b) = Len(q) - 1
  <2>1. a \in Seq(Calls) /\ b \in Seq(Calls)
    BY <1>1, <1>2
  <2>2. Len(a \o b) = Len(a) + Len(b) /\ a \o b \in Seq(Calls)
    BY <2>1
  <2>3. Len(a) + Len(b) = Len(q) - 1 
    BY <1>1, <1>2
  <2> QED
    BY <2>2, <2>3
<1>4. ASSUME NEW j \in 1..(Len(q) - 1)
      PROVE  (a \o b)[j] = IF j < k THEN q[j] ELSE q[j + 1]
  <2>1. CASE j < k
    BY <2>1, <1>1, <1>2
  <2>2. CASE ~(j < k)
    <3>1. j - Len(a) \in 1..(Len(q) - k) /\ k + (j - Len(a)) = j + 1
      BY <2>2, <1>1
    <3>2. (a \o b)[j] = b[j - Len(a)]
      BY <2>2, <1>1, <1>2
    <3> QED
      BY <3>1, <3>2, <2>2, <1>2
  <2> QED
    BY <2>1, <2>2
<1>5. Without(q, k) = a \o b
  BY DEF Without, a, b
<1> QED
  BY <1>3, <1>4, <1>5

\* Taking one call out of a line leaves a line, and the call is not in it.
LEMMA LineWithout ==
  ASSUME NEW p \in Procs, NEW q, NEW a, NEW b, Line(p, q, a), NEW k \in 1..Len(q),
         \A c \in Calls : c # q[k] /\ a[c] = "waiting" => b[c] = "waiting"
  PROVE  Line(p, Without(q, k), b)
<1> DEFINE r == Without(q, k)
           At(j) == IF j < k THEN j ELSE j + 1
<1>1. q \in Seq(Calls) /\ Len(q) \in Nat
  BY DEF Line
<1>2. /\ r \in Seq(Calls) /\ Len(r) = Len(q) - 1
      /\ \A j \in 1..(Len(q) - 1) : r[j] = IF j < k THEN q[j] ELSE q[j + 1]
  BY <1>1, WithoutIs
<1> HIDE DEF r
<1>3. ASSUME NEW j \in 1..Len(r)
      PROVE  /\ r[j] = q[At(j)] /\ At(j) \in 1..Len(q) /\ At(j) # k
             /\ r[j] \in Calls /\ r[j] # q[k] /\ ProcOf[r[j]] = p /\ b[r[j]] = "waiting"
  <2>1. r[j] = q[At(j)] /\ At(j) \in 1..Len(q) /\ At(j) # k
    BY <1>1, <1>2
  <2> HIDE DEF At
  <2>2. r[j] \in Calls /\ r[j] # q[k] /\ ProcOf[r[j]] = p /\ a[r[j]] = "waiting"
    BY <1>1, <2>1 DEF Line
  <2> QED
    BY <2>1, <2>2
<1>4. ASSUME NEW i \in 1..Len(r), NEW j \in 1..Len(r), r[i] = r[j]
      PROVE  i = j
  <2>1. At(i) = At(j)
    <3> HIDE DEF At
    <3> QED
      BY <1>3, <1>4 DEF Line
  <2> QED
    BY <2>1, <1>1, <1>2
<1>5. r \in Seq(Calls) /\ \A j \in 1..Len(r) : ProcOf[r[j]] = p /\ b[r[j]] = "waiting"
  BY <1>2, <1>3
<1> QED
  BY <1>4, <1>5 DEF Line, r

LEMMA LineTail ==
  ASSUME NEW p \in Procs, NEW q, NEW a, NEW b, Line(p, q, a), q # <<>>,
         \A c \in Calls : c # Head(q) /\ a[c] = "waiting" => b[c] = "waiting"
  PROVE  Line(p, Tail(q), b)
<1>1. q \in Seq(Calls) /\ Len(q) \in Nat \ {0}
  BY DEF Line
<1>2. /\ Tail(q) \in Seq(Calls) /\ Len(Tail(q)) = Len(q) - 1
      /\ \A j \in 1..(Len(q) - 1) : Tail(q)[j] = q[j + 1]
  BY <1>1
<1>3. \A j \in 1..Len(Tail(q)) : Tail(q)[j] # q[1]
  BY <1>1, <1>2 DEF Line
<1>4. Head(q) = q[1]
  BY <1>1
<1> QED
  BY <1>1, <1>2, <1>3, <1>4 DEF Line

LEMMA LineAppend ==
  ASSUME NEW p \in Procs, NEW q, NEW a, NEW b, Line(p, q, a), NEW c \in Calls,
         ProcOf[c] = p, a[c] # "waiting", b[c] = "waiting",
         \A d \in Calls : a[d] = "waiting" => b[d] = "waiting"
  PROVE  Line(p, Append(q, c), b)
BY DEF Line

\* Elsewhere a line stays one as long as nobody in it stops waiting.
LEMMA LineStays ==
  ASSUME NEW p \in Procs, NEW q, NEW a, NEW b, Line(p, q, a),
         \A c \in Calls : ProcOf[c] = p /\ a[c] = "waiting" => b[c] = "waiting"
  PROVE  Line(p, q, b)
BY DEF Line

LEMMA LineEmpty == ASSUME NEW p \in Procs, NEW a PROVE Line(p, <<>>, a)
BY DEF Line

-----------------------------------------------------------------------------
(***************************************************************************)
(* Every step keeps the invariant.                                         *)
(***************************************************************************)
\* A handle that ends lets the waiting calls of its process try.
LEMMA EndAttends ==
  ASSUME LockInv, NEW c \in Calls, MarkExpired(c), UNCHANGED <<queue, acquire>>,
         life' \in [Procs -> {"up", "closing", "closed"}],
         \A p \in Procs : life'[p] = "up" \/ queue[p] = <<>>
  PROVE  QueueInv'
<1> USE DEF LockInv, QueueInv
<1>1. QueueTypes'
  BY DEF QueueTypes, MarkExpired, Polls
<1>2. ASSUME NEW p \in Procs PROVE Line(p, queue[p], acquire)' /\ Attended(p)'
  <2>1. Line(p, queue[p], acquire)'
    BY DEF Line
  <2>2. ProcOf[c] \in Procs /\ (entry[p] = c => ProcOf[c] = p)
    BY Constants DEF Attended
  <2>3. Attended(p)'
    BY <2>2, Constants DEF Attended, MarkExpired, Polls, FenceInv, LockTypes, QueueTypes
  <2> QED
    BY <2>1, <2>3
<1> QED
  BY <1>1, <1>2

\* Steps that leave the waiting calls alone.
LEMMA QueuesStay ==
  ASSUME LockInv, UNCHANGED <<queue, poll, entry, life>>,
         \A c \in Calls : acquire[c] = "waiting" => acquire'[c] = "waiting"
  PROVE  QueueInv'
<1>1. \A p \in Procs : Line(p, queue[p], acquire)'
  BY LineStays DEF LockInv, QueueInv
<1> QED
  BY <1>1 DEF LockInv, QueueInv, QueueTypes, Attended

LEMMA AcquireNowKeeps ==
  ASSUME LockInv, NEW c \in Calls, AcquireNow(c) PROVE LockInv'
<1>1. FenceInv'
  BY GrantKeeps DEF LockInv, AcquireNow
<1>2. ProcOf[c] \in Procs /\ QueueTypes'
  BY Constants DEF LockInv, QueueInv, QueueTypes, AcquireNow
<1>3. ASSUME NEW p \in Procs PROVE Line(p, queue[p], acquire)' /\ Attended(p)'
  <2>1. \A d \in Calls : acquire[d] = "waiting" => acquire'[d] = "waiting"
    BY DEF AcquireNow, Grant, LockInv, FenceInv, LockTypes
  <2>2. Line(p, queue[p], acquire)'
    BY <2>1, LineStays DEF LockInv, QueueInv, AcquireNow
  <2>3. Attended(p)'
    BY <1>2, Constants DEF Attended, LockInv, QueueInv, AcquireNow, Grant, FenceInv, LockTypes
  <2> QED
    BY <2>2, <2>3
<1> QED
  BY <1>1, <1>2, <1>3 DEF LockInv, QueueInv

LEMMA RejectTypes ==
  ASSUME LockInv, NEW C, Reject(C)
  PROVE  acquire' \in [Calls -> {"idle", "waiting", "granted", "rejected", "lost"}]
BY DEF Reject, LockInv, FenceInv, LockTypes

LEMMA WaitKeeps ==
  ASSUME LockInv, NEW c \in Calls, Wait(c) PROVE LockInv'
<1>1. LockTypes'
  BY DEF Wait, LockInv, FenceInv, LockTypes
<1>2. FenceInv'
  BY <1>1, IdleKeeps DEF Wait, LockInv, FenceInv, LockTypes
<1>3. ProcOf[c] \in Procs /\ QueueTypes'
  BY Constants DEF LockInv, QueueInv, QueueTypes, Wait
<1>4. ASSUME NEW p \in Procs PROVE Line(p, queue[p], acquire)' /\ Attended(p)'
  <2>1. /\ acquire[c] # "waiting" /\ acquire'[c] = "waiting"
        /\ \A d \in Calls : acquire[d] = "waiting" => acquire'[d] = "waiting"
    BY DEF Wait, LockInv, FenceInv, LockTypes
  <2>2. CASE p = ProcOf[c]
    <3>1. queue'[p] = Append(queue[p], c) /\ poll'[p] = TRUE /\ life'[p] = "up" /\ entry' = entry
      BY <2>2 DEF Wait, LockInv, QueueInv, QueueTypes
    <3>2. Line(p, Append(queue[p], c), acquire')
      BY <2>1, <2>2, LineAppend DEF LockInv, QueueInv
    <3>3. Append(queue[p], c) # <<>>
      <4>1. queue[p] \in Seq(Calls)
        BY DEF LockInv, QueueInv, QueueTypes
      <4>2. Len(Append(queue[p], c)) = Len(queue[p]) + 1 /\ Len(queue[p]) \in Nat
        BY <4>1
      <4> QED
        BY <4>2
    <3>4. Attended(p)'
      BY <3>1, <3>3 DEF Attended, LockInv, QueueInv
    <3> QED
      BY <3>1, <3>2, <3>4
  <2>3. CASE p # ProcOf[c]
    <3>1. queue'[p] = queue[p] /\ poll'[p] = poll[p] /\ UNCHANGED <<life, entry>>
      BY <2>3 DEF Wait, LockInv, QueueInv, QueueTypes
    <3>2. Line(p, queue[p], acquire)'
      BY <2>1, <3>1, LineStays DEF LockInv, QueueInv
    <3> QED
      BY <3>1, <3>2 DEF Attended, LockInv, QueueInv
  <2> QED
    BY <2>2, <2>3
<1> QED
  BY <1>2, <1>3, <1>4 DEF LockInv, QueueInv

LEMMA AcquireFailsKeeps ==
  ASSUME LockInv, NEW c \in Calls, AcquireFails(c) PROVE LockInv'
<1>1. LockTypes'
  BY RejectTypes DEF AcquireFails, LockInv, FenceInv, LockTypes
<1>2. FenceInv'
  BY <1>1, IdleKeeps DEF AcquireFails, LockInv, FenceInv, LockTypes
<1>3. \A d \in Calls : acquire[d] = "waiting" => acquire'[d] = "waiting"
  BY DEF AcquireFails, Reject
<1>4. QueueInv'
  BY <1>3, QueuesStay DEF AcquireFails
<1> QED
  BY <1>2, <1>4 DEF LockInv

LEMMA PollFindsKeeps ==
  ASSUME LockInv, NEW p \in Procs, PollFinds(p) PROVE LockInv'
<1> DEFINE h == Head(queue[p])
<1>1. /\ Line(p, queue[p], acquire) /\ queue[p] # <<>> /\ queue[p] \in Seq(Calls)
      /\ h \in Calls /\ ProcOf[h] = p /\ acquire[h] = "waiting"
  <2>1. Line(p, queue[p], acquire) /\ queue[p] # <<>> /\ queue[p] \in Seq(Calls)
    BY DEF LockInv, QueueInv, QueueTypes, Attended, PollFinds
  <2>2. h = queue[p][1] /\ 1 \in 1..Len(queue[p])
    BY <2>1
  <2> QED
    BY <2>1, <2>2 DEF Line
<1>2. CASE entry[p] # NoCall
  <2>1. /\ UNCHANGED <<now, life, row, sequence, entry, queue, acquire, handle>>
        /\ poll' = [poll EXCEPT ![p] = FALSE]
    BY <1>2 DEF PollFinds
  <2>2. FenceInv'
    BY <2>1, IdleKeeps DEF LockInv, FenceInv, LockTypes
  <2>3. QueueInv'
    BY <1>2, <2>1 DEF LockInv, QueueInv, QueueTypes, Attended
  <2> QED
    BY <2>2, <2>3 DEF LockInv
<1>3. CASE entry[p] = NoCall
  <2>1. /\ ~Held /\ Grant(h) /\ UNCHANGED <<now, life>>
        /\ queue' = [queue EXCEPT ![p] = Tail(@)]
        /\ poll' = [poll EXCEPT ![p] = FALSE]
    BY <1>3 DEF PollFinds
  <2>2. FenceInv'
    BY <1>1, <2>1, GrantKeeps DEF LockInv
  <2> HIDE DEF h
  <2>3. /\ Tail(queue[p]) \in Seq(Calls) /\ entry' = [entry EXCEPT ![p] = h] /\ h # NoCall
        /\ \A d \in Calls : d # h => acquire'[d] = acquire[d]
    BY <1>1, <2>1, Constants DEF Grant, LockInv, FenceInv, LockTypes
  <2>4. QueueTypes'
    BY <2>1, <2>3 DEF LockInv, QueueInv, QueueTypes
  <2>5. Line(p, Tail(queue[p]), acquire')
    BY <1>1, <2>3, LineTail DEF h
  <2>6. ASSUME NEW r \in Procs PROVE Line(r, queue[r], acquire)' /\ Attended(r)'
    <3>1. CASE r = p
      <4>1. /\ queue'[p] = Tail(queue[p]) /\ entry'[p] = h /\ poll'[p] = FALSE
            /\ life'[p] = "up"
        BY <2>1, <2>3 DEF LockInv, QueueInv, QueueTypes, FenceInv, LockTypes, PollFinds
      <4>2. Attended(p)'
        BY <1>1, <2>3, <4>1 DEF Attended
      <4> QED
        BY <2>5, <3>1, <4>1, <4>2
    <3>2. CASE r # p
      <4>1. UNCHANGED <<queue[r], entry[r], poll[r], life[r]>>
        BY <2>1, <2>3, <3>2 DEF LockInv, QueueInv, QueueTypes, FenceInv, LockTypes
      <4>2. \A d \in Calls : ProcOf[d] = r /\ acquire[d] = "waiting" => acquire'[d] = "waiting"
        BY <1>1, <2>3, <3>2
      <4>3. Line(r, queue[r], acquire)'
        BY <4>1, <4>2, LineStays DEF LockInv, QueueInv
      <4> QED
        BY <4>1, <4>3 DEF LockInv, QueueInv, Attended
    <3> QED
      BY <3>1, <3>2
  <2> QED
    BY <2>2, <2>4, <2>6 DEF LockInv, QueueInv
<1> QED
  BY <1>2, <1>3

\* A process whose waiting calls are all rejected.
LEMMA RejectAllKeeps ==
  ASSUME LockInv, NEW p \in Procs, Reject({queue[p][k] : k \in DOMAIN queue[p]}),
         queue' = [queue EXCEPT ![p] = <<>>], poll' = [poll EXCEPT ![p] = FALSE],
         UNCHANGED <<now, row, sequence, entry, handle>>,
         life' \in [Procs -> {"up", "closing", "closed"}],
         \A r \in Procs : r # p => life'[r] = life[r]
  PROVE  LockInv'
<1>1. LockTypes'
  BY RejectTypes DEF LockInv, FenceInv, LockTypes
<1>2. FenceInv'
  BY <1>1, IdleKeeps DEF LockInv, FenceInv, LockTypes
<1>3. queue[p] \in Seq(Calls) /\ Line(p, queue[p], acquire)
  BY DEF LockInv, QueueInv, QueueTypes
<1> <<>> \in Seq(Calls)
  OBVIOUS
<1>6. QueueTypes'
  BY DEF LockInv, QueueInv, QueueTypes
<1>4. \A k \in DOMAIN queue[p] : ProcOf[queue[p][k]] = p
  BY <1>3 DEF Line
<1>5. ASSUME NEW r \in Procs PROVE Line(r, queue[r], acquire)' /\ Attended(r)'
  <2>1. CASE r = p
    <3>1. queue'[p] = <<>> /\ poll'[p] = FALSE /\ entry'[p] = entry[p]
      BY DEF LockInv, QueueInv, QueueTypes
    <3>2. Line(p, queue[p], acquire)'
      BY <3>1, LineEmpty
    <3>3. Attended(p)'
      BY <3>1 DEF LockInv, QueueInv, Attended
    <3> QED
      BY <2>1, <3>2, <3>3
  <2>2. CASE r # p
    <3>1. UNCHANGED <<queue[r], entry[r], poll[r], life[r]>>
      BY <2>2 DEF LockInv, QueueInv, QueueTypes
    <3>2. \A d \in Calls : ProcOf[d] = r /\ acquire[d] = "waiting" => acquire'[d] = "waiting"
      BY <1>4, <2>2 DEF Reject
    <3>3. Line(r, queue[r], acquire)'
      BY <3>1, <3>2, LineStays DEF LockInv, QueueInv
    <3> QED
      BY <3>1, <3>3 DEF LockInv, QueueInv, Attended
  <2> QED
    BY <2>1, <2>2
<1> QED
  BY <1>2, <1>5, <1>6 DEF LockInv, QueueInv

LEMMA LeaveKeeps ==
  ASSUME LockInv, NEW c \in Calls, Leave(c) PROVE LockInv'
<1> DEFINE p == ProcOf[c]
<1>1. p \in Procs /\ queue[p] \in Seq(Calls) /\ Line(p, queue[p], acquire)
  BY Constants DEF LockInv, QueueInv, QueueTypes
<1>2. PICK k \in 1..Len(queue[p]) :
        /\ queue[p][k] = c
        /\ queue' = [queue EXCEPT ![p] = Without(@, k)]
        /\ poll' = [poll EXCEPT ![p] = @ /\ Len(queue[p]) > 1]
  <2>1. DOMAIN queue[p] = 1..Len(queue[p])
    BY <1>1
  <2> QED
    BY <2>1, Zenon DEF Leave
<1>3. Reject({c}) /\ UNCHANGED <<now, row, sequence, life, entry, handle>>
  BY DEF Leave
<1> HIDE DEF p
<1>4. LockTypes'
  BY <1>3, RejectTypes DEF LockInv, FenceInv, LockTypes
<1>5. FenceInv'
  BY <1>3, <1>4, IdleKeeps DEF LockInv, FenceInv, LockTypes
<1>6. Without(queue[p], k) \in Seq(Calls) /\ Len(Without(queue[p], k)) = Len(queue[p]) - 1
  BY <1>1, WithoutIs
<1>7. QueueTypes'
  BY <1>2, <1>3, <1>6 DEF LockInv, QueueInv, QueueTypes
<1>8. ASSUME NEW r \in Procs PROVE Line(r, queue[r], acquire)' /\ Attended(r)'
  <2>1. CASE r = p
    <3>1. /\ queue'[p] = Without(queue[p], k) /\ entry'[p] = entry[p] /\ life'[p] = life[p]
          /\ poll'[p] = (poll[p] /\ Len(queue[p]) > 1)
      BY <1>1, <1>2, <1>3 DEF LockInv, QueueInv, QueueTypes
    <3>2. \A d \in Calls : d # c /\ acquire[d] = "waiting" => acquire'[d] = "waiting"
      BY <1>3 DEF Reject
    <3>3. Line(p, Without(queue[p], k), acquire')
      BY <1>1, <1>2, <3>2, LineWithout
    <3>4. Without(queue[p], k) # <<>> <=> Len(queue[p]) > 1
      BY <1>1, <1>6
    <3>5. queue[p] # <<>>
      BY <1>1, <1>2
    <3>6. Attended(p)'
      BY <1>1, <3>1, <3>4, <3>5 DEF LockInv, QueueInv, Attended
    <3> QED
      BY <2>1, <3>1, <3>3, <3>6
  <2>2. CASE r # p
    <3>1. UNCHANGED <<queue[r], entry[r], poll[r], life[r]>>
      BY <1>2, <1>3, <2>2 DEF LockInv, QueueInv, QueueTypes
    <3>2. \A d \in Calls : ProcOf[d] = r /\ acquire[d] = "waiting" => acquire'[d] = "waiting"
      BY <1>3, <2>2 DEF Reject, p
    <3>3. Line(r, queue[r], acquire)'
      BY <3>1, <3>2, LineStays DEF LockInv, QueueInv
    <3> QED
      BY <3>1, <3>3 DEF LockInv, QueueInv, Attended
  <2> QED
    BY <2>1, <2>2
<1> QED
  BY <1>5, <1>7, <1>8 DEF LockInv, QueueInv

LEMMA HeartbeatOkKeeps ==
  ASSUME LockInv, NEW c \in Calls, HeartbeatOk(c) PROVE LockInv'
<1>1. now + Ttl \in Nat /\ now + Ttl > now
  BY Constants DEF LockInv, FenceInv, LockTypes
<1>2. /\ UNCHANGED <<now, sequence, life, entry, queue, poll, acquire>>
      /\ row' = [token |-> row.token, expires |-> now + Ttl]
      /\ handle'[c] = [token |-> handle[c].token, expires |-> now + Ttl,
                       released |-> handle[c].released]
      /\ \A d \in Calls : d # c => handle'[d] = handle[d]
      /\ handle' \in [Calls -> [token : Nat, expires : Nat, released : BOOLEAN]]
      /\ row.token = handle[c].token /\ ~handle[c].released
  BY <1>1 DEF HeartbeatOk, Extends, LockInv, FenceInv, LockTypes
<1>3. LockTypes'
  BY <1>1, <1>2 DEF LockInv, FenceInv, LockTypes
<1>4. RowIsLast' /\ TokensDiffer'
  BY <1>2 DEF LockInv, FenceInv, RowIsLast, TokensDiffer
<1>5. LiveHandleHoldsTheRow'
  BY <1>2 DEF LockInv, FenceInv, LiveHandleHoldsTheRow, Live, TokensDiffer
<1>6. QueueInv'
  BY <1>2, QueuesStay
<1> QED
  BY <1>3, <1>4, <1>5, <1>6 DEF LockInv, FenceInv

\* The end of a handle outside destroy.
LEMMA EndsKeep ==
  ASSUME LockInv, NEW c \in Calls, Deletes(c) \/ row' = row, MarkExpired(c),
         UNCHANGED <<now, sequence, life, queue, acquire>>
  PROVE  LockInv'
<1>1. FenceInv'
  BY EndKeeps DEF LockInv
<1>2. /\ life' \in [Procs -> {"up", "closing", "closed"}]
      /\ \A p \in Procs : life'[p] = "up" \/ queue[p] = <<>>
  BY DEF LockInv, QueueInv, QueueTypes, Attended
<1>3. QueueInv'
  BY <1>2, EndAttends
<1> QED
  BY <1>1, <1>3 DEF LockInv

LEMMA StutterKeeps == ASSUME LockInv, UNCHANGED vars PROVE LockInv'
<1>1. FenceInv'
  BY IdleKeeps DEF vars, LockInv, FenceInv, LockTypes
<1>2. QueueInv'
  BY QueuesStay DEF vars
<1> QED
  BY <1>1, <1>2 DEF LockInv

LEMMA ReleaseKeeps ==
  ASSUME LockInv, NEW c \in Calls, Release(c) PROVE LockInv'
<1>1. CASE ReleaseThrows(c)
  <2>1. UNCHANGED vars
    BY <1>1 DEF Release, vars
  <2> QED
    BY <2>1, StutterKeeps
<1>2. CASE ~ReleaseThrows(c)
  BY <1>2, EndsKeep DEF Release
<1> QED
  BY <1>1, <1>2

\* A row that ran out goes: no handle that is live loses it.
LEMMA CleanupKeeps ==
  ASSUME LockInv, NEW p \in Procs, Cleanup(p) PROVE LockInv'
<1>1. UNCHANGED <<now, sequence, life, queue, acquire>> /\ row' = NoRow /\ row.expires < now
  BY DEF Cleanup
<1>2. \A c \in Calls : ~Live(c)
  BY <1>1 DEF LockInv, FenceInv, LockTypes, LiveHandleHoldsTheRow, Live
<1>3. CASE UNCHANGED <<handle, entry, poll>>
  <2>1. LockTypes'
    BY <1>1, <1>3 DEF LockInv, FenceInv, LockTypes, NoRow
  <2>2. RowIsLast' /\ TokensDiffer' /\ LiveHandleHoldsTheRow'
    BY <1>1, <1>2, <1>3
      DEF LockInv, FenceInv, RowIsLast, TokensDiffer, LiveHandleHoldsTheRow, Live, NoRow
  <2>3. QueueInv'
    BY <1>1, <1>3, QueuesStay
  <2> QED
    BY <2>1, <2>2, <2>3 DEF LockInv, FenceInv
<1>4. CASE entry[p] # NoCall /\ MarkExpired(entry[p])
  <2> DEFINE c == entry[p]
  <2>1. c \in Calls /\ MarkExpired(c)
    BY <1>4 DEF LockInv, FenceInv, LockTypes
  <2> HIDE DEF c
  <2>2. /\ handle' \in [Calls -> [token : Nat, expires : Nat, released : BOOLEAN]]
        /\ entry' \in [Procs -> Calls \cup {NoCall}]
    BY <2>1 DEF MarkExpired, LockInv, FenceInv, LockTypes
  <2>3. LockTypes'
    BY <1>1, <2>2 DEF LockInv, FenceInv, LockTypes, NoRow
  <2>4. /\ handle'[c].released
        /\ \A d \in Calls : d # c => handle'[d] = handle[d]
        /\ \A d \in Calls : handle'[d].token = handle[d].token
    BY <2>1 DEF MarkExpired, LockInv, FenceInv, LockTypes
  <2>5. RowIsLast' /\ TokensDiffer' /\ LiveHandleHoldsTheRow'
    BY <1>1, <1>2, <2>4
      DEF LockInv, FenceInv, RowIsLast, TokensDiffer, LiveHandleHoldsTheRow, Live, NoRow
  <2>6. QueueInv'
    BY <1>1, <2>1, EndAttends DEF LockInv, QueueInv, QueueTypes, Attended
  <2> QED
    BY <2>3, <2>5, <2>6 DEF LockInv, FenceInv
<1> QED
  BY <1>3, <1>4 DEF Cleanup

LEMMA FinishDestroyKeeps ==
  ASSUME LockInv, NEW p \in Procs, FinishDestroy(p) PROVE LockInv'
<1>1. /\ life' \in [Procs -> {"up", "closing", "closed"}]
      /\ queue[p] = <<>> /\ \A r \in Procs : r # p => life'[r] = life[r]
      /\ UNCHANGED <<now, sequence, queue, acquire>>
  BY DEF FinishDestroy, LockInv, QueueInv, QueueTypes, Attended
<1>2. \A r \in Procs : life'[r] = "up" \/ queue[r] = <<>>
  BY <1>1 DEF LockInv, QueueInv, QueueTypes, Attended
<1>3. CASE entry[p] = NoCall
  <2>1. UNCHANGED <<row, handle, entry, poll>>
    BY <1>3 DEF FinishDestroy
  <2>2. FenceInv'
    BY <1>1, <2>1, IdleKeeps DEF LockInv, FenceInv, LockTypes
  <2>3. QueueInv'
    BY <1>1, <1>2, <2>1 DEF LockInv, QueueInv, QueueTypes, Attended, Line
  <2> QED
    BY <2>2, <2>3 DEF LockInv
<1>4. CASE entry[p] # NoCall
  <2>1. /\ entry[p] \in Calls /\ MarkExpired(entry[p])
        /\ Deletes(entry[p]) \/ row' = row
    BY <1>4 DEF FinishDestroy, LockInv, FenceInv, LockTypes
  <2>2. FenceInv'
    BY <1>1, <2>1, EndKeeps DEF LockInv
  <2>3. QueueInv'
    BY <1>1, <1>2, <2>1, EndAttends
  <2> QED
    BY <2>2, <2>3 DEF LockInv
<1> QED
  BY <1>3, <1>4

LEMMA CrashKeeps ==
  ASSUME LockInv, NEW p \in Procs, Crash(p) PROVE LockInv'
<1>1. /\ handle' \in [Calls -> [token : Nat, expires : Nat, released : BOOLEAN]]
      /\ \A c \in Calls : ProcOf[c] = p => handle'[c].released
      /\ \A c \in Calls : ProcOf[c] # p => handle'[c] = handle[c]
      /\ \A c \in Calls : handle'[c].token = handle[c].token
  <2> DEFINE H == [token : Nat, expires : Nat, released : BOOLEAN]
  <2>1. ASSUME NEW c \in Calls
        PROVE  /\ [handle[c] EXCEPT !.released = TRUE] \in H
               /\ [handle[c] EXCEPT !.released = TRUE].released
               /\ [handle[c] EXCEPT !.released = TRUE].token = handle[c].token
    BY DEF LockInv, FenceInv, LockTypes
  <2>2. /\ \A c \in Calls : handle[c] \in H
        /\ handle' = [c \in Calls |-> IF ProcOf[c] = p
                                        THEN [handle[c] EXCEPT !.released = TRUE] ELSE handle[c]]
    BY DEF Crash, LockInv, FenceInv, LockTypes
  <2> HIDE DEF H
  <2>3. /\ handle' \in [Calls -> H]
        /\ \A c \in Calls : ProcOf[c] = p => handle'[c].released
        /\ \A c \in Calls : ProcOf[c] # p => handle'[c] = handle[c]
        /\ \A c \in Calls : handle'[c].token = handle[c].token
    BY <2>1, <2>2
  <2> QED
    BY <2>3 DEF H
<1>2. /\ acquire' \in [Calls -> {"idle", "waiting", "granted", "rejected", "lost"}]
      /\ \A c \in Calls : ProcOf[c] # p => acquire'[c] = acquire[c]
  BY DEF Crash, LockInv, FenceInv, LockTypes
<1>3. UNCHANGED <<now, row, sequence>>
  BY DEF Crash
<1>4. /\ entry' \in [Procs -> Calls \cup {NoCall}] /\ entry'[p] = NoCall
      /\ queue' \in [Procs -> Seq(Calls)] /\ queue'[p] = <<>>
      /\ poll' \in [Procs -> BOOLEAN] /\ poll'[p] = FALSE
      /\ life' \in [Procs -> {"up", "closing", "closed"}] /\ life'[p] = "up"
      /\ \A r \in Procs : r # p => UNCHANGED <<entry[r], queue[r], poll[r], life[r]>>
  <2> <<>> \in Seq(Calls)
    OBVIOUS
  <2> QED
    BY DEF Crash, LockInv, FenceInv, LockTypes, QueueInv, QueueTypes
<1>5. LockTypes'
  BY <1>1, <1>2, <1>3, <1>4 DEF LockInv, FenceInv, LockTypes
<1>6. RowIsLast' /\ TokensDiffer' /\ LiveHandleHoldsTheRow'
  BY <1>1, <1>3 DEF LockInv, FenceInv, RowIsLast, TokensDiffer, LiveHandleHoldsTheRow, Live
<1>7. ASSUME NEW r \in Procs PROVE Line(r, queue[r], acquire)' /\ Attended(r)'
  <2>1. CASE r = p
    BY <1>4, <2>1, LineEmpty DEF Attended
  <2>2. CASE r # p
    <3>1. UNCHANGED <<entry[r], queue[r], poll[r], life[r]>>
      BY <1>4, <2>2
    <3>2. Line(r, queue[r], acquire)'
      BY <1>2, <2>2, <3>1, LineStays DEF LockInv, QueueInv
    <3> QED
      BY <3>1, <3>2 DEF LockInv, QueueInv, Attended
  <2> QED
    BY <2>1, <2>2
<1>8. QueueInv'
  BY <1>4, <1>7 DEF QueueInv, QueueTypes
<1> QED
  BY <1>5, <1>6, <1>8 DEF LockInv, FenceInv

LEMMA TickKeeps == ASSUME LockInv, Tick PROVE LockInv'
<1>1. now' \in Nat /\ now' >= now
  BY DEF Tick, LockInv, FenceInv, LockTypes
<1>2. LockTypes'
  BY <1>1 DEF Tick, LockInv, FenceInv, LockTypes
<1>3. FenceInv'
  BY <1>1, <1>2, IdleKeeps DEF Tick, LockInv
<1>4. QueueInv'
  BY QueuesStay DEF Tick
<1> QED
  BY <1>3, <1>4 DEF LockInv

LEMMA LockStep == LockInv /\ [Next]_vars => LockInv'
<1> SUFFICES ASSUME LockInv, [Next]_vars PROVE LockInv'
  OBVIOUS
<1>1. ASSUME NEW c \in Calls, CallStep(c) PROVE LockInv'
  <2>1. CASE AcquireNow(c)
    BY <2>1, AcquireNowKeeps
  <2>2. CASE AcquireFails(c)
    BY <2>2, AcquireFailsKeeps
  <2>3. CASE Wait(c)
    BY <2>3, WaitKeeps
  <2>4. CASE Leave(c)
    BY <2>4, LeaveKeeps
  <2>5. CASE HeartbeatOk(c)
    BY <2>5, HeartbeatOkKeeps
  <2>6. CASE HeartbeatLost(c)
    BY <2>6, EndsKeep DEF HeartbeatLost
  <2>7. CASE Release(c)
    BY <2>7, ReleaseKeeps
  <2> QED
    BY <1>1, <2>1, <2>2, <2>3, <2>4, <2>5, <2>6, <2>7 DEF CallStep
<1>2. ASSUME NEW p \in Procs, ProcStep(p) PROVE LockInv'
  <2>1. CASE PollFinds(p)
    BY <2>1, PollFindsKeeps
  <2>2. CASE PollFails(p)
    <3>1. life' \in [Procs -> {"up", "closing", "closed"}] /\ UNCHANGED life
      BY <2>2 DEF PollFails, LockInv, QueueInv, QueueTypes
    <3> QED
      BY <2>2, <3>1, RejectAllKeeps DEF PollFails
  <2>3. CASE Expire(p)
    <3>1. entry[p] \in Calls
      BY <2>3 DEF Expire, LockInv, FenceInv, LockTypes
    <3> QED
      BY <2>3, <3>1, EndsKeep DEF Expire
  <2>4. CASE Cleanup(p)
    BY <2>4, CleanupKeeps
  <2>5. CASE Destroy(p)
    <3>1. /\ life' \in [Procs -> {"up", "closing", "closed"}]
          /\ \A r \in Procs : r # p => life'[r] = life[r]
      BY <2>5 DEF Destroy, LockInv, QueueInv, QueueTypes
    <3> QED
      BY <2>5, <3>1, RejectAllKeeps DEF Destroy
  <2>6. CASE FinishDestroy(p)
    BY <2>6, FinishDestroyKeeps
  <2>7. CASE Crash(p)
    BY <2>7, CrashKeeps
  <2> QED
    BY <1>2, <2>1, <2>2, <2>3, <2>4, <2>5, <2>6, <2>7 DEF ProcStep
<1> QED
  BY <1>1, <1>2, TickKeeps, StutterKeeps DEF Next

\* The invariant of the managers.
THEOREM LockInvariant == Spec => []LockInv
<1>1. Init => LockInv
  BY FenceInit, QueueInit DEF LockInv
<1> QED
  BY <1>1, LockStep, PTL DEF Spec

\* A handle that is live is backed by the row, whatever timers are late and whoever
\* cleaned up (heartbeat, release, _markExpired, _cleanupKey).
THEOREM HandlesAreBacked == Spec => []LiveHandleHoldsTheRow
<1>1. LockInv => LiveHandleHoldsTheRow
  BY DEF LockInv, FenceInv
<1> QED
  BY <1>1, LockInvariant, PTL

\* No process that lets calls wait forgets to try for them (_schedulePoll).
THEOREM WaitersAreTried == Spec => []WaitersArePolled
<1>1. LockInv => WaitersArePolled
  BY DEF LockInv, QueueInv, Attended, WaitersArePolled
<1> QED
  BY <1>1, LockInvariant, PTL

-----------------------------------------------------------------------------
(***************************************************************************)
(* The table of locks is an ExpiringLock.                                  *)
(***************************************************************************)
\* What the refinement maps expires to is the row's column, always.
LEMMA Mapped == LockInv => (IF row.token = sequence THEN row.expires ELSE 0) = row.expires
BY DEF LockInv, FenceInv, RowIsLast

LEMMA GrantRefines ==
  ASSUME LockInv, LockInv', NEW c \in Calls, ~Held, Grant(c), now' = now
  PROVE  Lock!Grant
<1>1. now + Ttl \in Nat /\ now + Ttl > now
  BY Constants DEF LockInv, FenceInv, LockTypes
<1>2. row'.expires = now + Ttl /\ sequence' = sequence + 1
  BY DEF Grant
<1>3. (IF row'.token = sequence' THEN row'.expires ELSE 0) = row'.expires
  BY DEF Grant
<1> QED
  BY <1>1, <1>2, <1>3, Mapped DEF Held, Lock!Grant, Lock!Held, LockInv, FenceInv, LockTypes

LEMMA DeleteRefines ==
  ASSUME LockInv, LockInv', row' = NoRow \/ row' = row, UNCHANGED <<now, sequence>>
  PROVE  Lock!Next \/ UNCHANGED Lock!vars
BY Mapped DEF Lock!Next, Lock!GiveBack, Lock!vars, NoRow

LEMMA LockStepRefines ==
  ASSUME LockInv, LockInv', [Next]_vars PROVE [Lock!Next]_Lock!vars
<1>1. ASSUME NEW c \in Calls, CallStep(c) PROVE Lock!Next \/ UNCHANGED Lock!vars
  <2>1. CASE AcquireNow(c)
    BY <2>1, GrantRefines DEF AcquireNow, Lock!Next
  <2>2. CASE AcquireFails(c) \/ Wait(c) \/ Leave(c)
    BY <2>2, DeleteRefines DEF AcquireFails, Wait, Leave
  <2>3. CASE HeartbeatOk(c)
    <3>1. now + Ttl \in Nat /\ now + Ttl > now
      BY Constants DEF LockInv, FenceInv, LockTypes
    <3>2. /\ row.expires > now /\ row'.token = row.token /\ row'.expires = now + Ttl
          /\ UNCHANGED <<now, sequence>> /\ row.token = sequence
      BY <2>3 DEF HeartbeatOk, Extends, LockInv, FenceInv, LockTypes, RowIsLast
    <3> QED
      BY <3>1, <3>2 DEF Lock!Next, Lock!Extend, Lock!Held
  <2>4. CASE HeartbeatLost(c) \/ Release(c)
    BY <2>4, DeleteRefines DEF HeartbeatLost, Release, Deletes
  <2> QED
    BY <1>1, <2>1, <2>2, <2>3, <2>4 DEF CallStep
<1>2. ASSUME NEW p \in Procs, ProcStep(p) PROVE Lock!Next \/ UNCHANGED Lock!vars
  <2>1. CASE PollFinds(p)
    <3>1. CASE entry[p] # NoCall
      BY <2>1, <3>1, DeleteRefines DEF PollFinds
    <3>2. CASE entry[p] = NoCall
      <4>1. Head(queue[p]) \in Calls
        <5>1. queue[p] \in Seq(Calls) /\ queue[p] # <<>>
          BY <2>1 DEF PollFinds, LockInv, QueueInv, QueueTypes, Attended
        <5> QED
          BY <5>1
      <4> QED
        BY <2>1, <3>2, <4>1, GrantRefines DEF PollFinds, Lock!Next
    <3> QED
      BY <3>1, <3>2
  <2>2. CASE PollFails(p) \/ Destroy(p) \/ Crash(p)
    BY <2>2, DeleteRefines DEF PollFails, Destroy, Crash
  <2>3. CASE Expire(p) \/ Cleanup(p) \/ FinishDestroy(p)
    BY <2>3, DeleteRefines DEF Expire, Cleanup, FinishDestroy, Deletes
  <2> QED
    BY <1>2, <2>1, <2>2, <2>3 DEF ProcStep
<1>3. CASE Tick
  BY <1>3, Mapped DEF Tick, Lock!Next, Lock!Tick
<1>4. CASE UNCHANGED vars
  BY <1>4, DeleteRefines DEF vars
<1> QED
  BY <1>1, <1>2, <1>3, <1>4 DEF Next

\* While a lease lasts no other is granted, one that ran out is never revived, and the
\* fencing tokens grow, whatever the processes do (_tryAcquire, heartbeat, release).
THEOREM LocksImplementExpiringLock == Spec => ImplementsExpiringLock
<1>1. Init => Lock!Init
  BY DEF Init, NoRow, Lock!Init
<1>2. LockInv /\ LockInv' /\ [Next]_vars => [Lock!Next]_Lock!vars
  BY LockStepRefines
<1> QED
  BY <1>1, <1>2, LockInvariant, PTL DEF Spec, ImplementsExpiringLock, Lock!Spec

-----------------------------------------------------------------------------
(***************************************************************************)
(* The operations that run under the locks.                                *)
(***************************************************************************)
\* The lock of a running operation is lost, and somebody has had it since.
Beaten(c) == run[c] = "running" /\ ~Live(c) /\ handle[c].token < sequence

OpInv ==
  /\ run \in [Calls -> {"none", "running", "ok", "failed"}]
  /\ overlaps \subseteq SUBSET Calls
  /\ \A c \in Calls : run[c] = "running" => acquire[c] = "granted"
  /\ \A pair \in overlaps : \E c \in pair : run[c] = "failed" \/ Beaten(c)

\* The steps of the managers, as the operations take them, are theirs.
LEMMA OpStepIsLockStep == OpNext => [Next]_vars
<1> SUFFICES ASSUME OpNext PROVE [Next]_vars
  OBVIOUS
<1>1. ASSUME NEW c \in Calls, Begin(c) \/ GiveUp(c) \/ Beat(c) \/ CallerAborts(c) \/ End(c)
      PROVE  [Next]_vars
  <2>1. Release(c) \/ HeartbeatOk(c) \/ HeartbeatLost(c) \/ UNCHANGED vars
    BY <1>1 DEF Begin, GiveUp, Beat, CallerAborts, End
  <2> QED
    BY <2>1 DEF Next, CallStep
<1>2. ASSUME NEW p \in Procs, OpCrash(p) PROVE [Next]_vars
  BY <1>2 DEF OpCrash, Next, ProcStep
<1>3. CASE Managers
  BY <1>3 DEF Managers, Next, CallStep, ProcStep
<1> QED
  BY <1>1, <1>2, <1>3 DEF OpNext

\* Whose acquire is over gets no second lease, but may lose the process.
LEMMA GrantedStays ==
  ASSUME LockInv, NEW x \in Calls, acquire[x] = "granted",
         \/ \E c \in Calls : CallStep(c)
         \/ \E p \in Procs : \/ PollFinds(p) \/ PollFails(p) \/ Expire(p) \/ Cleanup(p)
                             \/ Destroy(p) \/ FinishDestroy(p)
         \/ Tick \/ UNCHANGED vars
  PROVE  acquire'[x] = "granted"
<1>1. ASSUME NEW p \in Procs PROVE \A k \in DOMAIN queue[p] : queue[p][k] # x
  BY DEF LockInv, QueueInv, QueueTypes, Line
<1>2. ASSUME NEW c \in Calls, CallStep(c) PROVE acquire'[x] = "granted"
  <2>1. CASE AcquireNow(c) \/ AcquireFails(c) \/ Wait(c) \/ Leave(c)
    BY <2>1 DEF AcquireNow, Grant, AcquireFails, Wait, Leave, Reject, LockInv, FenceInv, LockTypes
  <2>2. CASE HeartbeatOk(c) \/ HeartbeatLost(c) \/ Release(c)
    BY <2>2 DEF HeartbeatOk, HeartbeatLost, Release
  <2> QED
    BY <1>2, <2>1, <2>2 DEF CallStep
<1>3. ASSUME NEW p \in Procs, PollFails(p) \/ Destroy(p) PROVE acquire'[x] = "granted"
  BY <1>1, <1>3 DEF PollFails, Destroy, Reject
<1>4. ASSUME NEW p \in Procs, PollFinds(p) PROVE acquire'[x] = "granted"
  <2>1. CASE Grant(Head(queue[p]))
    <3>1. queue[p] \in Seq(Calls) /\ queue[p] # <<>>
      BY <1>4 DEF PollFinds, LockInv, QueueInv, QueueTypes, Attended
    <3>2. Head(queue[p]) = queue[p][1] /\ 1 \in DOMAIN queue[p]
      BY <3>1
    <3>3. Head(queue[p]) # x
      BY <1>1, <3>2
    <3> QED
      BY <2>1, <3>3 DEF Grant, LockInv, FenceInv, LockTypes
  <2>2. CASE UNCHANGED acquire
    BY <2>2
  <2> QED
    BY <1>4, <2>1, <2>2 DEF PollFinds
<1>5. ASSUME NEW p \in Procs, Expire(p) \/ Cleanup(p) \/ FinishDestroy(p)
      PROVE  acquire'[x] = "granted"
  BY <1>5 DEF Expire, Cleanup, FinishDestroy
<1> QED
  BY <1>2, <1>3, <1>4, <1>5 DEF Tick, vars

\* A handle stays dead once another lease has been granted after its own.
LEMMA DeadStaysDead ==
  ASSUME LockInv, [Next]_vars, NEW x \in Calls, acquire[x] = "granted",
         ~Live(x), handle[x].token < sequence
  PROVE  ~Live(x)' /\ handle'[x].token < sequence'
<1> USE DEF LockInv, FenceInv, LockTypes
<1>1. ASSUME NEW c \in Calls, c # x, Grant(c), now' = now
      PROVE  ~Live(x)' /\ handle'[x].token < sequence'
  BY <1>1 DEF Grant, Live
<1>2. ASSUME NEW c \in Calls, MarkExpired(c), UNCHANGED <<now, sequence>>
      PROVE  ~Live(x)' /\ handle'[x].token < sequence'
  BY <1>2 DEF MarkExpired, Live
<1>3. ASSUME UNCHANGED <<handle, sequence>>, now' \in Nat, now' >= now
      PROVE  ~Live(x)' /\ handle'[x].token < sequence'
  BY <1>3 DEF Live
<1>4. ASSUME NEW c \in Calls, CallStep(c)
      PROVE  ~Live(x)' /\ handle'[x].token < sequence'
  <2>1. CASE AcquireNow(c)
    BY <1>1, <2>1 DEF AcquireNow
  <2>2. CASE AcquireFails(c) \/ Wait(c) \/ Leave(c)
    BY <1>3, <2>2 DEF AcquireFails, Wait, Leave
  <2>3. CASE HeartbeatOk(c)
    <3>1. c # x
      BY <2>3 DEF HeartbeatOk, Extends, RowIsLast
    <3> QED
      BY <2>3, <3>1 DEF HeartbeatOk, Live
  <2>4. CASE HeartbeatLost(c)
    BY <1>2, <2>4 DEF HeartbeatLost
  <2>5. CASE Release(c)
    BY <1>2, <1>3, <2>5 DEF Release
  <2> QED
    BY <1>4, <2>1, <2>2, <2>3, <2>4, <2>5 DEF CallStep
<1>5. ASSUME NEW p \in Procs, ProcStep(p)
      PROVE  ~Live(x)' /\ handle'[x].token < sequence'
  <2>1. CASE PollFinds(p) /\ entry[p] = NoCall
    <3>1. queue[p] \in Seq(Calls) /\ queue[p] # <<>>
      BY <2>1 DEF PollFinds, QueueInv, QueueTypes, Attended
    <3>2. Head(queue[p]) = queue[p][1] /\ 1 \in 1..Len(queue[p]) /\ Head(queue[p]) \in Calls
      BY <3>1
    <3>3. Head(queue[p]) # x
      BY <3>2 DEF QueueInv, Line
    <3> QED
      BY <1>1, <2>1, <3>2, <3>3 DEF PollFinds
  <2>2. CASE \/ PollFinds(p) /\ entry[p] # NoCall
             \/ PollFails(p) \/ Destroy(p)
    BY <1>3, <2>2 DEF PollFinds, PollFails, Destroy
  <2>3. CASE Expire(p) \/ Cleanup(p) \/ FinishDestroy(p)
    <3>1. /\ UNCHANGED <<now, sequence>>
          /\ UNCHANGED handle \/ (entry[p] # NoCall /\ MarkExpired(entry[p]))
      BY <2>3 DEF Expire, Cleanup, FinishDestroy
    <3> QED
      BY <1>2, <1>3, <3>1
  <2>4. CASE Crash(p)
    BY <2>4 DEF Crash, Live
  <2> QED
    BY <1>5, <2>1, <2>2, <2>3, <2>4 DEF ProcStep
<1>6. Tick \/ UNCHANGED vars => UNCHANGED <<handle, sequence>> /\ now' \in Nat /\ now' >= now
  BY DEF Tick, vars
<1> QED
  BY <1>3, <1>4, <1>5, <1>6 DEF Next

\* The managers move, nobody begins or ends.
LEMMA OthersKeep ==
  ASSUME LockInv, OpInv, [Next]_vars, UNCHANGED overlaps,
         run' \in [Calls -> {"none", "running", "ok", "failed"}],
         \A c \in Calls : run[c] = "failed" => run'[c] = "failed",
         \A c \in Calls : run[c] = "running" /\ run'[c] # "failed" =>
                            run'[c] = "running" \/ (run'[c] = "ok" /\ Live(c)),
         \A c \in Calls : run'[c] = "running" => run[c] = "running" /\ acquire'[c] = "granted"
  PROVE  OpInv'
<1>1. ASSUME NEW pair \in overlaps PROVE \E c \in pair : run'[c] = "failed" \/ Beaten(c)'
  <2>1. PICK c \in pair : run[c] = "failed" \/ Beaten(c)
    BY DEF OpInv
  <2>2. c \in Calls
    BY DEF OpInv
  <2>3. CASE run[c] = "failed"
    BY <2>2, <2>3
  <2>4. CASE Beaten(c)
    <3>1. ~Live(c)' /\ handle'[c].token < sequence'
      BY <2>2, <2>4, DeadStaysDead DEF Beaten, OpInv
    <3>2. run'[c] = "failed" \/ run'[c] = "running"
      BY <2>2, <2>4 DEF Beaten
    <3> QED
      BY <3>1, <3>2 DEF Beaten
  <2> QED
    BY <2>1, <2>3, <2>4
<1> QED
  BY <1>1 DEF OpInv

LEMMA BeginKeeps ==
  ASSUME LockInv, OpInv, NEW c \in Calls, Begin(c) PROVE OpInv'
<1> DEFINE now_running == {d \in Calls : run[d] = "running"}
<1>1. /\ run[c] = "none" /\ acquire[c] = "granted" /\ Live(c) /\ UNCHANGED vars
      /\ run' = [run EXCEPT ![c] = "running"]
      /\ overlaps' = overlaps \cup {{c, d} : d \in now_running}
  BY DEF Begin, Started
<1>2. /\ run' \in [Calls -> {"none", "running", "ok", "failed"}] /\ run'[c] = "running"
      /\ \A d \in Calls : d # c => run'[d] = run[d]
  BY <1>1 DEF OpInv
<1>3. \A d \in Calls : d # c /\ Beaten(d) => Beaten(d)'
  BY <1>1, <1>2 DEF Beaten, Live, vars
<1>4. ASSUME NEW d \in Calls, run[d] = "running" PROVE d # c /\ Beaten(d)
  <2>1. d # c
    BY <1>1, <1>4
  <2>2. row.token = handle[c].token /\ handle[c].token # 0 /\ handle[c].token = sequence
    BY <1>1 DEF LockInv, FenceInv, LiveHandleHoldsTheRow, Live, TokensDiffer, RowIsLast
  <2>3. handle[d].token \in Nat /\ sequence \in Nat /\ handle[d].token <= sequence
    BY DEF LockInv, FenceInv, TokensDiffer, LockTypes
  <2>4. handle[d].token # handle[c].token
    BY <2>1, <2>2 DEF LockInv, FenceInv, TokensDiffer
  <2>5. ~Live(d)
    BY <2>2, <2>4 DEF LockInv, FenceInv, LiveHandleHoldsTheRow
  <2> QED
    BY <1>4, <2>1, <2>2, <2>3, <2>4, <2>5 DEF Beaten
<1>5. ASSUME NEW pair \in overlaps' PROVE \E d \in pair : run'[d] = "failed" \/ Beaten(d)'
  <2>1. CASE pair \in overlaps
    <3>1. PICK d \in pair : run[d] = "failed" \/ Beaten(d)
      BY <2>1 DEF OpInv
    <3>2. d \in Calls /\ d # c
      BY <1>1, <2>1, <3>1 DEF OpInv, Beaten
    <3> QED
      BY <1>2, <1>3, <3>1, <3>2
  <2>2. CASE pair \notin overlaps
    <3>1. PICK d \in now_running : pair = {c, d}
      BY <1>1, <2>2
    <3> QED
      BY <1>3, <1>4, <3>1
  <2> QED
    BY <2>1, <2>2
<1>6. overlaps' \subseteq SUBSET Calls
  BY <1>1 DEF OpInv
<1>7. \A d \in Calls : run'[d] = "running" => acquire'[d] = "granted"
  BY <1>1, <1>2 DEF OpInv, vars
<1> QED
  BY <1>2, <1>5, <1>6, <1>7 DEF OpInv

LEMMA OpStep == LockInv /\ OpInv /\ [OpNext]_opVars => OpInv'
<1> SUFFICES ASSUME LockInv, OpInv, [OpNext]_opVars PROVE OpInv'
  OBVIOUS
<1>1. OpNext => [Next]_vars
  BY OpStepIsLockStep
<1>2. ASSUME NEW c \in Calls, GiveUp(c) \/ Beat(c) \/ CallerAborts(c) \/ End(c) PROVE OpInv'
  <2>1. [Next]_vars /\ UNCHANGED overlaps /\ (CallStep(c) \/ UNCHANGED vars)
    BY <1>1, <1>2 DEF OpNext, GiveUp, Beat, CallerAborts, End, CallStep
  <2>2. \A x \in Calls : run[x] = "running" => acquire'[x] = "granted"
    BY <2>1, GrantedStays DEF OpInv
  <2>3. \/ run' = run
        \/ run[c] = "none" /\ run' = [run EXCEPT ![c] = "failed"]
        \/ run[c] = "running" /\ run' = [run EXCEPT ![c] = "failed"]
        \/ run[c] = "running" /\ Live(c) /\ run' = [run EXCEPT ![c] = "ok"]
    BY <1>2 DEF GiveUp, Started, Beat, CallerAborts, End, Outcome
  <2>4. /\ run' \in [Calls -> {"none", "running", "ok", "failed"}]
        /\ \A x \in Calls : run[x] = "failed" => run'[x] = "failed"
        /\ \A x \in Calls : run'[x] = "running" => run[x] = "running"
        /\ \A x \in Calls : run[x] = "running" /\ run'[x] # "failed" =>
                              run'[x] = "running" \/ (run'[x] = "ok" /\ Live(x))
    BY <2>3 DEF OpInv
  <2> QED
    BY <2>1, <2>2, <2>4, OthersKeep
<1>3. ASSUME NEW p \in Procs, OpCrash(p) PROVE OpInv'
  <2>1. [Next]_vars /\ UNCHANGED overlaps
    BY <1>1, <1>3 DEF OpNext, OpCrash
  <2>2. /\ run' \in [Calls -> {"none", "running", "ok", "failed"}]
        /\ \A x \in Calls : run[x] = "failed" => run'[x] = "failed"
        /\ \A x \in Calls : run[x] = "running" => run'[x] \in {"running", "failed"}
        /\ \A x \in Calls : run'[x] = "running" => run[x] = "running" /\ ProcOf[x] # p
    BY <1>3 DEF OpCrash, OpInv
  <2>3. \A x \in Calls : run'[x] = "running" => acquire'[x] = "granted"
    BY <1>3, <2>2 DEF OpCrash, Crash, OpInv
  <2> QED
    BY <2>1, <2>2, <2>3, OthersKeep
<1>4. ASSUME Managers \/ UNCHANGED opVars PROVE OpInv'
  <2>1. [Next]_vars /\ UNCHANGED <<run, overlaps>>
    BY <1>1, <1>4 DEF OpNext, Managers, opVars
  <2>2. \A x \in Calls : run[x] = "running" => acquire'[x] = "granted"
    BY <1>4, GrantedStays DEF OpInv, Managers, opVars, CallStep
  <2> QED
    BY <2>1, <2>2, OthersKeep DEF OpInv
<1> QED
  BY <1>2, <1>3, <1>4, BeginKeeps DEF OpNext

\* withOperationLock only uses the managers as anybody may: what holds of the locks holds
\* underneath the operations.
THEOREM OperationsUseTheLocks == OpSpec => Spec
<1>1. OpInit => Init
  BY DEF OpInit
<1>2. [OpNext]_opVars => [Next]_vars
  BY OpStepIsLockStep DEF opVars
<1> QED
  BY <1>1, <1>2, PTL DEF OpSpec, Spec

\* Of two operations of a group that ran at one time at most one succeeds, however late
\* its heartbeats are and whatever process ends (withOperationLock).
THEOREM SuccessfulOperationsExclude == OpSpec => []SuccessIsExclusive
<1>1. OpInit => OpInv
  BY DEF OpInit, OpInv
<1>2. OpInv => SuccessIsExclusive
  BY DEF OpInv, SuccessIsExclusive, Beaten
<1> QED
  BY <1>1, <1>2, OpStep, OperationsUseTheLocks, LockInvariant, PTL DEF OpSpec
==============================================================================
