------------------------------ MODULE SqliteLocks ------------------------------
(***************************************************************************)
(* The durable lock manager over SQLite                                    *)
(* (packages/foundation/src/concurrency/sqlite-lock-manager.ts, with the   *)
(* waiter queue and the deadline scheduler of lock-manager-contract.ts).   *)
(*                                                                         *)
(* One key, several processes that share the table of locks; each has its  *)
(* own handle and its own queue of waiting calls.  Every operation runs to *)
(* its end without an await, so that it is one step.                       *)
(***************************************************************************)
EXTENDS Naturals, Sequences, FiniteSets

CONSTANTS
  Procs,      \* the processes that have the database open
  Calls,      \* the calls of acquire, each made at most once
  ProcOf,     \* [Calls -> Procs]
  NoCall,     \* no call
  Ttl,        \* the lease granted, and the extension by a heartbeat
  MaxWaiting, \* config.maxQueueDepth
  MaxTime     \* bound on the clock

ASSUME SqliteLocksAssumption ==
  /\ ProcOf \in [Calls -> Procs] /\ NoCall \notin Calls
  /\ Ttl \in Nat \ {0} /\ MaxWaiting \in Nat \ {0} /\ MaxTime \in Nat

VARIABLES
  now,      \* Date.now(), shared by the processes of a host
  row,      \* the row of _meshrix_locks: token 0 when there is none
  sequence, \* _meshrix_lock_fence_sequence
  life,     \* of each manager: "up", "closing" (destroy called), "closed"
  entry,    \* the call whose handle is in _handles, or NoCall
  queue,    \* the waiting calls, longest first
  poll,     \* queue.pollEntry # null
  acquire,  \* of each call: "idle", "waiting", "granted", "rejected", "lost"
  handle    \* what a granted call holds: token, expiresAt and released

vars == <<now, row, sequence, life, entry, queue, poll, acquire, handle>>

NoRow == [token |-> 0, expires |-> 0]

Init ==
  /\ now = 0
  /\ row = NoRow
  /\ sequence = 0
  /\ life = [p \in Procs |-> "up"]
  /\ entry = [p \in Procs |-> NoCall]
  /\ queue = [p \in Procs |-> <<>>]
  /\ poll = [p \in Procs |-> FALSE]
  /\ acquire = [c \in Calls |-> "idle"]
  /\ handle = [c \in Calls |-> [token |-> 0, expires |-> 0, released |-> TRUE]]

\* LinkedQueue.remove
Without(q, k) == SubSeq(q, 1, k - 1) \o SubSeq(q, k + 1, Len(q))

\* The row is held against now: what findLock finds once cleanupKey has run.
Held == row.expires > now

\* The call's handle has not been given up, and its time has not run out.
Live(c) == ~handle[c].released /\ handle[c].expires > now

-----------------------------------------------------------------------------
(***************************************************************************)
(* Acquiring.                                                              *)
(***************************************************************************)
\* MUTANT of Grant: a new lease takes over the token of the one before it.
MutGrant(c) ==
  /\ row' = [token |-> IF row.token = 0 THEN sequence + 1 ELSE row.token, expires |-> now + Ttl]
  /\ sequence' = row'.token
  /\ handle' = [handle EXCEPT ![c] = [token |-> row'.token, expires |-> now + Ttl,
                                      released |-> FALSE]]
  /\ entry' = [entry EXCEPT ![ProcOf[c]] = c]
  /\ acquire' = [acquire EXCEPT ![c] = "granted"]

\* The transaction of _tryAcquire when the key is free, and _buildHandle.
Grant(c) ==
  /\ row' = [token |-> sequence + 1, expires |-> now + Ttl]
  /\ sequence' = sequence + 1
  /\ handle' = [handle EXCEPT ![c] = [token |-> sequence + 1, expires |-> now + Ttl,
                                      released |-> FALSE]]
  /\ entry' = [entry EXCEPT ![ProcOf[c]] = c]
  /\ acquire' = [acquire EXCEPT ![c] = "granted"]

Reject(C) == acquire' = [c \in Calls |-> IF c \in C THEN "rejected" ELSE acquire[c]]

\* acquire, when neither a handle nor a waiter of this process is in the way.
AcquireNow(c) ==
  /\ acquire[c] = "idle" /\ life[ProcOf[c]] = "up"
  /\ entry[ProcOf[c]] = NoCall /\ queue[ProcOf[c]] = <<>>
  /\ ~Held
  /\ Grant(c)
  /\ UNCHANGED <<now, life, queue, poll>>

\* acquire, when the key is taken: the call waits.
Wait(c) ==
  LET p == ProcOf[c]
  IN /\ acquire[c] = "idle" /\ life[p] = "up"
     /\ entry[p] # NoCall \/ queue[p] # <<>> \/ Held
     /\ Len(queue[p]) < MaxWaiting
     /\ acquire' = [acquire EXCEPT ![c] = "waiting"]
     /\ queue' = [queue EXCEPT ![p] = Append(@, c)]
     /\ poll' = [poll EXCEPT ![p] = TRUE]
     /\ UNCHANGED <<now, row, sequence, life, entry, handle>>

\* acquire without time to wait, with a full queue, on a destroyed manager, or with
\* a backend that fails.
AcquireFails(c) ==
  /\ acquire[c] = "idle"
  /\ Reject({c})
  /\ UNCHANGED <<now, row, sequence, life, entry, queue, poll, handle>>

\* _pollQueue: the call that waited longest tries again, unless this process still
\* has a handle, whose end polls anew.  A failed attempt schedules the next one.
PollFinds(p) ==
  /\ poll[p] /\ life[p] = "up"
  /\ IF entry[p] # NoCall
       THEN /\ poll' = [poll EXCEPT ![p] = FALSE]
            /\ UNCHANGED <<row, sequence, entry, queue, acquire, handle>>
       ELSE /\ ~Held
            /\ Grant(Head(queue[p]))
            /\ queue' = [queue EXCEPT ![p] = Tail(@)]
            /\ poll' = [poll EXCEPT ![p] = FALSE]
  /\ UNCHANGED <<now, life>>

\* _rejectQueue: the attempt made for the first fails with the backend.
PollFails(p) ==
  /\ poll[p] /\ life[p] = "up" /\ entry[p] = NoCall
  /\ Reject({queue[p][k] : k \in DOMAIN queue[p]})
  /\ queue' = [queue EXCEPT ![p] = <<>>]
  /\ poll' = [poll EXCEPT ![p] = FALSE]
  /\ UNCHANGED <<now, row, sequence, life, entry, handle>>

\* A waiting call leaves: its signal is aborted, or its deadline has come, which may
\* be any time.  With the last one the poll is cancelled.
Leave(c) ==
  LET p == ProcOf[c]
  IN /\ acquire[c] = "waiting"
     /\ Reject({c})
     /\ \E k \in DOMAIN queue[p] :
          /\ queue[p][k] = c
          /\ queue' = [queue EXCEPT ![p] = Without(@, k)]
          /\ poll' = [poll EXCEPT ![p] = @ /\ Len(queue[p]) > 1]
     /\ UNCHANGED <<now, row, sequence, life, entry, handle>>

-----------------------------------------------------------------------------
(***************************************************************************)
(* Holding and giving back.                                                *)
(***************************************************************************)
\* _schedulePoll(lockKey, 0)
Polls(p) == poll' = [poll EXCEPT ![p] = @ \/ (queue[p] # <<>> /\ life[p] = "up")]

\* MUTANT of MarkExpired: only a handle still in the map lets the others poll.
MutMarkExpired(c) ==
  /\ handle' = [handle EXCEPT ![c].released = TRUE]
  /\ entry' = [p \in Procs |-> IF entry[p] = c THEN NoCall ELSE entry[p]]
  /\ UNCHANGED poll

\* _markExpired and _clearHandle
MarkExpired(c) ==
  /\ handle' = [handle EXCEPT ![c].released = TRUE]
  /\ entry' = [p \in Procs |-> IF entry[p] = c THEN NoCall ELSE entry[p]]
  /\ Polls(ProcOf[c])

\* The condition of the heartbeat's UPDATE.
Extends(c) == row.token = handle[c].token /\ row.expires > now

\* heartbeat: the lease is extended in the row and in the handle, or the handle is lost.
HeartbeatOk(c) ==
  /\ ~handle[c].released /\ life[ProcOf[c]] = "up"
  /\ Extends(c)
  /\ row' = [row EXCEPT !.expires = now + Ttl]
  /\ handle' = [handle EXCEPT ![c].expires = now + Ttl]
  /\ UNCHANGED <<now, sequence, life, entry, queue, poll, acquire>>

HeartbeatLost(c) ==
  /\ ~handle[c].released /\ life[ProcOf[c]] = "up"
  /\ ~Extends(c)
  /\ MarkExpired(c)
  /\ UNCHANGED <<now, row, sequence, life, queue, acquire>>

\* release throws LockFencingError when another lease has the row: the handle stays in
\* the map until its timer fires.
ReleaseThrows(c) == row.token # 0 /\ row.token # handle[c].token

\* MUTANT of Deletes: the row goes, whoever it belongs to by now.
MutDeletes(c) == row' = NoRow

\* DELETE .. WHERE lock_key = ? AND fencing_token = ?
Deletes(c) == row' = IF row.token = handle[c].token THEN NoRow ELSE row

\* release of a handle that is not released yet, whether or not it expired before.
Release(c) ==
  /\ ~handle[c].released
  /\ IF ReleaseThrows(c)
       THEN UNCHANGED <<row, handle, entry, poll>>
       ELSE Deletes(c) /\ MarkExpired(c)
  /\ UNCHANGED <<now, sequence, life, queue, acquire>>

\* The expiry timer of the handle in the map, or the interval when it finds nothing to
\* delete.  With a backend that fails the row stays behind, expired.
Expire(p) ==
  LET c == entry[p]
  IN /\ c # NoCall /\ handle[c].expires <= now /\ life[p] = "up"
     /\ \/ row' = row
        \/ row.expires <= now /\ Deletes(c)
     /\ MarkExpired(c)
     /\ UNCHANGED <<now, sequence, life, queue, acquire>>

\* _cleanupExpired, the interval of every manager, and _cleanupKey, by isLocked.
Cleanup(p) ==
  LET c == entry[p]
  IN /\ life[p] = "up"
     /\ row.token # 0 /\ row.expires < now
     /\ row' = NoRow
     /\ IF c # NoCall /\ handle[c].expires <= now
          THEN MarkExpired(c)
          ELSE UNCHANGED <<handle, entry, poll>>
     /\ UNCHANGED <<now, sequence, life, queue, acquire>>

-----------------------------------------------------------------------------
(***************************************************************************)
(* The end of a manager.                                                   *)
(***************************************************************************)
\* destroy: whoever waits is rejected, no timer fires any more.
Destroy(p) ==
  /\ life[p] = "up"
  /\ life' = [life EXCEPT ![p] = "closing"]
  /\ Reject({queue[p][k] : k \in DOMAIN queue[p]})
  /\ queue' = [queue EXCEPT ![p] = <<>>]
  /\ poll' = [poll EXCEPT ![p] = FALSE]
  /\ UNCHANGED <<now, row, sequence, entry, handle>>

\* _finishDestroy: the handle left in the map is released; its row stays when the
\* backend fails.
FinishDestroy(p) ==
  /\ life[p] = "closing"
  /\ life' = [life EXCEPT ![p] = "closed"]
  /\ IF entry[p] = NoCall
       THEN UNCHANGED <<row, handle, entry, poll>>
       ELSE (Deletes(entry[p]) \/ row' = row) /\ MarkExpired(entry[p])
  /\ UNCHANGED <<now, sequence, queue, acquire>>

\* The process ends with all it knows; another one opens the database in its place.
Crash(p) ==
  /\ life' = [life EXCEPT ![p] = "up"]
  /\ entry' = [entry EXCEPT ![p] = NoCall]
  /\ queue' = [queue EXCEPT ![p] = <<>>]
  /\ poll' = [poll EXCEPT ![p] = FALSE]
  /\ acquire' = [c \in Calls |-> IF ProcOf[c] = p /\ acquire[c] # "idle"
                                   THEN "lost" ELSE acquire[c]]
  /\ handle' = [c \in Calls |-> IF ProcOf[c] = p
                                  THEN [handle[c] EXCEPT !.released = TRUE] ELSE handle[c]]
  /\ UNCHANGED <<now, row, sequence>>

Tick ==
  /\ now < MaxTime /\ now' = now + 1
  /\ UNCHANGED <<row, sequence, life, entry, queue, poll, acquire, handle>>

CallStep(c) ==
  \/ AcquireNow(c) \/ AcquireFails(c) \/ Wait(c)
  \/ Leave(c)
  \/ HeartbeatOk(c) \/ HeartbeatLost(c) \/ Release(c)

ProcStep(p) ==
  PollFinds(p) \/ PollFails(p) \/ Expire(p) \/ Cleanup(p) \/ Destroy(p) \/ FinishDestroy(p) \/ Crash(p)

Next == (\E c \in Calls : CallStep(c)) \/ (\E p \in Procs : ProcStep(p)) \/ Tick

Spec == Init /\ [][Next]_vars

-----------------------------------------------------------------------------
(***************************************************************************)
(* Properties.                                                             *)
(***************************************************************************)
LockTypeOK ==
  /\ now \in 0..MaxTime
  /\ sequence \in Nat
  /\ row \in [token : 0..sequence, expires : 0..(MaxTime + Ttl)]
  /\ handle \in [Calls -> [token : 0..sequence, expires : 0..(MaxTime + Ttl), released : BOOLEAN]]
  /\ life \in [Procs -> {"up", "closing", "closed"}]
  /\ entry \in [Procs -> Calls \cup {NoCall}]
  /\ \A p \in Procs : queue[p] \in Seq({c \in Calls : ProcOf[c] = p /\ acquire[c] = "waiting"})

\* A handle that says it is live is backed by the row, to the same instant: no other
\* process can have the lock, whatever timers are late and whoever cleaned up
\* (heartbeat, release, _markExpired).
LiveHandleHoldsTheRow ==
  \A c \in Calls : Live(c) => row.token = handle[c].token /\ row.expires = handle[c].expires

\* Whoever waits will be tried again: a poll is scheduled, or this process holds a
\* handle, whose release or expiry schedules one (_schedulePoll, _pollQueue).
WaitersArePolled ==
  \A p \in Procs : queue[p] # <<>> => poll[p] \/ entry[p] # NoCall

\* The row is a lock as ExpiringLock specifies it: while a lease lasts no other is
\* granted or its end moved by anybody else, one that ran out is never revived, and
\* tokens grow (_tryAcquire, heartbeat).
Lock == INSTANCE ExpiringLock WITH
  token <- sequence, expires <- IF row.token = sequence THEN row.expires ELSE 0
ImplementsExpiringLock == Lock!Spec
===============================================================================
