------------------------------ MODULE ExpiringLock ------------------------------
(***************************************************************************)
(* What a lock manager promises about one key, whatever its backend: the   *)
(* lock is leased to one call at a time, every lease gets a larger fencing *)
(* token than those before it, and a lease that has run out stays so.      *)
(* Abstract specification; the managers implement it.                      *)
(***************************************************************************)
EXTENDS Naturals

VARIABLES
  now,     \* the clock of the backend
  token,   \* the fencing token of the last lease, 0 before the first
  expires  \* when that lease ends; not after now if it has ended

vars == <<now, token, expires>>

Init == now = 0 /\ token = 0 /\ expires = 0

Held == expires > now

Grant ==
  /\ ~Held
  /\ token' = token + 1
  /\ expires' \in Nat /\ expires' > now
  /\ UNCHANGED now

Extend ==
  /\ Held
  /\ expires' \in Nat /\ expires' > now
  /\ UNCHANGED <<now, token>>

GiveBack == expires' = 0 /\ UNCHANGED <<now, token>>

Tick == now' = now + 1 /\ UNCHANGED <<token, expires>>

Next == Grant \/ Extend \/ GiveBack \/ Tick

Spec == Init /\ [][Next]_vars
=================================================================================
