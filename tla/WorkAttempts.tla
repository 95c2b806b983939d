----------------------------- MODULE WorkAttempts -----------------------------
(***************************************************************************)
(* What the durable work queue promises about the attempts at a work item, *)
(* with no leases, clocks, capacities or receipts: an item is handed out   *)
(* at most MaxAttempts times, one attempt at a time; an attempt whose fate *)
(* is unknown is never handed out again before somebody settled it; and a  *)
(* finished item stays finished until it is forgotten.                     *)
(***************************************************************************)
EXTENDS Naturals

CONSTANTS WorkItems, MaxAttempts

VARIABLES phase, attempt

Phases == {"absent", "waiting", "revived", "held", "doubt", "failed", "done"}

Unfinished == {"waiting", "revived", "held", "doubt"}

Init ==
  /\ phase = [i \in WorkItems |-> "absent"]
  /\ attempt = [i \in WorkItems |-> 0]

Goes(i, from, to) == phase[i] \in from /\ phase'[i] = to

Submit(i) == Goes(i, {"absent"}, "waiting") /\ attempt'[i] = 0

\* The only step that starts an attempt.
Begin(i) ==
  /\ Goes(i, {"waiting", "revived"}, "held")
  /\ attempt[i] < MaxAttempts
  /\ attempt'[i] = attempt[i] + 1

Doubt(i) == Goes(i, {"held"}, "doubt") /\ attempt'[i] = attempt[i]

\* Back to waiting, with an attempt left to spend.
GiveBack(i) ==
  /\ Goes(i, {"held", "doubt"}, "waiting")
  /\ attempt[i] < MaxAttempts
  /\ attempt'[i] = attempt[i]

Settle(i) ==
  /\ Goes(i, Unfinished, "failed") \/ Goes(i, Unfinished, "done")
  /\ attempt'[i] = attempt[i]

Revive(i) == Goes(i, {"failed"}, "revived") /\ attempt'[i] = attempt[i]

\* Retention; an item may be settled and forgotten in one step.
Forget(i) == Goes(i, Phases \ {"absent"}, "absent") /\ attempt'[i] = 0

Same(i) == phase'[i] = phase[i] /\ attempt'[i] = attempt[i]

\* The steps of different items are independent and may happen together.
Next ==
  /\ phase' = [i \in WorkItems |-> phase'[i]]
  /\ attempt' = [i \in WorkItems |-> attempt'[i]]
  /\ \A i \in WorkItems :
       \/ Submit(i) \/ Begin(i) \/ Doubt(i) \/ GiveBack(i)
       \/ Settle(i) \/ Revive(i) \/ Forget(i) \/ Same(i)

Spec == Init /\ [][Next]_<<phase, attempt>>
===============================================================================
