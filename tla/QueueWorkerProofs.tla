--------------------------- MODULE QueueWorkerProofs ---------------------------
(***************************************************************************)
(* Theorems about QueueWorker for every set of items, every budget of      *)
(* attempts and whatever handlers do; and, in the last two parts, about    *)
(* PushDispatcher, which builds on it, for any number of work items, any   *)
(* limit and any batch.                                                    *)
(*                                                                         *)
(* The argument goes by what a step makes of one item: a settlement leaves *)
(* it, finishes it, or gives it back under the lease of the execution that *)
(* settles, and only a claim starts handlers.                              *)
(***************************************************************************)
EXTENDS PushDispatcher, SumTheorems, TLAPS

StoreTypes ==
  /\ phase \in [WorkItems -> Store!Phases]
  /\ attempt \in [WorkItems -> 0..MaxAttempts]
  /\ \A i \in WorkItems : phase[i] = "absent" => attempt[i] = 0

\* An item is settled, or stays as it is.
SettledOrSame(i) ==
  \/ phase'[i] = phase[i]
  \/ phase[i] \in Store!Unfinished /\ phase'[i] \in {"failed", "done"}

\* Item i is all that changes in the store, and no attempt is begun.
OnlyItem(i) ==
  /\ phase' \in [WorkItems -> Store!Phases]
  /\ attempt' = attempt
  /\ \A j \in WorkItems : j # i => phase'[j] = phase[j]

LEMMA Budget == MaxAttempts \in Nat \ {0}
BY WorkerAssumption

\* An execution's item, and its attempt.
LEMMA ExecutionIs ==
  ASSUME NEW e \in Executions
  PROVE  e[1] \in WorkItems /\ e[2] \in 1..MaxAttempts /\ e = <<e[1], e[2]>>
BY DEF Executions

LEMMA BecomesIs ==
  ASSUME StoreTypes, NEW i \in WorkItems, NEW p \in Store!Phases, Becomes(i, p)
  PROVE  OnlyItem(i) /\ phase'[i] = p
BY DEF StoreTypes, Becomes, OnlyItem

-----------------------------------------------------------------------------
(***************************************************************************)
(* What a step makes of an item.                                           *)
(***************************************************************************)
LEMMA SettleIs ==
  ASSUME StoreTypes, NEW e \in Executions, NEW outcome, Settle(e, outcome)
  PROVE  /\ OnlyItem(e[1])
         /\ \/ SettledOrSame(e[1])
            \/ /\ outcome = "retry" /\ Holds(e) /\ attempt[e[1]] < MaxAttempts
               /\ phase'[e[1]] = "waiting"
<1> DEFINE i == e[1]
<1>1. i \in WorkItems /\ phase[i] \in Store!Phases
  BY ExecutionIs DEF StoreTypes
<1>2. PICK p \in Results(e, outcome) : Becomes(i, p)
  BY DEF Settle
<1>3. \/ p = phase[i]
      \/ phase[i] \in Store!Unfinished /\ p \in {"failed", "done"}
      \/ outcome = "retry" /\ Holds(e) /\ attempt[i] < MaxAttempts /\ p = "waiting"
  <2>1. Holds(e) => phase[i] \in Store!Unfinished
    BY DEF Holds, Store!Unfinished
  <2>2. FailTakes(e) => phase[i] \in Store!Unfinished
    BY <2>1 DEF FailTakes
  <2>3. Late(i) => phase[i] \in Store!Unfinished
    BY DEF Late
  <2>4. CASE Late(i)
    BY <1>2, <2>3, <2>4 DEF Results
  <2>5. CASE ~Late(i) /\ outcome = "failed" /\ FailTakes(e)
    BY <1>2, <2>2, <2>5 DEF Results
  <2>6. CASE ~Late(i) /\ outcome = "retry" /\ Holds(e)
    BY <1>2, <2>1, <2>6 DEF Results
  <2>7. CASE ~Late(i) /\ outcome \in {"completed", "cancelled"} /\ Holds(e)
    BY <1>2, <2>1, <2>7 DEF Results
  <2>8. CASE /\ ~Late(i)
             /\ ~(outcome = "failed" /\ FailTakes(e))
             /\ ~(outcome = "retry" /\ Holds(e))
             /\ ~(outcome \in {"completed", "cancelled"} /\ Holds(e))
    BY <1>2, <2>8 DEF Results
  <2> QED
    BY <2>4, <2>5, <2>6, <2>7, <2>8
<1>4. p \in Store!Phases
  BY <1>1, <1>3 DEF Store!Phases
<1>5. OnlyItem(i) /\ phase'[i] = p
  BY <1>1, <1>2, <1>4, BecomesIs
<1> QED
  BY <1>3, <1>5 DEF SettledOrSame

LEMMA MarkInDoubtIs ==
  ASSUME StoreTypes, NEW e \in Executions, MarkInDoubt(e)
  PROVE  /\ OnlyItem(e[1])
         /\ SettledOrSame(e[1]) \/ (phase[e[1]] = "held" /\ phase'[e[1]] = "doubt")
<1>1. e[1] \in WorkItems /\ phase[e[1]] \in Store!Phases
  BY ExecutionIs DEF StoreTypes
<1>2. "doubt" \in Store!Phases
  BY DEF Store!Phases
<1> QED
  BY <1>1, <1>2, BecomesIs DEF MarkInDoubt, SettledOrSame

\* What a claim makes of one item.
Claimed(i) ==
  \/ SettledOrSame(i) /\ attempt'[i] = attempt[i]
  \/ phase[i] = "held" /\ phase'[i] = "doubt" /\ attempt'[i] = attempt[i]
  \/ /\ phase[i] \in {"waiting", "revived"} /\ phase'[i] = "held"
     /\ attempt[i] < MaxAttempts /\ attempt'[i] = attempt[i] + 1

LEMMA ClaimIs ==
  ASSUME StoreTypes, NEW S \in SUBSET Claimable, Claim(S)
  PROVE  /\ phase' \in [WorkItems -> Store!Phases]
         /\ attempt' \in [WorkItems -> 0..MaxAttempts]
         /\ \A i \in WorkItems : Claimed(i)
         /\ \A i \in Grants(S) : /\ i \in WorkItems /\ phase[i] \in {"waiting", "revived"}
                                 /\ phase'[i] = "held" /\ attempt'[i] = attempt[i] + 1
         /\ \A i \in WorkItems \ Grants(S) : phase'[i] # "held" \/ phase[i] = "held"
         /\ \A i \in WorkItems \ Grants(S) : attempt'[i] = attempt[i]
<1>1. ASSUME NEW i \in WorkItems
      PROVE  /\ Swept(i) \in Store!Phases
             /\ \/ Swept(i) = phase[i]
                \/ Swept(i) = "done" /\ phase[i] \in Store!Unfinished
                \/ Swept(i) = "doubt" /\ phase[i] = "held"
             /\ i \in Claimable => phase[i] \in {"waiting", "revived"}
  <2>1. phase[i] \in Store!Phases
    BY DEF StoreTypes
  <2>2. \/ Swept(i) = phase[i]
        \/ Swept(i) = "done" /\ phase[i] \in Store!Unfinished
        \/ Swept(i) = "doubt" /\ phase[i] = "held"
    BY DEF Swept, Store!Unfinished
  <2> QED
    BY <2>1, <2>2 DEF Claimable, Store!Phases
<1>2. Grants(S) \subseteq S /\ S \subseteq WorkItems
  BY DEF Grants, Claimable
<1>3. /\ phase' = [i \in WorkItems |-> CASE i \in Grants(S) -> "held"
                                         [] i \in S \ Grants(S) -> "failed"
                                         [] OTHER -> Swept(i)]
      /\ attempt' = [i \in WorkItems |->
                       IF i \in Grants(S) THEN attempt[i] + 1 ELSE attempt[i]]
  BY DEF Claim
<1>4. ASSUME NEW i \in WorkItems
      PROVE  /\ i \in Grants(S) => /\ phase'[i] = "held" /\ attempt'[i] = attempt[i] + 1
                                   /\ attempt[i] < MaxAttempts
             /\ i \in S \ Grants(S) => phase'[i] = "failed" /\ attempt'[i] = attempt[i]
             /\ i \notin S => phase'[i] = Swept(i) /\ attempt'[i] = attempt[i]
             /\ i \in S => phase[i] \in {"waiting", "revived"}
  BY <1>1, <1>2, <1>3 DEF Grants
<1>5. ASSUME NEW i \in WorkItems
      PROVE  /\ Claimed(i) /\ phase'[i] \in Store!Phases /\ attempt'[i] \in 0..MaxAttempts
             /\ i \notin Grants(S) => attempt'[i] = attempt[i]
             /\ i \notin Grants(S) => phase'[i] # "held" \/ phase[i] = "held"
  <2>1. attempt[i] \in 0..MaxAttempts
    BY DEF StoreTypes
  <2>2. CASE i \in Grants(S)
    BY <1>2, <1>4, <2>1, <2>2, Budget DEF Claimed, Store!Phases
  <2>3. CASE i \in S \ Grants(S)
    BY <1>4, <2>1, <2>3 DEF Claimed, SettledOrSame, Store!Phases, Store!Unfinished
  <2>4. CASE i \notin S
    BY <1>1, <1>2, <1>4, <2>1, <2>4 DEF Claimed, SettledOrSame
  <2> QED
    BY <2>2, <2>3, <2>4
<1>6. phase' \in [WorkItems -> Store!Phases] /\ attempt' \in [WorkItems -> 0..MaxAttempts]
  BY <1>3, <1>5
<1> QED
  BY <1>2, <1>4, <1>5, <1>6

\* What any other step makes of its item.
Handled(i) ==
  \/ SettledOrSame(i)
  \/ phase[i] = "held" /\ phase'[i] = "doubt"
  \/ phase[i] \in {"held", "doubt"} /\ phase'[i] = "waiting" /\ attempt[i] < MaxAttempts
  \/ phase[i] = "absent" /\ phase'[i] = "waiting"
  \/ phase[i] = "failed" /\ phase'[i] = "revived"

LEMMA EnvironmentIs ==
  ASSUME StoreTypes, NEW i \in WorkItems, Enqueue(i) \/ Lapse(i) \/ Deadline(i) \/ Operator(i)
  PROVE  OnlyItem(i) /\ Handled(i)
<1> phase[i] \in Store!Phases
  BY DEF StoreTypes
<1>1. CASE Enqueue(i)
  BY <1>1, BecomesIs DEF Enqueue, Handled, Store!Phases
<1>2. CASE Lapse(i) \/ Deadline(i)
  BY <1>2 DEF Lapse, Deadline, OnlyItem, StoreTypes, Handled, SettledOrSame
<1>3. CASE Operator(i)
  <2>1. CASE phase[i] \in Store!Unfinished /\ Becomes(i, "done")
    BY <2>1, BecomesIs DEF Handled, SettledOrSame, Store!Phases
  <2>2. CASE phase[i] \in Store!Unfinished /\ Becomes(i, IF Late(i) THEN "done" ELSE "failed")
    BY <2>2, BecomesIs DEF Handled, SettledOrSame, Store!Phases
  <2>3. CASE phase[i] = "failed" /\ Becomes(i, "revived")
    BY <2>3, BecomesIs DEF Handled, Store!Phases
  <2>4. CASE /\ phase[i] = "doubt"
             /\ \E p \in {"done", "failed"} \cup
                         (IF attempt[i] < MaxAttempts THEN {"waiting"} ELSE {}) : Becomes(i, p)
    <3>1. PICK p \in {"done", "failed"} \cup
                     (IF attempt[i] < MaxAttempts THEN {"waiting"} ELSE {}) : Becomes(i, p)
      BY <2>4
    <3>2. p \in {"done", "failed"} \/ (p = "waiting" /\ attempt[i] < MaxAttempts)
      BY <3>1
    <3> QED
      BY <2>4, <3>1, <3>2, BecomesIs DEF Handled, SettledOrSame, Store!Phases, Store!Unfinished
  <2> QED
    BY <1>3, <2>1, <2>2, <2>3, <2>4 DEF Operator
<1> QED
  BY <1>1, <1>2, <1>3

LEMMA ExecutionStepIs ==
  ASSUME StoreTypes, NEW e \in Executions, HandlerStep(e) \/ RuntimeStep(e)
  PROVE  OnlyItem(e[1]) /\ Handled(e[1])
<1>1. ASSUME UNCHANGED storeVars PROVE OnlyItem(e[1]) /\ Handled(e[1])
  BY <1>1 DEF storeVars, OnlyItem, StoreTypes, Handled, SettledOrSame
<1>2. ASSUME NEW outcome, Settle(e, outcome) PROVE OnlyItem(e[1]) /\ Handled(e[1])
  BY <1>2, SettleIs DEF Handled, Holds
<1>3. ASSUME MarkInDoubt(e) PROVE OnlyItem(e[1]) /\ Handled(e[1])
  BY <1>3, MarkInDoubtIs DEF Handled
<1>4. CASE HandlerStep(e)
  BY <1>1, <1>2, <1>4
    DEF HandlerStep, HandlerReturns, HandlerThrows, ContextSettles, ContextCallFails
<1>5. CASE RuntimeStep(e)
  BY <1>1, <1>2, <1>3, <1>5
    DEF RuntimeStep, Abort, Interrupt, RenewalRejected, Fence, Apply, Fallback,
        FallbackExhausted, StoreError
<1> QED
  BY <1>4, <1>5

\* Every step, seen from the store.
LEMMA StepIs ==
  ASSUME StoreTypes, [Next]_vars
  PROVE  \/ \E i \in WorkItems : OnlyItem(i) /\ Handled(i)
         \/ \E S \in SUBSET Claimable : ClaimAndStart(S)
         \/ UNCHANGED vars
<1>1. ASSUME NEW e \in Executions, HandlerStep(e) \/ RuntimeStep(e)
      PROVE  \E i \in WorkItems : OnlyItem(i) /\ Handled(i)
  BY <1>1, ExecutionStepIs, ExecutionIs
<1> QED
  BY <1>1, EnvironmentIs DEF Next, Environment

-----------------------------------------------------------------------------
(***************************************************************************)
(* The store keeps the promise of WorkAttempts.                            *)
(***************************************************************************)
LEMMA OnlyItemRefines ==
  ASSUME StoreTypes, NEW i \in WorkItems, OnlyItem(i), Handled(i)
  PROVE  StoreTypes' /\ Store!Next
<1>1. StoreTypes'
  BY DEF StoreTypes, OnlyItem, Handled, SettledOrSame, Store!Unfinished
<1>2. attempt' = attempt /\ \A j \in WorkItems : j # i => phase'[j] = phase[j]
  BY DEF OnlyItem
<1>3. ASSUME NEW j \in WorkItems
      PROVE  \/ Store!Submit(j) \/ Store!Doubt(j) \/ Store!GiveBack(j)
             \/ Store!Settle(j) \/ Store!Revive(j) \/ Store!Same(j)
  <2>1. CASE j # i
    BY <1>2, <2>1 DEF Store!Same
  <2>2. CASE j = i
    BY <1>2, <2>2
      DEF Handled, SettledOrSame, StoreTypes, Store!Same, Store!Settle, Store!Doubt,
          Store!GiveBack, Store!Submit, Store!Revive, Store!Goes
  <2> QED
    BY <2>1, <2>2
<1>4. /\ phase' = [j \in WorkItems |-> phase'[j]]
      /\ attempt' = [j \in WorkItems |-> attempt'[j]]
  BY <1>1 DEF StoreTypes
<1> QED
  BY <1>1, <1>3, <1>4 DEF Store!Next

LEMMA ClaimRefines ==
  ASSUME StoreTypes, NEW S \in SUBSET Claimable, Claim(S)
  PROVE  StoreTypes' /\ Store!Next
<1>1. /\ phase' \in [WorkItems -> Store!Phases] /\ attempt' \in [WorkItems -> 0..MaxAttempts]
      /\ \A i \in WorkItems : Claimed(i)
  BY ClaimIs
<1>2. StoreTypes'
  BY <1>1 DEF StoreTypes, Claimed, SettledOrSame
<1>3. \A i \in WorkItems : Store!Begin(i) \/ Store!Doubt(i) \/ Store!Settle(i) \/ Store!Same(i)
  BY <1>1 DEF Claimed, SettledOrSame, Store!Begin, Store!Doubt, Store!Settle, Store!Same,
     Store!Goes
<1>4. /\ phase' = [j \in WorkItems |-> phase'[j]]
      /\ attempt' = [j \in WorkItems |-> attempt'[j]]
  BY <1>1
<1> QED
  BY <1>2, <1>3, <1>4 DEF Store!Next

LEMMA StoreStep ==
  ASSUME StoreTypes, [Next]_vars
  PROVE  StoreTypes' /\ [Store!Next]_<<phase, attempt>>
<1>1. CASE UNCHANGED vars
  BY <1>1 DEF vars, StoreTypes
<1>2. ASSUME NEW S \in SUBSET Claimable, ClaimAndStart(S)
      PROVE  StoreTypes' /\ Store!Next
  BY <1>2, ClaimRefines DEF ClaimAndStart
<1> QED
  BY <1>1, <1>2, StepIs, OnlyItemRefines

LEMMA StoreInit == Init => StoreTypes
BY Budget DEF Init, StoreTypes, Store!Phases

LEMMA StoreTyped == Spec => []StoreTypes
BY StoreInit, StoreStep, PTL DEF Spec

\* What workers, handlers and operators make of the store never breaks its promise:
\* no attempt in doubt is handed out unsettled, nothing finished is handed out again,
\* and no item is begun more often than its budget allows (runLeased, claimTx).
THEOREM WorkerKeepsThePromise == Spec => ImplementsAttempts
<1>1. Init => Store!Init
  BY DEF Init, Store!Init
<1>2. StoreTypes /\ [Next]_vars => [Store!Next]_<<phase, attempt>>
  BY StoreStep
<1> QED
  BY <1>1, <1>2, StoreTyped, PTL DEF Spec, ImplementsAttempts, Store!Spec

-----------------------------------------------------------------------------
(***************************************************************************)
(* Handlers do not overlap, unless they are declared terminable, ask for a *)
(* retry while they go on, or an operator interferes with an item whose    *)
(* attempt is in doubt.                                                    *)
(***************************************************************************)
Cautious ==
  /\ Terminable = {}
  /\ "retry" \notin ContextCalls
  /\ OperatorActions \cap {"recover", "acknowledge"} = {}

\* A live handler works on the attempt that is held, or on one nobody will follow.
InHand(e) ==
  \/ phase[e[1]] = "held" /\ attempt[e[1]] = e[2]
  \/ phase[e[1]] \in {"doubt", "failed", "done"}

\* The places runLeased reaches only after the handler has ended.
AfterTheHandler == {"fencing", "applying", "fallback", "exhausted"}

WorkerInv ==
  /\ StoreTypes
  /\ runs \in [Executions -> Run]
  /\ \A i \in WorkItems : phase[i] # "revived"
  /\ \A e \in Executions : runs[e].handler = "alive" => InHand(e)
  /\ \A e \in Executions : runs[e].at \in AfterTheHandler => runs[e].handler = "ended"
  /\ NoOverlap

\* A step of an execution changes no other, and starts no handler.
RunsGoOn ==
  /\ runs' \in [Executions -> Run]
  /\ \A e \in Executions : runs'[e].handler = "alive" => runs[e].handler = "alive"
  /\ \A e \in Executions : runs'[e].at \in AfterTheHandler => runs'[e].handler = "ended"

LEMMA GoesOn ==
  ASSUME WorkerInv, NEW e \in Executions, NEW from, NEW to \in Places,
         Goes(e, from, to) \/ GoesSettled(e, from, to),
         to \in AfterTheHandler => runs[e].handler = "ended"
  PROVE  RunsGoOn
<1>1. /\ runs \in [Executions -> Run] /\ runs[e] \in Run
      /\ \A f \in Executions : runs[f].at \in AfterTheHandler => runs[f].handler = "ended"
  BY DEF WorkerInv
<1>2. /\ [runs[e] EXCEPT !.at = to] \in Run
      /\ [runs[e] EXCEPT !.at = to].at = to
      /\ [runs[e] EXCEPT !.at = to].handler = runs[e].handler
      /\ [runs[e] EXCEPT !.at = to, !.settled = TRUE] \in Run
      /\ [runs[e] EXCEPT !.at = to, !.settled = TRUE].at = to
      /\ [runs[e] EXCEPT !.at = to, !.settled = TRUE].handler = runs[e].handler
  BY <1>1 DEF Run
<1>3. PICK r \in {[runs[e] EXCEPT !.at = to], [runs[e] EXCEPT !.at = to, !.settled = TRUE]} :
        runs' = [runs EXCEPT ![e] = r]
  BY DEF Goes, GoesSettled
<1>4. r \in Run /\ r.at = to /\ r.handler = runs[e].handler
  BY <1>2, <1>3
<1>5. runs' \in [Executions -> Run] /\ runs'[e] = r
      /\ \A f \in Executions : f # e => runs'[f] = runs[f]
  BY <1>1, <1>3, <1>4
<1> QED
  BY <1>1, <1>4, <1>5 DEF RunsGoOn

LEMMA HandlerGoesOn ==
  ASSUME WorkerInv, NEW e \in Executions, HandlerStep(e)
  PROVE  RunsGoOn
<1>1. /\ runs \in [Executions -> Run] /\ runs[e] \in Run
      /\ \A f \in Executions : runs[f].at \in AfterTheHandler => runs[f].handler = "ended"
  BY DEF WorkerInv
<1>2. PICK r \in Run :
        /\ runs' = [runs EXCEPT ![e] = r]
        /\ runs[e].handler = "alive"
        /\ r.handler = "ended" \/ (r.handler = "alive" /\ r.at = runs[e].at)
  <2>1. ASSUME NEW outcome \in Outcomes, HandlerReturns(e, outcome)
        PROVE  \E r \in Run : runs' = [runs EXCEPT ![e] = r] /\ r.handler = "ended"
    <3> DEFINE r == [runs[e] EXCEPT !.handler = "ended",
                             !.outcome = IF runs[e].at = "racing" /\ ~runs[e].settled
                                           THEN outcome ELSE @,
                             !.at = CASE runs[e].at # "racing" -> runs[e].at
                                      [] runs[e].at = "racing" /\ runs[e].settled -> "returned"
                                      [] OTHER -> "fencing"]
    <3>1. runs' = [runs EXCEPT ![e] = r]
      BY <2>1 DEF HandlerReturns
    <3>2. r.handler = "ended" /\ r.settled = runs[e].settled
          /\ r.outcome \in Outcomes \cup {"none"} /\ r.at \in Places
      BY <1>1 DEF Run, Places
    <3>3. r \in Run
      BY <1>1, <3>2 DEF Run
    <3> QED
      BY <3>1, <3>2, <3>3
  <2>2. ASSUME HandlerThrows(e)
        PROVE  \E r \in Run : runs' = [runs EXCEPT ![e] = r] /\ r.handler = "ended"
    <3> DEFINE r == [runs[e] EXCEPT !.handler = "ended",
                             !.settled = @ \/ runs[e].at = "racing",
                             !.at = CASE runs[e].at # "racing" -> runs[e].at
                                      [] runs[e].at = "racing" /\ runs[e].settled -> "returned"
                                      [] OTHER -> "fallback"]
    <3>1. runs' = [runs EXCEPT ![e] = r]
      BY <2>2 DEF HandlerThrows
    <3>2. r.handler = "ended" /\ r.settled \in BOOLEAN
          /\ r.outcome = runs[e].outcome /\ r.at \in Places
      BY <1>1 DEF Run, Places
    <3>3. r \in Run
      BY <1>1, <3>2 DEF Run
    <3> QED
      BY <3>1, <3>2, <3>3
  <2>3. ASSUME NEW call \in ContextCalls, ContextSettles(e, call) \/ ContextCallFails(e)
        PROVE  \E r \in Run : /\ runs' = [runs EXCEPT ![e] = r]
                              /\ r.handler = "alive" /\ r.at = runs[e].at
    <3> DEFINE r == [runs[e] EXCEPT !.settled = TRUE]
    <3>1. r \in Run /\ r.handler = runs[e].handler /\ r.at = runs[e].at
      BY <1>1 DEF Run
    <3>2. runs' = [runs EXCEPT ![e] = r] /\ runs[e].handler = "alive"
      BY <2>3 DEF ContextSettles, ContextCallFails
    <3> QED
      BY <3>1, <3>2
  <2>4. runs[e].handler = "alive"
    BY DEF HandlerStep, HandlerReturns, HandlerThrows, ContextSettles, ContextCallFails
  <2> QED
    BY <2>1, <2>2, <2>3, <2>4 DEF HandlerStep
<1>3. runs' \in [Executions -> Run] /\ runs'[e] = r
      /\ \A f \in Executions : f # e => runs'[f] = runs[f]
  BY <1>1, <1>2
<1> QED
  BY <1>1, <1>2, <1>3 DEF RunsGoOn

LEMMA RuntimeGoesOn ==
  ASSUME WorkerInv, NEW e \in Executions, RuntimeStep(e)
  PROVE  RunsGoOn
<1>1. runs[e].at \in AfterTheHandler => runs[e].handler = "ended"
  BY DEF WorkerInv
<1>2. /\ \A p \in {"returned", "interrupt", "applying", "exhausted"} : p \in Places
      /\ "returned" \notin AfterTheHandler /\ "interrupt" \notin AfterTheHandler
  BY DEF Places, AfterTheHandler
<1>3. CASE Abort(e)
  BY <1>2, <1>3, GoesOn DEF Abort
<1>4. CASE Interrupt(e) \/ RenewalRejected(e) \/ Apply(e) \/ FallbackExhausted(e)
  BY <1>2, <1>4, GoesOn DEF Interrupt, RenewalRejected, Apply, FallbackExhausted
<1>5. CASE Fence(e)
  <2>1. runs[e].handler = "ended"
    BY <1>1, <1>5 DEF Fence, Goes, GoesSettled, AfterTheHandler
  <2> QED
    BY <1>2, <1>5, <2>1, GoesOn DEF Fence
<1>6. CASE Fallback(e)
  <2>1. runs[e].handler = "ended"
    BY <1>1, <1>6 DEF Fallback, Goes, AfterTheHandler
  <2>2. PICK to \in {"returned", "exhausted"} : Goes(e, {"fallback"}, to)
    BY <1>6 DEF Fallback
  <2> QED
    BY <1>2, <2>1, <2>2, GoesOn
<1>7. CASE StoreError(e)
  <2>1. CASE Goes(e, {"fallback"}, "exhausted")
    <3>1. runs[e].handler = "ended"
      BY <1>1, <2>1 DEF Goes, AfterTheHandler
    <3> QED
      BY <1>2, <2>1, <3>1, GoesOn
  <2>2. CASE Goes(e, {"racing", "fencing", "applying", "interrupt", "exhausted"}, "returned")
    BY <1>2, <2>2, GoesOn
  <2> QED
    BY <1>7, <2>1, <2>2 DEF StoreError
<1> QED
  BY <1>3, <1>4, <1>5, <1>6, <1>7 DEF RuntimeStep

\* An item is settled, put in doubt, or handed on with no live handler on it.
HandedOn(i) ==
  \/ SettledOrSame(i)
  \/ phase[i] = "held" /\ phase'[i] = "doubt"
  \/ phase'[i] = "waiting" /\ \A e \in Executions : e[1] = i => runs[e].handler # "alive"

\* Who holds a lease is the only one at work on its item.
LEMMA HolderIsAlone ==
  ASSUME WorkerInv, NEW e \in Executions, Holds(e), runs[e].handler # "alive"
  PROVE  \A f \in Executions : f[1] = e[1] => runs[f].handler # "alive"
<1> SUFFICES ASSUME NEW f \in Executions, f[1] = e[1], runs[f].handler = "alive"
             PROVE  FALSE
  OBVIOUS
<1>1. f[2] = e[2]
  BY DEF WorkerInv, InHand, Holds
<1>2. f = e
  BY <1>1, ExecutionIs
<1> QED
  BY <1>2

LEMMA CautiousExecution ==
  ASSUME Cautious, WorkerInv, NEW e \in Executions, HandlerStep(e) \/ RuntimeStep(e)
  PROVE  OnlyItem(e[1]) /\ HandedOn(e[1])
<1>1. StoreTypes
  BY DEF WorkerInv
<1>2. ASSUME UNCHANGED storeVars PROVE OnlyItem(e[1]) /\ HandedOn(e[1])
  BY <1>1, <1>2 DEF storeVars, OnlyItem, StoreTypes, HandedOn, SettledOrSame
<1>3. ASSUME NEW outcome, Settle(e, outcome), outcome = "retry" => runs[e].handler = "ended"
      PROVE  OnlyItem(e[1]) /\ HandedOn(e[1])
  BY <1>1, <1>3, SettleIs, HolderIsAlone DEF HandedOn
<1>4. ASSUME MarkInDoubt(e) PROVE OnlyItem(e[1]) /\ HandedOn(e[1])
  BY <1>1, <1>4, MarkInDoubtIs DEF HandedOn
<1>5. runs[e].at \in AfterTheHandler => runs[e].handler = "ended"
  BY DEF WorkerInv
<1>6. CASE HandlerStep(e)
  BY <1>2, <1>3, <1>6
    DEF HandlerStep, HandlerReturns, HandlerThrows, ContextSettles, ContextCallFails, Cautious
<1>7. CASE Apply(e) \/ Fallback(e)
  <2>1. runs[e].handler = "ended"
    BY <1>5, <1>7 DEF Apply, Fallback, Goes, AfterTheHandler
  <2> QED
    BY <1>3, <1>7, <2>1 DEF Apply, Fallback
<1>8. CASE RenewalRejected(e) \/ Fence(e) \/ FallbackExhausted(e)
  <2>1. PICK outcome \in {"progress", "failed"} : Settle(e, outcome)
    BY <1>8 DEF RenewalRejected, Fence, FallbackExhausted
  <2> QED
    BY <1>3, <2>1
<1>9. CASE Interrupt(e)
  BY <1>4, <1>9 DEF Interrupt, Cautious
<1>10. CASE Abort(e) \/ StoreError(e)
  BY <1>2, <1>10 DEF Abort, StoreError
<1> QED
  BY <1>6, <1>7, <1>8, <1>9, <1>10 DEF RuntimeStep

LEMMA CautiousEnvironment ==
  ASSUME Cautious, WorkerInv, NEW i \in WorkItems,
         Enqueue(i) \/ Lapse(i) \/ Deadline(i) \/ Operator(i)
  PROVE  OnlyItem(i) /\ HandedOn(i) /\ runs' = runs
<1>1. StoreTypes /\ phase[i] \in Store!Phases
  BY DEF WorkerInv, StoreTypes
<1>2. CASE Enqueue(i)
  <2>1. OnlyItem(i) /\ phase'[i] = "waiting"
    BY <1>1, <1>2, BecomesIs DEF Enqueue, Store!Phases
  <2>2. \A e \in Executions : e[1] = i => runs[e].handler # "alive"
    BY <1>2 DEF Enqueue, WorkerInv, InHand
  <2> QED
    BY <1>2, <2>1, <2>2 DEF Enqueue, HandedOn
<1>3. CASE Lapse(i) \/ Deadline(i)
  BY <1>1, <1>3 DEF Lapse, Deadline, OnlyItem, StoreTypes, HandedOn, SettledOrSame
<1>4. CASE Operator(i)
  <2>1. /\ phase[i] \in Store!Unfinished
        /\ \E p \in {"failed", "done"} : Becomes(i, p)
    BY <1>4 DEF Operator, Cautious
  <2> QED
    BY <1>1, <1>4, <2>1, BecomesIs DEF Operator, HandedOn, SettledOrSame, Store!Phases
<1> QED
  BY <1>2, <1>3, <1>4

LEMMA HandedOnKeepsHandlers ==
  ASSUME WorkerInv, NEW i \in WorkItems, OnlyItem(i), HandedOn(i), RunsGoOn, StoreTypes'
  PROVE  WorkerInv'
<1>1. \A j \in WorkItems : phase'[j] # "revived"
  BY DEF WorkerInv, OnlyItem, HandedOn, SettledOrSame
<1>2. ASSUME NEW e \in Executions, runs'[e].handler = "alive"
      PROVE  InHand(e)'
  <2>1. InHand(e) /\ runs[e].handler = "alive"
    BY <1>2 DEF RunsGoOn, WorkerInv
  <2>2. e[1] \in WorkItems /\ attempt' = attempt
    BY ExecutionIs DEF OnlyItem
  <2>3. CASE e[1] # i
    BY <2>1, <2>2, <2>3 DEF OnlyItem, InHand
  <2>4. CASE e[1] = i
    BY <2>1, <2>2, <2>4 DEF HandedOn, SettledOrSame, InHand
  <2> QED
    BY <2>3, <2>4
<1>3. NoOverlap'
  BY DEF WorkerInv, RunsGoOn, NoOverlap
<1> QED
  BY <1>1, <1>2, <1>3 DEF WorkerInv, RunsGoOn

LEMMA ClaimKeepsHandlers ==
  ASSUME WorkerInv, NEW S \in SUBSET Claimable, ClaimAndStart(S)
  PROVE  WorkerInv'
<1>1. StoreTypes /\ runs \in [Executions -> Run]
  BY DEF WorkerInv
<1>2. StoreTypes'
  BY <1>1, ClaimRefines DEF ClaimAndStart
<1>3. /\ \A i \in WorkItems : Claimed(i)
      /\ \A i \in Grants(S) : /\ i \in WorkItems /\ phase[i] \in {"waiting", "revived"}
                              /\ phase'[i] = "held" /\ attempt'[i] = attempt[i] + 1
  BY <1>1, ClaimIs DEF ClaimAndStart
<1>4. /\ runs' = Started(Leases(S))
      /\ \A e \in Leases(S) : e[1] \in Grants(S) /\ e[2] = attempt[e[1]] + 1
  BY DEF ClaimAndStart, Leases
<1> DEFINE r == [NoRun EXCEPT !.at = "racing", !.handler = "alive"]
<1>5. r \in Run /\ r.at = "racing" /\ r.handler = "alive"
  BY DEF NoRun, Run, Places
<1>6. \A e \in Executions : runs'[e] = IF e \in Leases(S) THEN r ELSE runs[e]
  BY <1>4 DEF Started
<1>7. runs' \in [Executions -> Run]
  BY <1>1, <1>4, <1>5 DEF Started
<1>8. \A i \in WorkItems : phase'[i] # "revived"
  BY <1>3 DEF WorkerInv, Claimed, SettledOrSame
<1>9. \A e \in Executions : runs'[e].at \in AfterTheHandler => runs'[e].handler = "ended"
  BY <1>5, <1>6 DEF WorkerInv, AfterTheHandler
<1>10. ASSUME NEW e \in Executions, runs'[e].handler = "alive"
       PROVE  /\ InHand(e)'
              /\ e[1] \in Grants(S) => e \in Leases(S)
  <2>1. CASE e \in Leases(S)
    BY <1>3, <1>4, <2>1 DEF InHand
  <2>2. CASE e \notin Leases(S)
    <3>1. InHand(e) /\ e[1] \in WorkItems
      BY <1>6, <1>10, <2>2, ExecutionIs DEF WorkerInv
    <3>2. Claimed(e[1]) /\ e[1] \notin Grants(S)
      BY <1>3, <3>1 DEF InHand
    <3> QED
      BY <3>1, <3>2 DEF Claimed, SettledOrSame, InHand
  <2> QED
    BY <2>1, <2>2
<1>11. ASSUME NEW e \in Executions, NEW f \in Executions, e[1] = f[1],
              runs'[e].handler = "alive", runs'[f].handler = "alive"
       PROVE  e = f
  <2>1. CASE e[1] \in Grants(S)
    <3>1. e[2] = f[2]
      BY <1>4, <1>10, <1>11, <2>1
    <3> QED
      BY <1>11, <3>1, ExecutionIs
  <2>2. CASE e[1] \notin Grants(S)
    BY <1>4, <1>6, <1>11, <2>2 DEF WorkerInv, NoOverlap
  <2> QED
    BY <2>1, <2>2
<1> QED
  BY <1>2, <1>7, <1>8, <1>9, <1>10, <1>11 DEF WorkerInv, NoOverlap

LEMMA WorkerInit == Init => WorkerInv
<1> SUFFICES ASSUME Init PROVE WorkerInv
  OBVIOUS
<1>1. NoRun \in Run /\ NoRun.at = "none" /\ NoRun.handler = "idle"
  BY DEF NoRun, Run, Places
<1>2. runs \in [Executions -> Run] /\ \A e \in Executions : runs[e] = NoRun
  BY <1>1 DEF Init
<1>3. \A i \in WorkItems : phase[i] # "revived"
  BY DEF Init
<1> QED
  BY <1>1, <1>2, <1>3, StoreInit DEF WorkerInv, NoOverlap, AfterTheHandler

LEMMA WorkerStep ==
  ASSUME Cautious, WorkerInv, [Next]_vars
  PROVE  WorkerInv'
<1>1. StoreTypes
  BY DEF WorkerInv
<1>2. StoreTypes'
  BY <1>1, StoreStep
<1>3. ASSUME NEW i \in WorkItems, Enqueue(i) \/ Lapse(i) \/ Deadline(i) \/ Operator(i)
      PROVE  WorkerInv'
  <2>1. OnlyItem(i) /\ HandedOn(i) /\ runs' = runs
    BY <1>3, CautiousEnvironment
  <2>2. RunsGoOn
    BY <2>1 DEF WorkerInv, RunsGoOn
  <2> QED
    BY <1>2, <2>1, <2>2, HandedOnKeepsHandlers
<1>4. ASSUME NEW e \in Executions, HandlerStep(e) \/ RuntimeStep(e)
      PROVE  WorkerInv'
  BY <1>2, <1>4, CautiousExecution, HandlerGoesOn, RuntimeGoesOn, ExecutionIs,
     HandedOnKeepsHandlers
<1>5. ASSUME NEW S \in SUBSET Claimable, ClaimAndStart(S)
      PROVE  WorkerInv'
  BY <1>5, ClaimKeepsHandlers
<1>6. CASE UNCHANGED vars
  <2>1. phase' = phase /\ attempt' = attempt /\ runs' = runs
    BY <1>6 DEF vars
  <2> QED
    BY <1>2, <2>1 DEF WorkerInv, InHand, NoOverlap
<1> QED
  BY <1>3, <1>4, <1>5, <1>6 DEF Next, Environment

\* Whatever leases lapse, handlers outlive and store calls fail, no two handlers
\* are ever at work on one item: an interrupted attempt stays in doubt, and nobody
\* but the holder of a lease, whose handler has ended, gives an item back
\* (runLeased, markInDoubtTx, claimTx).
THEOREM HandlersNeverOverlap == ASSUME Cautious PROVE Spec => []NoOverlap
<1>1. Cautious /\ WorkerInv /\ [Next]_vars => WorkerInv'
  BY WorkerStep
<1>2. WorkerInv => NoOverlap
  BY DEF WorkerInv
<1>3. Cautious
  OBVIOUS
<1> QED
  BY WorkerInit, <1>1, <1>2, <1>3, PTL DEF Spec

-----------------------------------------------------------------------------
(***************************************************************************)
(* The credit of one dispatcher whose dispatchOnce is called by one caller *)
(* at a time, as the queue application port does.                          *)
(*                                                                         *)
(* Two calls at once may exceed it (DispatchOversubscribed.cfg): the       *)
(* reservation of a call ends when its claim returns, which is before the  *)
(* call puts its leases into the map when it has items to report first.    *)
(* With one call the leases in its hand stand for the reservation.         *)
(***************************************************************************)
InFlightShape == inFlight = [i \in WorkItems |-> inFlight[i]]

\* Call c alone reserves credit, and what it holds without a reservation fits as well.
CallInv(c) ==
  /\ calls = [d \in {c} |-> calls[d]]
  /\ calls[c] = [at |-> calls[c].at, batch |-> calls[c].batch,
                 leases |-> calls[c].leases, notices |-> calls[c].notices]
  /\ calls[c].batch \in Nat
  /\ calls[c].at \in {"idle", "notifying"} => calls[c].batch = 0
  /\ reserved = calls[c].batch
  /\ IsFiniteSet(calls[c].leases)
  /\ calls[c].at = "answered" => Cardinality(calls[c].leases) <= calls[c].batch
  /\ calls[c].at = "notifying" =>
       Cardinality(Entries) + Cardinality(calls[c].leases) <= CreditLimit

CreditInv(c) == InFlightShape /\ CallInv(c) /\ CreditRespected

-----------------------------------------------------------------------------
LEMMA EntriesFinite ==
  ASSUME IsFiniteSet(WorkItems)
  PROVE  IsFiniteSet(Entries) /\ Cardinality(Entries) \in Nat
BY FS_Subset, FS_CardinalityType DEF Entries

\* Each of a finite set's elements is mapped to one, so that there are no more of those.
LEMMA ImageBound ==
  ASSUME NEW S, IsFiniteSet(S), NEW f, f = [x \in S |-> f[x]]
  PROVE  /\ IsFiniteSet({f[x] : x \in S})
         /\ Cardinality({f[x] : x \in S}) <= Cardinality(S)
<1> DEFINE T == {f[x] : x \in S}
<1>1. f \in Surjection(S, T)
  BY DEF Surjection
<1> QED
  BY <1>1, FS_Surjection

LEMMA UnionBound ==
  ASSUME NEW S, NEW T, IsFiniteSet(S), IsFiniteSet(T)
  PROVE  /\ IsFiniteSet(S \cup T)
         /\ Cardinality(S \cup T) <= Cardinality(S) + Cardinality(T)
<1>1. /\ IsFiniteSet(S \cup T)
      /\ Cardinality(S \cup T) = Cardinality(S) + Cardinality(T) - Cardinality(S \cap T)
  BY FS_Union
<1>2. IsFiniteSet(S \cap T)
  BY FS_Intersection
<1>3. Cardinality(S) \in Nat /\ Cardinality(T) \in Nat /\ Cardinality(S \cap T) \in Nat
  BY <1>2, FS_CardinalityType
<1> QED
  BY <1>1, <1>3

\* A claim grants no more leases than it was asked for.
LEMMA LeasesBound ==
  ASSUME IsFiniteSet(WorkItems), NEW S \in SUBSET Claimable
  PROVE  IsFiniteSet(Leases(S)) /\ Cardinality(Leases(S)) <= Cardinality(S)
<1> DEFINE f == [i \in Grants(S) |-> <<i, attempt[i] + 1>>]
<1>1. IsFiniteSet(S)
  BY FS_Subset DEF Claimable
<1>2. /\ IsFiniteSet(Grants(S)) /\ Cardinality(Grants(S)) <= Cardinality(S)
  BY <1>1, FS_Subset DEF Grants
<1>3. Leases(S) = {f[i] : i \in Grants(S)}
  BY DEF Leases
<1>4. f = [i \in Grants(S) |-> f[i]]
  OBVIOUS
<1>5. Cardinality(Grants(S)) \in Nat /\ Cardinality(S) \in Nat
  BY <1>1, <1>2, FS_CardinalityType
<1> HIDE DEF f
<1>6. IsFiniteSet(Leases(S)) /\ Cardinality(Leases(S)) <= Cardinality(Grants(S))
  BY <1>2, <1>3, <1>4, ImageBound
<1>7. Cardinality(Leases(S)) \in Nat
  BY <1>6, FS_CardinalityType
<1> QED
  BY <1>2, <1>5, <1>6, <1>7

\* Starting executions adds at most one entry each.
LEMMA StartBound ==
  ASSUME IsFiniteSet(WorkItems), NEW E, IsFiniteSet(E), Start(E)
  PROVE  /\ InFlightShape'
         /\ Cardinality(Entries') <= Cardinality(Entries) + Cardinality(E)
<1> DEFINE f == [e \in E |-> e[1]]
           Items == {f[e] : e \in E}
<1>1. inFlight' = [i \in WorkItems |->
                     IF \E e \in E : e[1] = i
                     THEN (CHOOSE e \in E : e[1] = i)[2] ELSE inFlight[i]]
  BY DEF Start
<1>2. InFlightShape'
  BY <1>1 DEF InFlightShape
<1>3. Entries' \subseteq Entries \cup Items
  BY <1>1 DEF Entries
<1>4. IsFiniteSet(Items) /\ Cardinality(Items) <= Cardinality(E)
  BY ImageBound
<1>5. IsFiniteSet(Entries)
  BY EntriesFinite
<1> HIDE DEF Items
<1>6. /\ IsFiniteSet(Entries \cup Items)
      /\ Cardinality(Entries \cup Items) <= Cardinality(Entries) + Cardinality(Items)
  BY <1>4, <1>5, UnionBound
<1>7. /\ IsFiniteSet(Entries')
      /\ Cardinality(Entries') <= Cardinality(Entries \cup Items)
  BY <1>3, <1>6, FS_Subset
<1>8. /\ Cardinality(Entries') \in Nat /\ Cardinality(Entries \cup Items) \in Nat
      /\ Cardinality(Entries) \in Nat /\ Cardinality(Items) \in Nat
      /\ Cardinality(E) \in Nat
  BY <1>4, <1>5, <1>6, <1>7, FS_CardinalityType
<1> QED
  BY <1>2, <1>4, <1>6, <1>7, <1>8

\* What Dispatch takes is no more than the credit that is left.
LEMMA BatchFits ==
  ASSUME NEW x \in Nat, NEW batch, batch = Min({BatchSize, Without(CreditLimit, x)}),
         batch > 0
  PROVE  batch \in Nat /\ batch + x <= CreditLimit
<1> DEFINE left == Without(CreditLimit, x)
<1>1. CreditLimit \in Nat /\ BatchSize \in Nat
  BY DispatcherAssumption
<1>2. left \in Nat /\ (left > 0 => left + x = CreditLimit)
  BY <1>1 DEF Without
<1> HIDE DEF left
<1>3. batch \in {BatchSize, left} /\ batch <= left
  <2>1. \E m \in {BatchSize, left} : \A y \in {BatchSize, left} : m <= y
    BY <1>1, <1>2
  <2>2. batch = CHOOSE m \in {BatchSize, left} : \A y \in {BatchSize, left} : m <= y
    BY DEF Min, left
  <2> QED
    BY <2>1, <2>2
<1> QED
  BY <1>1, <1>2, <1>3

-----------------------------------------------------------------------------
(***************************************************************************)
(* The steps.                                                              *)
(***************************************************************************)
LEMMA DispatchKeeps ==
  ASSUME IsFiniteSet(WorkItems), NEW c, CreditInv(c), Dispatch(c)
  PROVE  CreditInv(c)'
<1> DEFINE batch == Min({BatchSize, Without(CreditLimit, reserved + Cardinality(Entries))})
<1>1. /\ calls[c].at = "idle" /\ batch > 0 /\ inFlight' = inFlight
      /\ calls' = [calls EXCEPT ![c] = [Idle EXCEPT !.at = "claiming", !.batch = batch]]
      /\ reserved' = reserved + batch
  BY DEF Dispatch
<1>2. reserved = 0 /\ Cardinality(Entries) \in Nat /\ Entries' = Entries
  BY <1>1, EntriesFinite DEF CreditInv, CallInv, Entries
<1>3. batch \in Nat /\ batch + (reserved + Cardinality(Entries)) <= CreditLimit
  BY <1>1, <1>2, BatchFits
<1> HIDE DEF batch
<1>4. calls' = [d \in {c} |-> calls'[d]] /\
      calls'[c] = [at |-> "claiming", batch |-> batch, leases |-> {}, notices |-> FALSE]
  BY <1>1 DEF Idle, CreditInv, CallInv
<1>5. IsFiniteSet({}) /\ reserved' = batch
  BY <1>1, <1>2, <1>3, FS_EmptySet
<1>6. CallInv(c)'
  BY <1>3, <1>4, <1>5 DEF CallInv
<1>7. CreditRespected' /\ InFlightShape'
  <2>1. reserved' + Cardinality(Entries') <= CreditLimit
    BY <1>1, <1>2, <1>3
  <2> QED
    BY <1>1, <2>1 DEF CreditRespected, CreditInv, InFlightShape
<1> QED
  BY <1>6, <1>7 DEF CreditInv

LEMMA ClaimCommitsKeeps ==
  ASSUME IsFiniteSet(WorkItems), NEW c, CreditInv(c), ClaimCommits(c)
  PROVE  CreditInv(c)'
<1>1. PICK S \in SUBSET Claimable :
        /\ Cardinality(S) <= calls[c].batch
        /\ calls' = [calls EXCEPT ![c] = [@ EXCEPT !.at = "answered", !.leases = Leases(S),
                                                   !.notices = Notices(S) # {}]]
  BY DEF ClaimCommits
<1>2. UNCHANGED <<reserved, inFlight>>
  BY DEF ClaimCommits
<1>3. /\ IsFiniteSet(Leases(S)) /\ Cardinality(Leases(S)) <= Cardinality(S)
      /\ Cardinality(S) \in Nat /\ Cardinality(Leases(S)) \in Nat
  <2>1. IsFiniteSet(S)
    BY FS_Subset DEF Claimable
  <2> QED
    BY <2>1, LeasesBound, FS_CardinalityType
<1>4. /\ calls' = [d \in {c} |-> calls'[d]]
      /\ calls'[c] = [at |-> "answered", batch |-> calls[c].batch,
                      leases |-> Leases(S), notices |-> Notices(S) # {}]
  BY <1>1 DEF CreditInv, CallInv
<1>5. CallInv(c)'
  BY <1>1, <1>2, <1>3, <1>4 DEF CreditInv, CallInv
<1>6. CreditRespected' /\ InFlightShape'
  BY <1>2 DEF CreditInv, CreditRespected, InFlightShape, Entries
<1> QED
  BY <1>5, <1>6 DEF CreditInv

\* The call ends, with entries for no more leases than it held.
LEMMA CallEnds ==
  ASSUME NEW c, CreditInv(c), calls' = [calls EXCEPT ![c] = Idle], reserved' = 0,
         InFlightShape', Cardinality(Entries') <= CreditLimit, Cardinality(Entries') \in Nat
  PROVE  CreditInv(c)'
<1>1. calls' = [d \in {c} |-> calls'[d]] /\
      calls'[c] = [at |-> "idle", batch |-> 0, leases |-> {}, notices |-> FALSE]
  BY DEF Idle, CreditInv, CallInv
<1>2. CallInv(c)'
  BY <1>1, FS_EmptySet DEF CallInv
<1>3. CreditRespected'
  BY DispatcherAssumption DEF CreditRespected
<1> QED
  BY <1>2, <1>3 DEF CreditInv

LEMMA ClaimFailsKeeps ==
  ASSUME IsFiniteSet(WorkItems), NEW c, CreditInv(c), ClaimFails(c)
  PROVE  CreditInv(c)'
<1>1. /\ calls' = [calls EXCEPT ![c] = Idle] /\ inFlight' = inFlight
      /\ reserved' = Without(reserved, calls[c].batch)
  BY DEF ClaimFails
<1>2. reserved' = 0
  BY <1>1 DEF Without, CreditInv, CallInv
<1>3. Cardinality(Entries) \in Nat /\ Cardinality(Entries) <= CreditLimit
  BY EntriesFinite, DispatcherAssumption DEF CreditInv, CallInv, CreditRespected
<1>4. InFlightShape' /\ Entries' = Entries
  BY <1>1 DEF CreditInv, InFlightShape, Entries
<1> QED
  BY <1>1, <1>2, <1>3, <1>4, CallEnds

LEMMA ClaimReturnsKeeps ==
  ASSUME IsFiniteSet(WorkItems), NEW c, CreditInv(c), ClaimReturns(c)
  PROVE  CreditInv(c)'
<1>1. calls[c].at = "answered" /\ reserved' = 0
  BY DEF ClaimReturns, Without, CreditInv, CallInv
<1>2. /\ Cardinality(Entries) \in Nat /\ Cardinality(calls[c].leases) \in Nat
      /\ Cardinality(Entries) + Cardinality(calls[c].leases) <= CreditLimit
  <2>1. Cardinality(Entries) \in Nat /\ Cardinality(calls[c].leases) \in Nat
    BY EntriesFinite, FS_CardinalityType DEF CreditInv, CallInv
  <2> QED
    BY <1>1, <2>1, DispatcherAssumption DEF CreditInv, CallInv, CreditRespected
<1>3. CASE /\ calls' = [calls EXCEPT ![c].at = "notifying", ![c].batch = 0]
           /\ UNCHANGED inFlight
  <2>1. /\ calls' = [d \in {c} |-> calls'[d]]
        /\ calls'[c] = [at |-> "notifying", batch |-> 0, leases |-> calls[c].leases,
                        notices |-> calls[c].notices]
    BY <1>3 DEF CreditInv, CallInv
  <2>2. Entries' = Entries /\ InFlightShape'
    BY <1>3 DEF Entries, CreditInv, InFlightShape
  <2>3. CallInv(c)'
    BY <1>1, <1>2, <2>1, <2>2 DEF CreditInv, CallInv
  <2>4. CreditRespected'
    BY <1>1, <1>2, <2>2, DispatcherAssumption DEF CreditRespected
  <2> QED
    BY <2>2, <2>3, <2>4 DEF CreditInv
<1>4. CASE calls' = [calls EXCEPT ![c] = Idle] /\ Start(calls[c].leases)
  <2>1. IsFiniteSet(calls[c].leases)
    BY DEF CreditInv, CallInv
  <2>2. /\ InFlightShape'
        /\ Cardinality(Entries') <= Cardinality(Entries) + Cardinality(calls[c].leases)
    BY <1>4, <2>1, StartBound
  <2>3. Cardinality(Entries') \in Nat
    BY FS_Subset, FS_CardinalityType DEF Entries
  <2>4. Cardinality(Entries') <= CreditLimit
    BY <1>2, <2>2, <2>3, DispatcherAssumption
  <2> QED
    BY <1>1, <1>4, <2>2, <2>3, <2>4, CallEnds
<1> QED
  BY <1>3, <1>4 DEF ClaimReturns

LEMMA NotifyingKeeps ==
  ASSUME IsFiniteSet(WorkItems), NEW c, CreditInv(c), Notified(c) \/ NotifyFails(c)
  PROVE  CreditInv(c)'
<1>1. /\ calls[c].at = "notifying" /\ calls' = [calls EXCEPT ![c] = Idle]
      /\ reserved' = reserved /\ reserved = 0
  BY DEF Notified, NotifyFails, CreditInv, CallInv
<1>2. /\ IsFiniteSet(calls[c].leases)
      /\ Cardinality(Entries) \in Nat /\ Cardinality(calls[c].leases) \in Nat
      /\ Cardinality(Entries) + Cardinality(calls[c].leases) <= CreditLimit
  BY <1>1, EntriesFinite, FS_CardinalityType DEF CreditInv, CallInv
<1>3. /\ InFlightShape'
      /\ Cardinality(Entries') <= Cardinality(Entries) + Cardinality(calls[c].leases)
  <2>1. CASE Notified(c)
    BY <1>2, <2>1, StartBound DEF Notified
  <2>2. CASE NotifyFails(c)
    <3>1. InFlightShape' /\ Entries' = Entries
      BY <2>2 DEF NotifyFails, CreditInv, InFlightShape, Entries
    <3> QED
      BY <1>2, <3>1
  <2> QED
    BY <2>1, <2>2
<1>4. Cardinality(Entries') \in Nat
  BY FS_Subset, FS_CardinalityType DEF Entries
<1>5. Cardinality(Entries') <= CreditLimit
  BY <1>2, <1>3, <1>4, DispatcherAssumption
<1> QED
  BY <1>1, <1>3, <1>4, <1>5, CallEnds

LEMMA FinishKeeps ==
  ASSUME IsFiniteSet(WorkItems), NEW c, CreditInv(c), NEW e \in Executions, Finish(e)
  PROVE  CreditInv(c)'
<1>1. inFlight' = [inFlight EXCEPT ![e[1]] = 0] /\ UNCHANGED <<calls, reserved>>
  BY DEF Finish
<1>2. InFlightShape' /\ Entries' \subseteq Entries
  BY <1>1 DEF CreditInv, InFlightShape, Entries
<1>3. IsFiniteSet(Entries) /\ Cardinality(Entries) \in Nat
  BY EntriesFinite
<1>4. Cardinality(Entries') \in Nat /\ Cardinality(Entries') <= Cardinality(Entries)
  BY <1>2, <1>3, FS_Subset, FS_CardinalityType
<1>5. Cardinality(calls[c].leases) \in Nat
  BY FS_CardinalityType DEF CreditInv, CallInv
<1>6. CallInv(c)'
  BY <1>1, <1>3, <1>4, <1>5, DispatcherAssumption DEF CreditInv, CallInv
<1>7. CreditRespected'
  BY <1>1, <1>3, <1>4, DispatcherAssumption DEF CreditInv, CallInv, CreditRespected
<1> QED
  BY <1>2, <1>6, <1>7 DEF CreditInv

-----------------------------------------------------------------------------
\* One caller at a time, and the executions in flight with what that caller has reserved or
\* holds in its hand never exceed the credit limit, whatever fails.
THEOREM OneCallerRespectsCredit ==
  ASSUME IsFiniteSet(WorkItems), NEW c, Calls = {c}
  PROVE  DispatchSpec => []CreditRespected
<1>1. DispatchInit => CreditInv(c)
  <2> SUFFICES ASSUME DispatchInit PROVE CreditInv(c)
    OBVIOUS
  <2>1. Entries = {}
    BY DEF DispatchInit, Entries
  <2>2. Cardinality(Entries) = 0 /\ IsFiniteSet({})
    BY <2>1, FS_EmptySet
  <2>3. InFlightShape /\ CallInv(c)
    BY <2>2 DEF DispatchInit, InFlightShape, CallInv, Idle
  <2>4. CreditRespected
    BY <2>2, DispatcherAssumption DEF DispatchInit, CreditRespected
  <2> QED
    BY <2>3, <2>4 DEF CreditInv
<1>2. CreditInv(c) /\ [DispatchNext]_allVars => CreditInv(c)'
  <2> SUFFICES ASSUME CreditInv(c), [DispatchNext]_allVars PROVE CreditInv(c)'
    OBVIOUS
  <2>1. CASE UNCHANGED dispatcherVars
    BY <2>1 DEF dispatcherVars, CreditInv, InFlightShape, CallInv, CreditRespected, Entries
  <2>2. CASE Dispatch(c)
    BY <2>2, DispatchKeeps
  <2>3. CASE CallStep(c)
    BY <2>3, ClaimCommitsKeeps, ClaimFailsKeeps, ClaimReturnsKeeps, NotifyingKeeps
       DEF CallStep
  <2>4. ASSUME NEW e \in Executions, Finish(e) PROVE CreditInv(c)'
    BY <2>4, FinishKeeps
  <2>5. CASE UNCHANGED allVars
    BY <2>1, <2>5 DEF allVars, dispatcherVars
  <2> QED
    BY <2>1, <2>2, <2>3, <2>4, <2>5 DEF DispatchNext
<1>3. CreditInv(c) => CreditRespected
  BY DEF CreditInv
<1> QED
  BY <1>1, <1>2, <1>3, PTL DEF DispatchSpec

-----------------------------------------------------------------------------
(***************************************************************************)
(* The reservations, however many calls are active together.               *)
(***************************************************************************)
Batches == [c \in Calls |-> calls[c].batch]

\* A call owns a reservation only while it waits for its claim.
CallShape(call) ==
  /\ call = [at |-> call.at, batch |-> call.batch,
             leases |-> call.leases, notices |-> call.notices]
  /\ call.batch \in Nat
  /\ call.at \in {"idle", "notifying"} => call.batch = 0

ReservationInv ==
  /\ calls = [c \in Calls |-> calls[c]]
  /\ \A c \in Calls : CallShape(calls[c])
  /\ ReservationsBacked

\* Call c is all that changes.
OnlyCall(c) ==
  /\ calls' = [d \in Calls |-> calls'[d]]
  /\ \A d \in Calls \ {c} : calls'[d] = calls[d]

LEMMA BatchesAre ==
  ASSUME ReservationInv
  PROVE  /\ Naturals(Batches, Calls) /\ reserved = SumFunctionOnSet(Batches, Calls)
         /\ \A c \in Calls : Batches[c] = calls[c].batch
BY DEF ReservationInv, CallShape, ReservationsBacked, Naturals, Batches

\* A call's own batch is part of the reservation: Math.max(0, ...) never cuts anything off.
LEMMA OwnBatchIsReserved ==
  ASSUME IsFiniteSet(Calls), ReservationInv, NEW c \in Calls
  PROVE  /\ calls[c].batch \in Nat /\ reserved \in Nat /\ calls[c].batch <= reserved
         /\ Without(reserved, calls[c].batch) = reserved - calls[c].batch
<1>1. /\ reserved = calls[c].batch + SumFunctionOnSet(Batches, Calls \ {c})
      /\ calls[c].batch \in Nat
  BY BatchesAre, SumWithout DEF Naturals
<1>2. SumFunctionOnSet(Batches, Calls \ {c}) \in Nat
  <2>1. IsFiniteSet(Calls \ {c}) /\ Naturals(Batches, Calls \ {c})
    BY FS_RemoveElement, BatchesAre DEF Naturals
  <2> QED
    BY <2>1, SumType
<1> QED
  BY <1>1, <1>2 DEF Without

\* One call changes, and the reservation with it.
LEMMA OneCallChanges ==
  ASSUME IsFiniteSet(Calls), ReservationInv, NEW c \in Calls, OnlyCall(c),
         CallShape(calls'[c]),
         reserved' = (reserved - calls[c].batch) + calls'[c].batch
  PROVE  ReservationInv'
<1>1. /\ calls' = [d \in Calls |-> calls'[d]]
      /\ \A d \in Calls : CallShape(calls'[d])
  BY DEF ReservationInv, OnlyCall
<1>2. /\ Batches' = [d \in Calls |-> calls'[d].batch]
      /\ \A d \in Calls \ {c} : Batches'[d] = Batches[d]
  BY DEF Batches, OnlyCall
<1>3. Naturals(Batches', Calls)
  BY <1>1, <1>2 DEF CallShape, Naturals
<1>4. SumFunctionOnSet(Batches', Calls) + calls[c].batch = reserved + calls'[c].batch
  BY <1>2, <1>3, BatchesAre, SumChange
<1>5. /\ calls'[c].batch \in Nat /\ SumFunctionOnSet(Batches', Calls) \in Nat
      /\ reserved \in Nat /\ calls[c].batch \in Nat
  BY <1>3, SumType, OwnBatchIsReserved DEF CallShape
<1>6. reserved' = SumFunctionOnSet(Batches', Calls)
  BY <1>4, <1>5
<1> QED
  BY <1>1, <1>2, <1>6 DEF ReservationInv, ReservationsBacked

\* A call that ends gives back what it reserved.
LEMMA CallGivesBack ==
  ASSUME IsFiniteSet(Calls), ReservationInv, NEW c \in Calls,
         calls' = [calls EXCEPT ![c] = Idle], reserved' = reserved - calls[c].batch
  PROVE  ReservationInv'
<1>1. OnlyCall(c) /\ CallShape(calls'[c]) /\ calls'[c].batch = 0
  BY DEF ReservationInv, OnlyCall, CallShape, Idle
<1>2. reserved \in Nat /\ calls[c].batch \in Nat
  BY OwnBatchIsReserved
<1>3. reserved' = (reserved - calls[c].batch) + calls'[c].batch
  BY <1>1, <1>2
<1> QED
  BY <1>1, <1>3, OneCallChanges

LEMMA DispatchReserves ==
  ASSUME IsFiniteSet(Calls), IsFiniteSet(WorkItems), ReservationInv, NEW c \in Calls, Dispatch(c)
  PROVE  ReservationInv'
<1> DEFINE batch == Min({BatchSize, Without(CreditLimit, reserved + Cardinality(Entries))})
<1>1. /\ calls[c].at = "idle" /\ batch > 0 /\ reserved' = reserved + batch
      /\ calls' = [calls EXCEPT ![c] = [Idle EXCEPT !.at = "claiming", !.batch = batch]]
  BY DEF Dispatch
<1>2. reserved + Cardinality(Entries) \in Nat
  BY EntriesFinite, OwnBatchIsReserved
<1>3. batch \in Nat
  BY <1>1, <1>2, BatchFits
<1> HIDE DEF batch
<1>4. /\ OnlyCall(c)
      /\ calls'[c] = [at |-> "claiming", batch |-> batch, leases |-> {}, notices |-> FALSE]
  BY <1>1 DEF Idle, ReservationInv, OnlyCall
<1>5. CallShape(calls'[c]) /\ calls'[c].batch = batch
  BY <1>3, <1>4 DEF CallShape
<1>6. calls[c].batch = 0 /\ reserved \in Nat
  BY <1>1, OwnBatchIsReserved DEF ReservationInv, CallShape
<1> QED
  BY <1>1, <1>3, <1>4, <1>5, <1>6, OneCallChanges

LEMMA CallReserves ==
  ASSUME IsFiniteSet(Calls), ReservationInv, NEW c \in Calls, CallStep(c)
  PROVE  ReservationInv'
<1>1. /\ calls[c].batch \in Nat /\ reserved \in Nat
      /\ Without(reserved, calls[c].batch) = reserved - calls[c].batch
      /\ CallShape(calls[c])
  BY OwnBatchIsReserved DEF ReservationInv
<1>2. CASE ClaimCommits(c)
  <2>1. PICK S \in SUBSET Claimable :
          calls' = [calls EXCEPT ![c] = [@ EXCEPT !.at = "answered", !.leases = Leases(S),
                                                  !.notices = Notices(S) # {}]]
    BY <1>2 DEF ClaimCommits
  <2>2. /\ OnlyCall(c)
        /\ calls'[c] = [at |-> "answered", batch |-> calls[c].batch,
                        leases |-> Leases(S), notices |-> Notices(S) # {}]
    BY <1>1, <2>1 DEF ReservationInv, CallShape, OnlyCall
  <2>3. CallShape(calls'[c]) /\ calls'[c].batch = calls[c].batch
    BY <1>1, <2>2 DEF CallShape
  <2>4. reserved' = reserved
    BY <1>2 DEF ClaimCommits
  <2> QED
    BY <1>1, <2>2, <2>3, <2>4, OneCallChanges
<1>3. CASE ClaimFails(c)
  BY <1>1, <1>3, CallGivesBack DEF ClaimFails
<1>4. CASE ClaimReturns(c)
  <2>1. reserved' = reserved - calls[c].batch
    BY <1>1, <1>4 DEF ClaimReturns
  <2>2. CASE calls' = [calls EXCEPT ![c].at = "notifying", ![c].batch = 0]
    <3>1. /\ OnlyCall(c)
          /\ calls'[c] = [at |-> "notifying", batch |-> 0, leases |-> calls[c].leases,
                          notices |-> calls[c].notices]
      BY <1>1, <2>2 DEF ReservationInv, CallShape, OnlyCall
    <3>2. CallShape(calls'[c]) /\ calls'[c].batch = 0
      BY <3>1 DEF CallShape
    <3> QED
      BY <1>1, <2>1, <3>1, <3>2, OneCallChanges
  <2>3. CASE calls' = [calls EXCEPT ![c] = Idle]
    BY <2>1, <2>3, CallGivesBack
  <2> QED
    BY <1>4, <2>2, <2>3 DEF ClaimReturns
<1>5. CASE Notified(c) \/ NotifyFails(c)
  <2>1. /\ calls' = [calls EXCEPT ![c] = Idle] /\ reserved' = reserved
        /\ calls[c].at = "notifying"
    BY <1>5 DEF Notified, NotifyFails
  <2>2. calls[c].batch = 0
    BY <1>1, <2>1 DEF CallShape
  <2>3. reserved' = reserved - calls[c].batch
    BY <1>1, <2>1, <2>2
  <2> QED
    BY <2>1, <2>3, CallGivesBack
<1> QED
  BY <1>2, <1>3, <1>4, <1>5 DEF CallStep

\* Whatever calls are active together, and whichever of them fail where, the reservation is the
\* sum of the batches of those that wait for a claim: no path out of dispatchOnce keeps
\* credit or gives it back twice.
THEOREM ReservationsAreBacked ==
  ASSUME IsFiniteSet(Calls), IsFiniteSet(WorkItems)
  PROVE  DispatchSpec => []ReservationsBacked
<1>1. DispatchInit => ReservationInv
  <2> SUFFICES ASSUME DispatchInit PROVE ReservationInv
    OBVIOUS
  <2>1. /\ calls = [c \in Calls |-> calls[c]] /\ reserved = 0
        /\ \A c \in Calls : CallShape(calls[c]) /\ Batches[c] = 0
    BY DEF DispatchInit, Batches, CallShape, Idle
  <2>2. Naturals(Batches, Calls)
    BY <2>1 DEF Naturals
  <2>3. Slots(Batches, Calls) = {}
    BY <2>1, SlotsAre
  <2>4. SumFunctionOnSet(Batches, Calls) = 0
    BY <2>2, <2>3, SumCounts, FS_EmptySet
  <2> QED
    BY <2>1, <2>4 DEF ReservationInv, ReservationsBacked, Batches
<1>2. ReservationInv /\ [DispatchNext]_allVars => ReservationInv'
  <2> SUFFICES ASSUME ReservationInv, [DispatchNext]_allVars PROVE ReservationInv'
    OBVIOUS
  <2>1. CASE UNCHANGED <<calls, reserved>>
    BY <2>1 DEF ReservationInv, ReservationsBacked
  <2>2. ASSUME NEW c \in Calls, Dispatch(c) PROVE ReservationInv'
    BY <2>2, DispatchReserves
  <2>3. ASSUME NEW c \in Calls, CallStep(c) PROVE ReservationInv'
    BY <2>3, CallReserves
  <2>4. ASSUME NEW e \in Executions, Finish(e) PROVE UNCHANGED <<calls, reserved>>
    BY <2>4 DEF Finish
  <2>5. UNCHANGED dispatcherVars \/ UNCHANGED allVars => UNCHANGED <<calls, reserved>>
    BY DEF dispatcherVars, allVars
  <2> QED
    BY <2>1, <2>2, <2>3, <2>4, <2>5 DEF DispatchNext
<1>3. ReservationInv => ReservationsBacked
  BY DEF ReservationInv
<1> QED
  BY <1>1, <1>2, <1>3, PTL DEF DispatchSpec
================================================================================
