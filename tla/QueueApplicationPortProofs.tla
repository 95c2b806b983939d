----------------------- MODULE QueueApplicationPortProofs -----------------------
(***************************************************************************)
(* Theorems about QueueApplicationPort for any number of queues and any    *)
(* limits.                                                                 *)
(*                                                                         *)
(* First, nothing is executed behind a close that has resolved.  That      *)
(* needs no sum of credits: only a trigger starts a dispatch, only of a    *)
(* registered queue, and only while the port runs; so a dispatch that was  *)
(* awaited by a close stays over, and what was drained stays so.           *)
(*                                                                         *)
(* Then, the registered queues together keep within the global limit: a    *)
(* dispatch reserves what executions and reservations leave of it, counted *)
(* over all queues, and starts no more than it reserved.                   *)
(***************************************************************************)
EXTENDS QueueApplicationPort, SumTheorems, TLAPS

\* What the steps need to know of the variables' shapes.
Shapes ==
  /\ DOMAIN inFlight = Queues /\ inFlight = [q \in Queues |-> inFlight[q]]
  /\ DOMAIN dispatch = Queues /\ dispatch = [q \in Queues |-> dispatch[q]]
  /\ \A q \in Queues : dispatch[q] = [at |-> dispatch[q].at, grant |-> dispatch[q].grant]
  /\ DOMAIN facet = Queues /\ facet = [q \in Queues |-> facet[q]]
  /\ dispatchCursor \in Nat

\* Close has awaited the dispatch of the queue.
PastDispatch(q) == facet[q] \in {"draining", "closed", "failed"}

ClosingInv ==
  \A q \in Queues :
    /\ PastDispatch(q) => ~Dispatching(q)
    /\ facet[q] = "closed" => inFlight[q] = 0

StoppedInv ==
  port = "stopped" => \A q \in Registered : ~Dispatching(q) /\ inFlight[q] = 0

PortInv == Shapes /\ ClosingInv /\ StoppedInv

\* Nothing is started in queue q, and what executes there goes on or ends.
Quiet(q) ==
  /\ ~Dispatching(q) => ~Dispatching(q)'
  /\ ~Dispatching(q) /\ inFlight[q] = 0 => inFlight'[q] = 0

-----------------------------------------------------------------------------
\* Steps that leave the facets and the port alone keep the invariant if they are quiet
\* wherever a close has got past the dispatch.
LEMMA QuietSteps ==
  ASSUME PortInv, Shapes', UNCHANGED <<facet, port>>,
         \A q \in Queues : PastDispatch(q) \/ port = "stopped" => Quiet(q)
  PROVE  PortInv'
BY DEF PortInv, ClosingInv, StoppedInv, Quiet, PastDispatch, Dispatching, Registered

\* A trigger starts a dispatch only of a queue it asks.
LEMMA TriggerIs ==
  ASSUME NEW order, Shapes, Trigger(order), UNCHANGED <<inFlight, facet>>,
         dispatchCursor' \in Nat
  PROVE  /\ Shapes'
         /\ \A q \in Queues : (\A k \in DOMAIN order : order[k] # q) => dispatch'[q] = dispatch[q]
<1>1. /\ DOMAIN dispatch' = Queues
      /\ dispatch' = [q \in Queues |-> dispatch'[q]]
      /\ \A q \in Queues : dispatch'[q] = [at |-> dispatch'[q].at, grant |-> dispatch'[q].grant]
      /\ \A q \in Queues : (\A k \in DOMAIN order : order[k] # q) => dispatch'[q] = dispatch[q]
  BY DEF Trigger, Shapes
<1> QED
  BY <1>1 DEF Shapes

LEMMA RequestDispatchKeeps ==
  ASSUME PortInv, NEW q \in Queues, RequestDispatch(q)
  PROVE  PortInv'
<1>1. /\ Shapes /\ Trigger(<<q>>) /\ UNCHANGED <<inFlight, facet, port>>
      /\ dispatchCursor' \in Nat
  BY DEF RequestDispatch, PortInv, Shapes
<1>2. /\ Shapes'
      /\ \A p \in Queues : (\A k \in DOMAIN <<q>> : <<q>>[k] # p) => dispatch'[p] = dispatch[p]
  BY <1>1, TriggerIs
<1>3. \A p \in Queues : p # q => dispatch'[p] = dispatch[p]
  BY <1>2
<1>4. facet[q] = "open" /\ port = "running"
  BY DEF RequestDispatch, Registered
<1> QED
  BY <1>1, <1>2, <1>3, <1>4, QuietSteps DEF Quiet, PastDispatch, Dispatching

LEMMA DispatchCycleKeeps ==
  ASSUME PortInv, DispatchCycle
  PROVE  PortInv'
<1> DEFINE n == Cardinality(Registered)
           offset == dispatchCursor % n
<1>1. IsFiniteSet(Registered)
  <2>1. IsFiniteSet(Queues)
    BY PortAssumption, FS_Interval DEF Queues
  <2> QED
    BY <2>1, FS_Subset DEF Registered
<1>2. n \in Nat \ {0}
  BY <1>1, FS_CardinalityType, FS_EmptySet DEF DispatchCycle
<1>3. dispatchCursor \in Nat
  BY DEF PortInv, Shapes
<1> HIDE DEF n
<1>4. offset \in Nat /\ (offset + 1) % n \in Nat
  BY <1>2, <1>3
<1> HIDE DEF offset
<1>5. PICK active \in [1..n -> Registered] :
        Trigger([k \in 1..n |-> active[((offset + k - 1) % n) + 1]])
  BY DEF DispatchCycle, n, offset
<1> DEFINE order == [k \in 1..n |-> active[((offset + k - 1) % n) + 1]]
<1>6. \A k \in 1..n : order[k] \in Registered
  <2> SUFFICES ASSUME NEW k \in 1..n PROVE order[k] \in Registered
    OBVIOUS
  <2>1. (offset + k - 1) % n \in 0..(n - 1)
    BY <1>2, <1>4
  <2>2. ((offset + k - 1) % n) + 1 \in 1..n
    BY <2>1, <1>2
  <2> QED
    BY <2>2
<1>7. /\ UNCHANGED <<inFlight, facet, port>> /\ port = "running"
      /\ dispatchCursor' = (offset + 1) % n
  BY DEF DispatchCycle, n, offset
<1>8. DOMAIN order = 1..n
  OBVIOUS
<1> HIDE DEF order
<1>9. /\ Shapes'
      /\ \A q \in Queues : (\A k \in DOMAIN order : order[k] # q) => dispatch'[q] = dispatch[q]
  <2>1. Trigger(order)
    BY <1>5 DEF order
  <2> QED
    BY <2>1, <1>4, <1>7, TriggerIs DEF PortInv
<1>10. \A q \in Queues : facet[q] # "open" => dispatch'[q] = dispatch[q]
  BY <1>6, <1>8, <1>9 DEF Registered
<1> QED
  BY <1>7, <1>9, <1>10, QuietSteps DEF Quiet, PastDispatch, Dispatching

-----------------------------------------------------------------------------
\* Queue q, which is dispatching, is all that changes.
LEMMA DispatchStepKeeps ==
  ASSUME PortInv, NEW q \in Queues, Dispatching(q), Shapes', UNCHANGED <<facet, port>>,
         \A p \in Queues : p # q => dispatch'[p] = dispatch[p] /\ inFlight'[p] = inFlight[p]
  PROVE  PortInv'
<1>1. Quiet(q)
  BY DEF Quiet
<1>2. \A p \in Queues : Quiet(p)
  BY <1>1 DEF Quiet, Dispatching
<1> QED
  BY <1>2, QuietSteps

LEMMA DispatchOnceKeeps ==
  ASSUME PortInv, NEW q \in Queues, DispatchOnce(q)
  PROVE  PortInv'
<1>1. PICK started :
        /\ inFlight' = [inFlight EXCEPT ![q] = @ + started]
        /\ dispatch' = [dispatch EXCEPT ![q].at = "releasing"]
  BY DEF DispatchOnce
<1>2. Dispatching(q) /\ UNCHANGED <<facet, port, dispatchCursor>>
  BY DEF DispatchOnce, Dispatching
<1>3. Shapes'
  BY <1>1, <1>2 DEF PortInv, Shapes
<1>4. \A p \in Queues : p # q => dispatch'[p] = dispatch[p] /\ inFlight'[p] = inFlight[p]
  BY <1>1 DEF PortInv, Shapes
<1> QED
  BY <1>2, <1>3, <1>4, DispatchStepKeeps

LEMMA OtherDispatchStepsKeep ==
  ASSUME PortInv, NEW q \in Queues, DispatchFails(q) \/ Release(q) \/ SettleDispatch(q)
  PROVE  PortInv'
<1>1. /\ Dispatching(q) /\ UNCHANGED <<inFlight, facet, port, dispatchCursor>>
      /\ \/ dispatch' = [dispatch EXCEPT ![q].at = "releasing"]
         \/ \E at, grant : dispatch' = [dispatch EXCEPT ![q] = [at |-> at, grant |-> grant]]
  <2>1. CASE DispatchFails(q)
    BY <2>1 DEF DispatchFails, Dispatching
  <2>2. CASE Release(q)
    BY <2>2 DEF Release, Dispatching
  <2>3. CASE SettleDispatch(q)
    <3>1. \E at, grant : dispatch' = [dispatch EXCEPT ![q] = [at |-> at, grant |-> grant]]
      BY <2>3 DEF SettleDispatch, NoDispatch
    <3> QED
      BY <2>3, <3>1 DEF SettleDispatch, Dispatching
  <2> QED
    BY <2>1, <2>2, <2>3
<1>2. Shapes' /\ \A p \in Queues : p # q => dispatch'[p] = dispatch[p]
  <2>1. CASE dispatch' = [dispatch EXCEPT ![q].at = "releasing"]
    BY <1>1, <2>1 DEF PortInv, Shapes
  <2>2. ASSUME NEW at, NEW grant,
               dispatch' = [dispatch EXCEPT ![q] = [at |-> at, grant |-> grant]]
        PROVE  Shapes' /\ \A p \in Queues : p # q => dispatch'[p] = dispatch[p]
    BY <1>1, <2>2 DEF PortInv, Shapes
  <2> QED
    BY <1>1, <2>1, <2>2
<1> QED
  BY <1>1, <1>2, DispatchStepKeeps

LEMMA ExecutionEndsKeeps ==
  ASSUME PortInv, NEW q \in Queues, ExecutionEnds(q)
  PROVE  PortInv'
<1>1. /\ UNCHANGED <<facet, port, dispatch, dispatchCursor>>
      /\ inFlight[q] > 0 /\ inFlight' = [inFlight EXCEPT ![q] = @ - 1]
  BY DEF ExecutionEnds, creditVars
<1>2. Shapes' /\ \A p \in Queues : p # q => inFlight'[p] = inFlight[p]
  BY <1>1 DEF PortInv, Shapes
<1>3. inFlight[q] # 0
  BY <1>1
<1>4. \A p \in Queues : Quiet(p)
  BY <1>1, <1>2, <1>3 DEF Quiet, Dispatching
<1> QED
  BY <1>1, <1>2, <1>4, QuietSteps

LEMMA EnqueueKeeps ==
  ASSUME PortInv, NEW q \in Queues, Enqueue(q)
  PROVE  PortInv'
BY DEF Enqueue, creditVars, PortInv, Shapes, ClosingInv, StoppedInv, PastDispatch,
       Dispatching, Registered

-----------------------------------------------------------------------------
LEMMA FacetStepsKeep ==
  ASSUME PortInv, NEW q \in Queues,
         Close(q) \/ CloseAwaitsDispatch(q) \/ CloseDrained(q) \/ CloseTimesOut(q)
  PROVE  PortInv'
<1>1. PICK from, to :
        /\ FacetGoes(q, from, to)
        /\ to # "open"
        /\ to \in {"draining", "closed", "failed"} => ~Dispatching(q)
        /\ to = "closed" => inFlight[q] = 0
  BY DEF Close, CloseAwaitsDispatch, CloseDrained, CloseTimesOut, FacetGoes, PortInv,
         ClosingInv, PastDispatch
<1>2. UNCHANGED <<inFlight, dispatch, dispatchCursor, port>>
  BY <1>1 DEF FacetGoes, creditVars
<1>3. /\ facet' = [facet EXCEPT ![q] = to] /\ facet'[q] = to
      /\ \A p \in Queues : p # q => facet'[p] = facet[p]
  BY <1>1 DEF FacetGoes, PortInv, Shapes
<1>4. Shapes'
  BY <1>2, <1>3 DEF PortInv, Shapes
<1>5. ClosingInv'
  BY <1>1, <1>2, <1>3 DEF PortInv, ClosingInv, PastDispatch, Dispatching
<1>6. Registered' \subseteq Registered
  BY <1>1, <1>3 DEF Registered
<1>7. StoppedInv'
  BY <1>2, <1>6 DEF PortInv, StoppedInv, Registered, Dispatching
<1> QED
  BY <1>4, <1>5, <1>7 DEF PortInv

LEMMA PortStepsKeep ==
  ASSUME PortInv, Stop \/ Stopped \/ StopTimesOut \/ CloseAgain
  PROVE  PortInv'
<1>1. UNCHANGED <<inFlight, facet, dispatch, dispatchCursor>>
  BY DEF Stop, Stopped, StopTimesOut, CloseAgain, PortGoes, creditVars
<1>2. Shapes' /\ ClosingInv'
  BY <1>1 DEF PortInv, Shapes, ClosingInv, PastDispatch, Dispatching
<1>3. StoppedInv'
  <2>1. CASE Stopped
    BY <1>1, <2>1 DEF Stopped, StoppedInv, Registered, Dispatching
  <2>2. CASE Stop \/ StopTimesOut \/ CloseAgain
    BY <2>2 DEF Stop, StopTimesOut, CloseAgain, PortGoes, StoppedInv
  <2> QED
    BY <2>1, <2>2
<1> QED
  BY <1>2, <1>3 DEF PortInv

-----------------------------------------------------------------------------
\* The invariant: a dispatch that a close has awaited stays over, and a queue that was
\* drained stays empty.
THEOREM Closing == Spec => []PortInv
<1>1. Init => PortInv
  BY DEF Init, PortInv, Shapes, ClosingInv, StoppedInv, PastDispatch, Dispatching,
         NoDispatch, Registered
<1>2. PortInv /\ [Next]_vars => PortInv'
  <2> SUFFICES ASSUME PortInv, [Next]_vars PROVE PortInv'
    OBVIOUS
  <2>1. ASSUME NEW q \in Queues, QueueStep(q) PROVE PortInv'
    <3>1. CASE Enqueue(q)
      BY <3>1, EnqueueKeeps
    <3>2. CASE RequestDispatch(q)
      BY <3>2, RequestDispatchKeeps
    <3>3. CASE DispatchOnce(q)
      BY <3>3, DispatchOnceKeeps
    <3>4. CASE DispatchFails(q) \/ Release(q) \/ SettleDispatch(q)
      BY <3>4, OtherDispatchStepsKeep
    <3>5. CASE ExecutionEnds(q)
      BY <3>5, ExecutionEndsKeeps
    <3>6. CASE Close(q) \/ CloseAwaitsDispatch(q) \/ CloseDrained(q) \/ CloseTimesOut(q)
      BY <3>6, FacetStepsKeep
    <3> QED
      BY <2>1, <3>1, <3>2, <3>3, <3>4, <3>5, <3>6 DEF QueueStep
  <2>2. CASE DispatchCycle
    BY <2>2, DispatchCycleKeeps
  <2>3. CASE Stop \/ Stopped \/ StopTimesOut \/ CloseAgain
    BY <2>3, PortStepsKeep
  <2>4. CASE UNCHANGED vars
    BY <2>4 DEF vars, PortInv, Shapes, ClosingInv, StoppedInv, PastDispatch, Dispatching,
                Registered
  <2> QED
    BY <2>1, <2>2, <2>3, <2>4 DEF Next
<1> QED
  BY <1>1, <1>2, PTL DEF Spec

\* A facet whose close() has resolved executes nothing any more, whichever triggers,
\* timers and late executions of other queues come after it.
THEOREM ClosedFacetsAreIdle == Spec => []ClosedFacetIsIdle
<1>1. PortInv => ClosedFacetIsIdle
  BY DEF PortInv, ClosingInv, ClosedFacetIsIdle, PastDispatch
<1> QED
  BY <1>1, Closing, PTL

\* A close of the port that resolves at the first attempt leaves nothing running, in the
\* queues that were still registered and in those whose facet was closed before.
THEOREM FirstCloseIsOrderly == Spec => []OrderlyClose
<1>1. PortInv => OrderlyClose
  BY DEF PortInv, ClosingInv, StoppedInv, OrderlyClose, PastDispatch
<1> QED
  BY <1>1, Closing, PTL

-----------------------------------------------------------------------------
(***************************************************************************)
(* The credit.  What dispatches have reserved is the sum of their grants,  *)
(* and a grant counts twice for a while: from the claim on in inFlight,    *)
(* and up to Release in globalReserved.  Together with the executions of   *)
(* the registered queues, the grants that are not spent yet never exceed   *)
(* the limit, which is what makes the next reservation safe.               *)
(***************************************************************************)
Grants == [q \in Queues |-> dispatch[q].grant]

\* Grants whose claim has not been answered.
Unspent == [q \in Queues |-> IF dispatch[q].at = "claiming" THEN dispatch[q].grant ELSE 0]

Credits ==
  /\ \A q \in Queues : dispatch[q].at \in {"none", "settling"} => dispatch[q].grant = 0
  /\ globalReserved = Total(Grants, Queues)
  /\ Total(inFlight, Registered) + Total(Unspent, Queues) <= GlobalLimit

CreditInv == TypeOK /\ Credits

Dispatches == [Queues -> [at : {"none", "claiming", "releasing", "settling"},
                          grant : 0..BatchSize]]

LEMMA PortConstants ==
  /\ QueueCount \in Nat \ {0} /\ GlobalLimit \in Nat \ {0} /\ MaxInFlight \in Nat \ {0}
  /\ BatchSize \in Nat \ {0} /\ MaxWork \in Nat \ {0}
BY PortAssumption

LEMMA QueuesFinite ==
  /\ IsFiniteSet(Queues) /\ IsFiniteSet(Registered) /\ Registered \subseteq Queues
  /\ Cardinality(Registered) \in 0..QueueCount
<1>1. IsFiniteSet(Queues) /\ Cardinality(Queues) = QueueCount
  BY PortConstants, FS_Interval DEF Queues
<1>2. Registered \subseteq Queues
  BY DEF Registered
<1> QED
  BY <1>1, <1>2, PortConstants, FS_Subset, FS_CardinalityType

LEMMA DispatchShapes ==
  ASSUME TypeOK, NEW q \in Queues
  PROVE  /\ dispatch[q].at \in {"none", "claiming", "releasing", "settling"}
         /\ dispatch[q].grant \in Nat /\ dispatch[q].grant <= BatchSize
         /\ dispatch[q] = [at |-> dispatch[q].at, grant |-> dispatch[q].grant]
<1>1. dispatch[q] \in [at : {"none", "claiming", "releasing", "settling"}, grant : 0..BatchSize]
  BY DEF TypeOK
<1>2. BatchSize \in Nat
  BY PortConstants
<1> HIDE DEF TypeOK
<1> QED
  BY <1>1, <1>2

LEMMA LeastOfTwo ==
  ASSUME NEW a \in Nat, NEW b \in Nat
  PROVE  Min({a, b}) \in {a, b} /\ Min({a, b}) <= a /\ Min({a, b}) <= b
<1>1. \E m \in {a, b} : \A y \in {a, b} : m <= y
  OBVIOUS
<1>2. Min({a, b}) = CHOOSE m \in {a, b} : \A y \in {a, b} : m <= y
  BY DEF Min
<1> QED
  BY <1>1, <1>2

LEMMA LeastOfThree ==
  ASSUME NEW a \in Nat, NEW b \in Nat, NEW c \in Nat
  PROVE  /\ Min({a, b, c}) \in Nat
         /\ Min({a, b, c}) <= a /\ Min({a, b, c}) <= b /\ Min({a, b, c}) <= c
<1>1. \E m \in {a, b, c} : \A y \in {a, b, c} : m <= y
  OBVIOUS
<1>2. Min({a, b, c}) = CHOOSE m \in {a, b, c} : \A y \in {a, b, c} : m <= y
  BY DEF Min
<1> QED
  BY <1>1, <1>2

\* The sums that the credit consists of.
LEMMA CreditSums ==
  ASSUME TypeOK
  PROVE  /\ Naturals(Grants, Queues) /\ Naturals(Unspent, Queues) /\ Naturals(inFlight, Registered)
         /\ Total(Grants, Queues) \in Nat /\ Total(Unspent, Queues) \in Nat
         /\ Total(inFlight, Registered) \in Nat
         /\ Total(Unspent, Queues) <= Total(Grants, Queues)
<1>1. Naturals(Grants, Queues) /\ Naturals(Unspent, Queues)
  BY DispatchShapes DEF Naturals, Grants, Unspent
<1>a. Naturals(inFlight, Registered)
  BY DEF TypeOK, Naturals, Registered
<1>2. \A q \in Queues : Unspent[q] <= Grants[q]
  <2> SUFFICES ASSUME NEW q \in Queues PROVE Unspent[q] <= Grants[q]
    OBVIOUS
  <2>1. dispatch[q].grant \in Nat
    BY DispatchShapes
  <2> QED
    BY <2>1 DEF Grants, Unspent
<1> QED
  BY <1>1, <1>a, <1>2, QueuesFinite, SumType, SumMonotone DEF Total

LEMMA AvailableIs ==
  ASSUME TypeOK
  PROVE  /\ Available \in Nat
         /\ Available > 0 => Available + globalReserved + Total(inFlight, Registered) = GlobalLimit
<1> DEFINE held == Total(inFlight, Registered)
<1>1. held \in Nat /\ globalReserved \in Nat /\ GlobalLimit \in Nat
  <2>1. globalReserved \in Nat
    <3>1. globalReserved \in 0..GlobalLimit
      BY DEF TypeOK
    <3> QED
      BY <3>1, PortConstants
  <2> QED
    BY <2>1, CreditSums, PortConstants
<1>2. Available = Excess(GlobalLimit, globalReserved + held)
  BY DEF Available
<1> HIDE DEF held
<1>3. /\ Available \in Nat
      /\ Available > 0 => Available + globalReserved + held = GlobalLimit
  BY <1>1, <1>2 DEF Excess
<1> QED
  BY <1>3 DEF held

\* Dispatches that are started with the credit that is available.
LEMMA GrantingKeeps ==
  ASSUME CreditInv, NEW started \in SUBSET Queues, NEW grants, Naturals(grants, started),
         Total(grants, started) <= Available,
         \A q \in started : dispatch[q].grant = 0 /\ grants[q] <= BatchSize,
         \A q \in started : dispatch'[q].grant = grants[q],
         \A q \in started : dispatch'[q].at = IF grants[q] > 0 THEN "claiming" ELSE "settling",
         dispatch' \in Dispatches,
         \A q \in Queues \ started : dispatch'[q] = dispatch[q],
         globalReserved' = globalReserved + Total(grants, started),
         triggerPending' \in [Queues -> BOOLEAN], dispatchCursor' \in 0..(QueueCount - 1),
         UNCHANGED <<backlog, inFlight, facet, port, storeOpen>>
  PROVE  CreditInv'
<1>1. \A q \in started : grants[q] \in 0..BatchSize
  <2> SUFFICES ASSUME NEW q \in started PROVE grants[q] \in 0..BatchSize
    OBVIOUS
  <2>1. grants[q] \in Nat /\ grants[q] <= BatchSize
    BY DEF Naturals
  <2> QED
    BY <2>1, PortConstants
<1>2. IsFiniteSet(started) /\ Total(grants, started) \in Nat
  BY QueuesFinite, FS_Subset, SumType DEF Total
<1>3. globalReserved \in 0..GlobalLimit
  BY DEF CreditInv, TypeOK
<1>4. globalReserved' \in 0..GlobalLimit
  BY <1>2, <1>3, AvailableIs, CreditSums, PortConstants DEF CreditInv
<1>6. TypeOK'
  BY <1>4 DEF CreditInv, TypeOK, Dispatches
<1>7. \A q \in Queues : dispatch'[q].at \in {"none", "settling"} => dispatch'[q].grant = 0
  <2>1. ASSUME NEW q \in started, dispatch'[q].at \in {"none", "settling"}
        PROVE  dispatch'[q].grant = 0
    <3>1. grants[q] \in Nat /\ ~(grants[q] > 0)
      BY <1>1, <2>1, PortConstants
    <3> QED
      BY <3>1
  <2>2. ASSUME NEW q \in Queues \ started, dispatch'[q].at \in {"none", "settling"}
        PROVE  dispatch'[q].grant = 0
    BY <2>2 DEF CreditInv, Credits
  <2> QED
    BY <2>1, <2>2
<1>8. /\ \A q \in started : /\ Grants[q] = 0 /\ Grants'[q] = grants[q]
                            /\ Unspent[q] = 0 /\ Unspent'[q] = grants[q]
      /\ \A q \in Queues \ started : Grants'[q] = Grants[q] /\ Unspent'[q] = Unspent[q]
  <2>1. ASSUME NEW q \in started
        PROVE  /\ Grants[q] = 0 /\ Grants'[q] = grants[q]
               /\ Unspent[q] = 0 /\ Unspent'[q] = grants[q]
    <3>1. grants[q] \in 0..BatchSize /\ BatchSize \in Nat
      BY <1>1, PortConstants
    <3>2. dispatch'[q].grant = grants[q] /\ dispatch[q].grant = 0
      OBVIOUS
    <3>3. dispatch'[q].at = IF grants[q] > 0 THEN "claiming" ELSE "settling"
      OBVIOUS
    <3> QED
      BY <3>1, <3>2, <3>3 DEF Grants, Unspent
  <2>2. \A q \in Queues \ started : Grants'[q] = Grants[q] /\ Unspent'[q] = Unspent[q]
    BY DEF Grants, Unspent
  <2> QED
    BY <2>1, <2>2
<1>9. /\ Naturals(Grants, Queues) /\ Naturals(Unspent, Queues)
      /\ Naturals(Grants', Queues) /\ Naturals(Unspent', Queues)
  <2>1. (Naturals(Grants, Queues) /\ Naturals(Unspent, Queues))'
    BY <1>6, CreditSums, PTL
  <2> QED
    BY <2>1, CreditSums DEF CreditInv, Naturals
<1>10. /\ Total(Grants', Queues) = Total(Grants, Queues) + Total(grants, started)
       /\ Total(Unspent', Queues) = Total(Unspent, Queues) + Total(grants, started)
  <2> DEFINE G == Grants' U == Unspent'
  <2>1. Naturals(G, Queues) /\ Naturals(U, Queues) /\ Naturals(G, started) /\ Naturals(U, started)
    BY <1>9 DEF Naturals
  <2>2. \A q \in started : G[q] = grants[q] /\ U[q] = grants[q]
    BY <1>8
  <2>3. \A q \in Queues \ started : G[q] = Grants[q] /\ U[q] = Unspent[q]
    BY <1>8
  <2> HIDE DEF G, U
  <2>4. Total(G, started) = Total(grants, started) /\ Total(U, started) = Total(grants, started)
    BY <1>2, <2>2, SumSame DEF Total
  <2>5. Total(G, Queues) = Total(Grants, Queues) + Total(G, started)
    BY <1>8, <1>9, <2>1, <2>3, QueuesFinite, SumFill DEF Total
  <2>6. Total(U, Queues) = Total(Unspent, Queues) + Total(U, started)
    BY <1>8, <1>9, <2>1, <2>3, QueuesFinite, SumFill DEF Total
  <2> QED
    BY <2>4, <2>5, <2>6 DEF G, U
<1>11. Total(inFlight, Registered)' = Total(inFlight, Registered)
  BY DEF Registered
<1>12. /\ globalReserved' = Total(Grants', Queues)
       /\ Total(inFlight, Registered)' + Total(Unspent', Queues) <= GlobalLimit
  <2>1. /\ Total(Unspent, Queues) \in Nat /\ Total(inFlight, Registered) \in Nat
        /\ Total(Unspent, Queues) <= globalReserved
        /\ globalReserved = Total(Grants, Queues)
        /\ Total(inFlight, Registered) + Total(Unspent, Queues) <= GlobalLimit
    BY CreditSums DEF CreditInv, Credits
  <2>2. CASE Available = 0
    BY <1>2, <1>3, <1>10, <1>11, <2>1, <2>2, PortConstants
  <2>3. CASE Available > 0
    <3>1. /\ Available \in Nat
          /\ Available + globalReserved + Total(inFlight, Registered) = GlobalLimit
      BY <2>3, AvailableIs DEF CreditInv
    <3> QED
      BY <1>2, <1>3, <1>10, <1>11, <2>1, <3>1, PortConstants
  <2> QED
    BY <2>2, <2>3, AvailableIs DEF CreditInv
<1>13. Total(Grants, Queues)' = Total(Grants', Queues) /\ Total(Unspent, Queues)' = Total(Unspent', Queues)
  BY DEF Total, Queues
<1> QED
  BY <1>6, <1>7, <1>12, <1>13 DEF CreditInv, Credits

\* The credit that the queues of a trigger get, each after those before it.
LEMMA TriggerKeepsCredit ==
  ASSUME CreditInv, NEW n \in Nat, NEW order \in [1..n -> Queues],
         \A j, k \in 1..n : order[j] = order[k] => j = k,
         Trigger(order), dispatchCursor' \in 0..(QueueCount - 1),
         UNCHANGED <<backlog, inFlight, facet, port, storeOpen>>
  PROVE  CreditInv'
<1> DEFINE asked == {order[k] : k \in DOMAIN order}
           started == {q \in asked : ~Dispatching(q)}
           Upto(q) == {p \in started : \E j, k \in DOMAIN order :
                                         j <= k /\ order[j] = p /\ order[k] = q}
           Position(q) == Cardinality(Upto(q))
           Grant(k) == Min({BatchSize, Excess(Available, (k - 1) * BatchSize)})
           grants == [q \in started |-> Grant(Position(q))]
<1>1. /\ dispatch' = [q \in Queues |->
                       IF q \in started
                       THEN [at |-> IF Grant(Position(q)) > 0 THEN "claiming" ELSE "settling",
                             grant |-> Grant(Position(q))]
                       ELSE dispatch[q]]
      /\ globalReserved' = globalReserved + Total(grants, started)
      /\ triggerPending' = [q \in Queues |->
           triggerPending[q] \/ (q \in asked /\ q \notin started)]
  BY DEF Trigger
<1>2. DOMAIN order = 1..n
  OBVIOUS
<1>3. started \in SUBSET Queues /\ IsFiniteSet(started)
  BY QueuesFinite, FS_Subset
<1>4. \A q \in started : dispatch[q].at = "none"
  BY DEF Dispatching
<1>5. \A q \in started : \E k \in 1..n : order[k] = q
  OBVIOUS
<1>6. Available \in Nat /\ BatchSize \in Nat \ {0}
  BY AvailableIs, PortConstants DEF CreditInv
<1>7. ASSUME NEW k \in Nat \ {0}
      PROVE  /\ Grant(k) \in Nat /\ Grant(k) <= BatchSize
             /\ Grant(k) > 0 => (k - 1) * BatchSize + Grant(k) <= Available
  <2> DEFINE taken == (k - 1) * BatchSize
             left == Excess(Available, taken)
  <2>1. taken \in Nat
    BY <1>6
  <2> HIDE DEF taken
  <2>2. left \in Nat /\ (left > 0 => taken + left = Available)
    BY <1>6, <2>1 DEF Excess
  <2> HIDE DEF left
  <2>3. Grant(k) \in {BatchSize, left} /\ Grant(k) <= BatchSize /\ Grant(k) <= left
    BY <1>6, <2>2, LeastOfTwo DEF left, taken
  <2> HIDE DEF Grant
  <2>4. /\ Grant(k) \in Nat /\ Grant(k) <= BatchSize
        /\ Grant(k) > 0 => taken + Grant(k) <= Available
    BY <1>6, <2>1, <2>2, <2>3
  <2> QED
    BY <2>4 DEF taken
<1>8. \A q \in started : q \in Upto(q) /\ Upto(q) \subseteq started
  <2> SUFFICES ASSUME NEW q \in started PROVE q \in Upto(q) /\ Upto(q) \subseteq started
    OBVIOUS
  <2>1. PICK k \in 1..n : order[k] = q
    BY <1>5
  <2> QED
    BY <1>2, <2>1
<1>9. ASSUME NEW p \in started, NEW q \in started, p # q
      PROVE  \/ Upto(p) \subseteq Upto(q) /\ q \notin Upto(p)
             \/ Upto(q) \subseteq Upto(p) /\ p \notin Upto(q)
  <2> HIDE DEF started
  <2>1. PICK j \in 1..n, k \in 1..n : order[j] = p /\ order[k] = q
    BY <1>5
  <2>2. /\ \A i \in 1..n : order[i] = p => i = j
        /\ \A i \in 1..n : order[i] = q => i = k
    BY <2>1
  <2>3. /\ \A r : r \in Upto(p) <=> r \in started /\ \E i \in 1..n : i <= j /\ order[i] = r
        /\ \A r : r \in Upto(q) <=> r \in started /\ \E i \in 1..n : i <= k /\ order[i] = r
    BY <1>2, <2>1, <2>2
  <2> HIDE DEF Upto
  <2>4. j < k \/ k < j
    BY <1>9, <2>1
  <2>5. CASE j < k
    BY <2>2, <2>3, <2>5
  <2>6. CASE k < j
    BY <2>2, <2>3, <2>6
  <2> QED
    BY <2>4, <2>5, <2>6
<1> HIDE DEF started, Upto
<1>10. \A q \in started : Position(q) \in Nat \ {0} /\ IsFiniteSet(Upto(q))
  <2> SUFFICES ASSUME NEW q \in started
               PROVE  Position(q) \in Nat \ {0} /\ IsFiniteSet(Upto(q))
    OBVIOUS
  <2>1. IsFiniteSet(Upto(q)) /\ Upto(q) # {}
    BY <1>3, <1>8, FS_Subset
  <2> QED
    BY <2>1, FS_CardinalityType, FS_EmptySet
<1>11. ASSUME NEW p \in started, NEW q \in started, p # q
       PROVE  Position(p) < Position(q) \/ Position(q) < Position(p)
  <2>1. ASSUME NEW A, NEW B, IsFiniteSet(A), IsFiniteSet(B), A \subseteq B, A # B
        PROVE  Cardinality(A) < Cardinality(B)
    <3>1. Cardinality(A) \in Nat /\ Cardinality(B) \in Nat
      BY <2>1, FS_CardinalityType
    <3>2. Cardinality(A) <= Cardinality(B) /\ Cardinality(A) # Cardinality(B)
      BY <2>1, FS_Subset
    <3> QED
      BY <3>1, <3>2
  <2>2. IsFiniteSet(Upto(p)) /\ IsFiniteSet(Upto(q))
    BY <1>10
  <2>3. \/ Upto(p) \subseteq Upto(q) /\ Upto(p) # Upto(q)
        \/ Upto(q) \subseteq Upto(p) /\ Upto(q) # Upto(p)
    BY <1>8, <1>9, <1>11
  <2> QED
    BY <2>1, <2>2, <2>3
<1> HIDE DEF Position, Grant
<1>12. /\ Naturals(grants, started)
       /\ \A q \in started : /\ grants[q] = Grant(Position(q)) /\ grants[q] <= BatchSize
  BY <1>7, <1>10 DEF Naturals
<1>13. SumFunctionOnSet(grants, started) <= Available
  <2> DEFINE from == [q \in started |-> (Position(q) - 1) * BatchSize]
  <2>1. from \in [started -> Nat]
    BY <1>6, <1>10
  <2>2. \A q \in started : grants[q] > 0 => from[q] + grants[q] <= Available
    BY <1>7, <1>10, <1>12
  <2>3. ASSUME NEW p \in started, NEW q \in started, Position(p) < Position(q)
        PROVE  from[p] + grants[p] <= from[q]
    <3>1. PICK i \in Nat : i = Position(p) - 1
      BY <1>10
    <3>2. PICK d \in Nat : Position(q) - 1 = i + 1 + d
      <4> DEFINE d == Position(q) - 1 - i - 1
      <4>1. d \in Nat /\ Position(q) - 1 = i + 1 + d
        BY <1>10, <2>3, <3>1
      <4> HIDE DEF d
      <4> QED
        BY <4>1
    <3>3. (i + 1 + d) * BatchSize = i * BatchSize + BatchSize + d * BatchSize
      BY <1>6
    <3>4. d * BatchSize \in Nat /\ i * BatchSize \in Nat
      BY <1>6
    <3>5. grants[p] \in Nat /\ grants[p] <= BatchSize
      BY <1>12 DEF Naturals
    <3> HIDE DEF grants
    <3>6. from[p] = i * BatchSize /\ from[q] = i * BatchSize + BatchSize + d * BatchSize
      BY <3>1, <3>2, <3>3
    <3> HIDE DEF from
    <3> QED
      BY <1>6, <3>4, <3>5, <3>6
  <2>4. \A p, q \in started : p # q => from[p] + grants[p] <= from[q] \/ from[q] + grants[q] <= from[p]
    BY <1>11, <2>3
  <2> HIDE DEF from, grants
  <2> QED
    BY <1>3, <1>6, <1>12, <2>1, <2>2, <2>4, SumPacked
<1>14. /\ \A q \in started : dispatch'[q].grant = grants[q]
       /\ \A q \in started : dispatch'[q].at = IF grants[q] > 0 THEN "claiming" ELSE "settling"
       /\ \A q \in Queues \ started : dispatch'[q] = dispatch[q]
  <2>1. ASSUME NEW q \in started
        PROVE  /\ dispatch'[q].grant = Grant(Position(q))
               /\ dispatch'[q].at = IF Grant(Position(q)) > 0 THEN "claiming" ELSE "settling"
    <3>1. q \in Queues
      BY <1>3
    <3>2. dispatch'[q] = [at |-> IF Grant(Position(q)) > 0 THEN "claiming" ELSE "settling",
                          grant |-> Grant(Position(q))]
      BY <1>1, <3>1
    <3> QED
      BY <3>2
  <2>2. \A q \in Queues \ started : dispatch'[q] = dispatch[q]
    BY <1>1
  <2> QED
    BY <1>12, <2>1, <2>2
<1>15. dispatch' \in Dispatches
  <2> DEFINE D == [at : {"none", "claiming", "releasing", "settling"}, grant : 0..BatchSize]
  <2>1. \A q \in Queues : dispatch[q] \in D
    BY DEF CreditInv, TypeOK
  <2>2. ASSUME NEW q \in started
        PROVE  [at |-> IF Grant(Position(q)) > 0 THEN "claiming" ELSE "settling",
                grant |-> Grant(Position(q))] \in D
    <3>1. Grant(Position(q)) \in 0..BatchSize
      BY <1>6, <1>7, <1>10
    <3> QED
      BY <3>1
  <2> HIDE DEF D
  <2>3. dispatch' \in [Queues -> D]
    BY <1>1, <2>1, <2>2
  <2> QED
    BY <2>3 DEF D, Dispatches
<1>16. triggerPending' \in [Queues -> BOOLEAN]
  BY <1>1
<1>17. \A q \in started : dispatch[q].grant = 0
  BY <1>3, <1>4 DEF CreditInv, Credits
<1> HIDE DEF grants
<1> QED
  BY <1>1, <1>3, <1>12, <1>13, <1>14, <1>15, <1>16, <1>17, GrantingKeeps DEF Total

LEMMA RequestDispatchKeepsCredit ==
  ASSUME CreditInv, NEW q \in Queues, RequestDispatch(q)
  PROVE  CreditInv'
<1> DEFINE order == <<q>>
<1>1. order \in [1..1 -> Queues] /\ \A j, k \in 1..1 : order[j] = order[k] => j = k
  OBVIOUS
<1>2. Trigger(order) /\ UNCHANGED <<backlog, inFlight, facet, port, storeOpen>>
  BY DEF RequestDispatch
<1>3. dispatchCursor' \in 0..(QueueCount - 1)
  BY DEF RequestDispatch, CreditInv, TypeOK
<1> HIDE DEF order
<1> QED
  BY <1>1, <1>2, <1>3, TriggerKeepsCredit

\* The queues of a cycle are all different: it takes them in their order, from the one
\* the cursor is at, and goes round.
LEMMA DispatchCycleKeepsCredit ==
  ASSUME CreditInv, DispatchCycle
  PROVE  CreditInv'
<1> DEFINE n == Cardinality(Registered)
           offset == dispatchCursor % n
           place(k) == ((offset + k - 1) % n) + 1
<1>1. n \in Nat \ {0} /\ n <= QueueCount
  BY QueuesFinite, FS_CardinalityType, FS_EmptySet DEF DispatchCycle
<1>2. dispatchCursor \in 0..(QueueCount - 1)
  BY DEF CreditInv, TypeOK
<1>3. PICK active \in [1..n -> Registered] :
        /\ \A j, k \in 1..n : j < k => active[j] < active[k]
        /\ Trigger([k \in 1..n |-> active[place(k)]])
  BY DEF DispatchCycle
<1>4. UNCHANGED <<backlog, inFlight, facet, port, storeOpen>> /\ dispatchCursor' = (offset + 1) % n
  BY DEF DispatchCycle
<1> HIDE DEF n
<1>5. offset \in 0..(n - 1) /\ dispatchCursor' \in 0..(QueueCount - 1)
  <2>1. offset \in 0..(n - 1)
    BY <1>1, <1>2, PortConstants
  <2>2. dispatchCursor' \in 0..(n - 1)
    BY <1>1, <1>4, <2>1
  <2> QED
    BY <1>1, <2>1, <2>2, PortConstants
<1> HIDE DEF offset
<1>6. ASSUME NEW k \in 1..n
      PROVE  /\ place(k) \in 1..n
             /\ place(k) = offset + k \/ place(k) = offset + k - n
  <2>1. CASE offset + k <= n
    BY <1>1, <1>5, <2>1
  <2>2. CASE offset + k > n
    <3>1. (offset + k - 1) % n = offset + k - 1 - n
      BY <1>1, <1>5, <2>2
    <3> QED
      BY <1>1, <1>5, <2>2, <3>1
  <2> QED
    BY <1>1, <1>5, <2>1, <2>2
<1> HIDE DEF place
<1> DEFINE order == [k \in 1..n |-> active[place(k)]]
<1>7. order \in [1..n -> Queues]
  BY <1>3, <1>6, QueuesFinite
<1>8. ASSUME NEW j \in 1..n, NEW k \in 1..n, order[j] = order[k] PROVE j = k
  <2>1. \A i \in 1..n : active[i] \in Nat
    <3>1. \A p \in Registered : p \in Nat
      BY QueuesFinite, PortConstants DEF Queues
    <3> QED
      BY <1>3, <3>1
  <2>2. active[place(j)] = active[place(k)]
    BY <1>8
  <2>3. place(j) \in 1..n /\ place(k) \in 1..n
    BY <1>6
  <2>4. place(j) = place(k)
    BY <1>1, <1>3, <2>1, <2>2, <2>3
  <2>5. /\ place(j) = offset + j \/ place(j) = offset + j - n
        /\ place(k) = offset + k \/ place(k) = offset + k - n
    BY <1>6
  <2> QED
    BY <1>1, <1>5, <2>4, <2>5
<1> HIDE DEF order
<1>9. Trigger(order)
  BY <1>3 DEF order
<1> QED
  BY <1>1, <1>4, <1>5, <1>7, <1>8, <1>9, TriggerKeepsCredit

LEMMA SettleDispatchKeepsCredit ==
  ASSUME CreditInv, NEW q \in Queues, SettleDispatch(q)
  PROVE  CreditInv'
<1>1. dispatch[q].at = "settling" /\ dispatch[q].grant = 0
  BY DEF SettleDispatch, CreditInv, Credits
<1>2. UNCHANGED <<backlog, inFlight, dispatchCursor, facet, port, storeOpen>>
  BY DEF SettleDispatch
<1>3. /\ dispatch = [p \in Queues |-> dispatch[p]]
      /\ triggerPending \in [Queues -> BOOLEAN]
      /\ dispatchCursor \in 0..(QueueCount - 1)
      /\ dispatch \in Dispatches
  BY DEF CreditInv, TypeOK, Dispatches
<1>4. ASSUME NEW at \in {"none", "claiming", "releasing", "settling"}, NEW grant \in 0..BatchSize,
             dispatch' = [dispatch EXCEPT ![q] = [at |-> at, grant |-> grant]]
      PROVE  /\ dispatch' \in Dispatches /\ dispatch'[q].at = at /\ dispatch'[q].grant = grant
             /\ \A p \in Queues \ {q} : dispatch'[p] = dispatch[p]
  BY <1>3, <1>4 DEF Dispatches
<1>5. CASE triggerPending[q] /\ port = "running" /\ q \in Registered
  <2> DEFINE grant == Min({BatchSize, Available})
             grants == [p \in {q} |-> grant]
  <2>1. /\ dispatch' = [dispatch EXCEPT ![q] =
             [at |-> IF grant > 0 THEN "claiming" ELSE "settling", grant |-> grant]]
        /\ globalReserved' = globalReserved + grant
        /\ triggerPending' = [triggerPending EXCEPT ![q] = FALSE]
    BY <1>5 DEF SettleDispatch
  <2>2. grant \in 0..BatchSize /\ grant <= Available
    BY AvailableIs, PortConstants, LeastOfTwo DEF CreditInv
  <2> HIDE DEF grant
  <2>3. Naturals(grants, {q}) /\ grants[q] = grant /\ grants[q] <= BatchSize
    BY <2>2, PortConstants DEF Naturals
  <2>4. Total(grants, {q}) = grant
    <3>1. SumFunctionOnSet(grants, {q}) = grants[q] + SumFunctionOnSet(grants, {q} \ {q})
      BY <2>3, FS_Singleton, SumWithout
    <3>2. {q} \ {q} = {}
      OBVIOUS
    <3>3. grant \in Nat
      BY <2>2, PortConstants
    <3> QED
      BY <2>3, <3>1, <3>2, <3>3, SumEmpty DEF Total
  <2>5. /\ dispatch' \in Dispatches
        /\ dispatch'[q].at = IF grant > 0 THEN "claiming" ELSE "settling"
        /\ dispatch'[q].grant = grant
        /\ \A p \in Queues \ {q} : dispatch'[p] = dispatch[p]
    <3>1. PICK at : at = IF grant > 0 THEN "claiming" ELSE "settling"
      OBVIOUS
    <3>2. dispatch' = [dispatch EXCEPT ![q] = [at |-> at, grant |-> grant]]
      BY <2>1, <3>1
    <3> QED
      BY <1>4, <2>2, <3>1, <3>2
  <2>6. triggerPending' \in [Queues -> BOOLEAN]
    BY <1>3, <2>1
  <2> HIDE DEF grants
  <2>7. /\ \A p \in {q} : dispatch[p].grant = 0 /\ grants[p] <= BatchSize
        /\ \A p \in {q} : dispatch'[p].grant = grants[p]
        /\ \A p \in {q} : dispatch'[p].at = IF grants[p] > 0 THEN "claiming" ELSE "settling"
        /\ {q} \in SUBSET Queues
    BY <1>1, <2>3, <2>5
  <2>8. /\ Total(grants, {q}) <= Available
        /\ globalReserved' = globalReserved + Total(grants, {q})
        /\ dispatchCursor' \in 0..(QueueCount - 1)
    BY <1>2, <1>3, <2>1, <2>2, <2>4
  <2> QED
    BY <1>2, <2>3, <2>5, <2>6, <2>7, <2>8, GrantingKeeps
<1>6. CASE ~(triggerPending[q] /\ port = "running" /\ q \in Registered)
  <2>1. dispatch' = [dispatch EXCEPT ![q] = NoDispatch] /\ UNCHANGED <<globalReserved, triggerPending>>
    BY <1>6 DEF SettleDispatch
  <2>2. /\ dispatch' \in Dispatches /\ dispatch'[q].at = "none" /\ dispatch'[q].grant = 0
        /\ \A p \in Queues \ {q} : dispatch'[p] = dispatch[p]
    <3>1. 0 \in 0..BatchSize
      BY PortConstants
    <3> QED
      BY <1>4, <2>1, <3>1 DEF NoDispatch
  <2>3. TypeOK'
    BY <1>2, <2>1, <2>2 DEF CreditInv, TypeOK, Dispatches
  <2>4. \A p \in Queues : dispatch'[p].at \in {"none", "settling"} => dispatch'[p].grant = 0
    BY <2>2 DEF CreditInv, Credits
  <2>5. Grants' = Grants /\ Unspent' = Unspent
    BY <1>1, <2>2 DEF Grants, Unspent
  <2>6. /\ Total(Grants, Queues)' = Total(Grants, Queues)
        /\ Total(Unspent, Queues)' = Total(Unspent, Queues)
        /\ Total(inFlight, Registered)' = Total(inFlight, Registered)
    BY <1>2, <2>5 DEF Total, Queues, Registered
  <2> QED
    BY <2>1, <2>3, <2>4, <2>6 DEF CreditInv, Credits
<1> QED
  BY <1>5, <1>6

-----------------------------------------------------------------------------
\* The executions of one queue change in number.
LEMMA ExecutionsChange ==
  ASSUME TypeOK, TypeOK', NEW q \in Queues, UNCHANGED facet,
         \A p \in Queues \ {q} : inFlight'[p] = inFlight[p]
  PROVE  \/ Total(inFlight, Registered)' = Total(inFlight, Registered)
         \/ Total(inFlight, Registered)' + inFlight[q] = Total(inFlight, Registered) + inFlight'[q]
<1>1. Naturals(inFlight, Registered) /\ Naturals(inFlight', Registered)
  BY DEF TypeOK, Naturals, Registered
<1>2. IsFiniteSet(Registered) /\ \A p \in Registered \ {q} : inFlight'[p] = inFlight[p]
  BY QueuesFinite
<1>3. Total(inFlight, Registered)' = Total(inFlight', Registered)
  BY DEF Total, Registered
<1>4. CASE q \in Registered
  BY <1>1, <1>2, <1>3, <1>4, SumChange DEF Total
<1>5. CASE q \notin Registered
  BY <1>1, <1>2, <1>3, <1>5, SumSame DEF Total
<1> QED
  BY <1>4, <1>5

\* A claim that is answered: what was granted is unspent no more, and no more than that
\* is executed.
LEMMA ClaimKeepsCredit ==
  ASSUME CreditInv, NEW q \in Queues, dispatch[q].at = "claiming",
         dispatch' = [dispatch EXCEPT ![q].at = "releasing"],
         NEW started \in Nat, started <= dispatch[q].grant,
         inFlight' = [inFlight EXCEPT ![q] = @ + started], backlog' \in [Queues -> Nat],
         UNCHANGED <<globalReserved, dispatchCursor, triggerPending, facet, port, storeOpen>>
  PROVE  CreditInv'
<1>1. /\ inFlight \in [Queues -> Nat] /\ dispatch \in Dispatches
      /\ dispatch[q].grant \in Nat
  BY DispatchShapes DEF CreditInv, TypeOK, Dispatches
<1>2. /\ inFlight' \in [Queues -> Nat] /\ inFlight'[q] = inFlight[q] + started
      /\ \A p \in Queues \ {q} : inFlight'[p] = inFlight[p]
  BY <1>1
<1>3. /\ dispatch' \in Dispatches
      /\ dispatch'[q].at = "releasing" /\ dispatch'[q].grant = dispatch[q].grant
      /\ \A p \in Queues \ {q} : dispatch'[p] = dispatch[p]
  BY <1>1 DEF Dispatches
<1>4. TypeOK'
  BY <1>2, <1>3 DEF CreditInv, TypeOK, Dispatches
<1>5. \A p \in Queues : dispatch'[p].at \in {"none", "settling"} => dispatch'[p].grant = 0
  BY <1>3 DEF CreditInv, Credits
<1>6. Grants' = Grants
  BY <1>3 DEF Grants
<1>7. /\ Unspent[q] = dispatch[q].grant /\ Unspent'[q] = 0
      /\ \A p \in Queues \ {q} : Unspent'[p] = Unspent[p]
  BY <1>3 DEF Unspent
<1>8. Naturals(Unspent, Queues) /\ Naturals(Unspent', Queues)
  <2>1. Naturals(Unspent, Queues)'
    BY <1>4, CreditSums, PTL
  <2> QED
    BY <2>1, CreditSums DEF CreditInv, Naturals
<1>9. Total(Unspent', Queues) + Unspent[q] = Total(Unspent, Queues) + Unspent'[q]
  BY <1>7, <1>8, QueuesFinite, SumChange DEF Total
<1>10. \/ Total(inFlight, Registered)' = Total(inFlight, Registered)
       \/ Total(inFlight, Registered)' + inFlight[q] = Total(inFlight, Registered) + inFlight'[q]
  BY <1>2, <1>4, ExecutionsChange DEF CreditInv
<1>11. /\ Total(Grants, Queues)' = Total(Grants, Queues)
       /\ Total(Unspent, Queues)' = Total(Unspent', Queues)
  BY <1>6 DEF Total, Queues
<1>12. /\ Total(Unspent, Queues) \in Nat /\ Total(Unspent', Queues) \in Nat
       /\ Total(inFlight, Registered) \in Nat /\ Total(inFlight, Registered)' \in Nat
       /\ inFlight[q] \in Nat /\ GlobalLimit \in Nat
  <2>1. (Total(Unspent, Queues) \in Nat /\ Total(inFlight, Registered) \in Nat)'
    BY <1>4, CreditSums, PTL
  <2> QED
    BY <1>1, <1>11, <2>1, CreditSums, PortConstants DEF CreditInv
<1>13. Total(inFlight, Registered) + Total(Unspent, Queues) <= GlobalLimit
  BY DEF CreditInv, Credits
<1>14. Total(inFlight, Registered)' + Total(Unspent', Queues) <= GlobalLimit
  <2> DEFINE a == Total(inFlight, Registered)
             b == Total(inFlight, Registered)'
             u == Total(Unspent, Queues)
             v == Total(Unspent', Queues)
             i == inFlight[q]
             g == dispatch[q].grant
  <2>1. /\ a \in Nat /\ b \in Nat /\ u \in Nat /\ v \in Nat /\ i \in Nat /\ g \in Nat
        /\ v + g = u /\ (b = a \/ b + i = a + (i + started)) /\ a + u <= GlobalLimit
        /\ GlobalLimit \in Nat /\ started <= g
    <3>1. v + g = u
      BY <1>7, <1>9, <1>12
    <3>2. b = a \/ b + i = a + (i + started)
      BY <1>2, <1>10
    <3> QED
      BY <1>1, <1>12, <1>13, <3>1, <3>2
  <2> HIDE DEF a, b, u, v, i, g
  <2>2. b + v <= GlobalLimit
    BY <2>1
  <2> QED
    BY <2>2 DEF b, v
<1> QED
  BY <1>4, <1>5, <1>11, <1>14 DEF CreditInv, Credits

LEMMA ClaimsKeepCredit ==
  ASSUME CreditInv, NEW q \in Queues, DispatchOnce(q) \/ DispatchFails(q)
  PROVE  CreditInv'
<1>1. /\ backlog \in [Queues -> Nat] /\ inFlight \in [Queues -> Nat]
      /\ dispatch[q].grant \in Nat
  BY DispatchShapes DEF CreditInv, TypeOK
<1>2. CASE DispatchOnce(q)
  <2> DEFINE started == Min({dispatch[q].grant, Excess(MaxInFlight, inFlight[q]), backlog[q]})
  <2>1. Excess(MaxInFlight, inFlight[q]) \in Nat
    BY <1>1, PortConstants DEF Excess
  <2>2. started \in Nat /\ started <= dispatch[q].grant /\ started <= backlog[q]
    BY <1>1, <2>1, LeastOfThree
  <2>3. /\ dispatch[q].at = "claiming"
        /\ backlog' = [backlog EXCEPT ![q] = @ - started]
        /\ inFlight' = [inFlight EXCEPT ![q] = @ + started]
        /\ dispatch' = [dispatch EXCEPT ![q].at = "releasing"]
        /\ UNCHANGED <<globalReserved, dispatchCursor, triggerPending, facet, port, storeOpen>>
    BY <1>2 DEF DispatchOnce
  <2> HIDE DEF started
  <2>4. backlog' \in [Queues -> Nat]
    BY <1>1, <2>2, <2>3
  <2> QED
    BY <2>2, <2>3, <2>4, ClaimKeepsCredit
<1>3. CASE DispatchFails(q)
  <2>1. inFlight' = [inFlight EXCEPT ![q] = @ + 0] /\ backlog' \in [Queues -> Nat]
    BY <1>1, <1>3 DEF DispatchFails
  <2>2. /\ dispatch[q].at = "claiming" /\ dispatch' = [dispatch EXCEPT ![q].at = "releasing"]
        /\ UNCHANGED <<globalReserved, dispatchCursor, triggerPending, facet, port, storeOpen>>
    BY <1>3 DEF DispatchFails
  <2>3. 0 \in Nat /\ 0 <= dispatch[q].grant
    BY <1>1
  <2> QED
    BY <2>1, <2>2, <2>3, ClaimKeepsCredit
<1> QED
  BY <1>2, <1>3

\* What is given back is what was reserved for this dispatch, and never more than all.
LEMMA ReleaseKeepsCredit ==
  ASSUME CreditInv, NEW q \in Queues, Release(q)
  PROVE  CreditInv'
<1>1. /\ dispatch[q].at = "releasing"
      /\ globalReserved' = Excess(globalReserved, dispatch[q].grant)
      /\ dispatch' = [dispatch EXCEPT ![q] = [at |-> "settling", grant |-> 0]]
      /\ UNCHANGED <<backlog, inFlight, dispatchCursor, triggerPending, facet, port, storeOpen>>
  BY DEF Release
<1>2. /\ dispatch \in Dispatches /\ dispatch[q].grant \in Nat /\ globalReserved \in 0..GlobalLimit
      /\ globalReserved \in Nat
  <2>1. dispatch \in Dispatches /\ globalReserved \in 0..GlobalLimit
    BY DEF CreditInv, TypeOK, Dispatches
  <2>2. dispatch[q].grant \in Nat
    BY DispatchShapes DEF CreditInv
  <2> QED
    BY <2>1, <2>2, PortConstants
<1>3. /\ dispatch' \in Dispatches /\ dispatch'[q].at = "settling" /\ dispatch'[q].grant = 0
      /\ \A p \in Queues \ {q} : dispatch'[p] = dispatch[p]
  BY <1>1, <1>2, PortConstants DEF Dispatches
<1>4. /\ Grants[q] = dispatch[q].grant /\ Grants'[q] = 0
      /\ \A p \in Queues \ {q} : Grants'[p] = Grants[p]
      /\ Unspent' = Unspent
  BY <1>1, <1>3 DEF Grants, Unspent
<1>5. Naturals(Grants, Queues) /\ Naturals(Grants', Queues)
  <2>1. Naturals(Grants, Queues)
    BY CreditSums DEF CreditInv
  <2> QED
    BY <1>4, <2>1 DEF Naturals
<1>6. Total(Grants', Queues) + Grants[q] = Total(Grants, Queues) + Grants'[q]
  BY <1>4, <1>5, QueuesFinite, SumChange DEF Total
<1>7. Total(Grants', Queues) \in Nat
  BY <1>5, QueuesFinite, SumType DEF Total
<1>8. globalReserved = Total(Grants, Queues)
  BY DEF CreditInv, Credits
<1>9. globalReserved' = Total(Grants', Queues) /\ globalReserved' \in 0..GlobalLimit
  <2>1. Total(Grants', Queues) + dispatch[q].grant = globalReserved
    BY <1>2, <1>4, <1>6, <1>8
  <2> QED
    BY <1>1, <1>2, <1>7, <2>1, PortConstants DEF Excess
<1>10. TypeOK'
  BY <1>1, <1>3, <1>9 DEF CreditInv, TypeOK, Dispatches
<1>11. \A p \in Queues : dispatch'[p].at \in {"none", "settling"} => dispatch'[p].grant = 0
  BY <1>3 DEF CreditInv, Credits
<1>12. /\ Total(Grants, Queues)' = Total(Grants', Queues)
       /\ Total(Unspent, Queues)' = Total(Unspent, Queues)
       /\ Total(inFlight, Registered)' = Total(inFlight, Registered)
  BY <1>1, <1>4 DEF Total, Queues, Registered
<1> QED
  BY <1>9, <1>10, <1>11, <1>12 DEF CreditInv, Credits

\* Steps that reserve and claim nothing, and after which no more is executed.
LEMMA OtherStepsKeepCredit ==
  ASSUME CreditInv, TypeOK', UNCHANGED <<globalReserved, dispatch>>,
         Total(inFlight, Registered)' <= Total(inFlight, Registered)
  PROVE  CreditInv'
<1>1. /\ Total(Grants, Queues)' = Total(Grants, Queues)
      /\ Total(Unspent, Queues)' = Total(Unspent, Queues)
  BY DEF Total, Grants, Unspent, Queues
<1>2. /\ Total(Unspent, Queues) \in Nat /\ Total(inFlight, Registered) \in Nat
      /\ Total(inFlight, Registered)' \in Nat
  <2>1. (Total(inFlight, Registered) \in Nat)'
    BY CreditSums, PTL
  <2> QED
    BY <2>1, CreditSums DEF CreditInv
<1>3. Total(inFlight, Registered) + Total(Unspent, Queues) <= GlobalLimit
  BY DEF CreditInv, Credits
<1>4. Total(inFlight, Registered)' + Total(Unspent, Queues) <= GlobalLimit
  BY <1>2, <1>3, PortConstants
<1>5. \A p \in Queues : dispatch'[p].at \in {"none", "settling"} => dispatch'[p].grant = 0
  BY DEF CreditInv, Credits
<1> QED
  BY <1>1, <1>4, <1>5 DEF CreditInv, Credits

LEMMA ExecutionEndsKeepsCredit ==
  ASSUME CreditInv, NEW q \in Queues, ExecutionEnds(q)
  PROVE  CreditInv'
<1>1. /\ inFlight \in [Queues -> Nat] /\ backlog \in [Queues -> Nat]
  BY DEF CreditInv, TypeOK
<1>2. /\ inFlight[q] > 0 /\ inFlight' = [inFlight EXCEPT ![q] = @ - 1]
      /\ backlog' = backlog \/ backlog' = [backlog EXCEPT ![q] = @ + 1]
      /\ UNCHANGED <<globalReserved, dispatchCursor, dispatch, triggerPending, facet, port,
                     storeOpen>>
  BY DEF ExecutionEnds, creditVars
<1>3. /\ inFlight' \in [Queues -> Nat] /\ backlog' \in [Queues -> Nat]
      /\ inFlight'[q] <= inFlight[q] /\ inFlight[q] \in Nat /\ inFlight'[q] \in Nat
      /\ \A p \in Queues \ {q} : inFlight'[p] = inFlight[p]
  BY <1>1, <1>2
<1>4. TypeOK'
  BY <1>2, <1>3 DEF CreditInv, TypeOK
<1>5. \/ Total(inFlight, Registered)' = Total(inFlight, Registered)
      \/ Total(inFlight, Registered)' + inFlight[q] = Total(inFlight, Registered) + inFlight'[q]
  BY <1>2, <1>3, <1>4, ExecutionsChange DEF CreditInv
<1>6. Total(inFlight, Registered) \in Nat /\ Total(inFlight, Registered)' \in Nat
  <2>1. (Total(inFlight, Registered) \in Nat)'
    BY <1>4, CreditSums, PTL
  <2> QED
    BY <2>1, CreditSums DEF CreditInv
<1>7. Total(inFlight, Registered)' <= Total(inFlight, Registered)
  BY <1>3, <1>5, <1>6
<1> QED
  BY <1>2, <1>4, <1>7, OtherStepsKeepCredit

\* A facet that is closed takes its executions out of the count, and the port's close and
\* new work change none.
LEMMA RestKeepsCredit ==
  ASSUME CreditInv, NEW q \in Queues,
         \/ Enqueue(q)
         \/ Close(q) \/ CloseAwaitsDispatch(q) \/ CloseDrained(q) \/ CloseTimesOut(q)
         \/ Stop \/ Stopped \/ StopTimesOut \/ CloseAgain
  PROVE  CreditInv'
<1>1. /\ UNCHANGED <<inFlight, globalReserved, dispatchCursor, dispatch, triggerPending>>
      /\ backlog' = backlog \/ backlog' = [backlog EXCEPT ![q] = @ + 1]
      /\ \/ facet' = facet
         \/ \E to \in {"waiting", "draining", "closed", "failed"} : facet' = [facet EXCEPT ![q] = to]
      /\ port' = port \/ port' \in {"stopping", "stopped", "failed", "stopped again"}
      /\ storeOpen' = storeOpen \/ storeOpen' = FALSE
  BY DEF Enqueue, Close, CloseAwaitsDispatch, CloseDrained, CloseTimesOut, FacetGoes,
         Stop, Stopped, StopTimesOut, CloseAgain, PortGoes, creditVars
<1>2. /\ backlog' \in [Queues -> Nat]
      /\ facet' \in [Queues -> {"open", "waiting", "draining", "closed", "failed"}]
      /\ Registered' \subseteq Registered
  <2>1. /\ backlog \in [Queues -> Nat]
        /\ facet \in [Queues -> {"open", "waiting", "draining", "closed", "failed"}]
    BY DEF CreditInv, TypeOK
  <2>2. backlog' \in [Queues -> Nat]
    <3>1. CASE backlog' = backlog
      BY <2>1, <3>1
    <3>2. CASE backlog' = [backlog EXCEPT ![q] = @ + 1]
      BY <2>1, <3>2
    <3> QED
      BY <1>1, <3>1, <3>2
  <2>3. /\ facet' \in [Queues -> {"open", "waiting", "draining", "closed", "failed"}]
        /\ \A p \in Queues : facet'[p] = "open" => facet[p] = "open"
    BY <1>1, <2>1
  <2> QED
    BY <2>2, <2>3 DEF Registered
<1>3. TypeOK'
  BY <1>1, <1>2 DEF CreditInv, TypeOK
<1>4. Total(inFlight, Registered)' <= Total(inFlight, Registered)
  <2> DEFINE S == Registered
             T == Registered'
  <2>1. Naturals(inFlight, S) /\ Naturals(inFlight, T) /\ T \in SUBSET S
    BY <1>2, CreditSums DEF CreditInv, Naturals
  <2>2. IsFiniteSet(S) /\ \A p \in T : inFlight[p] <= inFlight[p]
    BY <2>1, QueuesFinite DEF Naturals
  <2>3. Total(inFlight, Registered)' = Total(inFlight, T)
    BY <1>1 DEF Total
  <2> HIDE DEF S, T
  <2>4. Total(inFlight, T) <= Total(inFlight, S)
    BY <2>1, <2>2, SumMonotone DEF Total
  <2> QED
    BY <2>3, <2>4 DEF S
<1> QED
  BY <1>1, <1>3, <1>4, OtherStepsKeepCredit

\* The process-wide ceiling holds in every state, and the variables keep their types:
\* reserveGlobalCredit subtracts the reservations and the executions in flight, and no
\* dispatch claims more than it reserved, however triggers, claims, releases and the
\* closing of facets interleave.
THEOREM Credit == Spec => []CreditInv
<1>1. Init => CreditInv
  <2> SUFFICES ASSUME Init PROVE CreditInv
    OBVIOUS
  <2>1. TypeOK
    BY PortConstants DEF Init, NoDispatch, TypeOK
  <2>2. /\ \A q \in Queues : Grants[q] = 0 /\ Unspent[q] = 0 /\ dispatch[q].grant = 0
        /\ \A q \in Registered : inFlight[q] = 0
        /\ globalReserved = 0
    BY DEF Init, NoDispatch, Grants, Unspent, Registered
  <2>3. /\ Total(Grants, Queues) = 0 /\ Total(Unspent, Queues) = 0
        /\ Total(inFlight, Registered) = 0
    BY <2>2, QueuesFinite, SumOfNothing DEF Total
  <2> QED
    BY <2>1, <2>2, <2>3, PortConstants DEF CreditInv, Credits
<1>2. CreditInv /\ [Next]_vars => CreditInv'
  <2> SUFFICES ASSUME CreditInv, [Next]_vars PROVE CreditInv'
    OBVIOUS
  <2>1. ASSUME NEW q \in Queues, QueueStep(q) PROVE CreditInv'
    <3>1. CASE RequestDispatch(q)
      BY <3>1, RequestDispatchKeepsCredit
    <3>2. CASE DispatchOnce(q) \/ DispatchFails(q)
      BY <3>2, ClaimsKeepCredit
    <3>3. CASE Release(q)
      BY <3>3, ReleaseKeepsCredit
    <3>4. CASE SettleDispatch(q)
      BY <3>4, SettleDispatchKeepsCredit
    <3>5. CASE ExecutionEnds(q)
      BY <3>5, ExecutionEndsKeepsCredit
    <3>6. CASE \/ Enqueue(q)
               \/ Close(q) \/ CloseAwaitsDispatch(q) \/ CloseDrained(q) \/ CloseTimesOut(q)
      BY <3>6, RestKeepsCredit
    <3> QED
      BY <2>1, <3>1, <3>2, <3>3, <3>4, <3>5, <3>6 DEF QueueStep
  <2>2. CASE DispatchCycle
    BY <2>2, DispatchCycleKeepsCredit
  <2>3. CASE Stop \/ Stopped \/ StopTimesOut \/ CloseAgain
    <3>1. 1 \in Queues
      BY PortConstants DEF Queues
    <3> QED
      BY <2>3, <3>1, RestKeepsCredit
  <2>4. CASE UNCHANGED vars
    <3>1. TypeOK'
      BY <2>4 DEF vars, CreditInv, TypeOK
    <3>2. Credits'
      BY <2>4 DEF vars, CreditInv, Credits, Total, Grants, Unspent, Registered, Queues
    <3> QED
      BY <3>1, <3>2 DEF CreditInv
  <2> QED
    BY <2>1, <2>2, <2>3, <2>4 DEF Next
<1> QED
  BY <1>1, <1>2, PTL DEF Spec

\* Type correctness of the port: no counter of credit or of executions leaves its range.
THEOREM PortTypes == Spec => []TypeOK
<1>1. CreditInv => TypeOK
  BY DEF CreditInv
<1> QED
  BY <1>1, Credit, PTL

\* All registered queues of the process together never execute more than the global limit
\* (reserveGlobalCredit), in whatever order they are triggered and served.
THEOREM CeilingHolds == Spec => []RegisteredCeiling
<1>1. CreditInv => RegisteredCeiling
  <2> SUFFICES ASSUME CreditInv PROVE Total(inFlight, Registered) <= GlobalLimit
    BY DEF RegisteredCeiling
  <2>1. Total(inFlight, Registered) + Total(Unspent, Queues) <= GlobalLimit
    BY DEF CreditInv, Credits
  <2>2. Total(inFlight, Registered) \in Nat /\ Total(Unspent, Queues) \in Nat
    BY CreditSums DEF CreditInv
  <2> QED
    BY <2>1, <2>2, PortConstants
<1> QED
  BY <1>1, Credit, PTL
===============================================================================
