------------------------ MODULE ForecastRunProofs ------------------------
(***************************************************************************)
(* That every question starts its forecasters with the complementary share *)
(* of its budget, for any number of questions, models and research slots   *)
(* and any close times.                                                    *)
(*                                                                         *)
(* The inductive argument: budgets are granted at time 0 in batch order,   *)
(* so they are sorted as the batch is; the semaphore is first-come         *)
(* first-served, so whoever holds a slot precedes whoever waits; hence     *)
(* while q waits, some earlier r holds a slot and r's timer, set to r's    *)
(* window, has not expired; and r's window ends no later than q's.         *)
(*                                                                         *)
(* Three more arguments follow.  What is dropped follows what became of a  *)
(* member, so that the raise site and the gather never both record it.     *)
(* The counters of forfeits are the sizes of sets of questions, which each *)
(* step moves with the counter.  And the reserve before a close is kept    *)
(* because the timer of the stage under way, with all that the stages      *)
(* after it may take, ends within the budget: the route enters the ladder  *)
(* only with room for the whole of it, and a stage hands on what it kept.  *)
(***************************************************************************)
EXTENDS ForecastRun, FiniteSetTheorems, TLAPS

Granted(q) == phase[q] # "batched"

\* The budget the code grants at time 0.
TotalAtStart(q) ==
    IF close[q] = NoClose THEN StaticDeadline
    ELSE Smaller(StaticDeadline, close[q] - PublishReserve)

GrantedInOrder ==
    /\ \A q, r \in Questions : q < r /\ Granted(r) => Granted(q)
    /\ (\E q \in Questions : ~Granted(q)) => clock = 0
    /\ \A q \in Questions : startedAt[q] = 0
    /\ \A q \in Questions : Granted(q) => total[q] = TotalAtStart(q)

FirstComeFirstServed ==
    /\ \A q, r \in Questions :
          q < r /\ phase[q] = "waiting" => phase[r] \in {"batched", "waiting", "skipped_intake"}
    /\ \A q \in Questions : phase[q] \in Holding => \A r \in Questions : Granted(r)

WithinWindow ==
    /\ \A q \in Questions :
          phase[q] \in {"waiting"} \cup Holding => clock <= ResearchWindow(total[q])
    /\ \A q \in Questions : phase[q] \in Holding => deadline[q] = ResearchWindow(total[q])

IInv ==
    /\ TypeOK
    /\ TightestFirst(close)
    /\ GrantedInOrder
    /\ FirstComeFirstServed
    /\ WithinWindow
    /\ ForecastShareProtected

LEMMA WindowFacts ==
    ASSUME NEW a \in Int, NEW b \in Int
    PROVE  /\ ResearchWindow(a) \in Int
           /\ a <= b => ResearchWindow(a) <= ResearchWindow(b)
           /\ a > 0 => ResearchWindow(a) >= 0
  BY DEF ResearchWindow

\* Sorted close times make sorted budgets.
LEMMA TotalsSorted ==
    ASSUME TypeOK, TightestFirst(close), GrantedInOrder,
           NEW q \in Questions, NEW r \in Questions, q < r, Granted(r)
    PROVE  total[q] <= total[r]
<1>1. Granted(q)
  BY DEF GrantedInOrder
<1>2. total[q] = TotalAtStart(q) /\ total[r] = TotalAtStart(r)
  BY <1>1 DEF GrantedInOrder
<1>3. close[r] # NoClose => close[q] # NoClose /\ close[q] <= close[r]
  BY DEF TightestFirst
<1>4. /\ close[r] # NoClose => close[r] \in Nat
      /\ close[q] # NoClose => close[q] \in Nat
  BY RunAssumption DEF TypeOK
<1>5. StaticDeadline \in Nat /\ PublishReserve \in Nat
  BY DeadlineAssumption
<1> QED
  BY <1>2, <1>3, <1>4, <1>5 DEF TotalAtStart, Smaller

LEMMA TypeCorrectInit == Init => TypeOK
  BY RunAssumption DEF Init, TypeOK, Phases, Runnable, MemberStates

\* The quantities the actions compute are numbers.
LEMMA BudgetTypes ==
    ASSUME TypeOK, NEW q \in Questions
    PROVE  /\ GrantedTotal(q) \in Int
           /\ GrantedCloseLimited(q) \in BOOLEAN
           /\ Remaining(q) \in Int
           /\ Larger(0, Remaining(q)) \in Nat
           /\ ResearchPhaseDeadline(q) \in Nat
           /\ \A soft \in Nat : EnrichmentTimeout(q, soft) \in Nat
<1>1. close[q] # NoClose => close[q] \in Nat
  BY RunAssumption DEF TypeOK
<1>2. total[q] \in Int /\ startedAt[q] \in Nat /\ clock \in Nat
  BY DEF TypeOK
<1>3. ResearchWindow(total[q]) \in Int
  BY <1>2, WindowFacts
<1> QED
  BY <1>1, <1>2, <1>3, DeadlineAssumption
  DEF GrantedTotal, GrantedCloseLimited, CloseAllows, Remaining, Elapsed, Larger, Smaller,
      ResearchPhaseDeadline, EnrichmentTimeout

\* A step that only moves accepted questions between phases and re-arms timers
\* keeps the types.
LEMMA MoveKeepsTypes ==
    ASSUME TypeOK, phase' \in [Questions -> Phases],
           \A r \in Questions : phase'[r] \notin {"batched", "skipped_intake"} =>
                                   phase[r] \notin {"batched", "skipped_intake"},
           deadline' \in [Questions -> Nat], skippedClosed' \in Nat, failedToPublish' \in Nat,
           clock' = clock, close' = close, adminClosed' = adminClosed, total' = total,
           startedAt' = startedAt, closeLimited' = closeLimited, member' = member,
           drops' = drops, fanOutAt' = fanOutAt, fastPathCount' = fastPathCount
    PROVE  TypeOK'
  BY DEF TypeOK

\* Every step of a question's coroutine keeps the types.
LEMMA TypeCorrectQuestion ==
    ASSUME TypeOK, NEW q \in Questions, QuestionStep(q)
    PROVE  TypeOK'
<1> USE DEF vars, intakeVars, budgetVars, memberVars, counters, Phases, Timed, Holding, Runnable,
            Settled, MemberStates
<1>0. /\ Larger(0, Remaining(q)) \in Nat /\ ResearchPhaseDeadline(q) \in Nat
      /\ EnrichmentTimeout(q, CruxDeadline) \in Nat /\ EnrichmentTimeout(q, SearchDeadline) \in Nat
      /\ StackerDeadline \in Nat /\ FallbackDeadline \in Nat
  BY BudgetTypes, DeadlineAssumption
<1>1. CASE Grant(q)
  <2>1. GrantedTotal(q) \in Int /\ GrantedCloseLimited(q) \in BOOLEAN
    BY BudgetTypes
  <2>2. ~Exhausted(GrantedTotal(q), GrantedCloseLimited(q)) => GrantedTotal(q) > 0
    BY <2>1 DEF Exhausted
  <2> QED BY <1>1, <2>1, <2>2 DEF Grant, TypeOK
<1>2. CASE AcquireSlot(q)
  BY <1>0, <1>2 DEF AcquireSlot, FirstWaiting, TypeOK
<1>3. ASSUME StartFanOut(q), phase[q] \in Holding PROVE TypeOK'
  BY <1>0, <1>3 DEF StartFanOut, TypeOK
<1>4. CASE ProvidersEnd(q)
  <2>1. CASE StartFanOut(q)
    BY <1>3, <1>4, <2>1 DEF ProvidersEnd
  <2>2. CASE ~StartFanOut(q)
    <3>1. phase[q] = "providers" /\ phase' = [phase EXCEPT ![q] = "gap_fill"]
      BY <1>4, <2>2 DEF ProvidersEnd
    <3>2. deadline' \in [Questions -> Nat]
      BY <1>0, <1>4, <2>2 DEF ProvidersEnd, TypeOK
    <3> QED BY <1>4, <2>2, <3>1, <3>2, MoveKeepsTypes DEF ProvidersEnd, TypeOK
  <2> QED BY <2>1, <2>2
<1>5. CASE GapFillEnds(q)
  BY <1>3, <1>5 DEF GapFillEnds
<1>6. ASSUME NEW m \in Models, MemberEnds(q, m) PROVE TypeOK'
  BY <1>6 DEF MemberEnds, TypeOK
<1>7. ASSUME NEW m \in Models, MemberTimesOut(q, m) PROVE TypeOK'
  BY <1>7 DEF MemberTimesOut, TypeOK
<1>8. CASE GatherReturns(q)
  <2>1. [m \in Models |-> drops[q][m] + IF GatherRecords(q, m) THEN 1 ELSE 0] \in [Models -> Nat]
    BY DEF TypeOK
  <2>2. [m \in Models |-> IF m \in Pending(q) THEN "cancelled" ELSE member[q][m]]
            \in [Models -> MemberStates]
    BY DEF TypeOK
  <2> QED BY <1>8, <2>1, <2>2 DEF GatherReturns, TypeOK
<1>9. CASE AfterGather(q)
  <2>1. CASE MinForecastersGuard(q)
    BY <1>9, <2>1, MoveKeepsTypes DEF AfterGather, MinForecastersGuard, TypeOK
  <2>2. CASE RouteAfterForecasts(q)
    <3>1. CASE Aggregated(q)
      BY <1>9, <2>2, <3>1, MoveKeepsTypes DEF AfterGather, RouteAfterForecasts, Aggregated, TypeOK
    <3>2. CASE Await(q, "primary", StackerDeadline)
      BY <1>0, <1>9, <2>2, <3>2, MoveKeepsTypes DEF AfterGather, RouteAfterForecasts, Await, TypeOK
    <3>3. CASE Await(q, "crux", EnrichmentTimeout(q, CruxDeadline))
      BY <1>0, <1>9, <2>2, <3>3, MoveKeepsTypes DEF AfterGather, RouteAfterForecasts, Await, TypeOK
    <3> QED BY <2>2, <3>1, <3>2, <3>3 DEF RouteAfterForecasts
  <2> QED BY <1>9, <2>1, <2>2 DEF AfterGather
<1>10. CASE CruxEnds(q)
  <2>1. CASE Await(q, "search", EnrichmentTimeout(q, SearchDeadline))
    BY <1>0, <1>10, <2>1, MoveKeepsTypes DEF CruxEnds, Await, TypeOK
  <2>2. CASE Await(q, "primary", StackerDeadline)
    BY <1>0, <1>10, <2>2, MoveKeepsTypes DEF CruxEnds, Await, TypeOK
  <2> QED BY <1>10, <2>1, <2>2 DEF CruxEnds
<1>11. CASE SearchEnds(q)
  BY <1>0, <1>11, MoveKeepsTypes DEF SearchEnds, Await, TypeOK
<1>12. CASE PrimaryEnds(q)
  <2>1. CASE Aggregated(q)
    BY <1>12, <2>1, MoveKeepsTypes DEF PrimaryEnds, Aggregated, TypeOK
  <2>2. CASE Await(q, "fallback", FallbackDeadline)
    BY <1>0, <1>12, <2>2, MoveKeepsTypes DEF PrimaryEnds, Await, TypeOK
  <2> QED BY <1>12, <2>1, <2>2 DEF PrimaryEnds
<1>13. CASE FallbackEnds(q)
  BY <1>13, MoveKeepsTypes DEF FallbackEnds, Aggregated, TypeOK
<1>14. CASE PublishGate(q)
  <2>1. phase[q] = "ready" /\ \E to \in {"skipped_gate", "posted"} : phase' = [phase EXCEPT ![q] = to]
    BY <1>14 DEF PublishGate
  <2>2. phase' \in [Questions -> Phases]
    BY <2>1 DEF TypeOK
  <2>3. skippedClosed' \in Nat /\ failedToPublish' \in Nat /\ deadline' \in [Questions -> Nat]
    BY <1>14 DEF PublishGate, TypeOK
  <2>4. \A r \in Questions : phase'[r] \notin {"batched", "skipped_intake"} =>
                               phase[r] \notin {"batched", "skipped_intake"}
    BY <2>1 DEF TypeOK
  <2> QED BY <1>14, <2>2, <2>3, <2>4, MoveKeepsTypes DEF PublishGate
<1> QED
  BY <1>1, <1>2, <1>4, <1>5, <1>6, <1>7, <1>8, <1>9, <1>10, <1>11, <1>12, <1>13, <1>14
  DEF QuestionStep

LEMMA TypeCorrectStep == TypeOK /\ [Next]_vars => TypeOK'
<1> SUFFICES ASSUME TypeOK, [Next]_vars PROVE TypeOK'
  OBVIOUS
<1>1. CASE Tick
  BY <1>1 DEF Tick, TypeOK, intakeVars, budgetVars, memberVars, counters
<1>2. CASE \E q \in Questions : QuestionStep(q)
  BY <1>2, TypeCorrectQuestion
<1>3. CASE UNCHANGED vars
  BY <1>3 DEF TypeOK, vars, intakeVars, budgetVars, memberVars, counters
<1> QED BY <1>1, <1>2, <1>3 DEF Next

\* The type invariant, for every value of the constants.
THEOREM TypeCorrect == Spec => []TypeOK
  BY TypeCorrectInit, TypeCorrectStep, PTL DEF Spec

-----------------------------------------------------------------------------
(* The inductive invariant *)

\* The phases before a question's fan-out.
Early == {"batched", "skipped_intake", "waiting"} \cup Holding

LEMMA InvariantInit == Init => IInv
<1> SUFFICES ASSUME Init PROVE IInv
  OBVIOUS
<1>1. TypeOK
  BY TypeCorrectInit
<1> QED
  BY <1>1 DEF IInv, Init, GrantedInOrder, Granted, FirstComeFirstServed, WithinWindow,
              ForecastShareProtected, Holding

\* A step within the phases after research touches nothing the invariant reads.
LaterStep ==
    /\ \A r \in Questions : \/ phase'[r] = phase[r] /\ deadline'[r] = deadline[r]
                            \/ phase[r] \notin Early /\ phase'[r] \notin Early
    /\ clock' = clock /\ close' = close /\ total' = total /\ startedAt' = startedAt
    /\ fanOutAt' = fanOutAt

LEMMA LaterStepKeepsInvariant ==
    ASSUME IInv, TypeOK', LaterStep
    PROVE  IInv'
<1> USE DEF LaterStep
<1>1. GrantedInOrder' /\ TightestFirst(close)'
  BY DEF IInv, GrantedInOrder, Granted, TotalAtStart, TightestFirst, Early
<1>2. FirstComeFirstServed'
  BY DEF IInv, FirstComeFirstServed, Granted, Early
<1>3. WithinWindow'
  BY DEF IInv, WithinWindow, Early
<1>4. ForecastShareProtected'
  BY DEF IInv, ForecastShareProtected, Early
<1> QED BY <1>1, <1>2, <1>3, <1>4 DEF IInv

\* One question moves within the phases after research.
LaterMove(q) ==
    /\ phase[q] \notin Early /\ phase'[q] \notin Early
    /\ \A r \in Questions \ {q} : phase'[r] = phase[r] /\ deadline'[r] = deadline[r]
    /\ clock' = clock /\ close' = close /\ total' = total /\ startedAt' = startedAt
    /\ fanOutAt' = fanOutAt

\* One question moves from the gather on, and no forecaster of any question does.
LadderMove(q) ==
    /\ phase[q] \notin Early \cup {"fan_out"}
    /\ \E s \in Phases \ (Early \cup {"fan_out"}) : phase' = [phase EXCEPT ![q] = s]
    /\ \A r \in Questions \ {q} : deadline'[r] = deadline[r]
    /\ UNCHANGED <<clock, intakeVars, budgetVars, memberVars>>

\* The steps from the guard to the publish gate are such moves.
LEMMA LadderSteps ==
    ASSUME TypeOK, NEW q \in Questions,
           \/ AfterGather(q) \/ CruxEnds(q) \/ SearchEnds(q) \/ PrimaryEnds(q)
           \/ FallbackEnds(q) \/ PublishGate(q)
    PROVE  LadderMove(q)
<1> USE DEF LadderMove, Early, Holding, Timed, Runnable, Settled, Phases, Await, Aggregated, TypeOK
<1>1. CASE AfterGather(q)
  <2>1. phase[q] = "gathered" /\ UNCHANGED <<clock, intakeVars, budgetVars, memberVars>>
    BY <1>1 DEF AfterGather
  <2>2. CASE MinForecastersGuard(q)
    BY <2>1, <2>2 DEF MinForecastersGuard
  <2>3. CASE Aggregated(q)
    BY <2>1, <2>3
  <2>4. CASE Await(q, "primary", StackerDeadline)
    BY <2>1, <2>4
  <2>5. CASE Await(q, "crux", EnrichmentTimeout(q, CruxDeadline))
    BY <2>1, <2>5
  <2>6. \/ MinForecastersGuard(q) \/ Aggregated(q) \/ Await(q, "primary", StackerDeadline)
        \/ Await(q, "crux", EnrichmentTimeout(q, CruxDeadline))
    BY <1>1 DEF AfterGather, RouteAfterForecasts
  <2> QED BY <2>2, <2>3, <2>4, <2>5, <2>6
<1>2. CASE CruxEnds(q)
  <2>1. CASE Await(q, "search", EnrichmentTimeout(q, SearchDeadline))
    BY <1>2, <2>1 DEF CruxEnds
  <2>2. CASE Await(q, "primary", StackerDeadline)
    BY <1>2, <2>2 DEF CruxEnds
  <2> QED BY <1>2, <2>1, <2>2 DEF CruxEnds
<1>3. CASE SearchEnds(q)
  BY <1>3 DEF SearchEnds
<1>4. CASE PrimaryEnds(q)
  <2>1. CASE Aggregated(q)
    BY <1>4, <2>1 DEF PrimaryEnds
  <2>2. CASE Await(q, "fallback", FallbackDeadline)
    BY <1>4, <2>2 DEF PrimaryEnds
  <2> QED BY <1>4, <2>1, <2>2 DEF PrimaryEnds
<1>5. CASE FallbackEnds(q)
  BY <1>5 DEF FallbackEnds
<1>6. CASE PublishGate(q)
  BY <1>6 DEF PublishGate
<1> QED BY <1>1, <1>2, <1>3, <1>4, <1>5, <1>6

\* The steps from the gather to the publish gate are later moves.
LEMMA AfterResearchSteps ==
    ASSUME TypeOK, NEW q \in Questions,
           \/ GatherReturns(q) \/ AfterGather(q) \/ CruxEnds(q) \/ SearchEnds(q)
           \/ PrimaryEnds(q) \/ FallbackEnds(q) \/ PublishGate(q)
    PROVE  LaterMove(q)
<1> USE DEF LaterMove, Early, Holding, intakeVars, budgetVars, memberVars, TypeOK
<1>1. CASE GatherReturns(q)
  BY <1>1 DEF GatherReturns
<1>2. CASE ~GatherReturns(q)
  <2>1. LadderMove(q)
    BY <1>2, LadderSteps
  <2> QED BY <2>1 DEF LadderMove
<1> QED BY <1>1, <1>2

\* Research hands over to the fan-out inside the window.
LEMMA FanOutKeepsInvariant ==
    ASSUME IInv, TypeOK', NEW q \in Questions, phase[q] \in Holding, StartFanOut(q)
    PROVE  IInv'
<1> USE DEF StartFanOut, intakeVars, budgetVars, Holding
<1>0. /\ \A r \in Questions : phase'[r] = IF r = q THEN "fan_out" ELSE phase[r]
      /\ \A r \in Questions : r # q => deadline'[r] = deadline[r] /\ fanOutAt'[r] = fanOutAt[r]
      /\ fanOutAt'[q] = clock
  BY DEF IInv, TypeOK
<1>1. GrantedInOrder' /\ TightestFirst(close)'
  BY <1>0 DEF IInv, GrantedInOrder, Granted, TotalAtStart, TightestFirst
<1>2. FirstComeFirstServed'
  BY <1>0 DEF IInv, FirstComeFirstServed, Granted
<1>3. WithinWindow'
  BY <1>0 DEF IInv, WithinWindow
<1>4. ForecastShareProtected'
  <2>1. clock <= ResearchWindow(total[q]) /\ startedAt[q] = 0 /\ clock \in Nat
    BY DEF IInv, WithinWindow, GrantedInOrder, TypeOK
  <2> QED BY <1>0, <2>1 DEF IInv, ForecastShareProtected
<1> QED BY <1>1, <1>2, <1>3, <1>4 DEF IInv

LEMMA GrantKeepsInvariant ==
    ASSUME IInv, TypeOK', NEW q \in Questions, Grant(q)
    PROVE  IInv'
<1> USE DEF intakeVars, memberVars
<1>0. /\ clock = 0 /\ clock' = clock /\ close' = close /\ deadline' = deadline
      /\ fanOutAt' = fanOutAt
      /\ phase[q] = "batched"
      /\ \A r \in Questions : r # q => phase'[r] = phase[r]
      /\ phase'[q] \in {"skipped_intake", "waiting"}
      /\ \A r \in Questions : total'[r] = IF r = q THEN GrantedTotal(q) ELSE total[r]
      /\ \A r \in Questions : startedAt'[r] = 0
  BY DEF Grant, IInv, GrantedInOrder, Granted, TypeOK
<1>1. GrantedTotal(q) = TotalAtStart(q)
  <2>1. close[q] # NoClose => close[q] \in Nat
    BY RunAssumption DEF IInv, TypeOK
  <2> QED BY <1>0, <2>1, DeadlineAssumption DEF GrantedTotal, TotalAtStart, CloseAllows
<1>2. \A r \in Questions : q < r => phase[r] = "batched"
  BY <1>0 DEF IInv, GrantedInOrder, Granted
<1>3. \A r \in Questions : r < q => phase[r] # "batched"
  BY DEF Grant
<1>4. \A r \in Questions : r = q \/ r < q \/ q < r
  BY DEF Questions
<1>5. GrantedInOrder'
  <2>1. \A r \in Questions : TotalAtStart(r)' = TotalAtStart(r)
    BY <1>0 DEF TotalAtStart
  <2>2. \A p, r \in Questions : p < r /\ Granted(r)' => Granted(p)'
    <3> SUFFICES ASSUME NEW p \in Questions, NEW r \in Questions, p < r, Granted(r)'
                 PROVE  Granted(p)'
      OBVIOUS
    <3>1. CASE p = q
      BY <1>0, <3>1 DEF Granted
    <3>2. CASE p # q /\ r = q
      BY <1>0, <1>3, <3>2 DEF Granted
    <3>3. CASE p # q /\ r # q
      BY <1>0, <3>3 DEF IInv, GrantedInOrder, Granted
    <3> QED BY <3>1, <3>2, <3>3
  <2> QED BY <1>0, <1>1, <2>1, <2>2 DEF IInv, GrantedInOrder, Granted
<1>6. FirstComeFirstServed'
  <2>1. \A r \in Questions : phase[r] \notin Holding
    BY <1>0 DEF IInv, FirstComeFirstServed, Granted
  <2>2. \A r \in Questions : phase'[r] \notin Holding
    BY <1>0, <2>1 DEF Holding
  <2>3. \A p, r \in Questions :
          p < r /\ phase'[p] = "waiting" => phase'[r] \in {"batched", "waiting", "skipped_intake"}
    BY <1>0, <1>2 DEF IInv, FirstComeFirstServed
  <2> QED BY <2>2, <2>3 DEF FirstComeFirstServed
<1>7. WithinWindow'
  <2>1. phase'[q] = "waiting" => total'[q] > 0 /\ total'[q] \in Int
    BY <1>0 DEF TypeOK
  <2>2. phase'[q] = "waiting" => 0 <= ResearchWindow(total'[q])
    BY <2>1, WindowFacts
  <2> QED BY <1>0, <2>2 DEF IInv, WithinWindow, Holding
<1>8. ForecastShareProtected'
  BY <1>0 DEF IInv, ForecastShareProtected, GrantedInOrder
<1>9. TightestFirst(close)'
  BY <1>0 DEF IInv, TightestFirst
<1> QED BY <1>5, <1>6, <1>7, <1>8, <1>9 DEF IInv

LEMMA AcquireKeepsInvariant ==
    ASSUME IInv, TypeOK', NEW q \in Questions, AcquireSlot(q)
    PROVE  IInv'
<1> USE DEF intakeVars, budgetVars, memberVars, Holding
<1>0. /\ clock' = clock /\ close' = close /\ total' = total /\ startedAt' = startedAt
      /\ fanOutAt' = fanOutAt /\ phase[q] = "waiting"
      /\ \A r \in Questions : phase'[r] = IF r = q THEN "providers" ELSE phase[r]
      /\ \A r \in Questions : r # q => deadline'[r] = deadline[r]
      /\ deadline'[q] = clock + ResearchPhaseDeadline(q)
  BY DEF AcquireSlot, FirstWaiting, IInv, TypeOK
<1>1. deadline'[q] = ResearchWindow(total[q]) /\ clock <= ResearchWindow(total[q])
  <2>1. clock \in Nat /\ total[q] \in Int /\ startedAt[q] = 0 /\ clock <= ResearchWindow(total[q])
    BY <1>0 DEF IInv, WithinWindow, GrantedInOrder, TypeOK
  <2>2. ResearchWindow(total[q]) \in Int
    BY <2>1, WindowFacts
  <2> QED BY <1>0, <2>1, <2>2 DEF ResearchPhaseDeadline, Elapsed, Larger
<1>2. GrantedInOrder' /\ TightestFirst(close)'
  BY <1>0 DEF IInv, GrantedInOrder, Granted, TotalAtStart, TightestFirst
<1>3. FirstComeFirstServed'
  <2>1. \A r \in Questions : r < q => phase[r] # "waiting"
    BY DEF AcquireSlot, FirstWaiting
  <2>2. \A r \in Questions : phase[r] # "batched"
    BY DEF AcquireSlot
  <2> QED BY <1>0, <2>1, <2>2 DEF IInv, FirstComeFirstServed, Granted
<1>4. WithinWindow'
  BY <1>0, <1>1 DEF IInv, WithinWindow
<1>5. ForecastShareProtected'
  BY <1>0 DEF IInv, ForecastShareProtected
<1> QED BY <1>2, <1>3, <1>4, <1>5 DEF IInv

LEMMA ProvidersKeepInvariant ==
    ASSUME IInv, TypeOK', NEW q \in Questions, ProvidersEnd(q)
    PROVE  IInv'
<1>1. CASE StartFanOut(q)
  BY <1>1, FanOutKeepsInvariant DEF ProvidersEnd, Holding
<1>2. CASE ~StartFanOut(q)
  <2> USE DEF intakeVars, budgetVars, memberVars, Holding
  <2>0. /\ clock' = clock /\ close' = close /\ total' = total /\ startedAt' = startedAt
        /\ fanOutAt' = fanOutAt /\ phase[q] = "providers"
        /\ \A r \in Questions : phase'[r] = IF r = q THEN "gap_fill" ELSE phase[r]
        /\ \A r \in Questions : r # q => deadline'[r] = deadline[r]
        /\ deadline'[q] = clock + ResearchPhaseDeadline(q)
    BY <1>2 DEF ProvidersEnd, IInv, TypeOK
  <2>1. deadline'[q] = ResearchWindow(total[q])
    <3>1. clock \in Nat /\ total[q] \in Int /\ startedAt[q] = 0 /\ clock <= ResearchWindow(total[q])
      BY <2>0 DEF IInv, WithinWindow, GrantedInOrder, TypeOK
    <3>2. ResearchWindow(total[q]) \in Int
      BY <3>1, WindowFacts
    <3> QED BY <2>0, <3>1, <3>2 DEF ResearchPhaseDeadline, Elapsed, Larger
  <2>2. GrantedInOrder' /\ TightestFirst(close)'
    BY <2>0 DEF IInv, GrantedInOrder, Granted, TotalAtStart, TightestFirst
  <2>3. FirstComeFirstServed'
    BY <2>0 DEF IInv, FirstComeFirstServed, Granted
  <2>4. WithinWindow'
    BY <2>0, <2>1 DEF IInv, WithinWindow
  <2>5. ForecastShareProtected'
    BY <2>0 DEF IInv, ForecastShareProtected
  <2> QED BY <2>2, <2>3, <2>4, <2>5 DEF IInv
<1> QED BY <1>1, <1>2

\* While a question waits for a slot, an earlier question holds one, and its
\* timer bounds the wait.
LEMMA WaitIsBounded ==
    ASSUME IInv, Tick, NEW q \in Questions, phase[q] = "waiting"
    PROVE  clock < ResearchWindow(total[q])
<1>1. {r \in Questions : phase[r] \in Holding} # {}
  <2>1. ~SlotFree
    BY DEF Tick
  <2>2. Cardinality({}) = 0
    BY FS_EmptySet
  <2>3. 0 < MaxConcurrentResearch
    BY RunAssumption
  <2> SUFFICES ASSUME {r \in Questions : phase[r] \in Holding} = {} PROVE FALSE
    OBVIOUS
  <2>4. Cardinality({r \in Questions : phase[r] \in Holding}) = 0
    BY <2>2
  <2> QED BY <2>1, <2>3, <2>4 DEF SlotFree
<1>2. PICK r \in Questions : phase[r] \in Holding
  BY <1>1
<1>3. r < q
  <2>1. ~(q < r)
    BY <1>2 DEF IInv, FirstComeFirstServed, Holding
  <2>2. r # q
    BY <1>2 DEF Holding
  <2> QED BY <2>1, <2>2 DEF Questions
<1>4. clock < deadline[r]
  BY <1>2 DEF Tick, Timed
<1>5. deadline[r] = ResearchWindow(total[r])
  BY <1>2 DEF IInv, WithinWindow
<1>6. total[r] <= total[q]
  BY <1>3, TotalsSorted DEF IInv, Granted
<1>7. ResearchWindow(total[r]) <= ResearchWindow(total[q])
  BY <1>6, WindowFacts DEF IInv, TypeOK
<1>8. /\ ResearchWindow(total[r]) \in Int /\ ResearchWindow(total[q]) \in Int /\ clock \in Nat
  BY WindowFacts DEF IInv, TypeOK
<1> QED BY <1>4, <1>5, <1>7, <1>8

LEMMA TickKeepsInvariant ==
    ASSUME IInv, TypeOK', Tick
    PROVE  IInv'
<1> USE DEF intakeVars, budgetVars, memberVars
<1>0. /\ clock' = clock + 1 /\ clock \in Nat
      /\ UNCHANGED <<close, phase, total, startedAt, deadline, fanOutAt>>
      /\ \A r \in Questions : Granted(r)
  BY DEF Tick, IInv, TypeOK, Granted, Runnable
<1>1. GrantedInOrder' /\ TightestFirst(close)'
  BY <1>0 DEF IInv, GrantedInOrder, Granted, TotalAtStart, TightestFirst
<1>2. FirstComeFirstServed'
  BY <1>0 DEF IInv, FirstComeFirstServed, Granted
<1>3. WithinWindow'
  <2>1. ASSUME NEW r \in Questions, phase[r] = "waiting"
        PROVE  clock + 1 <= ResearchWindow(total[r])
    <3>1. clock < ResearchWindow(total[r])
      BY <2>1, WaitIsBounded
    <3>2. ResearchWindow(total[r]) \in Int
      BY WindowFacts DEF IInv, TypeOK
    <3> QED BY <1>0, <3>1, <3>2
  <2>2. ASSUME NEW r \in Questions, phase[r] \in Holding
        PROVE  clock + 1 <= ResearchWindow(total[r])
    <3>1. clock < deadline[r] /\ deadline[r] = ResearchWindow(total[r])
      BY <2>2 DEF Tick, Timed, IInv, WithinWindow
    <3>2. ResearchWindow(total[r]) \in Int
      BY WindowFacts DEF IInv, TypeOK
    <3> QED BY <1>0, <3>1, <3>2
  <2> QED BY <1>0, <2>1, <2>2 DEF IInv, WithinWindow
<1>4. ForecastShareProtected'
  BY <1>0 DEF IInv, ForecastShareProtected
<1> QED BY <1>1, <1>2, <1>3, <1>4 DEF IInv

LEMMA InvariantStep == IInv /\ [Next]_vars => IInv'
<1> SUFFICES ASSUME IInv, [Next]_vars PROVE IInv'
  OBVIOUS
<1>0. TypeOK'
  BY TypeCorrectStep DEF IInv
<1>1. CASE Tick
  BY <1>0, <1>1, TickKeepsInvariant
<1>2. ASSUME NEW q \in Questions, QuestionStep(q) PROVE IInv'
  <2> USE DEF intakeVars, budgetVars, memberVars
  <2>1. CASE Grant(q)
    BY <1>0, <2>1, GrantKeepsInvariant
  <2>2. CASE AcquireSlot(q)
    BY <1>0, <2>2, AcquireKeepsInvariant
  <2>3. CASE ProvidersEnd(q)
    BY <1>0, <2>3, ProvidersKeepInvariant
  <2>4. CASE GapFillEnds(q)
    BY <1>0, <2>4, FanOutKeepsInvariant DEF GapFillEnds, Holding
  <2>5. ASSUME NEW m \in Models, MemberEnds(q, m) \/ MemberTimesOut(q, m) PROVE IInv'
    <3>1. UNCHANGED <<clock, close, phase, total, startedAt, deadline, fanOutAt>>
      BY <2>5 DEF MemberEnds, MemberTimesOut
    <3>2. LaterStep
      BY <3>1 DEF LaterStep
    <3> QED BY <1>0, <3>2, LaterStepKeepsInvariant
  <2>6. CASE \/ GatherReturns(q) \/ AfterGather(q) \/ CruxEnds(q) \/ SearchEnds(q)
             \/ PrimaryEnds(q) \/ FallbackEnds(q) \/ PublishGate(q)
    <3>1. LaterMove(q)
      BY <2>6, AfterResearchSteps DEF IInv
    <3>2. LaterStep
      BY <3>1 DEF LaterMove, LaterStep
    <3> QED BY <1>0, <3>2, LaterStepKeepsInvariant
  <2> QED BY <1>2, <2>1, <2>2, <2>3, <2>4, <2>5, <2>6 DEF QuestionStep
<1>3. CASE UNCHANGED vars
  <2>1. UNCHANGED <<clock, close, phase, total, startedAt, deadline, fanOutAt>>
    BY <1>3 DEF vars, intakeVars, budgetVars, memberVars
  <2>2. LaterStep
    BY <2>1 DEF LaterStep
  <2> QED BY <1>0, <2>2, LaterStepKeepsInvariant
<1> QED BY <1>1, <1>2, <1>3 DEF Next

LEMMA InvariantHolds == Spec => []IInv
  BY InvariantInit, InvariantStep, PTL DEF Spec

\* The forecaster fan-out of every question starts with the share of its budget
\* that is not research's, for every batch, roster, slot count and set of
\* deadlines.
THEOREM ForecastShareIsProtected == Spec => []ForecastShareProtected
<1>1. IInv => ForecastShareProtected
  BY DEF IInv
<1> QED BY <1>1, InvariantHolds, PTL

-----------------------------------------------------------------------------
(* The drops list: its entries follow the members, one by one. *)

\* The phases from the gather on.
Gathered == Phases \ (Early \cup {"fan_out"})

DropsFollowMembers ==
    \A q \in Questions : \A m \in Models :
        /\ phase[q] \in Early => member[q][m] = "idle" /\ drops[q][m] = 0
        /\ phase[q] = "fan_out" =>
              /\ member[q][m] \in {"running", "ok", "raised", "timed_out"}
              /\ drops[q][m] = IF member[q][m] = "timed_out" THEN 1 ELSE 0
        /\ phase[q] \in Gathered => drops[q][m] = IF member[q][m] = "ok" THEN 0 ELSE 1

\* A step that moves questions within one of the three parts and leaves their
\* members alone.
LEMMA QuietStepKeepsDrops ==
    ASSUME DropsFollowMembers, UNCHANGED <<member, drops>>,
           \A r \in Questions : \/ phase'[r] = phase[r]
                                \/ phase[r] \in Early /\ phase'[r] \in Early
                                \/ phase[r] \in Gathered /\ phase'[r] \in Gathered
    PROVE  DropsFollowMembers'
  BY DEF DropsFollowMembers, Gathered, Early, Holding

LEMMA FanOutKeepsDrops ==
    ASSUME TypeOK, DropsFollowMembers, NEW q \in Questions, phase[q] \in Holding, StartFanOut(q)
    PROVE  DropsFollowMembers'
<1>1. \A r \in Questions : phase'[r] = IF r = q THEN "fan_out" ELSE phase[r]
  BY DEF StartFanOut, TypeOK
<1>2. \A r \in Questions, m \in Models :
          /\ member'[r][m] = IF r = q THEN "running" ELSE member[r][m]
          /\ drops'[r][m] = drops[r][m]
  BY DEF StartFanOut, TypeOK
<1> QED BY <1>1, <1>2 DEF DropsFollowMembers, Gathered, Early, Holding

LEMMA MembersKeepDrops ==
    ASSUME TypeOK, DropsFollowMembers, NEW q \in Questions, NEW m \in Models,
           MemberEnds(q, m) \/ MemberTimesOut(q, m)
    PROVE  DropsFollowMembers'
<1>0. phase' = phase /\ phase[q] = "fan_out" /\ "fan_out" \notin Early \cup Gathered
  BY DEF MemberEnds, MemberTimesOut, Early, Holding, Gathered
<1>1. CASE MemberEnds(q, m)
  <2>1. PICK outcome \in {"ok", "raised"} : member' = [member EXCEPT ![q][m] = outcome]
    BY <1>1 DEF MemberEnds
  <2>2. \A r \in Questions, n \in Models :
            member'[r][n] = IF r = q /\ n = m THEN outcome ELSE member[r][n]
    BY <2>1 DEF TypeOK
  <2>3. drops' = drops /\ drops[q][m] = 0
    BY <1>1 DEF MemberEnds, DropsFollowMembers
  <2> QED BY <1>0, <2>2, <2>3 DEF DropsFollowMembers
<1>2. CASE MemberTimesOut(q, m)
  <2>1. \A r \in Questions, n \in Models :
            /\ member'[r][n] = IF r = q /\ n = m THEN "timed_out" ELSE member[r][n]
            /\ drops'[r][n] = IF r = q /\ n = m THEN drops[q][m] + 1 ELSE drops[r][n]
    BY <1>2 DEF MemberTimesOut, TypeOK
  <2>2. drops[q][m] = 0
    BY <1>2 DEF MemberTimesOut, DropsFollowMembers
  <2> QED BY <1>0, <2>1, <2>2 DEF DropsFollowMembers
<1> QED BY <1>1, <1>2

LEMMA GatherKeepsDrops ==
    ASSUME TypeOK, DropsFollowMembers, NEW q \in Questions, GatherReturns(q)
    PROVE  DropsFollowMembers'
<1>1. phase[q] = "fan_out" /\ \A r \in Questions : phase'[r] = IF r = q THEN "gathered" ELSE phase[r]
  BY DEF GatherReturns, TypeOK
<1>2. \A r \in Questions \ {q} : member'[r] = member[r] /\ drops'[r] = drops[r]
  BY DEF GatherReturns, TypeOK
<1>3. \A m \in Models :
          /\ member'[q][m] = IF member[q][m] = "running" THEN "cancelled" ELSE member[q][m]
          /\ drops'[q][m] = drops[q][m] + IF member[q][m] \in {"running", "raised"} THEN 1 ELSE 0
  BY DEF GatherReturns, GatherRecords, Pending, TypeOK
<1>4. \A m \in Models : drops'[q][m] = IF member'[q][m] = "ok" THEN 0 ELSE 1
  BY <1>1, <1>3 DEF DropsFollowMembers
<1>5. "gathered" \notin Early \cup {"fan_out"}
  BY DEF Early, Holding
<1> QED BY <1>1, <1>2, <1>4, <1>5 DEF DropsFollowMembers

LEMMA DropsStep == TypeOK /\ DropsFollowMembers /\ [Next]_vars => DropsFollowMembers'
<1> SUFFICES ASSUME TypeOK, DropsFollowMembers, [Next]_vars PROVE DropsFollowMembers'
  OBVIOUS
<1>1. CASE Tick \/ UNCHANGED vars
  BY <1>1, QuietStepKeepsDrops DEF Tick, vars, memberVars
<1>2. ASSUME NEW q \in Questions, QuestionStep(q) PROVE DropsFollowMembers'
  <2>1. CASE Grant(q) \/ AcquireSlot(q)
    <3>1. \A r \in Questions : phase'[r] = phase[r] \/ (phase[r] \in Early /\ phase'[r] \in Early)
      <4>1. phase[q] \in Early /\ \E s \in Early : phase' = [phase EXCEPT ![q] = s]
        BY <2>1 DEF Grant, AcquireSlot, FirstWaiting, Early, Holding
      <4>2. PICK s \in Early : phase' = [phase EXCEPT ![q] = s]
        BY <4>1
      <4>3. \A r \in Questions : phase'[r] = IF r = q THEN s ELSE phase[r]
        BY <4>2 DEF TypeOK
      <4> QED BY <4>1, <4>3
    <3> QED BY <2>1, <3>1, QuietStepKeepsDrops DEF Grant, AcquireSlot, memberVars
  <2>2. CASE ProvidersEnd(q)
    <3>1. CASE StartFanOut(q)
      BY <2>2, <3>1, FanOutKeepsDrops DEF ProvidersEnd, Holding
    <3>2. CASE ~StartFanOut(q)
      <4>1. \A r \in Questions : phase'[r] = phase[r] \/ (phase[r] \in Early /\ phase'[r] \in Early)
        <5>1. phase[q] = "providers" /\ phase' = [phase EXCEPT ![q] = "gap_fill"]
          BY <2>2, <3>2 DEF ProvidersEnd
        <5>2. \A r \in Questions : phase'[r] = IF r = q THEN "gap_fill" ELSE phase[r]
          BY <5>1 DEF TypeOK
        <5> QED BY <5>1, <5>2 DEF Early, Holding
      <4> QED BY <2>2, <3>2, <4>1, QuietStepKeepsDrops DEF ProvidersEnd, memberVars
    <3> QED BY <3>1, <3>2
  <2>3. CASE GapFillEnds(q)
    BY <2>3, FanOutKeepsDrops DEF GapFillEnds, Holding
  <2>4. ASSUME NEW m \in Models, MemberEnds(q, m) \/ MemberTimesOut(q, m) PROVE DropsFollowMembers'
    BY <2>4, MembersKeepDrops
  <2>5. CASE GatherReturns(q)
    BY <2>5, GatherKeepsDrops
  <2>6. CASE \/ AfterGather(q) \/ CruxEnds(q) \/ SearchEnds(q) \/ PrimaryEnds(q)
             \/ FallbackEnds(q) \/ PublishGate(q)
    <3>1. LadderMove(q)
      BY <2>6, LadderSteps
    <3>2. \A r \in Questions :
              phase'[r] = phase[r] \/ (phase[r] \in Gathered /\ phase'[r] \in Gathered)
      <4>1. PICK s \in Gathered : phase' = [phase EXCEPT ![q] = s]
        BY <3>1 DEF LadderMove, Gathered
      <4>2. phase[q] \in Gathered
        BY <3>1 DEF LadderMove, Gathered, TypeOK
      <4>3. \A r \in Questions : phase'[r] = IF r = q THEN s ELSE phase[r]
        BY <4>1 DEF TypeOK
      <4> QED BY <4>2, <4>3
    <3> QED BY <3>1, <3>2, QuietStepKeepsDrops DEF LadderMove, memberVars
  <2> QED BY <1>2, <2>1, <2>2, <2>3, <2>4, <2>5, <2>6 DEF QuestionStep
<1> QED BY <1>1, <1>2 DEF Next

\* No forecaster is dropped twice from one gather, and none silently, for every
\* roster: the raise site and the gather share the recording between them.
THEOREM EachDropIsCountedOnce == Spec => []EachDropCountedOnce
<1>1. Init => DropsFollowMembers
  BY DEF Init, DropsFollowMembers, Gathered, Early
<1>2. TypeOK /\ DropsFollowMembers => EachDropCountedOnce
  BY DEF TypeOK, DropsFollowMembers, EachDropCountedOnce, Gathered
<1> QED BY <1>1, <1>2, DropsStep, TypeCorrect, PTL DEF Spec

-----------------------------------------------------------------------------
(* The counters of forfeited questions *)

Skips == {"skipped_intake", "skipped_gate"}

\* Question q moves on, and is counted if and only if the move forfeits it.
CountedMove(q) ==
    /\ phase[q] \notin Settled
    /\ \E s \in Phases :
          /\ phase' = [phase EXCEPT ![q] = s]
          /\ skippedClosed' = skippedClosed + IF s \in Skips THEN 1 ELSE 0
          /\ failedToPublish' = failedToPublish + IF s = "failed" THEN 1 ELSE 0

\* A question that joins a set of questions adds one to its size.
LEMMA OneQuestionMore ==
    ASSUME NEW A \in SUBSET Questions
    PROVE  /\ Cardinality(A) \in Nat
           /\ \A q \in Questions \ A : Cardinality(A \cup {q}) = Cardinality(A) + 1
<1>1. IsFiniteSet(Questions)
  BY RunAssumption, FS_Interval DEF Questions
<1>2. IsFiniteSet(A)
  BY <1>1, FS_Subset
<1> QED BY <1>2, FS_AddElement, FS_CardinalityType

LEMMA CountedMoveKeepsCounts ==
    ASSUME TypeOK, ForfeitsAreCounted, NEW q \in Questions, CountedMove(q)
    PROVE  ForfeitsAreCounted'
<1>1. PICK s \in Phases :
          /\ phase' = [phase EXCEPT ![q] = s]
          /\ skippedClosed' = skippedClosed + IF s \in Skips THEN 1 ELSE 0
          /\ failedToPublish' = failedToPublish + IF s = "failed" THEN 1 ELSE 0
  BY DEF CountedMove
<1>2. \A r \in Questions : phase'[r] = IF r = q THEN s ELSE phase[r]
  BY <1>1 DEF TypeOK
<1>3. phase[q] \notin Skips /\ phase[q] # "failed"
  BY DEF CountedMove, Settled, Skips
<1>4. ASSUME NEW P, phase[q] \notin P
      PROVE  Cardinality({r \in Questions : phase'[r] \in P})
                = Cardinality({r \in Questions : phase[r] \in P}) + IF s \in P THEN 1 ELSE 0
  <2> DEFINE before == {r \in Questions : phase[r] \in P}
             after == {r \in Questions : phase'[r] \in P}
  <2>1. Cardinality(before) \in Nat
    <3>1. before \in SUBSET Questions
      OBVIOUS
    <3> HIDE DEF before
    <3> QED BY <3>1, OneQuestionMore
  <2>2. CASE s \in P
    <3>1. after = before \cup {q} /\ before \in SUBSET Questions /\ q \in Questions \ before
      BY <1>2, <1>4, <2>2
    <3>2. Cardinality(after) = Cardinality(before) + 1
      <4> HIDE DEF before, after
      <4> QED BY <3>1, OneQuestionMore
    <3> QED BY <2>2, <3>2
  <2>3. CASE s \notin P
    <3>1. after = before
      BY <1>2, <1>4, <2>3
    <3>2. Cardinality(after) = Cardinality(before) + 0
      <4> HIDE DEF before, after
      <4> QED BY <2>1, <3>1
    <3> QED BY <2>3, <3>2
  <2> QED BY <2>2, <2>3
<1>5. /\ {r \in Questions : phase[r] = "failed"} = {r \in Questions : phase[r] \in {"failed"}}
      /\ {r \in Questions : phase'[r] = "failed"} = {r \in Questions : phase'[r] \in {"failed"}}
  OBVIOUS
<1>6. skippedClosed' = Cardinality({r \in Questions : phase'[r] \in Skips})
  BY <1>1, <1>3, <1>4 DEF ForfeitsAreCounted, Skips
<1>7. failedToPublish' = Cardinality({r \in Questions : phase'[r] \in {"failed"}})
  BY <1>1, <1>3, <1>4, <1>5 DEF ForfeitsAreCounted
<1> QED BY <1>5, <1>6, <1>7 DEF ForfeitsAreCounted, Skips

\* Every step of a question's coroutine that changes its phase is such a move.
LEMMA StepsAreCounted ==
    ASSUME TypeOK, NEW q \in Questions, QuestionStep(q)
    PROVE  CountedMove(q) \/ UNCHANGED <<phase, skippedClosed, failedToPublish>>
<1> USE DEF CountedMove, Settled, Skips, Phases, Timed, Holding, Runnable, counters
<1>0. skippedClosed \in Nat /\ failedToPublish \in Nat
  BY DEF TypeOK
<1>1. CASE Grant(q)
  BY <1>0, <1>1 DEF Grant
<1>2. CASE AcquireSlot(q)
  BY <1>0, <1>2 DEF AcquireSlot, FirstWaiting
<1>3. CASE ProvidersEnd(q)
  BY <1>0, <1>3 DEF ProvidersEnd, StartFanOut
<1>4. CASE GapFillEnds(q)
  BY <1>0, <1>4 DEF GapFillEnds, StartFanOut
<1>5. ASSUME NEW m \in Models, MemberEnds(q, m) \/ MemberTimesOut(q, m)
      PROVE  UNCHANGED <<phase, skippedClosed, failedToPublish>>
  BY <1>5 DEF MemberEnds, MemberTimesOut
<1>6. CASE GatherReturns(q)
  BY <1>0, <1>6 DEF GatherReturns
<1>7. CASE AfterGather(q)
  <2>1. CASE MinForecastersGuard(q)
    BY <1>0, <1>7, <2>1 DEF AfterGather, MinForecastersGuard
  <2>2. CASE RouteAfterForecasts(q)
    <3>1. \E s \in {"ready", "primary", "crux"} : phase' = [phase EXCEPT ![q] = s]
      BY <2>2 DEF RouteAfterForecasts, Aggregated, Await
    <3>2. phase[q] = "gathered" /\ UNCHANGED <<skippedClosed, failedToPublish>>
      BY <1>7, <2>2 DEF AfterGather, RouteAfterForecasts
    <3>3. PICK s \in {"ready", "primary", "crux"} : phase' = [phase EXCEPT ![q] = s]
      BY <3>1
    <3>4. /\ s \in Phases
          /\ skippedClosed' = skippedClosed + IF s \in Skips THEN 1 ELSE 0
          /\ failedToPublish' = failedToPublish + IF s = "failed" THEN 1 ELSE 0
          /\ phase[q] \notin Settled
      BY <1>0, <3>2
    <3> QED BY <3>3, <3>4 DEF CountedMove
  <2> QED BY <1>7, <2>1, <2>2 DEF AfterGather
<1>8. CASE CruxEnds(q)
  BY <1>0, <1>8 DEF CruxEnds, Await
<1>9. CASE SearchEnds(q)
  BY <1>0, <1>9 DEF SearchEnds, Await
<1>10. CASE PrimaryEnds(q)
  BY <1>0, <1>10 DEF PrimaryEnds, Aggregated, Await
<1>11. CASE FallbackEnds(q)
  BY <1>0, <1>11 DEF FallbackEnds, Aggregated
<1>12. CASE PublishGate(q)
  BY <1>0, <1>12 DEF PublishGate
<1> QED
  BY <1>1, <1>2, <1>3, <1>4, <1>5, <1>6, <1>7, <1>8, <1>9, <1>10, <1>11, <1>12 DEF QuestionStep

LEMMA ForfeitsStep == TypeOK /\ ForfeitsAreCounted /\ [Next]_vars => ForfeitsAreCounted'
<1> SUFFICES ASSUME TypeOK, ForfeitsAreCounted, [Next]_vars PROVE ForfeitsAreCounted'
  OBVIOUS
<1>1. CASE UNCHANGED <<phase, skippedClosed, failedToPublish>>
  BY <1>1 DEF ForfeitsAreCounted
<1>2. CASE Tick \/ UNCHANGED vars
  BY <1>1, <1>2 DEF Tick, vars, counters
<1>3. ASSUME NEW q \in Questions, QuestionStep(q) PROVE ForfeitsAreCounted'
  BY <1>1, <1>3, StepsAreCounted, CountedMoveKeepsCounts
<1> QED BY <1>2, <1>3 DEF Next

\* Whatever becomes of a batch of any size, the two counters that turn the run
\* red hold exactly the questions forfeited.
THEOREM ForfeitsAreAllCounted == Spec => []ForfeitsAreCounted
<1>1. Init => ForfeitsAreCounted
  <2> SUFFICES ASSUME Init PROVE ForfeitsAreCounted
    OBVIOUS
  <2>1. /\ {q \in Questions : phase[q] \in {"skipped_intake", "skipped_gate"}} = {}
        /\ {q \in Questions : phase[q] = "failed"} = {}
    BY DEF Init
  <2>2. skippedClosed = 0 /\ failedToPublish = 0
    BY DEF Init
  <2> QED BY <2>1, <2>2, FS_EmptySet DEF ForfeitsAreCounted
<1> QED BY <1>1, ForfeitsStep, TypeCorrect, PTL DEF Spec

-----------------------------------------------------------------------------
(* The publish reserve.  Until the gather a question stays within its budget; *)
(* from there each stage leaves room for the worst case of the stages after   *)
(* it, because the route was taken only with room for all of them.            *)

Awaiting == {"fan_out", "crux", "search", "primary", "fallback"}

\* What the stages after this one may take at most.
StillToCome(stage) ==
    CASE stage = "crux"    -> SearchDeadline + StackerDeadline + FallbackDeadline
      [] stage = "search"  -> StackerDeadline + FallbackDeadline
      [] stage = "primary" -> FallbackDeadline
      [] OTHER             -> 0

\* No timer is overdue.
TimersAhead == \A q \in Questions : phase[q] \in Timed => clock <= deadline[q]

Reserved(q) ==
    /\ phase[q] # "batched" /\ close[q] # NoClose /\ total[q] = close[q] - PublishReserve
    /\ phase[q] \in Awaiting => deadline[q] + StillToCome(phase[q]) <= total[q]
    /\ phase[q] \in {"gathered", "ready"} => clock <= total[q]

BeforeReserve == TimersAhead /\ \A q \in Questions : closeLimited[q] => Reserved(q)

LEMMA LaddersAreFinite ==
    /\ CruxDeadline \in Nat /\ SearchDeadline \in Nat /\ StackerDeadline \in Nat
    /\ FallbackDeadline \in Nat /\ StackingMinBudget \in Nat /\ PublishReserve \in Nat
    /\ \A stage \in Awaiting : StillToCome(stage) \in Nat
  BY DeadlineAssumption DEF StillToCome

\* An enrichment is cut at its own soft deadline: its floor is below it.
LEMMA EnrichmentIsCapped ==
    ASSUME TypeOK, NEW q \in Questions
    PROVE  /\ EnrichmentTimeout(q, CruxDeadline) \in Nat
           /\ EnrichmentTimeout(q, CruxDeadline) <= CruxDeadline
           /\ EnrichmentTimeout(q, SearchDeadline) \in Nat
           /\ EnrichmentTimeout(q, SearchDeadline) <= SearchDeadline
<1>1. Remaining(q) \in Int
  BY BudgetTypes
<1> QED BY <1>1, DeadlineAssumption DEF EnrichmentTimeout, Larger, Smaller

\* Question q moves to phase s with the timer d; nothing else the invariant reads
\* changes.
LEMMA MoveKeepsReserve ==
    ASSUME TypeOK, BeforeReserve, NEW q \in Questions, NEW s \in Phases, NEW d \in Nat,
           phase' = [phase EXCEPT ![q] = s],
           \A r \in Questions : deadline'[r] = IF r = q THEN d ELSE deadline[r],
           UNCHANGED <<clock, close, total, closeLimited>>,
           s \in Timed => clock <= d,
           closeLimited[q] =>
              /\ s # "batched"
              /\ s \in Awaiting => d + StillToCome(s) <= total[q]
              /\ s \in {"gathered", "ready"} => clock <= total[q]
    PROVE  BeforeReserve'
<1>1. \A r \in Questions : phase'[r] = IF r = q THEN s ELSE phase[r]
  BY DEF TypeOK
<1>2. TimersAhead'
  BY <1>1 DEF BeforeReserve, TimersAhead
<1>3. ASSUME NEW r \in Questions, closeLimited'[r] PROVE Reserved(r)'
  <2>1. CASE r = q
    <3>1. Reserved(q) /\ closeLimited[q]
      BY <1>3, <2>1 DEF BeforeReserve
    <3> QED BY <1>1, <2>1, <3>1 DEF Reserved, StillToCome
  <2>2. CASE r # q
    <3>1. Reserved(r)
      BY <1>3 DEF BeforeReserve
    <3> QED BY <1>1, <2>2, <3>1 DEF Reserved, StillToCome
  <2> QED BY <2>1, <2>2
<1> QED BY <1>2, <1>3 DEF BeforeReserve

LEMMA AwaitKeepsReserve ==
    ASSUME TypeOK, BeforeReserve, NEW q \in Questions, NEW stage \in Awaiting, NEW t \in Nat,
           Await(q, stage, t), UNCHANGED <<clock, close, total, closeLimited>>,
           closeLimited[q] => clock + t + StillToCome(stage) <= total[q]
    PROVE  BeforeReserve'
<1>1. /\ clock + t \in Nat /\ clock <= clock + t
      /\ \A r \in Questions : deadline'[r] = IF r = q THEN clock + t ELSE deadline[r]
  BY DEF TypeOK, Await
<1>2. stage \in Phases /\ stage \notin {"batched", "gathered", "ready"}
  BY DEF Awaiting, Phases, Timed
<1> QED BY <1>1, <1>2, MoveKeepsReserve DEF Await

LEMMA LeavingKeepsReserve ==
    ASSUME TypeOK, BeforeReserve, NEW q \in Questions,
           NEW s \in {"gathered", "ready"} \cup Settled \cup {"waiting"},
           phase' = [phase EXCEPT ![q] = s], UNCHANGED <<clock, close, total, closeLimited, deadline>>,
           closeLimited[q] /\ s \in {"gathered", "ready"} => clock <= total[q]
    PROVE  BeforeReserve'
<1>1. deadline[q] \in Nat
  BY DEF TypeOK
<1>2. s \in Phases /\ s \notin Timed /\ s \notin Awaiting /\ s # "batched"
  BY DEF Phases, Timed, Holding, Settled, Awaiting, Runnable
<1> QED BY <1>1, <1>2, MoveKeepsReserve

\* The stages up to the gather: the budget is granted at time 0, and research and
\* fan-out run within it.
LEMMA GrantKeepsReserve ==
    ASSUME IInv, BeforeReserve, NEW q \in Questions, Grant(q)
    PROVE  BeforeReserve'
<1> USE DEF intakeVars, memberVars
<1>0. /\ clock = 0 /\ phase[q] = "batched" /\ UNCHANGED <<clock, close, deadline>>
      /\ \E s \in {"skipped_intake", "waiting"} : phase' = [phase EXCEPT ![q] = s]
      /\ \A r \in Questions : /\ total'[r] = IF r = q THEN GrantedTotal(q) ELSE total[r]
                              /\ closeLimited'[r] = IF r = q THEN GrantedCloseLimited(q)
                                                             ELSE closeLimited[r]
  BY DEF Grant, IInv, GrantedInOrder, Granted, TypeOK
<1>1. PICK s \in {"skipped_intake", "waiting"} : phase' = [phase EXCEPT ![q] = s]
  BY <1>0
<1>2. \A r \in Questions : phase'[r] = IF r = q THEN s ELSE phase[r]
  BY <1>1 DEF IInv, TypeOK
<1>3. TimersAhead'
  BY <1>0, <1>2 DEF BeforeReserve, TimersAhead, Timed, Holding
<1>4. GrantedCloseLimited(q) => close[q] # NoClose /\ GrantedTotal(q) = close[q] - PublishReserve
  <2>1. close[q] # NoClose => close[q] \in Nat
    BY RunAssumption DEF IInv, TypeOK
  <2> QED BY <1>0, <2>1, DeadlineAssumption
          DEF GrantedCloseLimited, GrantedTotal, CloseAllows, Smaller
<1>5. ASSUME NEW r \in Questions, closeLimited'[r] PROVE Reserved(r)'
  <2>1. CASE r = q
    BY <1>0, <1>2, <1>4, <1>5, <2>1 DEF Reserved, Awaiting
  <2>2. CASE r # q
    BY <1>0, <1>2, <1>5, <2>2 DEF BeforeReserve, Reserved, StillToCome
  <2> QED BY <2>1, <2>2
<1> QED BY <1>3, <1>5 DEF BeforeReserve

LEMMA FanOutKeepsReserve ==
    ASSUME IInv, BeforeReserve, NEW q \in Questions, phase[q] \in Holding, StartFanOut(q)
    PROVE  BeforeReserve'
<1>1. Larger(0, Remaining(q)) \in Nat
  BY BudgetTypes DEF IInv
<1>2. Await(q, "fan_out", Larger(0, Remaining(q)))
  BY DEF StartFanOut, Await
<1>3. clock + Larger(0, Remaining(q)) + StillToCome("fan_out") <= total[q]
  <2>1. /\ clock \in Nat /\ total[q] \in Int /\ total[q] > 0 /\ startedAt[q] = 0
        /\ clock <= ResearchWindow(total[q])
    BY DEF IInv, TypeOK, GrantedInOrder, WithinWindow, Holding
  <2>2. clock <= total[q]
    BY <2>1 DEF ResearchWindow
  <2> QED BY <2>1, <2>2 DEF Remaining, Elapsed, Larger, StillToCome
<1> QED
  BY <1>1, <1>2, <1>3, AwaitKeepsReserve DEF IInv, Awaiting, StartFanOut, intakeVars, budgetVars

LEMMA ResearchKeepsReserve ==
    ASSUME IInv, BeforeReserve, NEW q \in Questions,
           AcquireSlot(q) \/ (ProvidersEnd(q) /\ ~StartFanOut(q))
    PROVE  BeforeReserve'
<1>1. ResearchPhaseDeadline(q) \in Nat /\ clock + ResearchPhaseDeadline(q) \in Nat
      /\ clock <= clock + ResearchPhaseDeadline(q)
  BY BudgetTypes DEF IInv, TypeOK
<1>2. PICK s \in Holding : phase' = [phase EXCEPT ![q] = s]
  BY DEF AcquireSlot, ProvidersEnd, Holding
<1>3. s \in Phases /\ s # "batched" /\ s \notin Awaiting \cup {"gathered", "ready"}
  BY DEF Holding, Phases, Timed, Awaiting
<1>4. deadline' = [deadline EXCEPT ![q] = clock + ResearchPhaseDeadline(q)]
  BY DEF AcquireSlot, ProvidersEnd
<1>5. \A r \in Questions :
          deadline'[r] = IF r = q THEN clock + ResearchPhaseDeadline(q) ELSE deadline[r]
  BY <1>4 DEF IInv, TypeOK
<1>6. UNCHANGED <<clock, close, total, closeLimited>>
  BY DEF AcquireSlot, ProvidersEnd, intakeVars, budgetVars
<1> QED BY <1>1, <1>2, <1>3, <1>5, <1>6, MoveKeepsReserve DEF IInv

\* The route takes to the stacker only with room for the whole ladder.
LEMMA RouteKeepsReserve ==
    ASSUME IInv, BeforeReserve, NEW q \in Questions, AfterGather(q)
    PROVE  BeforeReserve'
<1>0. /\ TypeOK /\ UNCHANGED <<clock, close, total, closeLimited>>
      /\ phase[q] = "gathered" /\ (closeLimited[q] => clock <= total[q])
  BY DEF AfterGather, intakeVars, budgetVars, IInv, BeforeReserve, Reserved
<1>1. CASE MinForecastersGuard(q)
  BY <1>0, <1>1, LeavingKeepsReserve DEF MinForecastersGuard, Settled
<1>2. CASE Aggregated(q)
  BY <1>0, <1>2, LeavingKeepsReserve DEF Aggregated
<1>3. ~SkipStackingForBudget(q) /\ closeLimited[q] =>
          clock + StackingMinBudget + StackingRequired <= total[q]
  <2>1. clock \in Nat /\ total[q] \in Int /\ startedAt[q] = 0
    BY DEF IInv, TypeOK, GrantedInOrder
  <2>2. StackingRequired \in Nat
    BY LaddersAreFinite DEF StackingRequired
  <2> QED
    BY <2>1, <2>2, LaddersAreFinite DEF SkipStackingForBudget, StackingFloor, Remaining, Elapsed
<1>4. CASE Strategy = "STACKING" /\ ~SkipStackingForBudget(q) /\ Await(q, "primary", StackerDeadline)
  <2>1. closeLimited[q] => clock + StackerDeadline + StillToCome("primary") <= total[q]
    <3>1. clock \in Nat /\ total[q] \in Int
      BY DEF IInv, TypeOK
    <3> QED BY <1>3, <1>4, <3>1, LaddersAreFinite DEF StackingRequired, StillToCome
  <2> QED BY <1>0, <1>4, <2>1, LaddersAreFinite, AwaitKeepsReserve DEF Awaiting
<1>5. CASE /\ Strategy = "CONDITIONAL_STACKING" /\ ~SkipStackingForBudget(q)
           /\ Await(q, "crux", EnrichmentTimeout(q, CruxDeadline))
  <2>1. closeLimited[q] =>
            clock + EnrichmentTimeout(q, CruxDeadline) + StillToCome("crux") <= total[q]
    <3>1. clock \in Nat /\ total[q] \in Int
      BY DEF IInv, TypeOK
    <3> QED
      BY <1>0, <1>3, <1>5, <3>1, LaddersAreFinite, EnrichmentIsCapped DEF StackingRequired, StillToCome
  <2> QED BY <1>0, <1>5, <2>1, EnrichmentIsCapped, AwaitKeepsReserve DEF Awaiting
<1> QED
  BY <1>1, <1>2, <1>4, <1>5 DEF AfterGather, RouteAfterForecasts

\* Each stage of the ladder ends by its timer and hands on what it kept free.
LEMMA LadderKeepsReserve ==
    ASSUME IInv, BeforeReserve, NEW q \in Questions,
           CruxEnds(q) \/ SearchEnds(q) \/ PrimaryEnds(q) \/ FallbackEnds(q)
    PROVE  BeforeReserve'
<1>0. /\ TypeOK /\ UNCHANGED <<clock, close, total, closeLimited>>
      /\ phase[q] \in Awaiting /\ clock <= deadline[q]
      /\ closeLimited[q] => deadline[q] + StillToCome(phase[q]) <= total[q]
      /\ clock \in Nat /\ total[q] \in Int /\ deadline[q] \in Nat
  BY DEF CruxEnds, SearchEnds, PrimaryEnds, FallbackEnds, intakeVars, budgetVars, IInv, TypeOK,
         BeforeReserve, Reserved, TimersAhead, Awaiting, Timed
<1>1. CASE phase[q] \in {"primary", "fallback"} /\ Aggregated(q)
  <2>1. closeLimited[q] => clock <= total[q]
    BY <1>0, LaddersAreFinite
  <2> QED BY <1>0, <1>1, <2>1, LeavingKeepsReserve DEF Aggregated
<1>2. CASE phase[q] \in {"crux", "search"} /\ Await(q, "primary", StackerDeadline)
  <2>1. closeLimited[q] => clock + StackerDeadline + StillToCome("primary") <= total[q]
    BY <1>0, <1>2, LaddersAreFinite DEF StillToCome
  <2> QED BY <1>0, <1>2, <2>1, LaddersAreFinite, AwaitKeepsReserve DEF Awaiting
<1>3. CASE phase[q] = "crux" /\ Await(q, "search", EnrichmentTimeout(q, SearchDeadline))
  <2>1. closeLimited[q] =>
            clock + EnrichmentTimeout(q, SearchDeadline) + StillToCome("search") <= total[q]
    BY <1>0, <1>3, LaddersAreFinite, EnrichmentIsCapped DEF StillToCome
  <2> QED BY <1>0, <1>3, <2>1, EnrichmentIsCapped, AwaitKeepsReserve DEF Awaiting
<1>4. CASE phase[q] = "primary" /\ Await(q, "fallback", FallbackDeadline)
  <2>1. closeLimited[q] => clock + FallbackDeadline + StillToCome("fallback") <= total[q]
    BY <1>0, <1>4, LaddersAreFinite DEF StillToCome
  <2> QED BY <1>0, <1>4, <2>1, LaddersAreFinite, AwaitKeepsReserve DEF Awaiting
<1> QED
  BY <1>1, <1>2, <1>3, <1>4 DEF CruxEnds, SearchEnds, PrimaryEnds, FallbackEnds

LEMMA ReserveStep == IInv /\ BeforeReserve /\ [Next]_vars => BeforeReserve'
<1> SUFFICES ASSUME IInv, BeforeReserve, [Next]_vars PROVE BeforeReserve'
  OBVIOUS
<1>1. CASE Tick
  <2>1. /\ clock' = clock + 1 /\ clock \in Nat /\ deadline \in [Questions -> Nat]
        /\ UNCHANGED <<close, phase, total, closeLimited, deadline>>
        /\ \A q \in Questions : /\ phase[q] \notin {"gathered", "ready"}
                                /\ phase[q] \in Timed => clock < deadline[q]
    BY <1>1 DEF Tick, Runnable, IInv, TypeOK, intakeVars, budgetVars
  <2>2. TimersAhead'
    BY <2>1 DEF TimersAhead
  <2>3. \A q \in Questions : closeLimited'[q] => Reserved(q)'
    BY <2>1 DEF BeforeReserve, Reserved, StillToCome
  <2> QED BY <2>2, <2>3 DEF BeforeReserve
<1>2. ASSUME UNCHANGED <<clock, close, phase, total, closeLimited, deadline>> PROVE BeforeReserve'
  BY <1>2 DEF BeforeReserve, TimersAhead, Reserved, StillToCome
<1>3. ASSUME NEW q \in Questions, QuestionStep(q) PROVE BeforeReserve'
  <2>1. CASE Grant(q)
    BY <2>1, GrantKeepsReserve
  <2>2. CASE AcquireSlot(q) \/ (ProvidersEnd(q) /\ ~StartFanOut(q))
    BY <2>2, ResearchKeepsReserve
  <2>3. CASE (ProvidersEnd(q) /\ StartFanOut(q)) \/ GapFillEnds(q)
    BY <2>3, FanOutKeepsReserve DEF ProvidersEnd, GapFillEnds, Holding
  <2>4. CASE \E m \in Models : MemberEnds(q, m) \/ MemberTimesOut(q, m)
    BY <1>2, <2>4 DEF MemberEnds, MemberTimesOut, intakeVars, budgetVars
  <2>5. CASE GatherReturns(q)
    <3>1. closeLimited[q] => clock <= total[q]
      <4>1. /\ phase[q] = "fan_out" /\ clock \in Nat /\ deadline[q] \in Nat /\ total[q] \in Int
            /\ clock <= deadline[q]
        BY <2>5 DEF GatherReturns, IInv, TypeOK, BeforeReserve, TimersAhead, Timed
      <4>2. closeLimited[q] => deadline[q] + StillToCome("fan_out") <= total[q]
        BY <4>1 DEF BeforeReserve, Reserved, Awaiting
      <4> QED BY <4>1, <4>2 DEF StillToCome
    <3> QED BY <2>5, <3>1, LeavingKeepsReserve DEF GatherReturns, IInv, intakeVars, budgetVars
  <2>6. CASE AfterGather(q)
    BY <2>6, RouteKeepsReserve
  <2>7. CASE CruxEnds(q) \/ SearchEnds(q) \/ PrimaryEnds(q) \/ FallbackEnds(q)
    BY <2>7, LadderKeepsReserve
  <2>8. CASE PublishGate(q)
    BY <2>8, LeavingKeepsReserve DEF PublishGate, IInv, intakeVars, budgetVars, Settled
  <2> QED BY <1>3, <2>1, <2>2, <2>3, <2>4, <2>5, <2>6, <2>7, <2>8 DEF QuestionStep
<1>4. CASE UNCHANGED vars
  BY <1>2, <1>4 DEF vars, intakeVars, budgetVars
<1> QED BY <1>1, <1>3, <1>4 DEF Next

\* Whatever the deadlines and the batch, a close-limited question accepted at
\* intake is at the gate with the publish reserve still in hand.
THEOREM CloseLimitedKeepsItsReserve == Spec => []CloseLimitedKeepsReserve
<1>1. Init => BeforeReserve
  BY DEF Init, BeforeReserve, TimersAhead, Timed, Holding
<1>2. IInv /\ BeforeReserve => CloseLimitedKeepsReserve
  <2> SUFFICES ASSUME IInv, BeforeReserve, NEW q \in Questions, phase[q] = "ready", closeLimited[q]
               PROVE  clock + PublishReserve <= close[q]
    BY DEF CloseLimitedKeepsReserve
  <2>1. close[q] # NoClose /\ total[q] = close[q] - PublishReserve /\ clock <= total[q]
    BY DEF BeforeReserve, Reserved
  <2>2. close[q] \in Nat /\ clock \in Nat /\ PublishReserve \in Nat
    BY <2>1, RunAssumption, LaddersAreFinite DEF IInv, TypeOK
  <2> QED BY <2>1, <2>2
<1> QED BY <1>1, <1>2, ReserveStep, InvariantHolds, PTL DEF Spec
=============================================================================
