---------------------------- MODULE ForecastRun ----------------------------
(***************************************************************************)
(* One publishing run of the bot over a batch of questions: the            *)
(* close-derived time budget granted at intake, the shared research        *)
(* semaphore and the fixed research window, the forecaster fan-out with    *)
(* its per-member soft deadline and its wall-clock cancel, the             *)
(* min-forecasters guard, the time the stacking route may spend, and the   *)
(* publish gate.                                                           *)
(*                                                                         *)
(* Question i is the i-th of the batch forecast_questions hands to the     *)
(* framework.  All the code here runs on one asyncio event loop, so an     *)
(* action is a stretch between two awaits, and time advances only when     *)
(* nothing is runnable and no timer has expired: a timer fires at its      *)
(* deadline, and a stage that takes no await takes no time.  The 2 s grace *)
(* that follows a cancellation is below the tick.                          *)
(***************************************************************************)
EXTENDS Integers, FiniteSets

CONSTANTS
    NumQuestions,            \* questions in the batch, after the per-run cap
    Models,                  \* the forecaster roster
    CloseTimes,              \* the close times a question may carry
    NoClose,                 \* close_time is None
    AdminClosures,           \* the sets of questions whose cached state may read CLOSED or RESOLVED
    Strategy,                \* the aggregation strategy
    MaxConcurrentResearch,   \* slots of the orchestrator's semaphore
    MinForecasters,          \* min_forecasters_to_publish
    StaticDeadline,          \* PER_QUESTION_WALL_CLOCK_DEADLINE
    PublishReserve,          \* PUBLISH_RESERVE_SECONDS
    MinViable,               \* TIME_BUDGET_MIN_VIABLE_S
    FastPathThreshold,       \* TIME_BUDGET_FAST_PATH_THRESHOLD
    SoftDeadline,            \* FORECASTER_SOFT_DEADLINE
    CruxDeadline,            \* CRUX_SOFT_DEADLINE
    SearchDeadline,          \* NATIVE_SEARCH_WALL_TIMEOUT
    StackerDeadline,         \* STACKER_SOFT_DEADLINE
    FallbackDeadline,        \* STACKER_FALLBACK_SOFT_DEADLINE
    StackingMinBudget,       \* WALL_CLOCK_STACKING_MIN_BUDGET
    EnrichmentFloor          \* the 1.0 s floor of _enrichment_timeout

Questions == 1..NumQuestions

ASSUME RunAssumption ==
    /\ NumQuestions \in Nat
    /\ IsFiniteSet(Models)
    /\ CloseTimes \subseteq Nat
    /\ NoClose \notin CloseTimes
    /\ AdminClosures \subseteq SUBSET Questions
    /\ Strategy \in {"MEDIAN", "STACKING", "CONDITIONAL_STACKING"}
    /\ MaxConcurrentResearch \in Nat \ {0}
    /\ MinForecasters \in Nat \ {0}

ASSUME DeadlineAssumption ==
    /\ {StaticDeadline, PublishReserve, MinViable, FastPathThreshold, SoftDeadline, CruxDeadline,
        SearchDeadline, StackerDeadline, FallbackDeadline, StackingMinBudget, EnrichmentFloor}
          \subseteq Nat
    /\ EnrichmentFloor <= CruxDeadline
    /\ EnrichmentFloor <= SearchDeadline

VARIABLES
    clock,          \* the event loop's monotonic clock, in ticks
    close,          \* question -> its close_time
    adminClosed,    \* questions whose cached state already reads closed
    phase,          \* question -> where its coroutine is
    total,          \* question -> QuestionTimeBudget.total_s
    startedAt,      \* question -> QuestionTimeBudget.started_at
    closeLimited,   \* question -> QuestionTimeBudget.close_limited
    deadline,       \* question -> the timer of the phase it awaits
    fanOutAt,       \* question -> when its fan-out began
    member,         \* question -> model -> how that forecaster stands
    drops,          \* question -> model -> entries in _forecaster_drops
    skippedClosed,  \* _PUBLISH_SKIPPED_CLOSED
    failedToPublish,\* _questions_failed_to_publish
    fastPathCount   \* _time_budget_fast_path_count

intakeVars == <<close, adminClosed>>
budgetVars == <<total, startedAt, closeLimited>>
memberVars == <<member, drops, fanOutAt>>
counters   == <<skippedClosed, failedToPublish, fastPathCount>>
vars == <<clock, intakeVars, phase, budgetVars, deadline, memberVars, counters>>

Stacking == Strategy \in {"STACKING", "CONDITIONAL_STACKING"}

\* Phases that hold a research slot, and phases that await under a timer.
Holding == {"providers", "gap_fill"}
Timed == Holding \cup {"fan_out", "crux", "search", "primary", "fallback"}
\* Runnable phases: the coroutine has work to do before it awaits anything.
Runnable == {"batched", "gathered", "ready"}
Settled == {"skipped_intake", "skipped_gate", "failed", "posted"}
Phases == {"waiting"} \cup Timed \cup Runnable \cup Settled

MemberStates == {"idle", "running", "ok", "raised", "timed_out", "cancelled"}

Larger(a, b) == IF a >= b THEN a ELSE b
Smaller(a, b) == IF a <= b THEN a ELSE b

-----------------------------------------------------------------------------
(* Intake and the time budget *)

UnsortedBatch(c) == TRUE

\* The batch is sorted by close time; a question without one sorts last.
TightestFirst(c) ==
    \A q, r \in Questions :
        q < r /\ c[r] # NoClose => c[q] # NoClose /\ c[q] <= c[r]

Init ==
    /\ clock = 0
    /\ close \in [Questions -> CloseTimes \cup {NoClose}]
    /\ TightestFirst(close)
    /\ adminClosed \in AdminClosures
    /\ phase = [q \in Questions |-> "batched"]
    /\ total = [q \in Questions |-> 0]
    /\ startedAt = [q \in Questions |-> 0]
    /\ closeLimited = [q \in Questions |-> FALSE]
    /\ deadline = [q \in Questions |-> 0]
    /\ fanOutAt = [q \in Questions |-> 0]
    /\ member = [q \in Questions |-> [m \in Models |-> "idle"]]
    /\ drops = [q \in Questions |-> [m \in Models |-> 0]]
    /\ skippedClosed = 0
    /\ failedToPublish = 0
    /\ fastPathCount = 0

\* Seconds between now and the close, less the reserve held back for the POSTs.
CloseAllows(q) == close[q] - clock - PublishReserve

GrantedTotal(q) ==
    IF close[q] = NoClose THEN StaticDeadline ELSE Smaller(StaticDeadline, CloseAllows(q))

GrantedCloseLimited(q) == close[q] # NoClose /\ CloseAllows(q) < StaticDeadline

Exhausted(t, limited) == t <= 0 \/ (limited /\ t < MinViable)

Elapsed(q) == clock - startedAt[q]
Remaining(q) == total[q] - Elapsed(q)

FastPath(q) == total[q] < FastPathThreshold

\* The fixed research window: RESEARCH_PHASE_BUDGET_SHARE is one half.
ResearchWindow(t) == t \div 2

ResearchPhaseDeadline(q) == Larger(0, ResearchWindow(total[q]) - Elapsed(q))

\* The head of _research_and_make_predictions: grant the budget, refuse a
\* question that cannot land, count a thin window.  The framework starts the
\* coroutines in batch order, and each runs this far before it first waits.
Grant(q) ==
    /\ phase[q] = "batched"
    /\ \A r \in Questions : r < q => phase[r] # "batched"
    /\ total' = [total EXCEPT ![q] = GrantedTotal(q)]
    /\ startedAt' = [startedAt EXCEPT ![q] = clock]
    /\ closeLimited' = [closeLimited EXCEPT ![q] = GrantedCloseLimited(q)]
    /\ \/ /\ Exhausted(GrantedTotal(q), GrantedCloseLimited(q))
          /\ phase' = [phase EXCEPT ![q] = "skipped_intake"]
          /\ skippedClosed' = skippedClosed + 1
          /\ UNCHANGED fastPathCount
       \/ /\ ~Exhausted(GrantedTotal(q), GrantedCloseLimited(q))
          /\ phase' = [phase EXCEPT ![q] = "waiting"]
          /\ fastPathCount' = fastPathCount
                + IF GrantedTotal(q) < FastPathThreshold THEN 1 ELSE 0
          /\ UNCHANGED skippedClosed
    /\ UNCHANGED <<clock, intakeVars, deadline, memberVars, failedToPublish>>

-----------------------------------------------------------------------------
(* Research *)

NeverReleasedSlot ==
    Cardinality({q \in Questions : phase[q] \notin {"batched", "waiting", "skipped_intake"}})
        < MaxConcurrentResearch

SlotFree == Cardinality({q \in Questions : phase[q] \in Holding}) < MaxConcurrentResearch

\* asyncio.Semaphore wakes its waiters in the order they queued.
FirstWaiting(q) ==
    /\ phase[q] = "waiting"
    /\ \A r \in Questions : r < q => phase[r] # "waiting"

\* The slot is taken and the providers start, under what is left of the window.
AcquireSlot(q) ==
    /\ FirstWaiting(q)
    /\ \A r \in Questions : phase[r] # "batched"
    /\ SlotFree
    /\ phase' = [phase EXCEPT ![q] = "providers"]
    /\ deadline' = [deadline EXCEPT ![q] = clock + ResearchPhaseDeadline(q)]
    /\ UNCHANGED <<clock, intakeVars, budgetVars, memberVars, counters>>

\* Research returned: the slot is released and every forecaster starts, under
\* what is left of the whole budget.
StartFanOut(q) ==
    /\ phase' = [phase EXCEPT ![q] = "fan_out"]
    /\ deadline' = [deadline EXCEPT ![q] = clock + Larger(0, Remaining(q))]
    /\ fanOutAt' = [fanOutAt EXCEPT ![q] = clock]
    /\ member' = [member EXCEPT ![q] = [m \in Models |-> "running"]]
    /\ UNCHANGED <<clock, intakeVars, budgetVars, drops, counters>>

\* The provider phase ends, all done or cancelled at its deadline.  Gap-fill is
\* skipped on the fast path or when the window is spent; otherwise it runs
\* under the window's remainder, read again.
ProvidersEnd(q) ==
    /\ phase[q] = "providers"
    /\ \/ /\ FastPath(q) \/ ResearchPhaseDeadline(q) = 0
          /\ StartFanOut(q)
       \/ /\ ~FastPath(q) /\ ResearchPhaseDeadline(q) > 0
          /\ phase' = [phase EXCEPT ![q] = "gap_fill"]
          /\ deadline' = [deadline EXCEPT ![q] = clock + ResearchPhaseDeadline(q)]
          /\ UNCHANGED <<clock, intakeVars, budgetVars, memberVars, counters>>

\* Gap-fill ends, complete, inactive, failed or cut by its deadline.
GapFillEnds(q) ==
    /\ phase[q] = "gap_fill"
    /\ StartFanOut(q)

-----------------------------------------------------------------------------
(* The forecaster fan-out *)

\* A member returns a prediction, or raises anything but a TimeoutError.
MemberEnds(q, m) ==
    /\ phase[q] = "fan_out"
    /\ member[q][m] = "running"
    /\ \E outcome \in {"ok", "raised"} : member' = [member EXCEPT ![q][m] = outcome]
    /\ UNCHANGED <<clock, intakeVars, phase, budgetVars, deadline, drops, fanOutAt, counters>>

\* The soft deadline, or a TimeoutError from inside the member: the wrapper
\* records the drop at the raise site and re-raises.
MemberTimesOut(q, m) ==
    /\ phase[q] = "fan_out"
    /\ member[q][m] = "running"
    /\ member' = [member EXCEPT ![q][m] = "timed_out"]
    /\ drops' = [drops EXCEPT ![q][m] = @ + 1]
    /\ UNCHANGED <<clock, intakeVars, phase, budgetVars, deadline, fanOutAt, counters>>

Pending(q) == {m \in Models : member[q][m] = "running"}
Valid(q) == {m \in Models : member[q][m] = "ok"}

RecordsEveryException(q, m) == m \in Pending(q) \/ member[q][m] \in {"raised", "timed_out"}

\* What the gather itself records: the members it cancels and those that raised,
\* but not a TimeoutError, which its raise site has already recorded.
GatherRecords(q, m) == m \in Pending(q) \/ member[q][m] = "raised"

\* asyncio.wait returns, everyone done or the wall clock spent: pending members
\* are cancelled and the drops recorded.
GatherReturns(q) ==
    /\ phase[q] = "fan_out"
    /\ Pending(q) = {} \/ clock >= deadline[q]
    /\ drops' = [drops EXCEPT ![q] =
                    [m \in Models |-> @[m] + IF GatherRecords(q, m) THEN 1 ELSE 0]]
    /\ member' = [member EXCEPT ![q] =
                    [m \in Models |-> IF m \in Pending(q) THEN "cancelled" ELSE @[m]]]
    /\ phase' = [phase EXCEPT ![q] = "gathered"]
    /\ UNCHANGED <<clock, intakeVars, budgetVars, deadline, fanOutAt, counters>>

-----------------------------------------------------------------------------
(* The guard and the stacking route, as far as they spend time *)

SilentGuard(q) ==
    /\ Cardinality(Valid(q)) < MinForecasters
    /\ phase' = [phase EXCEPT ![q] = "failed"]
    /\ UNCHANGED <<deadline, failedToPublish>>

\* Too few survivors: the question alone is dropped, and counted.
MinForecastersGuard(q) ==
    /\ Cardinality(Valid(q)) < MinForecasters
    /\ phase' = [phase EXCEPT ![q] = "failed"]
    /\ failedToPublish' = failedToPublish + 1
    /\ UNCHANGED deadline

\* _stacking_budget_required_s: the ladder's own soft deadlines, summed.
StackingRequired ==
    StackerDeadline + FallbackDeadline
      + IF Strategy = "CONDITIONAL_STACKING" THEN CruxDeadline + SearchDeadline ELSE 0

StaticStackingFloor(q) == StackingMinBudget

\* The floor rises on a close-limited budget to the stacking path's worst case.
StackingFloor(q) == StackingMinBudget + IF closeLimited[q] THEN StackingRequired ELSE 0

SkipStackingForBudget(q) == Remaining(q) < StackingFloor(q)

EnrichmentTimeout(q, soft) ==
    Larger(EnrichmentFloor, Smaller(soft, Remaining(q) - StackingMinBudget))

Await(q, stage, timeout) ==
    /\ phase' = [phase EXCEPT ![q] = stage]
    /\ deadline' = [deadline EXCEPT ![q] = clock + timeout]

Aggregated(q) ==
    /\ phase' = [phase EXCEPT ![q] = "ready"]
    /\ UNCHANGED deadline

\* route_after_forecasts: base combine for a lone survivor, a spent budget, a
\* spread that does not call for the stacker or a non-stacking strategy.
RouteAfterForecasts(q) ==
    /\ Cardinality(Valid(q)) >= MinForecasters
    /\ \/ /\ ~Stacking \/ Cardinality(Valid(q)) = 1 \/ SkipStackingForBudget(q)
          /\ Aggregated(q)
       \/ /\ Cardinality(Valid(q)) > 1 /\ ~SkipStackingForBudget(q)
          /\ \/ Strategy = "STACKING" /\ Await(q, "primary", StackerDeadline)
             \/ /\ Strategy = "CONDITIONAL_STACKING"
                /\ Aggregated(q) \/ Await(q, "crux", EnrichmentTimeout(q, CruxDeadline))
    /\ UNCHANGED failedToPublish

AfterGather(q) ==
    /\ phase[q] = "gathered"
    /\ MinForecastersGuard(q) \/ RouteAfterForecasts(q)
    /\ UNCHANGED <<clock, intakeVars, budgetVars, memberVars, skippedClosed, fastPathCount>>

\* The crux extraction ends: with a crux to research, or without one.
CruxEnds(q) ==
    /\ phase[q] = "crux"
    /\ \/ Await(q, "search", EnrichmentTimeout(q, SearchDeadline))
       \/ Await(q, "primary", StackerDeadline)
    /\ UNCHANGED <<clock, intakeVars, budgetVars, memberVars, counters>>

SearchEnds(q) ==
    /\ phase[q] = "search"
    /\ Await(q, "primary", StackerDeadline)
    /\ UNCHANGED <<clock, intakeVars, budgetVars, memberVars, counters>>

\* The primary stacker answers, or fails over to the other vendor's model.
PrimaryEnds(q) ==
    /\ phase[q] = "primary"
    /\ Aggregated(q) \/ Await(q, "fallback", FallbackDeadline)
    /\ UNCHANGED <<clock, intakeVars, budgetVars, memberVars, counters>>

\* The fallback answers, or fails to the MEDIAN of the members.
FallbackEnds(q) ==
    /\ phase[q] = "fallback"
    /\ Aggregated(q)
    /\ UNCHANGED <<clock, intakeVars, budgetVars, memberVars, counters>>

-----------------------------------------------------------------------------
(* The publish gate, and time *)

ClosedToForecasting(q) == (close[q] # NoClose /\ clock >= close[q]) \/ q \in adminClosed

PublishGate(q) ==
    /\ phase[q] = "ready"
    /\ \/ /\ ClosedToForecasting(q)
          /\ phase' = [phase EXCEPT ![q] = "skipped_gate"]
          /\ skippedClosed' = skippedClosed + 1
       \/ /\ ~ClosedToForecasting(q)
          /\ phase' = [phase EXCEPT ![q] = "posted"]
          /\ UNCHANGED skippedClosed
    /\ UNCHANGED <<clock, intakeVars, budgetVars, deadline, memberVars, failedToPublish, fastPathCount>>

\* Time passes while a coroutine awaits, up to the next timer.
Tick ==
    /\ \A q \in Questions : phase[q] \notin Runnable
    /\ (\E q \in Questions : phase[q] = "waiting") => ~SlotFree
    /\ \E q \in Questions : phase[q] \in Timed
    /\ \A q \in Questions : phase[q] \in Timed => clock < deadline[q]
    /\ \A q \in Questions : phase[q] = "fan_out" =>
          /\ Pending(q) # {}
          /\ clock < fanOutAt[q] + SoftDeadline
    /\ clock' = clock + 1
    /\ UNCHANGED <<intakeVars, phase, budgetVars, deadline, memberVars, counters>>

QuestionStep(q) ==
    \/ Grant(q) \/ AcquireSlot(q) \/ ProvidersEnd(q) \/ GapFillEnds(q)
    \/ \E m \in Models : MemberEnds(q, m) \/ MemberTimesOut(q, m)
    \/ GatherReturns(q) \/ AfterGather(q)
    \/ CruxEnds(q) \/ SearchEnds(q) \/ PrimaryEnds(q) \/ FallbackEnds(q)
    \/ PublishGate(q)

Next == Tick \/ \E q \in Questions : QuestionStep(q)

Spec == Init /\ [][Next]_vars

\* The event loop keeps running: what is runnable runs and timers fire.
FairSpec == Spec /\ WF_vars(Next)

-----------------------------------------------------------------------------
(* Properties *)

\* The types; a budget that passed intake is positive.
TypeOK ==
    /\ clock \in Nat
    /\ close \in [Questions -> CloseTimes \cup {NoClose}]
    /\ adminClosed \subseteq Questions
    /\ phase \in [Questions -> Phases]
    /\ total \in [Questions -> Int]
    /\ \A q \in Questions : phase[q] \notin {"batched", "skipped_intake"} => total[q] > 0
    /\ startedAt \in [Questions -> Nat]
    /\ closeLimited \in [Questions -> BOOLEAN]
    /\ deadline \in [Questions -> Nat]
    /\ fanOutAt \in [Questions -> Nat]
    /\ member \in [Questions -> [Models -> MemberStates]]
    /\ drops \in [Questions -> [Models -> Nat]]
    /\ skippedClosed \in Nat
    /\ failedToPublish \in Nat
    /\ fastPathCount \in Nat

\* However long a question waits for a research slot and however long its
\* research runs, its forecasters start with the share of the budget that is
\* not research's.  It rests on three things at once: the window is fixed
\* (time_budget.research_phase_deadline_s), the semaphore is first-come
\* first-served, and the batch is sorted tightest close first.
ForecastShareProtected ==
    \A q \in Questions :
        phase[q] \notin {"batched", "skipped_intake", "waiting"} \cup Holding =>
            fanOutAt[q] - startedAt[q] <= ResearchWindow(total[q])

\* A question whose close time bounds its budget, once accepted at intake, is at
\* the publish gate with the publish reserve still in hand, whatever its
\* research, forecasters and stackers did: our own latency never forfeits it.
CloseLimitedKeepsReserve ==
    \A q \in Questions :
        phase[q] = "ready" /\ closeLimited[q] => clock + PublishReserve <= close[q]

\* Every member of a gathered fan-out is either a valid prediction or exactly
\* one entry in the drops list: a soft-deadline timeout is not counted again by
\* the gather, and a cancelled member is not missed by it.
EachDropCountedOnce ==
    \A q \in Questions : \A m \in Models :
        member[q][m] \notin {"idle", "running"} /\ phase[q] # "fan_out" =>
            drops[q][m] = IF member[q][m] = "ok" THEN 0 ELSE 1

\* A question that ends without a forecast handed to the publisher is counted,
\* in the one counter its cause belongs to, so that the run ends red.
ForfeitsAreCounted ==
    /\ skippedClosed = Cardinality({q \in Questions : phase[q] \in {"skipped_intake", "skipped_gate"}})
    /\ failedToPublish = Cardinality({q \in Questions : phase[q] = "failed"})

\* The run ends: every question of the batch is posted, skipped or failed.
EveryQuestionSettles == <>[](\A q \in Questions : phase[q] \in Settled)

\* time_budget.py says a question with workable headroom at run start always
\* gets its prediction submitted before close: whatever passes intake reaches
\* the gate before its close time.
WorkableHeadroomBeatsClose ==
    \A q \in Questions : phase[q] = "ready" /\ close[q] # NoClose => clock < close[q]
=============================================================================
