----------------------------- MODULE Aggregation -----------------------------
(***************************************************************************)
(* From the forecasts that survived the fan-out to the one that is         *)
(* published, and what the run says about it.  Routing picks a path, the   *)
(* stacker ladder may climb down from its primary model to a fallback and  *)
(* to a median, and whatever comes out re-enters the framework's combine   *)
(* as if it were a report's prediction.  Each stage leaves its part in a   *)
(* map of the pipeline, keyed by question, that a later stage reads or     *)
(* pops: who was asked, why nobody was, how the numbers were combined, the *)
(* stacker's reasoning, the votes for an integer axis.  The counters are   *)
(* shared by all questions of the run.  The time the stages take is        *)
(* ForecastRun's.                                                          *)
(***************************************************************************)
EXTENDS Integers, FiniteSets

CONSTANTS
    Questions,
    Strategies,         \* what AggregationPipeline.strategy may be configured to
    Kinds,              \* the kinds of question asked
    StackedKinds,       \* kinds whose <TYPE>_STACKING_ENABLED flag is set
    FallbackSettings    \* and stacking_fallback_on_failure: off in the benchmark alone

ASSUME AggregationAssumption ==
    /\ IsFiniteSet(Questions)
    /\ Strategies \subseteq {"mean", "median", "stacking", "conditional_stacking"}
    /\ Kinds \subseteq {"binary", "mc", "numeric", "per_bin", "date"}
    /\ FallbackSettings \subseteq BOOLEAN

VARIABLES
    strategy,   \* AggregationPipeline.strategy
    fallsBack,  \* AggregationPipeline.stacking_fallback_on_failure
    pc,         \* question -> where its coroutine stands
    kind,       \* question -> its type; per_bin is a numeric one elicited bin by bin
    survivors,  \* question -> how many forecasts survived: one, or several
    votes,      \* question -> whether discrete_integer_votes has a majority for snapping
    meta,       \* meta_reasoning: question -> the stacker whose text it holds
    outcome,    \* outcomes
    skip,       \* skip_reasons
    method,     \* numeric_combine_methods
    expected,   \* expected_base_combines
    value,      \* question -> how its prediction was made
    text,       \* question -> whose reasoning its report carries
    record,     \* question -> what its comment and its log line say
    count       \* AggregationCounters

maps == <<meta, outcome, skip, method, expected>>
config == <<strategy, fallsBack, kind, survivors>>
vars == <<config, pc, votes, maps, value, text, record, count>>

None == "none"
Numeric == {"numeric", "per_bin", "date"}
Stacking == strategy \in {"stacking", "conditional_stacking"}

Stackers == {"primary", "fallback"}
Methods == {"mean", "median"}

\* How a value was made, and how often it went through each post-processing.
Made(by) == [by |-> by, calibrated |-> 0, snapped |-> 0, floored |-> FALSE]
Unmade == Made(None)

Counted == {"expected", "unexpected", "fallback", "primary_failed", "fallback_used", "fallback_failed",
            "triggered", "skipped", "skipped_lone", "crux_failures", "search_failures"}

Bump(names) == count' = [n \in Counted |-> IF n \in names THEN count[n] + 1 ELSE count[n]]

Init ==
    /\ strategy \in Strategies
    /\ fallsBack \in FallbackSettings
    /\ pc = [q \in Questions |-> "forecast"]
    /\ kind \in [Questions -> Kinds]
    /\ survivors \in [Questions -> 1..2]
    /\ votes \in [Questions -> BOOLEAN]
    /\ \A q \in Questions : votes[q] => kind[q] = "numeric"
    /\ meta = [q \in Questions |-> None]
    /\ outcome = [q \in Questions |-> None]
    /\ skip = [q \in Questions |-> None]
    /\ method = [q \in Questions |-> None]
    /\ expected = {}
    /\ value = [q \in Questions |-> Unmade]
    /\ text = [q \in Questions |-> None]
    /\ record = [q \in Questions |-> [outcome |-> None, skip |-> None, method |-> None]]
    /\ count = [n \in Counted |-> 0]

Goes(q, place) == pc' = [pc EXCEPT ![q] = place]

-----------------------------------------------------------------------------
(* Post-processing. *)

\* Platt calibration leaves a distribution alone.
Calibrated(q, v) == IF kind[q] \in Numeric THEN v ELSE [v EXCEPT !.calibrated = @ + 1]

\* The votes are popped by the first snap; date and per-bin members cast none.
Snapped(q, v) == IF votes[q] THEN [v EXCEPT !.snapped = @ + 1] ELSE v

\* A broken snap reads the votes and leaves them.
VotesKept(q) == votes

VotesPopped(q) == IF kind[q] \in {"numeric", "per_bin"} THEN [votes EXCEPT ![q] = FALSE] ELSE votes

\* Members elicited bin by bin are pooled, whatever the strategy.
CombineStrategy(q, wanted) == IF kind[q] = "per_bin" THEN "mean" ELSE wanted

Recorded(q, how) == IF kind[q] \in Numeric THEN [method EXCEPT ![q] = how] ELSE method

-----------------------------------------------------------------------------
(* Routing. *)

\* The report carries the raw members on.
HandsBack(q, why, label, names) ==
    /\ Goes(q, "report")
    /\ outcome' = [outcome EXCEPT ![q] = label]
    /\ skip' = [skip EXCEPT ![q] = why]
    /\ expected' = expected \cup {q}
    /\ Bump(names)

BudgetSkipOutcome == IF strategy = "conditional_stacking" THEN "fallback_median" ELSE "fallback_mean"
ConditionalSkip == IF strategy = "conditional_stacking" THEN {"skipped"} ELSE {}

\* What the spread of the forecasts may be found to be.
Spreads == {"undefined", "low", "high"}

Verdict(q, spread) ==
    IF spread = "undefined" THEN "spread_undefined"
    ELSE IF spread = "low" THEN "spread_below_threshold"
    ELSE IF kind[q] \notin StackedKinds THEN "config_off"
    ELSE None

LoneSurvivor(q) ==
    /\ pc[q] = "forecast" /\ Stacking /\ survivors[q] = 1
    /\ HandsBack(q, "single_forecaster", "skipped", {"skipped_lone"})
    /\ UNCHANGED <<config, votes, meta, method, value, text, record>>

\* The budget has no room left for the ladder.
SkipForBudget(q) ==
    /\ pc[q] = "forecast" /\ Stacking /\ survivors[q] > 1
    /\ HandsBack(q, "wall_clock_budget", BudgetSkipOutcome, ConditionalSkip)
    /\ UNCHANGED <<config, votes, meta, method, value, text, record>>

AlwaysStack(q) ==
    /\ pc[q] = "forecast" /\ strategy = "stacking" /\ survivors[q] > 1
    /\ Goes(q, "primary")
    /\ UNCHANGED <<config, votes, maps, value, text, record, count>>

\* Under CONDITIONAL_STACKING, once the spread is measured.
Conditional(q) ==
    /\ pc[q] = "forecast" /\ strategy = "conditional_stacking" /\ survivors[q] > 1
    /\ \E spread \in Spreads :
        LET why == Verdict(q, spread) IN
        IF why = None
        THEN /\ Goes(q, "crux")
             /\ Bump({"triggered"})
             /\ UNCHANGED <<outcome, skip, expected>>
        ELSE HandsBack(q, why, IF why = "config_off" THEN "skipped_config_off" ELSE "skipped", {"skipped"})
    /\ UNCHANGED <<config, votes, meta, method, value, text, record>>

\* A strategy that never stacks.
PlainStrategy(q) ==
    /\ pc[q] = "forecast" /\ ~Stacking
    /\ Goes(q, "report")
    /\ UNCHANGED <<config, votes, maps, value, text, record, count>>

-----------------------------------------------------------------------------
(* Targeted research: an enrichment, which nothing but a counter remembers. *)

\* A crux may come back, or come back empty, or the extraction fails.
CruxEnds(q) ==
    /\ pc[q] = "crux"
    /\ \/ Goes(q, "search") /\ UNCHANGED count
       \/ Goes(q, "primary") /\ UNCHANGED count
       \/ Goes(q, "primary") /\ Bump({"crux_failures"})
    /\ UNCHANGED <<config, votes, maps, value, text, record>>

SearchEnds(q) ==
    /\ pc[q] = "search"
    /\ Goes(q, "primary")
    /\ \/ UNCHANGED count
       \/ Bump({"search_failures"})
    /\ UNCHANGED <<config, votes, maps, value, text, record>>

-----------------------------------------------------------------------------
(* The ladder.  A stacker's text is stored as soon as it parses; a numeric one may *)
(* still be withheld after that, when its units do not fit the question.           *)

\* What a stacker that fails may have left in meta_reasoning.
Leaves(q, who) == IF kind[q] \in Numeric THEN {meta[q], who} ELSE {meta[q]}

\* A broken ladder keeps the reasoning that was stored first.
FirstTextKept(q, who) == IF meta[q] = None THEN who ELSE meta[q]

Stored(q, who) == who

\* _finalize_stacked_prediction: the stored reasoning is popped, a default stands in for none.
Finalized(q, whose) ==
    /\ Goes(q, "report")
    /\ text' = [text EXCEPT ![q] = IF whose = None THEN "default" ELSE whose]
    /\ meta' = [meta EXCEPT ![q] = None]
    /\ expected' = expected \cup {q}

\* _adopt_stacked.
Adopted(q, who, label) ==
    /\ outcome' = [outcome EXCEPT ![q] = label]
    /\ value' = [value EXCEPT ![q] = Calibrated(q, Snapped(q, Made(who)))]
    /\ votes' = VotesPopped(q)
    /\ method' = Recorded(q, "stacked")
    /\ Finalized(q, Stored(q, who))

PrimaryStacks(q) ==
    /\ pc[q] = "primary"
    /\ Adopted(q, "primary", "primary")
    /\ UNCHANGED <<config, skip, record, count>>

\* Without a fallback the question is lost.
PrimaryFails(q) ==
    /\ pc[q] = "primary"
    /\ \E left \in Leaves(q, "primary") : meta' = [meta EXCEPT ![q] = left]
    /\ IF fallsBack
       THEN Goes(q, "fallback") /\ Bump({"primary_failed", "fallback_used"})
       ELSE Goes(q, "failed") /\ UNCHANGED count
    /\ UNCHANGED <<config, votes, outcome, skip, method, expected, value, text, record>>

FallbackStacks(q) ==
    /\ pc[q] = "fallback"
    /\ Adopted(q, "fallback", "fallback_llm")
    /\ UNCHANGED <<config, skip, record, count>>

\* _median_fallback.
FallbackFails(q) ==
    /\ pc[q] = "fallback"
    /\ outcome' = [outcome EXCEPT ![q] = "fallback_median"]
    /\ LET how == CombineStrategy(q, "median") IN
        /\ value' = [value EXCEPT ![q] = Calibrated(q, Snapped(q, Made(how)))]
        /\ method' = Recorded(q, how)
    /\ votes' = VotesPopped(q)
    /\ \E left \in Leaves(q, "fallback") : Finalized(q, left)
    /\ Bump({"fallback_failed", "fallback"})
    /\ UNCHANGED <<config, skip, record>>

-----------------------------------------------------------------------------
(* The framework's combine, over what the report carries. *)

\* A stacked report carries one prediction, as a lone survivor's does.
Single(q) == value[q].by # None \/ survivors[q] = 1

Floors(q) == kind[q] = "binary" /\ skip[q] = "single_forecaster"

Carried(q) == IF value[q].by = None THEN Made("lone") ELSE value[q]

\* base_combine on one prediction.
SingleCombined(q) == IF Floors(q) THEN [Carried(q) EXCEPT !.floored = TRUE] ELSE Snapped(q, Carried(q))

\* base_combine on several.
BaseCombined(q) ==
    LET how == CombineStrategy(q, IF strategy = "conditional_stacking" THEN "median" ELSE "mean")
        v == Snapped(q, Made(how))
    IN IF strategy = "conditional_stacking" THEN Calibrated(q, v) ELSE v

SimpleCombined(q) == Calibrated(q, Snapped(q, Made(CombineStrategy(q, strategy))))

\* What numeric_combine_methods holds when the seam pops it.
MethodOf(q, v) ==
    IF kind[q] \notin Numeric THEN None
    ELSE IF Stacking /\ Single(q) THEN (IF method[q] = None THEN "single" ELSE method[q])
    ELSE v.by

\* A broken count forgets the questions that were stacked.
CombineTallyOfSkips(q) == IF q \in expected /\ skip[q] # None THEN {"expected"} ELSE {"unexpected"}

CombineTally(q) == IF q \in expected THEN {"expected"} ELSE {"unexpected"}

Combine(q) ==
    /\ pc[q] = "report"
    /\ Goes(q, "combined")
    /\ LET v == IF ~Stacking THEN SimpleCombined(q)
                ELSE IF Single(q) THEN SingleCombined(q) ELSE BaseCombined(q)
       IN /\ value' = [value EXCEPT ![q] = v]
          /\ record' = [record EXCEPT ![q].method = MethodOf(q, v)]
    /\ method' = [method EXCEPT ![q] = None]
    /\ votes' = VotesPopped(q)
    /\ expected' = expected \ {q}
    /\ IF Stacking THEN Bump(CombineTally(q)) ELSE UNCHANGED count
    /\ UNCHANGED <<config, meta, outcome, skip, text>>

\* _create_unified_explanation pops the two labels.
Comment(q) ==
    /\ pc[q] = "combined"
    /\ Goes(q, "published")
    /\ record' = [record EXCEPT ![q].outcome = outcome[q], ![q].skip = skip[q]]
    /\ outcome' = [outcome EXCEPT ![q] = None]
    /\ skip' = [skip EXCEPT ![q] = None]
    /\ UNCHANGED <<config, votes, meta, method, expected, value, text, count>>

Step(q) ==
    \/ LoneSurvivor(q) \/ SkipForBudget(q) \/ AlwaysStack(q) \/ Conditional(q) \/ PlainStrategy(q)
    \/ CruxEnds(q) \/ SearchEnds(q)
    \/ PrimaryStacks(q) \/ PrimaryFails(q) \/ FallbackStacks(q) \/ FallbackFails(q)
    \/ Combine(q) \/ Comment(q)

Next == \E q \in Questions : Step(q)

Spec == Init /\ [][Next]_vars

-----------------------------------------------------------------------------
Places == {"forecast", "crux", "search", "primary", "fallback", "report", "combined", "published", "failed"}
Outcomes == {None, "primary", "fallback_llm", "fallback_median", "fallback_mean", "skipped", "skipped_config_off"}
Reasons == {None, "single_forecaster", "wall_clock_budget", "spread_undefined", "spread_below_threshold",
            "config_off"}
MethodNames == {None, "stacked", "single"} \cup Methods
Values == [by : {None, "lone"} \cup Stackers \cup Methods, calibrated : Nat, snapped : Nat, floored : BOOLEAN]

TypeOK ==
    /\ strategy \in Strategies
    /\ fallsBack \in BOOLEAN
    /\ pc \in [Questions -> Places]
    /\ kind \in [Questions -> Kinds]
    /\ survivors \in [Questions -> 1..2]
    /\ votes \in [Questions -> BOOLEAN]
    /\ meta \in [Questions -> {None} \cup Stackers]
    /\ outcome \in [Questions -> Outcomes]
    /\ skip \in [Questions -> Reasons]
    /\ method \in [Questions -> MethodNames]
    /\ expected \subseteq Questions
    /\ value \in [Questions -> Values]
    /\ text \in [Questions -> {None, "default"} \cup Stackers]
    /\ record \in [Questions -> [outcome : Outcomes, skip : Reasons, method : MethodNames]]
    /\ count \in [Counted -> Nat]

By(q) == value[q].by

\* What is published says how it was made.  Under a stacking strategy the outcome names the
\* stacker exactly when a stacker made the value, there is a skip reason exactly when none
\* was asked, and the marker the comment builder asserts is there; a pooled value is labelled
\* with the pool that made it, a question elicited bin by bin excepted: its pool is a mean
\* under the label fallback_median.  The method logged for a distribution is the one that
\* made it, and a stacker's value carries that stacker's reasoning.
RecordsAreTrue ==
    \A q \in Questions : pc[q] = "published" =>
        /\ Stacking => record[q].outcome # None
        /\ ~Stacking => record[q].outcome = None /\ record[q].skip = None
        /\ record[q].outcome = "primary" <=> By(q) = "primary"
        /\ record[q].outcome = "fallback_llm" <=> By(q) = "fallback"
        /\ record[q].outcome = "fallback_mean" => By(q) = "mean"
        /\ record[q].outcome = "fallback_median" /\ kind[q] # "per_bin" => By(q) = "median"
        /\ Stacking => (record[q].skip # None <=> text[q] = None)
        /\ record[q].skip = "single_forecaster" <=> By(q) = "lone"
        /\ kind[q] \in Numeric =>
            record[q].method = CASE By(q) \in Stackers -> "stacked" [] By(q) = "lone" -> "single" [] OTHER -> By(q)
        /\ By(q) \in Stackers => text[q] = By(q)

\* A published value went through each post-processing as often as its making calls for,
\* although what a stacker made is processed where it is adopted and comes back to the
\* combine as a single prediction, like a lone survivor: an integer axis is snapped to once
\* if the votes ask for it, the floor is for lone binary survivors and for them alone, and
\* a probability is calibrated once, wherever it was made, unless it is a lone survivor's.
\* Of a mean pooled under a stacking strategy it says only that nothing happens twice:
\* OnlyLoneBinaryIsRaw is about that one.
ProcessedOnce ==
    \A q \in Questions : pc[q] = "published" =>
        /\ ~votes[q]
        /\ value[q].snapped <= 1 /\ value[q].calibrated <= 1
        /\ value[q].floored <=> kind[q] = "binary" /\ By(q) = "lone"
        /\ kind[q] \in {"binary", "mc"} /\ (Stacking => By(q) # "mean") =>
            (value[q].calibrated = 0 <=> By(q) = "lone")

\* As base_combine's comment has it, a lone raw binary member is the only published binary
\* value that never receives Platt calibration.
OnlyLoneBinaryIsRaw ==
    \A q \in Questions :
        pc[q] = "published" /\ kind[q] = "binary" /\ value[q].calibrated = 0 => By(q) = "lone"

\* Of a question: the label it was given, popped by now or not.
Label(q) == IF pc[q] = "published" THEN record[q].outcome ELSE outcome[q]
Reason(q) == IF pc[q] = "published" THEN record[q].skip ELSE skip[q]

Asked(q) == Label(q) \in {"primary", "fallback_llm"} \/ (Label(q) = "fallback_median" /\ Reason(q) = None)
Laddered(q) == Asked(q) \/ pc[q] \in {"crux", "search", "primary", "fallback", "failed"}
HowMany(P(_)) == Cardinality({q \in Questions : P(q)})

\* The counters of the run add up to what happened to its questions, whichever of them are
\* still under way, and no report meets the combine unannounced.
CountersAddUp ==
    LET FellBack(q) == Asked(q) /\ Label(q) # "primary"
        ToMedian(q) == FellBack(q) /\ Label(q) # "fallback_llm"
        OnFallback(q) == FellBack(q) \/ pc[q] = "fallback"
        Combined(q) == Stacking /\ pc[q] \in {"combined", "published"}
        Lone(q) == Reason(q) = "single_forecaster"
        Skipped(q) == Reason(q) \notin {None, "single_forecaster"}
    IN /\ count["unexpected"] = 0
       /\ count["expected"] = HowMany(Combined)
       /\ count["primary_failed"] = HowMany(OnFallback) /\ count["fallback_used"] = count["primary_failed"]
       /\ count["fallback_failed"] = HowMany(ToMedian) /\ count["fallback"] = count["fallback_failed"]
       /\ count["skipped_lone"] = HowMany(Lone)
       /\ strategy = "conditional_stacking" =>
            count["triggered"] = HowMany(Laddered) /\ count["skipped"] = HowMany(Skipped)
       /\ count["crux_failures"] + count["search_failures"] <= count["triggered"]
=============================================================================
