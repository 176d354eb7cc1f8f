-------------------------- MODULE AggregationProofs --------------------------
(***************************************************************************)
(* What is published says how it was made, and went through each           *)
(* post-processing as often as it should, for any set of questions, any    *)
(* strategies and any configuration of the stacker.                        *)
(*                                                                         *)
(* The stages of a question communicate through maps of the pipeline, so   *)
(* the invariant says, for each place a question may stand at, what the    *)
(* maps hold for it there; no stage touches another question's entries.    *)
(*                                                                         *)
(* The counters are one record for all questions.  Each is the size of the *)
(* set of questions something happened to: a step of a question moves it   *)
(* into or out of such a set exactly when it bumps the counter, and moves  *)
(* nobody else.  That failed enrichments never outnumber those that were   *)
(* triggered needs the ones still under way counted with the failures.     *)
(***************************************************************************)
EXTENDS Aggregation, FiniteSetTheorems, TLAPS

Bys == {None, "lone"} \cup Stackers \cup Methods

LEMMA MadeFields ==
    ASSUME NEW by \in Bys
    PROVE  /\ Made(by) \in Values /\ Made(by).by = by
           /\ Made(by).calibrated = 0 /\ Made(by).snapped = 0 /\ Made(by).floored = FALSE
BY DEF Made, Values, Bys

LEMMA CalibratedFields ==
    ASSUME NEW q, NEW v \in Values
    PROVE  /\ Calibrated(q, v) \in Values
           /\ Calibrated(q, v).by = v.by /\ Calibrated(q, v).snapped = v.snapped
           /\ Calibrated(q, v).floored = v.floored
           /\ Calibrated(q, v).calibrated = IF kind[q] \in Numeric THEN v.calibrated ELSE v.calibrated + 1
BY DEF Calibrated, Values

LEMMA SnappedFields ==
    ASSUME NEW q, NEW v \in Values
    PROVE  /\ Snapped(q, v) \in Values
           /\ Snapped(q, v).by = v.by /\ Snapped(q, v).calibrated = v.calibrated
           /\ Snapped(q, v).floored = v.floored
           /\ Snapped(q, v).snapped = IF votes[q] THEN v.snapped + 1 ELSE v.snapped
BY DEF Snapped, Values

\* A pooled value, and a stacker's, before it is calibrated.
LEMMA PooledFields ==
    ASSUME NEW q, NEW by \in Bys
    PROVE  /\ Snapped(q, Made(by)) \in Values /\ Snapped(q, Made(by)).by = by
           /\ Snapped(q, Made(by)).calibrated = 0 /\ Snapped(q, Made(by)).floored = FALSE
           /\ Snapped(q, Made(by)).snapped = IF votes[q] THEN 1 ELSE 0
<1>1. /\ Made(by) \in Values /\ Made(by).by = by /\ Made(by).calibrated = 0
      /\ Made(by).snapped = 0 /\ Made(by).floored = FALSE
  BY MadeFields
<1> QED BY <1>1, SnappedFields

LEMMA CombineStrategyIsMethod ==
    ASSUME NEW q, NEW wanted \in Methods
    PROVE  CombineStrategy(q, wanted) \in Methods
BY DEF CombineStrategy, Methods

\* What a question's value becomes at the framework's combine.
Combination(q) == IF ~Stacking THEN SimpleCombined(q)
                  ELSE IF Single(q) THEN SingleCombined(q) ELSE BaseCombined(q)

LEMMA CarriedFields ==
    ASSUME TypeOK, NEW q \in Questions
    PROVE  /\ Carried(q) \in Values
           /\ Carried(q).by = IF value[q].by = None THEN "lone" ELSE value[q].by
           /\ Carried(q).calibrated = IF value[q].by = None THEN 0 ELSE value[q].calibrated
           /\ Carried(q).snapped = IF value[q].by = None THEN 0 ELSE value[q].snapped
           /\ Carried(q).floored = IF value[q].by = None THEN FALSE ELSE value[q].floored
<1>1. value[q] \in Values
  BY DEF TypeOK
<1>2. "lone" \in Bys
  BY DEF Bys
<1> QED BY <1>1, <1>2, MadeFields DEF Carried

LEMMA SingleFields ==
    ASSUME TypeOK, NEW q \in Questions
    PROVE  /\ SingleCombined(q) \in Values
           /\ SingleCombined(q).by = Carried(q).by /\ SingleCombined(q).calibrated = Carried(q).calibrated
           /\ SingleCombined(q).floored = IF Floors(q) THEN TRUE ELSE Carried(q).floored
           /\ SingleCombined(q).snapped =
                IF ~Floors(q) /\ votes[q] THEN Carried(q).snapped + 1 ELSE Carried(q).snapped
<1>1. Carried(q) \in Values
  BY CarriedFields
<1>2. CASE Floors(q)
  <2>1. SingleCombined(q) = [Carried(q) EXCEPT !.floored = TRUE]
    BY <1>2 DEF SingleCombined
  <2> QED BY <1>1, <1>2, <2>1 DEF Values
<1>3. CASE ~Floors(q)
  <2>1. SingleCombined(q) = Snapped(q, Carried(q))
    BY <1>3 DEF SingleCombined
  <2> QED BY <1>1, <1>3, <2>1, SnappedFields
<1> QED BY <1>2, <1>3

LEMMA BaseFields ==
    ASSUME NEW q
    PROVE  /\ BaseCombined(q) \in Values
           /\ BaseCombined(q).by =
                CombineStrategy(q, IF strategy = "conditional_stacking" THEN "median" ELSE "mean")
           /\ BaseCombined(q).calibrated =
                IF strategy = "conditional_stacking" /\ kind[q] \notin Numeric THEN 1 ELSE 0
           /\ BaseCombined(q).floored = FALSE
           /\ BaseCombined(q).snapped = IF votes[q] THEN 1 ELSE 0
<1> DEFINE how == CombineStrategy(q, IF strategy = "conditional_stacking" THEN "median" ELSE "mean")
           v == Snapped(q, Made(how))
<1>1. how \in Bys
  BY CombineStrategyIsMethod DEF Bys, Methods
<1>2. BaseCombined(q) = IF strategy = "conditional_stacking" THEN Calibrated(q, v) ELSE v
  BY DEF BaseCombined
<1>3. /\ v \in Values /\ v.by = how /\ v.calibrated = 0 /\ v.floored = FALSE
      /\ v.snapped = IF votes[q] THEN 1 ELSE 0
  BY <1>1, PooledFields
<1> HIDE DEF v, how
<1>5. CASE strategy = "conditional_stacking"
  BY <1>2, <1>3, <1>5, CalibratedFields DEF how
<1>6. CASE strategy # "conditional_stacking"
  BY <1>2, <1>3, <1>6 DEF how
<1> QED BY <1>5, <1>6

LEMMA SimpleFields ==
    ASSUME NEW q, strategy \in Methods
    PROVE  /\ SimpleCombined(q) \in Values
           /\ SimpleCombined(q).by = CombineStrategy(q, strategy)
           /\ SimpleCombined(q).calibrated = IF kind[q] \in Numeric THEN 0 ELSE 1
           /\ SimpleCombined(q).floored = FALSE
           /\ SimpleCombined(q).snapped = IF votes[q] THEN 1 ELSE 0
<1> DEFINE how == CombineStrategy(q, strategy)
           v == Snapped(q, Made(how))
<1>1. how \in Bys
  BY CombineStrategyIsMethod DEF Bys, Methods
<1>2. SimpleCombined(q) = Calibrated(q, v)
  BY DEF SimpleCombined
<1>3. /\ v \in Values /\ v.by = how /\ v.calibrated = 0 /\ v.floored = FALSE
      /\ v.snapped = IF votes[q] THEN 1 ELSE 0
  BY <1>1, PooledFields
<1> HIDE DEF v
<1> QED BY <1>2, <1>3, CalibratedFields

\* A stacker's value, or a median's, as it is adopted.
LEMMA AdoptedFields ==
    ASSUME NEW q, NEW by \in Bys
    PROVE  /\ Calibrated(q, Snapped(q, Made(by))) \in Values
           /\ Calibrated(q, Snapped(q, Made(by))).by = by
           /\ Calibrated(q, Snapped(q, Made(by))).floored = FALSE
           /\ Calibrated(q, Snapped(q, Made(by))).calibrated = IF kind[q] \in Numeric THEN 0 ELSE 1
           /\ Calibrated(q, Snapped(q, Made(by))).snapped = IF votes[q] THEN 1 ELSE 0
<1>1. /\ Snapped(q, Made(by)) \in Values /\ Snapped(q, Made(by)).by = by
      /\ Snapped(q, Made(by)).calibrated = 0 /\ Snapped(q, Made(by)).floored = FALSE
      /\ Snapped(q, Made(by)).snapped = IF votes[q] THEN 1 ELSE 0
  BY PooledFields
<1> QED BY <1>1, CalibratedFields

-----------------------------------------------------------------------------
(* Types. *)

LEMMA BumpCounts ==
    ASSUME TypeOK, NEW names, Bump(names)
    PROVE  count' \in [Counted -> Nat]
BY DEF TypeOK, Bump

LEMMA CombinationIsValue ==
    ASSUME TypeOK, NEW q \in Questions
    PROVE  Combination(q) \in Values /\ Combination(q).by \in MethodNames \cup Bys
<1>1. strategy \in {"mean", "median", "stacking", "conditional_stacking"}
  BY AggregationAssumption DEF TypeOK
<1>2. CASE ~Stacking
  <2>1. strategy \in Methods
    BY <1>1, <1>2 DEF Stacking, Methods
  <2> QED BY <1>2, <2>1, SimpleFields DEF Combination, Values, Bys
<1>3. CASE Stacking /\ Single(q)
  BY <1>3, SingleFields DEF Combination, Values, Bys
<1>4. CASE Stacking /\ ~Single(q)
  BY <1>4, BaseFields DEF Combination, Values, Bys
<1> QED BY <1>2, <1>3, <1>4

LEMMA MethodIsNamed ==
    ASSUME TypeOK, NEW q \in Questions
    PROVE  MethodOf(q, Combination(q)) \in MethodNames
<1>1. strategy \in {"mean", "median", "stacking", "conditional_stacking"}
  BY AggregationAssumption DEF TypeOK
<1>2. CASE ~Stacking
  <2>1. strategy \in Methods
    BY <1>1, <1>2 DEF Stacking, Methods
  <2>2. Combination(q).by \in Methods
    BY <1>2, <2>1, SimpleFields, CombineStrategyIsMethod DEF Combination
  <2> QED BY <1>2, <2>2 DEF MethodOf, MethodNames
<1>3. CASE Stacking /\ Single(q)
  BY <1>3 DEF MethodOf, MethodNames, TypeOK
<1>4. CASE Stacking /\ ~Single(q)
  <2>1. Combination(q).by \in Methods
    BY <1>4, BaseFields, CombineStrategyIsMethod DEF Combination, Methods
  <2> QED BY <1>4, <2>1 DEF MethodOf, MethodNames
<1> QED BY <1>2, <1>3, <1>4

LEMMA StepKeepsTypes ==
    ASSUME TypeOK, NEW q \in Questions, Step(q)
    PROVE  TypeOK'
<1> USE DEF TypeOK, config, maps, Goes
<1>1. CASE LoneSurvivor(q)
  <2>1. count' \in [Counted -> Nat]
    BY <1>1, BumpCounts DEF LoneSurvivor, HandsBack
  <2> QED BY <1>1, <2>1 DEF LoneSurvivor, HandsBack, Places, Outcomes, Reasons
<1>2. CASE SkipForBudget(q)
  <2>1. count' \in [Counted -> Nat]
    BY <1>2, BumpCounts DEF SkipForBudget, HandsBack
  <2> QED BY <1>2, <2>1 DEF SkipForBudget, HandsBack, Places, Outcomes, Reasons, BudgetSkipOutcome
<1>3. CASE AlwaysStack(q)
  BY <1>3 DEF AlwaysStack, Places
<1>4. CASE Conditional(q)
  <2>1. PICK spread \in Spreads :
          LET why == Verdict(q, spread) IN
          IF why = None
          THEN /\ Goes(q, "crux") /\ Bump({"triggered"}) /\ UNCHANGED <<outcome, skip, expected>>
          ELSE HandsBack(q, why, IF why = "config_off" THEN "skipped_config_off" ELSE "skipped", {"skipped"})
    BY <1>4 DEF Conditional
  <2>2. count' \in [Counted -> Nat]
    BY <2>1, BumpCounts DEF HandsBack
  <2>3. Verdict(q, spread) \in Reasons
    BY DEF Verdict, Reasons
  <2>4. CASE Verdict(q, spread) = None
    BY <1>4, <2>1, <2>2, <2>4 DEF Conditional, Places
  <2>5. CASE Verdict(q, spread) # None
    <3>1. HandsBack(q, Verdict(q, spread),
                    IF Verdict(q, spread) = "config_off" THEN "skipped_config_off" ELSE "skipped", {"skipped"})
      BY <2>1, <2>5
    <3> QED BY <1>4, <2>2, <2>3, <3>1 DEF Conditional, HandsBack, Places, Outcomes
  <2> QED BY <2>4, <2>5
<1>5. CASE PlainStrategy(q)
  BY <1>5 DEF PlainStrategy, Places
<1>6. CASE CruxEnds(q)
  <2>1. count' \in [Counted -> Nat]
    BY <1>6, BumpCounts DEF CruxEnds
  <2> QED BY <1>6, <2>1 DEF CruxEnds, Places
<1>7. CASE SearchEnds(q)
  <2>1. count' \in [Counted -> Nat]
    BY <1>7, BumpCounts DEF SearchEnds
  <2> QED BY <1>7, <2>1 DEF SearchEnds, Places
<1>8. CASE PrimaryStacks(q)
  <2>1. Calibrated(q, Snapped(q, Made("primary"))) \in Values
    BY AdoptedFields DEF Bys, Stackers
  <2> QED BY <1>8, <2>1 DEF PrimaryStacks, Adopted, Finalized, Stored, VotesPopped, Recorded, Places,
                            Outcomes, MethodNames, Stackers
<1>9. CASE PrimaryFails(q)
  <2>1. count' \in [Counted -> Nat]
    BY <1>9, BumpCounts DEF PrimaryFails
  <2> QED BY <1>9, <2>1 DEF PrimaryFails, Leaves, Places, Stackers
<1>10. CASE FallbackStacks(q)
  <2>1. Calibrated(q, Snapped(q, Made("fallback"))) \in Values
    BY AdoptedFields DEF Bys, Stackers
  <2> QED BY <1>10, <2>1 DEF FallbackStacks, Adopted, Finalized, Stored, VotesPopped, Recorded, Places,
                             Outcomes, MethodNames, Stackers
<1>11. CASE FallbackFails(q)
  <2> DEFINE how == CombineStrategy(q, "median")
  <2>1. how \in Methods
    BY CombineStrategyIsMethod DEF Methods
  <2>2. Calibrated(q, Snapped(q, Made(how))) \in Values
    BY <2>1, AdoptedFields DEF Bys
  <2>3. count' \in [Counted -> Nat]
    BY <1>11, BumpCounts DEF FallbackFails
  <2> HIDE DEF how
  <2>4. value' \in [Questions -> Values] /\ method' \in [Questions -> MethodNames]
    BY <1>11, <2>1, <2>2 DEF FallbackFails, Recorded, MethodNames, how
  <2>5. text' \in [Questions -> {None, "default"} \cup Stackers] /\ expected' \subseteq Questions
    BY <1>11 DEF FallbackFails, Finalized, Leaves, Stackers
  <2>6. pc' \in [Questions -> Places] /\ meta' \in [Questions -> {None} \cup Stackers]
    BY <1>11 DEF FallbackFails, Finalized, Places
  <2> QED BY <1>11, <2>3, <2>4, <2>5, <2>6 DEF FallbackFails, VotesPopped, Outcomes
<1>12. CASE Combine(q)
  <2>1. /\ value' = [value EXCEPT ![q] = Combination(q)]
        /\ record' = [record EXCEPT ![q].method = MethodOf(q, Combination(q))]
    BY <1>12 DEF Combine, Combination
  <2>2. value' \in [Questions -> Values]
    BY <2>1, CombinationIsValue
  <2>3. record' \in [Questions -> [outcome : Outcomes, skip : Reasons, method : MethodNames]]
    BY <2>1, MethodIsNamed
  <2>4. count' \in [Counted -> Nat]
    BY <1>12, BumpCounts DEF Combine
  <2> QED BY <1>12, <2>2, <2>3, <2>4 DEF Combine, VotesPopped, Places, MethodNames
<1>13. CASE Comment(q)
  <2>1. record' \in [Questions -> [outcome : Outcomes, skip : Reasons, method : MethodNames]]
    BY <1>13 DEF Comment
  <2>2. outcome' \in [Questions -> Outcomes] /\ skip' \in [Questions -> Reasons]
    BY <1>13 DEF Comment, Outcomes, Reasons
  <2>3. pc' \in [Questions -> Places]
    BY <1>13 DEF Comment, Places
  <2> QED BY <1>13, <2>1, <2>2, <2>3 DEF Comment
<1> QED BY <1>1, <1>2, <1>3, <1>4, <1>5, <1>6, <1>7, <1>8, <1>9, <1>10, <1>11, <1>12, <1>13 DEF Step

LEMMA InitTypes == Init => TypeOK
<1>1. Unmade \in Values
  BY MadeFields DEF Unmade, Bys
<1>2. ASSUME Init PROVE fallsBack \in BOOLEAN
  BY <1>2, AggregationAssumption DEF Init
<1> HIDE DEF Unmade
<1>3. ASSUME Init
      PROVE  /\ value \in [Questions -> Values]
             /\ record \in [Questions -> [outcome : Outcomes, skip : Reasons, method : MethodNames]]
  BY <1>1, <1>3 DEF Init, Outcomes, Reasons, MethodNames
<1>4. ASSUME Init
      PROVE  /\ count \in [Counted -> Nat] /\ expected \subseteq Questions
             /\ votes \in [Questions -> BOOLEAN]
  BY <1>4 DEF Init
<1>5. ASSUME Init PROVE /\ pc \in [Questions -> Places] /\ outcome \in [Questions -> Outcomes]
                        /\ skip \in [Questions -> Reasons] /\ method \in [Questions -> MethodNames]
                        /\ meta \in [Questions -> {None} \cup Stackers]
                        /\ text \in [Questions -> {None, "default"} \cup Stackers]
  BY <1>5 DEF Init, Places, Outcomes, Reasons, MethodNames
<1>6. ASSUME Init
      PROVE  strategy \in Strategies /\ kind \in [Questions -> Kinds] /\ survivors \in [Questions -> 1..2]
  BY <1>6 DEF Init
<1> QED BY <1>2, <1>3, <1>4, <1>5, <1>6 DEF TypeOK

\* Every variable keeps its type.
THEOREM TypeCorrect == Spec => []TypeOK
<1>1. Init => TypeOK
  BY InitTypes
<1>2. TypeOK /\ [Next]_vars => TypeOK'
  <2>1. ASSUME TypeOK, Next PROVE TypeOK'
    BY <2>1, StepKeepsTypes DEF Next
  <2>2. ASSUME TypeOK, UNCHANGED vars PROVE TypeOK'
    BY <2>2 DEF TypeOK, vars, config, maps
  <2> QED BY <2>1, <2>2
<1> QED BY <1>1, <1>2, PTL DEF Spec

-----------------------------------------------------------------------------
(* Each question by itself. *)

\* Before it reports, nothing is recorded of a question.
UnderWay(q) ==
    pc[q] \in {"forecast", "crux", "search", "primary", "fallback", "failed"} =>
        /\ value[q].by = None /\ text[q] = None
        /\ outcome[q] = None /\ skip[q] = None /\ method[q] = None
        /\ pc[q] # "forecast" => Stacking /\ survivors[q] = 2

\* The report carries the members: the stacker was not asked, or never is.
HandedBack(q) ==
    /\ value[q].by = None /\ text[q] = None /\ method[q] = None
    /\ ~Stacking => outcome[q] = None /\ skip[q] = None
    /\ Stacking =>
        /\ skip[q] # None /\ outcome[q] # None
        /\ skip[q] = "single_forecaster" <=> survivors[q] = 1
        /\ survivors[q] = 1 => outcome[q] = "skipped"
        /\ survivors[q] = 2 /\ strategy = "stacking" => outcome[q] = "fallback_mean"
        /\ survivors[q] = 2 /\ strategy = "conditional_stacking" =>
            outcome[q] \in {"skipped", "skipped_config_off", "fallback_median"}

\* The report carries what the ladder made.
FromLadder(q) ==
    /\ Stacking /\ survivors[q] = 2 /\ skip[q] = None /\ text[q] # None /\ ~votes[q]
    /\ value[q].snapped <= 1 /\ value[q].floored = FALSE
    /\ value[q].calibrated = IF kind[q] \in Numeric THEN 0 ELSE 1
    /\ \/ /\ value[q].by = "primary" /\ text[q] = "primary" /\ outcome[q] = "primary"
          /\ method[q] = IF kind[q] \in Numeric THEN "stacked" ELSE None
       \/ /\ value[q].by = "fallback" /\ text[q] = "fallback" /\ outcome[q] = "fallback_llm"
          /\ method[q] = IF kind[q] \in Numeric THEN "stacked" ELSE None
       \/ /\ value[q].by = CombineStrategy(q, "median") /\ outcome[q] = "fallback_median"
          /\ method[q] = IF kind[q] \in Numeric THEN value[q].by ELSE None

\* RecordsAreTrue and ProcessedOnce of one question, wherever its labels stand.
Truth(q, o, s, m) ==
    /\ Stacking => o # None
    /\ ~Stacking => o = None /\ s = None
    /\ o = "primary" <=> By(q) = "primary"
    /\ o = "fallback_llm" <=> By(q) = "fallback"
    /\ o = "fallback_mean" => By(q) = "mean"
    /\ o = "fallback_median" /\ kind[q] # "per_bin" => By(q) = "median"
    /\ Stacking => (s # None <=> text[q] = None)
    /\ s = "single_forecaster" <=> By(q) = "lone"
    /\ kind[q] \in Numeric =>
        m = CASE By(q) \in Stackers -> "stacked" [] By(q) = "lone" -> "single" [] OTHER -> By(q)
    /\ By(q) \in Stackers => text[q] = By(q)

Processed(q) ==
    /\ ~votes[q]
    /\ value[q].snapped <= 1 /\ value[q].calibrated <= 1
    /\ value[q].floored <=> kind[q] = "binary" /\ By(q) = "lone"
    /\ kind[q] \in {"binary", "mc"} /\ (Stacking => By(q) # "mean") => (value[q].calibrated = 0 <=> By(q) = "lone")

AtReport(q) ==
    /\ pc[q] = "report" => HandedBack(q) \/ FromLadder(q)
    /\ pc[q] = "combined" => Truth(q, outcome[q], skip[q], record[q].method) /\ Processed(q)
    /\ pc[q] = "published" =>
        Truth(q, record[q].outcome, record[q].skip, record[q].method) /\ Processed(q)

QuestionInv(q) == (votes[q] => kind[q] = "numeric") /\ UnderWay(q) /\ AtReport(q)

\* A step of one question leaves the entries of every other alone.
LEMMA StepTouchesOne ==
    ASSUME TypeOK, NEW q \in Questions, NEW p \in Questions, p # q, Step(q)
    PROVE  /\ pc'[p] = pc[p] /\ votes'[p] = votes[p] /\ outcome'[p] = outcome[p] /\ skip'[p] = skip[p]
           /\ method'[p] = method[p] /\ value'[p] = value[p] /\ text'[p] = text[p] /\ record'[p] = record[p]
           /\ p \in expected' <=> p \in expected
           /\ strategy' = strategy /\ kind' = kind /\ survivors' = survivors
<1> USE DEF TypeOK, config, maps, Goes
<1>1. CASE LoneSurvivor(q) \/ SkipForBudget(q) \/ AlwaysStack(q) \/ PlainStrategy(q)
  BY <1>1 DEF LoneSurvivor, SkipForBudget, AlwaysStack, PlainStrategy, HandsBack
<1>2. CASE Conditional(q)
  BY <1>2 DEF Conditional, HandsBack
<1>3. CASE CruxEnds(q) \/ SearchEnds(q) \/ PrimaryFails(q)
  BY <1>3 DEF CruxEnds, SearchEnds, PrimaryFails
<1>4. CASE PrimaryStacks(q) \/ FallbackStacks(q)
  BY <1>4 DEF PrimaryStacks, FallbackStacks, Adopted, Finalized, VotesPopped, Recorded
<1>5. CASE FallbackFails(q)
  BY <1>5 DEF FallbackFails, Finalized, VotesPopped, Recorded
<1>6. CASE Combine(q)
  BY <1>6 DEF Combine, VotesPopped
<1>7. CASE Comment(q)
  BY <1>7 DEF Comment
<1> QED BY <1>1, <1>2, <1>3, <1>4, <1>5, <1>6, <1>7 DEF Step

LEMMA OthersKeep ==
    ASSUME TypeOK, NEW q \in Questions, NEW p \in Questions, p # q, Step(q), QuestionInv(p)
    PROVE  QuestionInv(p)'
<1>1. /\ pc'[p] = pc[p] /\ votes'[p] = votes[p] /\ outcome'[p] = outcome[p] /\ skip'[p] = skip[p]
      /\ method'[p] = method[p] /\ value'[p] = value[p] /\ text'[p] = text[p] /\ record'[p] = record[p]
      /\ strategy' = strategy /\ kind' = kind /\ survivors' = survivors
  BY StepTouchesOne
<1>2. UnderWay(p)'
  BY <1>1 DEF QuestionInv, UnderWay, Stacking
<1>3. HandedBack(p) => HandedBack(p)'
  BY <1>1 DEF HandedBack, Stacking
<1>4. FromLadder(p) => FromLadder(p)'
  BY <1>1 DEF FromLadder, Stacking, CombineStrategy
<1>5. AtReport(p)'
  BY <1>1, <1>3, <1>4 DEF QuestionInv, AtReport, Truth, Processed, By, Stacking
<1> QED BY <1>1, <1>2, <1>5 DEF QuestionInv

LEMMA StrategyIsKnown ==
    ASSUME TypeOK, NEW q \in Questions
    PROVE  /\ strategy \in {"mean", "median", "stacking", "conditional_stacking"}
           /\ kind[q] \in {"binary", "mc", "numeric", "per_bin", "date"}
           /\ survivors[q] \in {1, 2}
<1>1. strategy \in Strategies /\ kind[q] \in Kinds /\ survivors[q] \in 1..2
  BY DEF TypeOK
<1>2. survivors[q] \in {1, 2}
  BY <1>1
<1> QED BY <1>1, <1>2, AggregationAssumption

\* Routing, and the steps up to the last rung of the ladder.
LEMMA RoutingKeeps ==
    ASSUME TypeOK, NEW q \in Questions, QuestionInv(q),
           \/ LoneSurvivor(q) \/ SkipForBudget(q) \/ AlwaysStack(q) \/ Conditional(q) \/ PlainStrategy(q)
           \/ CruxEnds(q) \/ SearchEnds(q) \/ PrimaryFails(q)
    PROVE  QuestionInv(q)'
<1> USE DEF TypeOK, config, maps, Goes
<1>a. survivors[q] \in {1, 2} /\ strategy \in {"mean", "median", "stacking", "conditional_stacking"}
  BY StrategyIsKnown
<1>1. CASE LoneSurvivor(q)
  <2>1. HandedBack(q)'
    BY <1>1, <1>a DEF LoneSurvivor, HandsBack, HandedBack, QuestionInv, UnderWay, Stacking, None
  <2> QED BY <1>1, <2>1 DEF LoneSurvivor, HandsBack, QuestionInv, UnderWay, AtReport
<1>2. CASE SkipForBudget(q)
  <2>1. HandedBack(q)'
    BY <1>2, <1>a DEF SkipForBudget, HandsBack, BudgetSkipOutcome, HandedBack, QuestionInv, UnderWay,
                      Stacking, None
  <2> QED BY <1>2, <2>1 DEF SkipForBudget, HandsBack, QuestionInv, UnderWay, AtReport
<1>3. CASE AlwaysStack(q)
  BY <1>3, <1>a DEF AlwaysStack, QuestionInv, UnderWay, AtReport, Stacking
<1>4. CASE Conditional(q)
  <2>1. PICK spread \in Spreads :
          LET why == Verdict(q, spread) IN
          IF why = None
          THEN /\ Goes(q, "crux") /\ Bump({"triggered"}) /\ UNCHANGED <<outcome, skip, expected>>
          ELSE HandsBack(q, why, IF why = "config_off" THEN "skipped_config_off" ELSE "skipped", {"skipped"})
    BY <1>4 DEF Conditional
  <2>2. CASE Verdict(q, spread) = None
    BY <1>4, <1>a, <2>1, <2>2 DEF Conditional, QuestionInv, UnderWay, AtReport, Stacking
  <2>3. CASE Verdict(q, spread) # None
    <3>1. HandsBack(q, Verdict(q, spread),
                    IF Verdict(q, spread) = "config_off" THEN "skipped_config_off" ELSE "skipped", {"skipped"})
      BY <2>1, <2>3
    <3>2. Verdict(q, spread) # "single_forecaster"
      BY DEF Verdict, None
    <3>3. HandedBack(q)'
      BY <1>4, <1>a, <2>3, <3>1, <3>2 DEF Conditional, HandsBack, HandedBack, QuestionInv, UnderWay,
                                           Stacking, None
    <3> QED BY <1>4, <3>1, <3>3 DEF Conditional, HandsBack, QuestionInv, UnderWay, AtReport
  <2> QED BY <2>2, <2>3
<1>5. CASE PlainStrategy(q)
  <2>1. HandedBack(q)'
    BY <1>5 DEF PlainStrategy, HandedBack, QuestionInv, UnderWay, Stacking
  <2> QED BY <1>5, <2>1 DEF PlainStrategy, QuestionInv, UnderWay, AtReport
<1>6. CASE CruxEnds(q) \/ SearchEnds(q) \/ PrimaryFails(q)
  BY <1>6 DEF CruxEnds, SearchEnds, PrimaryFails, QuestionInv, UnderWay, AtReport, Stacking
<1> QED BY <1>1, <1>2, <1>3, <1>4, <1>5, <1>6

\* The rungs that make a value.
LEMMA LadderKeeps ==
    ASSUME TypeOK, NEW q \in Questions, QuestionInv(q),
           PrimaryStacks(q) \/ FallbackStacks(q) \/ FallbackFails(q)
    PROVE  QuestionInv(q)'
<1> DEFINE MadeBy(by) ==
      LET v == Calibrated(q, Snapped(q, Made(by))) IN
      /\ v.by = by /\ v.floored = FALSE
      /\ v.calibrated = IF kind[q] \in Numeric THEN 0 ELSE 1
      /\ v.snapped = IF votes[q] THEN 1 ELSE 0
<1>0. MadeBy("primary") /\ MadeBy("fallback") /\ \A by \in Methods : MadeBy(by)
  <2>1. ASSUME NEW by \in Bys PROVE MadeBy(by)
    BY AdoptedFields
  <2>2. "primary" \in Bys /\ "fallback" \in Bys /\ Methods \subseteq Bys
    BY DEF Bys, Stackers
  <2> HIDE DEF MadeBy
  <2> QED BY <2>1, <2>2
<1> USE DEF TypeOK, config, maps, Goes
<1> DEFINE Makes(by) ==
      /\ value'[q].by = by /\ value'[q].floored = FALSE /\ value'[q].snapped <= 1
      /\ value'[q].calibrated = IF kind[q] \in Numeric THEN 0 ELSE 1
<1>1. kind[q] \in {"binary", "mc", "numeric", "per_bin", "date"} /\ kind' = kind
  BY StrategyIsKnown DEF PrimaryStacks, FallbackStacks, FallbackFails
<1>2. ~votes'[q]
  BY <1>1 DEF PrimaryStacks, FallbackStacks, FallbackFails, Adopted, VotesPopped, QuestionInv
<1>3. /\ Stacking' /\ survivors'[q] = 2 /\ skip'[q] = None /\ pc'[q] = "report"
  BY DEF PrimaryStacks, FallbackStacks, FallbackFails, Adopted, Finalized, QuestionInv, UnderWay, Stacking
<1>4. CASE PrimaryStacks(q)
  <2>1. Makes("primary")
    <3>1. value'[q] = Calibrated(q, Snapped(q, Made("primary")))
      BY <1>4 DEF PrimaryStacks, Adopted
    <3> QED BY <1>0, <3>1
  <2>2. /\ text'[q] = "primary" /\ outcome'[q] = "primary"
        /\ method'[q] = IF kind[q] \in Numeric THEN "stacked" ELSE None
    BY <1>4 DEF PrimaryStacks, Adopted, Finalized, Stored, Recorded, QuestionInv, UnderWay, None
  <2>3. FromLadder(q)'
    BY <1>1, <1>2, <1>3, <2>1, <2>2 DEF FromLadder, None
  <2> QED BY <1>2, <1>3, <2>3 DEF QuestionInv, UnderWay, AtReport
<1>5. CASE FallbackStacks(q)
  <2>1. Makes("fallback")
    <3>1. value'[q] = Calibrated(q, Snapped(q, Made("fallback")))
      BY <1>5 DEF FallbackStacks, Adopted
    <3> QED BY <1>0, <3>1
  <2>2. /\ text'[q] = "fallback" /\ outcome'[q] = "fallback_llm"
        /\ method'[q] = IF kind[q] \in Numeric THEN "stacked" ELSE None
    BY <1>5 DEF FallbackStacks, Adopted, Finalized, Stored, Recorded, QuestionInv, UnderWay, None
  <2>3. FromLadder(q)'
    BY <1>1, <1>2, <1>3, <2>1, <2>2 DEF FromLadder, None
  <2> QED BY <1>2, <1>3, <2>3 DEF QuestionInv, UnderWay, AtReport
<1>6. CASE FallbackFails(q)
  <2> DEFINE how == CombineStrategy(q, "median")
  <2>0. how \in Methods /\ how' = how
    BY <1>1, CombineStrategyIsMethod DEF Methods, CombineStrategy
  <2>1. Makes(how)
    <3>1. value'[q] = Calibrated(q, Snapped(q, Made(how)))
      BY <1>6 DEF FallbackFails
    <3> HIDE DEF how
    <3> QED BY <1>0, <2>0, <3>1
  <2>2. /\ text'[q] # None /\ outcome'[q] = "fallback_median"
        /\ method'[q] = IF kind[q] \in Numeric THEN how ELSE None
    BY <1>6 DEF FallbackFails, Finalized, Recorded, QuestionInv, UnderWay, None
  <2>3. FromLadder(q)'
    <3> HIDE DEF how
    <3>1. value'[q].by = CombineStrategy(q, "median")'
      BY <2>0, <2>1 DEF how
    <3> QED BY <1>1, <1>2, <1>3, <2>1, <2>2, <3>1 DEF FromLadder
  <2> QED BY <1>2, <1>3, <2>3 DEF QuestionInv, UnderWay, AtReport
<1> QED BY <1>4, <1>5, <1>6

\* The combine, over what each kind of report carries.
LEMMA CombineKeeps ==
    ASSUME TypeOK, NEW q \in Questions, QuestionInv(q), Combine(q)
    PROVE  QuestionInv(q)'
<1> DEFINE v == Combination(q)
<1>1. /\ value'[q] = v /\ record'[q].method = MethodOf(q, v) /\ pc'[q] = "combined" /\ pc[q] = "report"
      /\ strategy' = strategy /\ kind' = kind /\ outcome'[q] = outcome[q] /\ skip'[q] = skip[q]
      /\ text'[q] = text[q]
  BY DEF Combine, Combination, TypeOK, config, Goes
<1>2. /\ kind[q] \in {"binary", "mc", "numeric", "per_bin", "date"}
      /\ strategy \in {"mean", "median", "stacking", "conditional_stacking"}
      /\ survivors[q] \in {1, 2}
  BY StrategyIsKnown
<1>3. ~votes'[q]
  BY <1>2 DEF Combine, VotesPopped, QuestionInv, TypeOK
<1>4. HandedBack(q) \/ FromLadder(q)
  BY <1>1 DEF QuestionInv, AtReport
<1>5. SUFFICES Truth(q, outcome[q], skip[q], record[q].method)' /\ Processed(q)'
  BY <1>1, <1>3 DEF QuestionInv, UnderWay, AtReport
<1>6. CASE ~Stacking
  <2>1. HandedBack(q) /\ strategy \in Methods
    BY <1>2, <1>4, <1>6 DEF FromLadder, Stacking, Methods
  <2>2. v = SimpleCombined(q)
    BY <1>6 DEF Combination
  <2>3. /\ v.by \in Methods /\ v.by = CombineStrategy(q, strategy) /\ v.floored = FALSE
        /\ v.calibrated = IF kind[q] \in Numeric THEN 0 ELSE 1
        /\ v.snapped \in {0, 1}
    BY <2>1, <2>2, SimpleFields, CombineStrategyIsMethod
  <2>4. MethodOf(q, v) = IF kind[q] \in Numeric THEN v.by ELSE None
    BY <1>6 DEF MethodOf
  <2> HIDE DEF v
  <2>5. Truth(q, outcome[q], skip[q], record[q].method)'
    BY <1>1, <1>6, <2>1, <2>3, <2>4 DEF Truth, By, HandedBack, Stacking, Methods, Stackers, None
  <2>6. Processed(q)'
    BY <1>1, <1>2, <1>3, <1>6, <2>1, <2>3 DEF Processed, By, HandedBack, Methods, Numeric, None
  <2> QED BY <2>5, <2>6
<1>7. CASE Stacking /\ HandedBack(q) /\ survivors[q] = 1
  <2>1. Single(q) /\ value[q].by = None
    BY <1>7 DEF Single, HandedBack
  <2>2. skip[q] = "single_forecaster" /\ outcome[q] = "skipped"
    BY <1>7 DEF HandedBack
  <2>3. Floors(q) <=> kind[q] = "binary"
    BY <2>2 DEF Floors
  <2>4. v = SingleCombined(q)
    BY <1>7, <2>1 DEF Combination
  <2>5. /\ v.by = "lone" /\ v.calibrated = 0 /\ v.snapped \in {0, 1}
        /\ v.floored = IF kind[q] = "binary" THEN TRUE ELSE FALSE
    <3>1. /\ Carried(q).by = "lone" /\ Carried(q).calibrated = 0 /\ Carried(q).snapped = 0
          /\ Carried(q).floored = FALSE
      BY <2>1, CarriedFields
    <3> HIDE DEF v
    <3>2. /\ SingleCombined(q).by = Carried(q).by
          /\ SingleCombined(q).calibrated = Carried(q).calibrated
          /\ SingleCombined(q).floored = IF Floors(q) THEN TRUE ELSE Carried(q).floored
          /\ SingleCombined(q).snapped =
                IF ~Floors(q) /\ votes[q] THEN Carried(q).snapped + 1 ELSE Carried(q).snapped
      BY SingleFields
    <3>3. v.by = "lone" /\ v.calibrated = 0
      BY <2>4, <3>1, <3>2
    <3>4. v.snapped \in {0, 1}
      BY <2>4, <3>1, <3>2
    <3>5. v.floored = IF Floors(q) THEN TRUE ELSE FALSE
      BY <2>4, <3>1, <3>2, Zenon
    <3>6. v.floored = IF kind[q] = "binary" THEN TRUE ELSE FALSE
      BY <2>3, <3>5, Zenon
    <3> QED BY <3>3, <3>4, <3>6
  <2>6. MethodOf(q, v) = IF kind[q] \in Numeric THEN "single" ELSE None
    BY <1>7, <2>1 DEF MethodOf, HandedBack
  <2> HIDE DEF v
  <2>7. Truth(q, outcome[q], skip[q], record[q].method)'
    BY <1>1, <1>7, <2>2, <2>5, <2>6 DEF Truth, By, HandedBack, Stacking, Stackers, None
  <2>8. Processed(q)'
    BY <1>1, <1>2, <1>3, <2>2, <2>3, <2>5 DEF Processed, By
  <2> QED BY <2>7, <2>8
<1>8. CASE Stacking /\ HandedBack(q) /\ survivors[q] = 2
  <2>1. ~Single(q)
    BY <1>8 DEF Single, HandedBack
  <2>2. v = BaseCombined(q)
    BY <1>8, <2>1 DEF Combination
  <2>3. /\ v.by = CombineStrategy(q, IF strategy = "conditional_stacking" THEN "median" ELSE "mean")
        /\ v.by \in Methods /\ v.floored = FALSE /\ v.snapped \in {0, 1}
        /\ v.calibrated = IF strategy = "conditional_stacking" /\ kind[q] \notin Numeric THEN 1 ELSE 0
    <3> DEFINE how == IF strategy = "conditional_stacking" THEN "median" ELSE "mean"
    <3>1. CombineStrategy(q, how) \in Methods
      BY CombineStrategyIsMethod DEF Methods
    <3> HIDE DEF v, TypeOK
    <3> QED BY <2>2, <3>1, BaseFields
  <2>4. MethodOf(q, v) = IF kind[q] \in Numeric THEN v.by ELSE None
    BY <2>1 DEF MethodOf
  <2>5. strategy \in {"stacking", "conditional_stacking"}
    BY <1>8 DEF Stacking
  <2> HIDE DEF v
  <2>6. CASE strategy = "stacking"
    <3>1. v.by = "mean" /\ v.calibrated = 0 /\ outcome[q] = "fallback_mean"
      BY <1>8, <2>3, <2>6 DEF CombineStrategy, HandedBack
    <3>2. Truth(q, outcome[q], skip[q], record[q].method)'
      BY <1>1, <1>8, <2>4, <2>6, <3>1 DEF Truth, By, HandedBack, Stacking, Stackers, None
    <3> QED BY <1>1, <1>2, <1>3, <1>8, <2>3, <3>1, <3>2 DEF Processed, By, Stacking
  <2>7. CASE strategy = "conditional_stacking"
    <3>1. /\ kind[q] # "per_bin" => v.by = "median"
          /\ outcome[q] \in {"skipped", "skipped_config_off", "fallback_median"}
      BY <1>8, <2>3, <2>7 DEF CombineStrategy, HandedBack
    <3>2. Truth(q, outcome[q], skip[q], record[q].method)'
      BY <1>1, <1>8, <2>3, <2>4, <2>7, <3>1 DEF Truth, By, HandedBack, Stacking, Stackers, Methods, None
    <3> QED BY <1>1, <1>2, <1>3, <2>3, <2>7, <3>1, <3>2 DEF Processed, By, Methods, Numeric
  <2> QED BY <2>5, <2>6, <2>7
<1>9. CASE Stacking /\ FromLadder(q)
  <2>1. value[q].by \in Stackers \cup Methods /\ value[q].by # None
    BY <1>9, CombineStrategyIsMethod DEF FromLadder, Stackers, Methods, None
  <2>2. Single(q)
    BY <2>1 DEF Single
  <2>3. v = SingleCombined(q) /\ ~Floors(q)
    BY <1>9, <2>2 DEF Combination, Floors, FromLadder, None
  <2>4. /\ v.by = value[q].by /\ v.calibrated = value[q].calibrated
        /\ v.floored = value[q].floored /\ v.snapped = value[q].snapped
    <3>1. ~votes[q]
      BY <1>9 DEF FromLadder
    <3>2. /\ Carried(q).by = value[q].by /\ Carried(q).calibrated = value[q].calibrated
          /\ Carried(q).snapped = value[q].snapped /\ Carried(q).floored = value[q].floored
      BY <2>1, CarriedFields
    <3> QED BY <2>3, <3>1, <3>2, SingleFields
  <2>5. MethodOf(q, v) =
          IF kind[q] \notin Numeric THEN None ELSE IF method[q] = None THEN "single" ELSE method[q]
    BY <1>9, <2>2 DEF MethodOf
  <2> HIDE DEF v
  <2>6. CASE value[q].by \in Stackers
    <3>1. CombineStrategy(q, "median") \notin Stackers
      BY CombineStrategyIsMethod DEF Methods, Stackers
    <3>2. Truth(q, outcome[q], skip[q], record[q].method)'
      BY <1>1, <1>9, <2>4, <2>5, <2>6, <3>1 DEF Truth, By, FromLadder, Stacking, Stackers, None
    <3> QED BY <1>1, <1>2, <1>3, <1>9, <2>4, <2>6, <3>1, <3>2 DEF Processed, By, FromLadder, Stackers, Numeric
  <2>7. CASE value[q].by \in Methods
    <3>1. /\ value[q].by = CombineStrategy(q, "median") /\ outcome[q] = "fallback_median"
          /\ method[q] = IF kind[q] \in Numeric THEN value[q].by ELSE None
      BY <1>9, <2>7 DEF FromLadder, Methods
    <3>2. kind[q] # "per_bin" => value[q].by = "median"
      BY <3>1 DEF CombineStrategy
    <3>3. Truth(q, outcome[q], skip[q], record[q].method)'
      BY <1>1, <1>9, <2>4, <2>5, <2>7, <3>1, <3>2 DEF Truth, By, FromLadder, Stacking, Stackers, Methods, None
    <3> QED BY <1>1, <1>2, <1>3, <1>9, <2>4, <2>7, <3>1, <3>3 DEF Processed, By, FromLadder, Methods, Numeric
  <2> QED BY <2>1, <2>6, <2>7
<1> QED BY <1>2, <1>4, <1>6, <1>7, <1>8, <1>9

LEMMA CommentKeeps ==
    ASSUME TypeOK, NEW q \in Questions, QuestionInv(q), Comment(q)
    PROVE  QuestionInv(q)'
<1>1. /\ pc[q] = "combined" /\ pc'[q] = "published" /\ strategy' = strategy /\ kind' = kind
      /\ votes' = votes /\ value' = value /\ text' = text
      /\ record'[q].outcome = outcome[q] /\ record'[q].skip = skip[q]
      /\ record'[q].method = record[q].method
  BY DEF Comment, TypeOK, config, Goes
<1>2. Truth(q, outcome[q], skip[q], record[q].method) /\ Processed(q)
  BY <1>1 DEF QuestionInv, AtReport
<1>3. /\ Truth(q, record[q].outcome, record[q].skip, record[q].method)'
      /\ Processed(q)'
  BY <1>1, <1>2 DEF Truth, Processed, By, Stacking
<1> QED BY <1>1, <1>3 DEF QuestionInv, UnderWay, AtReport

-----------------------------------------------------------------------------
Inv == TypeOK /\ \A q \in Questions : QuestionInv(q)

LEMMA InvHolds == Spec => []Inv
<1>1. Init => Inv
  <2> SUFFICES ASSUME Init PROVE \A q \in Questions : QuestionInv(q)
    BY InitTypes DEF Inv
  <2> TAKE q \in Questions
  <2>1. value[q].by = None
    BY DEF Init, Unmade, Made
  <2>2. /\ pc[q] = "forecast" /\ text[q] = None /\ outcome[q] = None /\ skip[q] = None
        /\ method[q] = None /\ (votes[q] => kind[q] = "numeric")
    BY DEF Init
  <2> QED BY <2>1, <2>2 DEF QuestionInv, UnderWay, AtReport
<1>2. Inv /\ [Next]_vars => Inv'
  <2>1. ASSUME Inv, NEW q \in Questions, Step(q) PROVE Inv'
    <3>1. TypeOK /\ TypeOK' /\ QuestionInv(q)
      BY <2>1, StepKeepsTypes DEF Inv
    <3>2. QuestionInv(q)'
      BY <2>1, <3>1, RoutingKeeps, LadderKeeps, CombineKeeps, CommentKeeps DEF Step
    <3>3. ASSUME NEW p \in Questions, p # q PROVE QuestionInv(p)'
      BY <2>1, <3>1, <3>3, OthersKeep DEF Inv
    <3> QED BY <3>1, <3>2, <3>3 DEF Inv
  <2>2. ASSUME Inv, UNCHANGED vars PROVE Inv'
    <3>1. TypeOK'
      BY <2>2 DEF Inv, TypeOK, vars, config, maps
    <3>2. ASSUME NEW q \in Questions PROVE QuestionInv(q)'
      <4>1. QuestionInv(q)
        BY <2>2 DEF Inv
      <4> QED BY <2>2, <4>1 DEF QuestionInv, UnderWay, AtReport, HandedBack, FromLadder, Truth, Processed, By,
                                Stacking, CombineStrategy, vars, config, maps
    <3> QED BY <3>1, <3>2 DEF Inv
  <2> QED BY <2>1, <2>2 DEF Next
<1> QED BY <1>1, <1>2, PTL DEF Spec

\* Whatever is published says how it was made: by which stacker, or why by none, by which
\* combine, and with whose reasoning.
THEOREM RecordsHold == Spec => []RecordsAreTrue
<1>1. Inv => RecordsAreTrue
  BY DEF Inv, QuestionInv, AtReport, Truth, RecordsAreTrue
<1> QED BY <1>1, InvHolds, PTL

\* Nothing is published that was snapped, calibrated or floored once too often, nor, but for
\* the mean pooled when STACKING has no budget to stack, one that was not calibrated and
\* should have been.
THEOREM ProcessedOnceHolds == Spec => []ProcessedOnce
<1>1. Inv => ProcessedOnce
  BY DEF Inv, QuestionInv, AtReport, Processed, ProcessedOnce
<1> QED BY <1>1, InvHolds, PTL
-----------------------------------------------------------------------------
(* The counters. *)

\* What has happened to a question, whether it is under way or published.
FellBack(q) == Asked(q) /\ Label(q) # "primary"
ToMedian(q) == FellBack(q) /\ Label(q) # "fallback_llm"
OnFallback(q) == FellBack(q) \/ pc[q] = "fallback"
Combined(q) == Stacking /\ pc[q] \in {"combined", "published"}
Lone(q) == Reason(q) = "single_forecaster"
Skipped(q) == Reason(q) \notin {None, "single_forecaster"}
Enriching(q) == pc[q] \in {"crux", "search"}

CombinedOnes == {q \in Questions : Combined(q)}
OnFallbackOnes == {q \in Questions : OnFallback(q)}
ToMedianOnes == {q \in Questions : ToMedian(q)}
LoneOnes == {q \in Questions : Lone(q)}
SkippedOnes == {q \in Questions : Skipped(q)}
LadderedOnes == {q \in Questions : Laddered(q)}
EnrichingOnes == {q \in Questions : Enriching(q)}

\* A report that a stacking strategy sends to the combine was announced, and no
\* other strategy enriches.
Announced(q) ==
    /\ Stacking /\ pc[q] = "report" => q \in expected
    /\ Enriching(q) => strategy = "conditional_stacking"

\* A question that is still being enriched has not failed at it: what failed and
\* what may yet fail were each triggered once.
Tally ==
    /\ \A q \in Questions : Announced(q)
    /\ count["unexpected"] = 0
    /\ count["expected"] = Cardinality(CombinedOnes)
    /\ count["primary_failed"] = Cardinality(OnFallbackOnes)
    /\ count["fallback_used"] = Cardinality(OnFallbackOnes)
    /\ count["fallback_failed"] = Cardinality(ToMedianOnes)
    /\ count["fallback"] = Cardinality(ToMedianOnes)
    /\ count["skipped_lone"] = Cardinality(LoneOnes)
    /\ strategy = "conditional_stacking" =>
        count["triggered"] = Cardinality(LadderedOnes) /\ count["skipped"] = Cardinality(SkippedOnes)
    /\ count["crux_failures"] + count["search_failures"] + Cardinality(EnrichingOnes) <= count["triggered"]

One(holds) == IF holds THEN 1 ELSE 0

\* A set that differs from another at one place at most differs in size accordingly.
LEMMA SizeMoves ==
    ASSUME NEW S \in SUBSET Questions, NEW T \in SUBSET Questions, NEW q \in Questions,
           \A p \in Questions : p # q => (p \in S <=> p \in T)
    PROVE  /\ Cardinality(S) \in Nat /\ Cardinality(T) \in Nat
           /\ Cardinality(T) + One(q \in S) = Cardinality(S) + One(q \in T)
<1>1. IsFiniteSet(S) /\ IsFiniteSet(T) /\ Cardinality(S) \in Nat /\ Cardinality(T) \in Nat
  BY AggregationAssumption, FS_Subset, FS_CardinalityType
<1>2. CASE q \in S <=> q \in T
  <2>1. S = T
    BY <1>2
  <2> QED BY <1>1, <2>1
<1>3. CASE q \in S /\ q \notin T
  <2>1. T = S \ {q}
    BY <1>3
  <2>2. Cardinality(T) = Cardinality(S) - 1
    BY <1>1, <1>3, <2>1, FS_RemoveElement
  <2> QED BY <1>1, <1>3, <2>2 DEF One
<1>4. CASE q \notin S /\ q \in T
  <2>1. T = S \cup {q}
    BY <1>4
  <2>2. Cardinality(T) = Cardinality(S) + 1
    BY <1>1, <1>4, <2>1, FS_AddElement
  <2> QED BY <1>1, <1>4, <2>2 DEF One
<1> QED BY <1>2, <1>3, <1>4

\* What a step of q does to the counters is what it does to q.
CountsWhatHappens(q) ==
    /\ count'["unexpected"] = count["unexpected"]
    /\ count'["expected"] + One(Combined(q)) = count["expected"] + One(Combined(q)')
    /\ count'["primary_failed"] + One(OnFallback(q)) = count["primary_failed"] + One(OnFallback(q)')
    /\ count'["fallback_used"] + One(OnFallback(q)) = count["fallback_used"] + One(OnFallback(q)')
    /\ count'["fallback_failed"] + One(ToMedian(q)) = count["fallback_failed"] + One(ToMedian(q)')
    /\ count'["fallback"] + One(ToMedian(q)) = count["fallback"] + One(ToMedian(q)')
    /\ count'["skipped_lone"] + One(Lone(q)) = count["skipped_lone"] + One(Lone(q)')
    /\ strategy = "conditional_stacking" =>
        /\ count'["triggered"] + One(Laddered(q)) = count["triggered"] + One(Laddered(q)')
        /\ count'["skipped"] + One(Skipped(q)) = count["skipped"] + One(Skipped(q)')
    /\ count'["crux_failures"] + count'["search_failures"] + One(Enriching(q)') + count["triggered"]
         <= count["crux_failures"] + count["search_failures"] + One(Enriching(q)) + count'["triggered"]

LEMMA StepCounts ==
    ASSUME TypeOK, NEW q \in Questions, QuestionInv(q), Announced(q), Step(q)
    PROVE  CountsWhatHappens(q) /\ Announced(q)' /\ strategy' = strategy
<1>0. /\ strategy' = strategy /\ Stacking' = Stacking
      /\ strategy \in {"mean", "median", "stacking", "conditional_stacking"}
  <2>1. strategy' = strategy
    BY DEF Step, LoneSurvivor, SkipForBudget, AlwaysStack, Conditional, PlainStrategy, CruxEnds,
           SearchEnds, PrimaryStacks, PrimaryFails, FallbackStacks, FallbackFails, Combine, Comment, config
  <2> QED BY <2>1, StrategyIsKnown DEF Stacking
<1> SUFFICES CountsWhatHappens(q) /\ Announced(q)'
  BY <1>0
<1>1. \A n \in {"expected", "unexpected", "fallback", "primary_failed", "fallback_used", "fallback_failed",
                "triggered", "skipped", "skipped_lone", "crux_failures", "search_failures"} :
          n \in Counted /\ count[n] \in Nat
  BY DEF TypeOK, Counted
<1>2. ASSUME NEW names, Bump(names)
      PROVE  \A n \in Counted : count'[n] = IF n \in names THEN count[n] + 1 ELSE count[n]
  BY <1>2 DEF Bump
<1>3. ASSUME UNCHANGED count PROVE \A n \in Counted : count'[n] = count[n]
  BY <1>3
\* A question that is under way has no labels, and a label is read where it stands.
<1>4. ASSUME pc[q] \in {"forecast", "crux", "search", "primary", "fallback", "failed"}
      PROVE  /\ outcome[q] = None /\ skip[q] = None /\ Label(q) = None /\ Reason(q) = None
             /\ ~Asked(q) /\ ~FellBack(q) /\ ~ToMedian(q) /\ ~Lone(q) /\ ~Skipped(q) /\ ~Combined(q)
  <2>1. outcome[q] = None /\ skip[q] = None /\ Label(q) = None /\ Reason(q) = None
    BY <1>4 DEF QuestionInv, UnderWay, Label, Reason
  <2> QED BY <1>4, <2>1 DEF Asked, FellBack, ToMedian, Lone, Skipped, Combined, None
<1>5. ASSUME pc'[q] # "published" PROVE Label(q)' = outcome'[q] /\ Reason(q)' = skip'[q]
  BY <1>5 DEF Label, Reason
<1>6. ASSUME pc[q] # "published" PROVE Label(q) = outcome[q] /\ Reason(q) = skip[q]
  BY <1>6 DEF Label, Reason
<1> USE DEF Goes
<1>7. CASE LoneSurvivor(q)
  <2>1. /\ pc[q] = "forecast" /\ pc'[q] = "report" /\ Bump({"skipped_lone"}) /\ q \in expected'
        /\ outcome'[q] = "skipped" /\ skip'[q] = "single_forecaster"
    BY <1>7 DEF LoneSurvivor, HandsBack, TypeOK
  <2>2. ~OnFallback(q) /\ ~Laddered(q) /\ ~Enriching(q)
    BY <1>4, <2>1 DEF OnFallback, Laddered, Enriching
  <2>3. Label(q)' = "skipped" /\ Reason(q)' = "single_forecaster"
    BY <1>5, <2>1
  <2>4. /\ ~Combined(q)' /\ ~OnFallback(q)' /\ ~ToMedian(q)' /\ Lone(q)' /\ ~Skipped(q)' /\ ~Laddered(q)'
        /\ ~Enriching(q)'
    BY <2>1, <2>3 DEF Asked, FellBack, OnFallback, ToMedian, Lone, Skipped, Laddered, Enriching, Combined, None
  <2>5. CountsWhatHappens(q)
    BY <1>1, <1>2, <1>4, <2>1, <2>2, <2>4 DEF CountsWhatHappens, One
  <2> QED BY <2>1, <2>4, <2>5 DEF Announced
<1>8. CASE SkipForBudget(q)
  <2>1. /\ pc[q] = "forecast" /\ pc'[q] = "report" /\ Bump(ConditionalSkip) /\ q \in expected'
        /\ outcome'[q] = BudgetSkipOutcome /\ skip'[q] = "wall_clock_budget"
    BY <1>8 DEF SkipForBudget, HandsBack, TypeOK
  <2>2. ~OnFallback(q) /\ ~Laddered(q) /\ ~Enriching(q)
    BY <1>4, <2>1 DEF OnFallback, Laddered, Enriching
  <2>3. Label(q)' \in {"fallback_median", "fallback_mean"} /\ Reason(q)' = "wall_clock_budget"
    BY <1>5, <2>1 DEF BudgetSkipOutcome
  <2>4. /\ ~Combined(q)' /\ ~OnFallback(q)' /\ ~ToMedian(q)' /\ ~Lone(q)' /\ Skipped(q)' /\ ~Laddered(q)'
        /\ ~Enriching(q)'
    BY <2>1, <2>3 DEF Asked, FellBack, OnFallback, ToMedian, Lone, Skipped, Laddered, Enriching, Combined, None
  <2>5. CountsWhatHappens(q)
    BY <1>1, <1>2, <1>4, <2>1, <2>2, <2>4 DEF CountsWhatHappens, One, ConditionalSkip
  <2> QED BY <2>1, <2>4, <2>5 DEF Announced
<1>9. CASE AlwaysStack(q)
  <2>1. /\ pc[q] = "forecast" /\ pc'[q] = "primary" /\ UNCHANGED <<count, outcome, skip>>
        /\ strategy = "stacking"
    BY <1>9 DEF AlwaysStack, TypeOK, maps
  <2>2. ~OnFallback(q) /\ ~Enriching(q)
    BY <1>4, <2>1 DEF OnFallback, Enriching
  <2>3. Label(q)' = None /\ Reason(q)' = None
    BY <1>4, <1>5, <2>1
  <2>4. /\ ~Combined(q)' /\ ~OnFallback(q)' /\ ~ToMedian(q)' /\ ~Lone(q)' /\ ~Skipped(q)' /\ ~Enriching(q)'
    BY <2>1, <2>3 DEF Asked, FellBack, OnFallback, ToMedian, Lone, Skipped, Enriching, Combined, None
  <2>5. CountsWhatHappens(q)
    BY <1>1, <1>3, <1>4, <2>1, <2>2, <2>4 DEF CountsWhatHappens, One
  <2> QED BY <2>1, <2>4, <2>5 DEF Announced
<1>10. CASE Conditional(q)
  <2>1. pc[q] = "forecast" /\ strategy = "conditional_stacking"
    BY <1>10 DEF Conditional
  <2>2. PICK spread \in Spreads :
          LET why == Verdict(q, spread) IN
          IF why = None
          THEN Goes(q, "crux") /\ Bump({"triggered"}) /\ UNCHANGED <<outcome, skip, expected>>
          ELSE HandsBack(q, why, IF why = "config_off" THEN "skipped_config_off" ELSE "skipped", {"skipped"})
    BY <1>10 DEF Conditional
  <2>3. ~OnFallback(q) /\ ~Laddered(q) /\ ~Enriching(q)
    BY <1>4, <2>1 DEF OnFallback, Laddered, Enriching
  <2>4. CASE Verdict(q, spread) = None
    <3>1. pc'[q] = "crux" /\ Bump({"triggered"}) /\ UNCHANGED <<outcome, skip>>
      BY <2>2, <2>4 DEF TypeOK
    <3>2. Label(q)' = None /\ Reason(q)' = None
      BY <1>4, <1>5, <2>1, <3>1
    <3>3. /\ ~Combined(q)' /\ ~OnFallback(q)' /\ ~ToMedian(q)' /\ ~Lone(q)' /\ ~Skipped(q)' /\ Laddered(q)'
          /\ Enriching(q)'
      BY <3>1, <3>2 DEF Asked, FellBack, OnFallback, ToMedian, Lone, Skipped, Laddered, Enriching, Combined, None
    <3>4. CountsWhatHappens(q)
      BY <1>1, <1>2, <1>4, <2>1, <2>3, <3>1, <3>3 DEF CountsWhatHappens, One
    <3> QED BY <1>0, <2>1, <3>1, <3>4 DEF Announced
  <2>5. CASE Verdict(q, spread) # None
    <3>1. /\ pc'[q] = "report" /\ Bump({"skipped"}) /\ q \in expected'
          /\ outcome'[q] \in {"skipped_config_off", "skipped"} /\ skip'[q] = Verdict(q, spread)
      BY <2>2, <2>5 DEF HandsBack, TypeOK
    <3>2. /\ Label(q)' \in {"skipped_config_off", "skipped"} /\ Reason(q)' = Verdict(q, spread)
          /\ Verdict(q, spread) \notin {None, "single_forecaster"}
      BY <1>5, <2>5, <3>1 DEF Verdict, None
    <3>3. /\ ~Combined(q)' /\ ~OnFallback(q)' /\ ~ToMedian(q)' /\ ~Lone(q)' /\ Skipped(q)' /\ ~Laddered(q)'
          /\ ~Enriching(q)'
      BY <3>1, <3>2 DEF Asked, FellBack, OnFallback, ToMedian, Lone, Skipped, Laddered, Enriching, Combined, None
    <3>4. CountsWhatHappens(q)
      BY <1>1, <1>2, <1>4, <2>1, <2>3, <3>1, <3>3 DEF CountsWhatHappens, One
    <3> QED BY <3>1, <3>3, <3>4 DEF Announced
  <2> QED BY <2>4, <2>5
<1>11. CASE PlainStrategy(q)
  <2>1. /\ pc[q] = "forecast" /\ pc'[q] = "report" /\ UNCHANGED <<count, outcome, skip>> /\ ~Stacking
    BY <1>11 DEF PlainStrategy, TypeOK, maps
  <2>2. ~OnFallback(q) /\ ~Laddered(q) /\ ~Enriching(q)
    BY <1>4, <2>1 DEF OnFallback, Laddered, Enriching
  <2>3. Label(q)' = None /\ Reason(q)' = None
    BY <1>4, <1>5, <2>1
  <2>4. /\ ~Combined(q)' /\ ~OnFallback(q)' /\ ~ToMedian(q)' /\ ~Lone(q)' /\ ~Skipped(q)' /\ ~Laddered(q)'
        /\ ~Enriching(q)'
    BY <2>1, <2>3 DEF Asked, FellBack, OnFallback, ToMedian, Lone, Skipped, Laddered, Enriching, Combined, None
  <2>5. CountsWhatHappens(q)
    BY <1>1, <1>3, <1>4, <2>1, <2>2, <2>4 DEF CountsWhatHappens, One
  <2> QED BY <1>0, <2>1, <2>4, <2>5 DEF Announced
<1>12. CASE CruxEnds(q) \/ SearchEnds(q)
  <2>1. /\ pc[q] \in {"crux", "search"} /\ pc'[q] \in {"search", "primary"} /\ UNCHANGED <<outcome, skip>>
        /\ \/ UNCHANGED count
           \/ pc'[q] = "primary" /\ Bump({"crux_failures"})
           \/ pc'[q] = "primary" /\ Bump({"search_failures"})
    BY <1>12 DEF CruxEnds, SearchEnds, TypeOK, maps
  <2>2. ~OnFallback(q) /\ Laddered(q) /\ Enriching(q)
    BY <1>4, <2>1 DEF OnFallback, Laddered, Enriching
  <2>3. Label(q)' = None /\ Reason(q)' = None
    BY <1>4, <1>5, <2>1
  <2>4. /\ ~Combined(q)' /\ ~OnFallback(q)' /\ ~ToMedian(q)' /\ ~Lone(q)' /\ ~Skipped(q)' /\ Laddered(q)'
        /\ (pc'[q] = "primary" => ~Enriching(q)')
    BY <2>1, <2>3 DEF Asked, FellBack, OnFallback, ToMedian, Lone, Skipped, Laddered, Enriching, Combined, None
  <2>5. Announced(q)'
    BY <1>0, <2>1, <2>2 DEF Announced
  <2>6. CASE UNCHANGED count
    <3>1. CountsWhatHappens(q)
      BY <1>1, <1>3, <1>4, <2>1, <2>2, <2>4, <2>6 DEF CountsWhatHappens, One
    <3> QED BY <2>5, <3>1
  <2>7. CASE pc'[q] = "primary" /\ Bump({"crux_failures"})
    <3>1. CountsWhatHappens(q)
      BY <1>1, <1>2, <1>4, <2>1, <2>2, <2>4, <2>7 DEF CountsWhatHappens, One
    <3> QED BY <2>5, <3>1
  <2>8. CASE pc'[q] = "primary" /\ Bump({"search_failures"})
    <3>1. CountsWhatHappens(q)
      BY <1>1, <1>2, <1>4, <2>1, <2>2, <2>4, <2>8 DEF CountsWhatHappens, One
    <3> QED BY <2>5, <3>1
  <2> QED BY <2>1, <2>6, <2>7, <2>8
<1>13. CASE PrimaryStacks(q)
  <2>1. /\ pc[q] = "primary" /\ pc'[q] = "report" /\ UNCHANGED <<count, skip>> /\ q \in expected'
        /\ outcome'[q] = "primary"
    BY <1>13 DEF PrimaryStacks, Adopted, Finalized, TypeOK
  <2>2. ~OnFallback(q) /\ Laddered(q) /\ ~Enriching(q)
    BY <1>4, <2>1 DEF OnFallback, Laddered, Enriching
  <2>3. Label(q)' = "primary" /\ Reason(q)' = None
    BY <1>4, <1>5, <2>1
  <2>4. /\ ~Combined(q)' /\ ~OnFallback(q)' /\ ~ToMedian(q)' /\ ~Lone(q)' /\ ~Skipped(q)' /\ Laddered(q)'
        /\ ~Enriching(q)'
    BY <2>1, <2>3 DEF Asked, FellBack, OnFallback, ToMedian, Lone, Skipped, Laddered, Enriching, Combined, None
  <2>5. CountsWhatHappens(q)
    BY <1>1, <1>3, <1>4, <2>1, <2>2, <2>4 DEF CountsWhatHappens, One
  <2> QED BY <2>1, <2>4, <2>5 DEF Announced
<1>14. CASE PrimaryFails(q)
  <2>1. /\ pc[q] = "primary" /\ UNCHANGED <<outcome, skip>>
        /\ \/ pc'[q] = "fallback" /\ Bump({"primary_failed", "fallback_used"})
           \/ pc'[q] = "failed" /\ UNCHANGED count
    BY <1>14 DEF PrimaryFails, TypeOK
  <2>2. ~OnFallback(q) /\ Laddered(q) /\ ~Enriching(q)
    BY <1>4, <2>1 DEF OnFallback, Laddered, Enriching
  <2>3. Label(q)' = None /\ Reason(q)' = None
    BY <1>4, <1>5, <2>1
  <2>4. /\ ~Combined(q)' /\ ~ToMedian(q)' /\ ~Lone(q)' /\ ~Skipped(q)' /\ Laddered(q)' /\ ~Enriching(q)'
        /\ (OnFallback(q)' <=> pc'[q] = "fallback")
    BY <2>1, <2>3 DEF Asked, FellBack, OnFallback, ToMedian, Lone, Skipped, Laddered, Enriching, Combined, None
  <2>5. CountsWhatHappens(q)
    <3>1. CASE pc'[q] = "fallback" /\ Bump({"primary_failed", "fallback_used"})
      BY <1>1, <1>2, <1>4, <2>1, <2>2, <2>4, <3>1 DEF CountsWhatHappens, One
    <3>2. CASE pc'[q] = "failed" /\ UNCHANGED count
      BY <1>1, <1>3, <1>4, <2>1, <2>2, <2>4, <3>2 DEF CountsWhatHappens, One
    <3> QED BY <2>1, <3>1, <3>2
  <2> QED BY <2>1, <2>4, <2>5 DEF Announced
<1>15. CASE FallbackStacks(q)
  <2>1. /\ pc[q] = "fallback" /\ pc'[q] = "report" /\ UNCHANGED <<count, skip>> /\ q \in expected'
        /\ outcome'[q] = "fallback_llm"
    BY <1>15 DEF FallbackStacks, Adopted, Finalized, TypeOK
  <2>2. OnFallback(q) /\ Laddered(q) /\ ~Enriching(q)
    BY <1>4, <2>1 DEF OnFallback, Laddered, Enriching
  <2>3. Label(q)' = "fallback_llm" /\ Reason(q)' = None
    BY <1>4, <1>5, <2>1
  <2>4. /\ ~Combined(q)' /\ OnFallback(q)' /\ ~ToMedian(q)' /\ ~Lone(q)' /\ ~Skipped(q)' /\ Laddered(q)'
        /\ ~Enriching(q)'
    BY <2>1, <2>3 DEF Asked, FellBack, OnFallback, ToMedian, Lone, Skipped, Laddered, Enriching, Combined, None
  <2>5. CountsWhatHappens(q)
    BY <1>1, <1>3, <1>4, <2>1, <2>2, <2>4 DEF CountsWhatHappens, One
  <2> QED BY <2>1, <2>4, <2>5 DEF Announced
<1>16. CASE FallbackFails(q)
  <2>1. /\ pc[q] = "fallback" /\ pc'[q] = "report" /\ Bump({"fallback_failed", "fallback"})
        /\ UNCHANGED skip /\ q \in expected' /\ outcome'[q] = "fallback_median"
    BY <1>16 DEF FallbackFails, Finalized, TypeOK
  <2>2. OnFallback(q) /\ Laddered(q) /\ ~Enriching(q)
    BY <1>4, <2>1 DEF OnFallback, Laddered, Enriching
  <2>3. Label(q)' = "fallback_median" /\ Reason(q)' = None
    BY <1>4, <1>5, <2>1
  <2>4. /\ ~Combined(q)' /\ OnFallback(q)' /\ ToMedian(q)' /\ ~Lone(q)' /\ ~Skipped(q)' /\ Laddered(q)'
        /\ ~Enriching(q)'
    BY <2>1, <2>3 DEF Asked, FellBack, OnFallback, ToMedian, Lone, Skipped, Laddered, Enriching, Combined, None
  <2>5. CountsWhatHappens(q)
    BY <1>1, <1>2, <1>4, <2>1, <2>2, <2>4 DEF CountsWhatHappens, One
  <2> QED BY <2>1, <2>4, <2>5 DEF Announced
<1>17. CASE Combine(q) \/ Comment(q)
  <2>1. /\ \/ pc[q] = "report" /\ pc'[q] = "combined" /\ UNCHANGED <<outcome, skip>>
           \/ /\ pc[q] = "combined" /\ pc'[q] = "published"
              /\ record'[q].outcome = outcome[q] /\ record'[q].skip = skip[q]
        /\ IF pc[q] = "report" /\ Stacking THEN Bump({"expected"}) ELSE UNCHANGED count
    BY <1>17 DEF Combine, Comment, CombineTally, Announced, TypeOK
  <2>2. Label(q)' = Label(q) /\ Reason(q)' = Reason(q)
    BY <1>6, <2>1 DEF Label, Reason
  <2>3. /\ Asked(q)' = Asked(q) /\ FellBack(q)' = FellBack(q) /\ ToMedian(q)' = ToMedian(q)
        /\ Lone(q)' = Lone(q) /\ Skipped(q)' = Skipped(q)
    BY <2>2 DEF Asked, FellBack, ToMedian, Lone, Skipped
  <2>4. OnFallback(q)' = OnFallback(q) /\ Laddered(q)' = Laddered(q) /\ ~Enriching(q) /\ ~Enriching(q)'
    BY <2>1, <2>3 DEF OnFallback, Laddered, Enriching
  <2>5. (Combined(q) <=> Stacking /\ pc[q] = "combined") /\ (Combined(q)' <=> Stacking)
    BY <1>0, <2>1 DEF Combined
  <2>6. CASE pc[q] = "report" /\ Stacking
    <3>1. Bump({"expected"}) /\ ~Combined(q) /\ Combined(q)'
      BY <2>1, <2>5, <2>6
    <3> QED BY <1>1, <1>2, <2>1, <2>3, <2>4, <3>1 DEF CountsWhatHappens, One, Announced
  <2>7. CASE ~(pc[q] = "report" /\ Stacking)
    <3>1. UNCHANGED count /\ (Combined(q) <=> Combined(q)')
      BY <2>1, <2>5, <2>7
    <3> QED BY <1>1, <1>3, <2>1, <2>3, <2>4, <3>1 DEF CountsWhatHappens, One, Announced
  <2> QED BY <2>6, <2>7
<1> QED
  BY <1>0, <1>7, <1>8, <1>9, <1>10, <1>11, <1>12, <1>13, <1>14, <1>15, <1>16, <1>17 DEF Step

\* Nothing but q's step moves the counters, so the sizes move with them.
LEMMA StepKeepsTally ==
    ASSUME Inv, Tally, NEW q \in Questions, Step(q)
    PROVE  Tally'
<1>1. CountsWhatHappens(q) /\ Announced(q)' /\ strategy' = strategy
  BY StepCounts DEF Inv, Tally
<1>2. ASSUME NEW p \in Questions, p # q
      PROVE  /\ Announced(p)' /\ Combined(p)' = Combined(p) /\ OnFallback(p)' = OnFallback(p)
             /\ ToMedian(p)' = ToMedian(p) /\ Lone(p)' = Lone(p) /\ Skipped(p)' = Skipped(p)
             /\ Laddered(p)' = Laddered(p) /\ Enriching(p)' = Enriching(p)
  <2>1. /\ pc'[p] = pc[p] /\ outcome'[p] = outcome[p] /\ skip'[p] = skip[p] /\ record'[p] = record[p]
        /\ (p \in expected' <=> p \in expected) /\ strategy' = strategy
    BY <1>2, StepTouchesOne DEF Inv
  <2>2. Label(p)' = Label(p) /\ Reason(p)' = Reason(p)
    BY <2>1 DEF Label, Reason
  <2>3. Announced(p)
    BY DEF Tally
  <2> QED BY <2>1, <2>2, <2>3 DEF Announced, Combined, OnFallback, ToMedian, Lone, Skipped, Laddered,
                                  Enriching, FellBack, Asked, Stacking
<1>3. /\ Cardinality(CombinedOnes) \in Nat /\ Cardinality(CombinedOnes)' \in Nat
      /\ Cardinality(CombinedOnes)' + One(Combined(q)) = Cardinality(CombinedOnes) + One(Combined(q)')
  <2>1. /\ CombinedOnes \in SUBSET Questions /\ CombinedOnes' \in SUBSET Questions
        /\ \A p \in Questions : p # q => (p \in CombinedOnes <=> p \in CombinedOnes')
        /\ (q \in CombinedOnes <=> Combined(q)) /\ (q \in CombinedOnes' <=> Combined(q)')
    BY <1>2 DEF CombinedOnes
  <2>2. /\ Cardinality(CombinedOnes) \in Nat /\ Cardinality(CombinedOnes') \in Nat
        /\ Cardinality(CombinedOnes') + One(q \in CombinedOnes) = Cardinality(CombinedOnes) + One(q \in CombinedOnes')
    BY <2>1, SizeMoves
  <2> QED BY <2>1, <2>2 DEF One
<1>4. /\ Cardinality(OnFallbackOnes) \in Nat /\ Cardinality(OnFallbackOnes)' \in Nat
      /\ Cardinality(OnFallbackOnes)' + One(OnFallback(q)) = Cardinality(OnFallbackOnes) + One(OnFallback(q)')
  <2>1. /\ OnFallbackOnes \in SUBSET Questions /\ OnFallbackOnes' \in SUBSET Questions
        /\ \A p \in Questions : p # q => (p \in OnFallbackOnes <=> p \in OnFallbackOnes')
        /\ (q \in OnFallbackOnes <=> OnFallback(q)) /\ (q \in OnFallbackOnes' <=> OnFallback(q)')
    BY <1>2 DEF OnFallbackOnes
  <2>2. /\ Cardinality(OnFallbackOnes) \in Nat /\ Cardinality(OnFallbackOnes') \in Nat
        /\ Cardinality(OnFallbackOnes') + One(q \in OnFallbackOnes) = Cardinality(OnFallbackOnes) + One(q \in OnFallbackOnes')
    BY <2>1, SizeMoves
  <2> QED BY <2>1, <2>2 DEF One
<1>5. /\ Cardinality(ToMedianOnes) \in Nat /\ Cardinality(ToMedianOnes)' \in Nat
      /\ Cardinality(ToMedianOnes)' + One(ToMedian(q)) = Cardinality(ToMedianOnes) + One(ToMedian(q)')
  <2>1. /\ ToMedianOnes \in SUBSET Questions /\ ToMedianOnes' \in SUBSET Questions
        /\ \A p \in Questions : p # q => (p \in ToMedianOnes <=> p \in ToMedianOnes')
        /\ (q \in ToMedianOnes <=> ToMedian(q)) /\ (q \in ToMedianOnes' <=> ToMedian(q)')
    BY <1>2 DEF ToMedianOnes
  <2>2. /\ Cardinality(ToMedianOnes) \in Nat /\ Cardinality(ToMedianOnes') \in Nat
        /\ Cardinality(ToMedianOnes') + One(q \in ToMedianOnes) = Cardinality(ToMedianOnes) + One(q \in ToMedianOnes')
    BY <2>1, SizeMoves
  <2> QED BY <2>1, <2>2 DEF One
<1>6. /\ Cardinality(LoneOnes) \in Nat /\ Cardinality(LoneOnes)' \in Nat
      /\ Cardinality(LoneOnes)' + One(Lone(q)) = Cardinality(LoneOnes) + One(Lone(q)')
  <2>1. /\ LoneOnes \in SUBSET Questions /\ LoneOnes' \in SUBSET Questions
        /\ \A p \in Questions : p # q => (p \in LoneOnes <=> p \in LoneOnes')
        /\ (q \in LoneOnes <=> Lone(q)) /\ (q \in LoneOnes' <=> Lone(q)')
    BY <1>2 DEF LoneOnes
  <2>2. /\ Cardinality(LoneOnes) \in Nat /\ Cardinality(LoneOnes') \in Nat
        /\ Cardinality(LoneOnes') + One(q \in LoneOnes) = Cardinality(LoneOnes) + One(q \in LoneOnes')
    BY <2>1, SizeMoves
  <2> QED BY <2>1, <2>2 DEF One
<1>7. /\ Cardinality(SkippedOnes) \in Nat /\ Cardinality(SkippedOnes)' \in Nat
      /\ Cardinality(SkippedOnes)' + One(Skipped(q)) = Cardinality(SkippedOnes) + One(Skipped(q)')
  <2>1. /\ SkippedOnes \in SUBSET Questions /\ SkippedOnes' \in SUBSET Questions
        /\ \A p \in Questions : p # q => (p \in SkippedOnes <=> p \in SkippedOnes')
        /\ (q \in SkippedOnes <=> Skipped(q)) /\ (q \in SkippedOnes' <=> Skipped(q)')
    BY <1>2 DEF SkippedOnes
  <2>2. /\ Cardinality(SkippedOnes) \in Nat /\ Cardinality(SkippedOnes') \in Nat
        /\ Cardinality(SkippedOnes') + One(q \in SkippedOnes) = Cardinality(SkippedOnes) + One(q \in SkippedOnes')
    BY <2>1, SizeMoves
  <2> QED BY <2>1, <2>2 DEF One
<1>8. /\ Cardinality(LadderedOnes) \in Nat /\ Cardinality(LadderedOnes)' \in Nat
      /\ Cardinality(LadderedOnes)' + One(Laddered(q)) = Cardinality(LadderedOnes) + One(Laddered(q)')
  <2>1. /\ LadderedOnes \in SUBSET Questions /\ LadderedOnes' \in SUBSET Questions
        /\ \A p \in Questions : p # q => (p \in LadderedOnes <=> p \in LadderedOnes')
        /\ (q \in LadderedOnes <=> Laddered(q)) /\ (q \in LadderedOnes' <=> Laddered(q)')
    BY <1>2 DEF LadderedOnes
  <2>2. /\ Cardinality(LadderedOnes) \in Nat /\ Cardinality(LadderedOnes') \in Nat
        /\ Cardinality(LadderedOnes') + One(q \in LadderedOnes) = Cardinality(LadderedOnes) + One(q \in LadderedOnes')
    BY <2>1, SizeMoves
  <2> QED BY <2>1, <2>2 DEF One
<1>9. /\ Cardinality(EnrichingOnes) \in Nat /\ Cardinality(EnrichingOnes)' \in Nat
      /\ Cardinality(EnrichingOnes)' + One(Enriching(q)) = Cardinality(EnrichingOnes) + One(Enriching(q)')
  <2>1. /\ EnrichingOnes \in SUBSET Questions /\ EnrichingOnes' \in SUBSET Questions
        /\ \A p \in Questions : p # q => (p \in EnrichingOnes <=> p \in EnrichingOnes')
        /\ (q \in EnrichingOnes <=> Enriching(q)) /\ (q \in EnrichingOnes' <=> Enriching(q)')
    BY <1>2 DEF EnrichingOnes
  <2>2. /\ Cardinality(EnrichingOnes) \in Nat /\ Cardinality(EnrichingOnes') \in Nat
        /\ Cardinality(EnrichingOnes') + One(q \in EnrichingOnes) = Cardinality(EnrichingOnes) + One(q \in EnrichingOnes')
    BY <2>1, SizeMoves
  <2> QED BY <2>1, <2>2 DEF One
<1>10. \A p \in Questions : Announced(p)'
  BY <1>1, <1>2
<1>11. \A n \in {"expected", "unexpected", "fallback", "primary_failed", "fallback_used", "fallback_failed",
                 "triggered", "skipped", "skipped_lone", "crux_failures", "search_failures"} :
          count[n] \in Nat /\ count'[n] \in Nat
  <2>1. count \in [Counted -> Nat] /\ count' \in [Counted -> Nat]
    BY StepKeepsTypes DEF Inv, TypeOK
  <2> QED BY <2>1 DEF Counted
<1>12. /\ count'["unexpected"] = 0
       /\ count'["expected"] = Cardinality(CombinedOnes)'
       /\ count'["primary_failed"] = Cardinality(OnFallbackOnes)'
       /\ count'["fallback_used"] = Cardinality(OnFallbackOnes)'
       /\ count'["fallback_failed"] = Cardinality(ToMedianOnes)'
       /\ count'["fallback"] = Cardinality(ToMedianOnes)'
       /\ count'["skipped_lone"] = Cardinality(LoneOnes)'
  BY <1>1, <1>3, <1>4, <1>5, <1>6, <1>11 DEF Tally, CountsWhatHappens, One
<1>13. strategy' = "conditional_stacking" =>
          count'["triggered"] = Cardinality(LadderedOnes)' /\ count'["skipped"] = Cardinality(SkippedOnes)'
  BY <1>1, <1>7, <1>8, <1>11 DEF Tally, CountsWhatHappens, One
<1>14. count'["crux_failures"] + count'["search_failures"] + Cardinality(EnrichingOnes)' <= count'["triggered"]
  BY <1>1, <1>9, <1>11 DEF Tally, CountsWhatHappens, One
<1> QED BY <1>10, <1>12, <1>13, <1>14 DEF Tally

LEMMA TallyHolds == Spec => []Tally
<1>1. Init => Tally
  <2> SUFFICES ASSUME Init PROVE Tally
    OBVIOUS
  <2>1. \A q \in Questions : /\ pc[q] = "forecast" /\ Label(q) = None /\ Reason(q) = None
    BY DEF Init, Label, Reason
  <2>2. /\ CombinedOnes = {} /\ OnFallbackOnes = {} /\ ToMedianOnes = {} /\ LoneOnes = {}
        /\ SkippedOnes = {} /\ LadderedOnes = {} /\ EnrichingOnes = {}
    BY <2>1 DEF CombinedOnes, OnFallbackOnes, ToMedianOnes, LoneOnes, SkippedOnes, LadderedOnes, EnrichingOnes,
                Combined, OnFallback, ToMedian, Lone, Skipped, Laddered, Enriching, FellBack, Asked, None
  <2>3. \A n \in Counted : count[n] = 0
    BY DEF Init
  <2>4. \A q \in Questions : Announced(q)
    BY <2>1 DEF Announced, Enriching
  <2> QED BY <2>2, <2>3, <2>4, FS_EmptySet DEF Tally, Counted
<1>2. Inv /\ Tally /\ [Next]_vars => Tally'
  <2>1. ASSUME Inv, Tally, Next PROVE Tally'
    BY <2>1, StepKeepsTally DEF Next
  <2>2. ASSUME Tally, UNCHANGED vars PROVE Tally'
    <3>1. /\ \A q \in Questions : /\ Announced(q)' = Announced(q)
          /\ CombinedOnes' = CombinedOnes /\ OnFallbackOnes' = OnFallbackOnes
          /\ ToMedianOnes' = ToMedianOnes /\ LoneOnes' = LoneOnes /\ SkippedOnes' = SkippedOnes
          /\ LadderedOnes' = LadderedOnes /\ EnrichingOnes' = EnrichingOnes
      BY <2>2 DEF vars, config, maps, CombinedOnes, OnFallbackOnes, ToMedianOnes, LoneOnes, SkippedOnes,
                  LadderedOnes, EnrichingOnes, Combined, OnFallback, ToMedian, Lone, Skipped, Laddered,
                  Enriching, FellBack, Asked, Label, Reason, Announced, Stacking
    <3> QED BY <2>2, <3>1 DEF vars, config, Tally
  <2> QED BY <2>1, <2>2
<1> QED BY <1>1, <1>2, InvHolds, PTL DEF Spec

\* The run's counters are the numbers of its questions of which each thing is true,
\* for any questions in any order of their steps, and no report meets the combine
\* unannounced.
THEOREM CountersHold == Spec => []CountersAddUp
<1>1. TypeOK /\ Tally => CountersAddUp
  <2> SUFFICES ASSUME TypeOK, Tally PROVE CountersAddUp
    OBVIOUS
  <2>1. count["crux_failures"] + count["search_failures"] <= count["triggered"]
    <3>1. /\ count["crux_failures"] \in Nat /\ count["search_failures"] \in Nat /\ count["triggered"] \in Nat
      BY DEF TypeOK, Counted
    <3>2. EnrichingOnes \in SUBSET Questions
      BY DEF EnrichingOnes
    <3>3. Cardinality(EnrichingOnes) \in Nat
      BY <3>2, AggregationAssumption, FS_Subset, FS_CardinalityType
    <3> QED BY <3>1, <3>3 DEF Tally
  <2>2. /\ Cardinality(CombinedOnes) = Cardinality({q \in Questions : Combined(q)})
        /\ Cardinality(OnFallbackOnes) = Cardinality({q \in Questions : OnFallback(q)})
        /\ Cardinality(ToMedianOnes) = Cardinality({q \in Questions : ToMedian(q)})
        /\ Cardinality(LoneOnes) = Cardinality({q \in Questions : Lone(q)})
        /\ Cardinality(SkippedOnes) = Cardinality({q \in Questions : Skipped(q)})
        /\ Cardinality(LadderedOnes) = Cardinality({q \in Questions : Laddered(q)})
    BY DEF CombinedOnes, OnFallbackOnes, ToMedianOnes, LoneOnes, SkippedOnes, LadderedOnes
  <2> QED BY <2>1, <2>2 DEF Tally, CountersAddUp, HowMany, Combined, OnFallback, ToMedian, Lone, Skipped, FellBack
<1> QED BY <1>1, TypeCorrect, TallyHolds, PTL
=============================================================================
