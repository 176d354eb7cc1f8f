----------------------------- MODULE GapFillProofs -----------------------------
(***************************************************************************)
(* Proofs about the agentic gap-fill loop (AgenticLoop) and its bank of    *)
(* findings (FindingsBank), which share no state.                          *)
(*                                                                         *)
(* The first part shows what the loop guarantees whatever its driver does, *)
(* for any budgets, plans, pages and sizes of batch: its gates never wear  *)
(* out twice, research is planned and bounded, an early conclusion is      *)
(* earned, and nobody runs out of turns unwarned.  The bound on external   *)
(* calls is not inductive: it needs that they are some of the calls        *)
(* charged to the budget, so that what is left of the budget is left for   *)
(* them too.  The warning needs the turn before it: a turn that may be the *)
(* last is known to be so when it starts.                                  *)
(*                                                                         *)
(* The second part shows that the bank is exact and its answers are true,  *)
(* for any contents, any number of calls and any number of proposals in a  *)
(* call.  Banking does not look at the projection that validation made, so *)
(* the exactness of the bank rests on the two having walked the same way:  *)
(* an accepted proposal keeps the projection it was checked against, each  *)
(* is what the one before it leads to, and the bank, after as many         *)
(* proposals as are banked, is what the projection said it would be.       *)
(***************************************************************************)
EXTENDS AgenticLoop, FindingsBank, FiniteSetTheorems, TLAPS

\* The calls of the batch in flight, and how far they are.
BatchOK ==
    /\ batch \in [calls : UNION {[1..n -> Calls] : n \in Nat}, admitted : SUBSET Nat, gated : BOOLEAN,
                  at : Nat \ {0}, ended : SUBSET Nat, reached : SUBSET Pages]
    /\ batch.admitted \subseteq DOMAIN batch.calls

\* Why the last turn is announced: a turn starts with what it needs to know.
Announced ==
    /\ pc = "calling" => steps < MaxSteps /\ ~stop /\ (steps + 1 >= MaxSteps => told)
    /\ pc \in {"turn", "batch"} /\ steps >= MaxSteps => told
    /\ explicit => stop
    /\ pc = "ghost" => stop

\* A loop that goes on was not cut.
OpenEnded == pc # "done" => ~deadlineHit /\ ~failed

IInv ==
    /\ TypeOK
    /\ BatchOK
    /\ OpenEnded
    /\ external <= MaxToolCalls
    /\ ResearchIsPlanned
    /\ Announced
    /\ NeverCutOffUnwarned

LEMMA Bounds ==
    /\ MaxSteps \in Nat \ {0} /\ MaxPlanNudges \in Nat \ {0} /\ MaxGaps \in Nat \ {0}
    /\ FetchFloor \in Nat \ {0}
    /\ MaxToolCalls \in Nat /\ MaxGateRejections \in Nat /\ MaxBatch \in Nat
    /\ WallDeadline \in Nat
  BY LoopAssumption

LEMMA EmptyBatchOK ==
    /\ Empty \in [calls : UNION {[1..n -> Calls] : n \in Nat}, admitted : SUBSET Nat, gated : BOOLEAN,
                  at : Nat \ {0}, ended : SUBSET Nat, reached : SUBSET Pages]
    /\ Empty.admitted = {} /\ Empty.reached = {}
<1>1. <<>> \in [1..0 -> Calls]
  OBVIOUS
<1>2. <<>> \in UNION {[1..n -> Calls] : n \in Nat}
  BY <1>1
<1> QED BY <1>2 DEF Empty

LEMMA InvariantInit == Init => IInv
<1> SUFFICES ASSUME Init PROVE IInv
  OBVIOUS
<1>1. TypeOK
  <2>1. planSkipped \in BOOLEAN /\ (planSkipped <=> planNudges = MaxPlanNudges)
    BY Bounds DEF Init
  <2>2. nudged \in BOOLEAN /\ stop \in BOOLEAN /\ explicit \in BOOLEAN /\ told \in BOOLEAN
    BY DEF Init
  <2>3. deadlineHit \in BOOLEAN /\ failed \in BOOLEAN /\ ~(deadlineHit /\ failed)
    BY DEF Init
  <2> QED BY <2>1, <2>2, <2>3, Bounds DEF Init, TypeOK, Empty
<1>2. BatchOK
  BY EmptyBatchOK DEF Init, BatchOK
<1> QED
  BY <1>1, <1>2, Bounds DEF IInv, Init, OpenEnded, ResearchIsPlanned, Announced, NeverCutOffUnwarned

\* What admission charges: no more external calls than the budget has left, and
\* none while the plan gate is shut.
LEMMA AdmissionCharges ==
    ASSUME NEW calls \in Batches, toolCalls \in Nat
    PROVE  LET admitted == Admitted(calls)
               charged == {i \in admitted : IsExternal(calls[i])}
           IN  /\ DOMAIN calls \subseteq Nat /\ admitted \subseteq DOMAIN calls
               /\ Cardinality(admitted) \in Nat /\ Cardinality(charged) \in Nat
               /\ Cardinality(charged) <= Cardinality(admitted)
               /\ Cardinality(charged) > 0 =>
                     ~PlanGateActive /\ toolCalls + Cardinality(charged) <= MaxToolCalls
<1> DEFINE admitted == Admitted(calls)
           charged == {i \in admitted : IsExternal(calls[i])}
<1>1. PICK n \in 1..MaxBatch : calls \in [1..n -> Calls]
  BY DEF Batches
<1>2. n \in Nat /\ DOMAIN calls = 1..n /\ IsFiniteSet(1..n) /\ MaxToolCalls \in Nat
  BY <1>1, LoopAssumption, FS_Interval
<1>3. admitted \in SUBSET (1..n) /\ charged \in SUBSET admitted
  BY <1>2 DEF Admitted
<1>4. IsFiniteSet(admitted) /\ IsFiniteSet(charged) /\ Cardinality(charged) <= Cardinality(admitted)
  BY <1>2, <1>3, FS_Subset
<1>5. Cardinality(admitted) \in Nat /\ Cardinality(charged) \in Nat
  BY <1>4, FS_CardinalityType
<1>6. ASSUME Cardinality(charged) > 0
      PROVE  ~PlanGateActive /\ toolCalls + Cardinality(charged) <= MaxToolCalls
  <2>1. PICK i : i \in charged
    BY <1>6, FS_EmptySet
  <2>2. ~PlanGateActive /\ i \in Nat \ {0} /\ toolCalls + i - 1 < MaxToolCalls
    BY <1>2, <1>3, <2>1 DEF Admitted, Fits
  <2>3. charged \in SUBSET (1..(MaxToolCalls - toolCalls))
    BY <1>2, <1>3 DEF Admitted, Fits
  <2>4. /\ MaxToolCalls - toolCalls \in Nat
        /\ IsFiniteSet(1..(MaxToolCalls - toolCalls))
        /\ Cardinality(1..(MaxToolCalls - toolCalls)) = MaxToolCalls - toolCalls
    BY <1>2, <2>2, FS_Interval
  <2>5. Cardinality(charged) <= MaxToolCalls - toolCalls
    BY <2>3, <2>4, FS_Subset
  <2> HIDE DEF charged
  <2> QED BY <1>2, <1>5, <2>2, <2>5
<1> HIDE DEF admitted, charged
<1>7. DOMAIN calls \subseteq Nat /\ admitted \subseteq DOMAIN calls
  BY <1>2, <1>3
<1> QED BY <1>4, <1>5, <1>6, <1>7 DEF admitted, charged

LEMMA AnswersKeepInvariant ==
    ASSUME IInv, NEW calls \in Batches, AnswersWith(calls)
    PROVE  IInv'
<1> DEFINE admitted == Admitted(calls)
           charged == {i \in admitted : IsExternal(calls[i])}
           gated == PlanGateActive /\ \E i \in DOMAIN calls : IsExternal(calls[i])
           a == Cardinality(admitted)
           x == Cardinality(charged)
<1>1. /\ pc = "calling" /\ pc' = "batch" /\ steps' = steps + 1
      /\ toolCalls' = toolCalls + a /\ external' = external + x
      /\ planNudges' = IF gated THEN planNudges + 1 ELSE planNudges
      /\ planSkipped' = (planSkipped \/ (gated /\ planNudges + 1 >= MaxPlanNudges))
      /\ batch' = [Empty EXCEPT !.calls = calls, !.admitted = admitted, !.gated = gated]
      /\ UNCHANGED <<clock, gaps, rejections, fetched, nudged, stop, explicit, told, ends>>
  BY DEF AnswersWith
<1>2. /\ DOMAIN calls \subseteq Nat /\ admitted \subseteq DOMAIN calls
      /\ a \in Nat /\ x \in Nat /\ x <= a
      /\ x > 0 => ~PlanGateActive /\ toolCalls + x <= MaxToolCalls
  BY AdmissionCharges DEF IInv, TypeOK
<1>3. gated => ~planSkipped /\ gated \in BOOLEAN
  BY DEF PlanGateActive
<1>4. calls \in UNION {[1..n -> Calls] : n \in Nat}
  BY LoopAssumption DEF Batches
<1> HIDE DEF admitted, charged, gated, a, x
<1>5. BatchOK'
  <2>1. batch' = [calls |-> calls, admitted |-> admitted, gated |-> gated, at |-> 1, ended |-> {}, reached |-> {}]
    BY <1>1 DEF Empty
  <2>2. gated \in BOOLEAN
    BY DEF gated
  <2> QED BY <1>2, <1>4, <2>1, <2>2 DEF BatchOK
<1>6. TypeOK'
  <2>1. steps' \in 0..MaxSteps
    BY <1>1, Bounds DEF IInv, TypeOK, Announced
  <2>2. toolCalls' \in Nat /\ external' \in 0..toolCalls'
    BY <1>1, <1>2 DEF IInv, TypeOK
  <2>3. /\ planNudges' \in 0..MaxPlanNudges
        /\ planSkipped' \in BOOLEAN /\ (planSkipped' <=> planNudges' = MaxPlanNudges)
    BY <1>1, <1>3, Bounds DEF IInv, TypeOK
  <2>4. batch'.reached \subseteq Pages
    BY <1>5 DEF BatchOK
  <2> QED BY <1>1, <2>1, <2>2, <2>3, <2>4 DEF IInv, TypeOK, ends
<1>7. external' <= MaxToolCalls
  BY <1>1, <1>2, Bounds DEF IInv, TypeOK
<1>8. ResearchIsPlanned'
  BY <1>1, <1>2 DEF IInv, TypeOK, ResearchIsPlanned, PlanGateActive
<1>9. OpenEnded' /\ Announced' /\ NeverCutOffUnwarned'
  BY <1>1, Bounds DEF IInv, TypeOK, OpenEnded, Announced, NeverCutOffUnwarned, ends
<1> QED BY <1>5, <1>6, <1>7, <1>8, <1>9 DEF IInv

\* The internal tools of a batch, in turn.
LEMMA HandlersKeepInvariant ==
    ASSUME IInv, PassesOver \/ SetsPlan \/ Records \/ Concludes
    PROVE  IInv'
<1>1. /\ pc = "batch" /\ batch' = [batch EXCEPT !.at = @ + 1]
      /\ UNCHANGED <<pc, clock, steps, toolCalls, external, planNudges, planSkipped, fetched, nudged,
                     told, deadlineHit, failed>>
  BY DEF PassesOver, SetsPlan, Records, Concludes, Runs, clocks, plan, ends
<1>2. BatchOK'
  BY <1>1 DEF IInv, BatchOK
<1>3. /\ gaps' \in 0..MaxGaps
      /\ gaps > 0 => gaps' > 0
  <2>1. CASE SetsPlan
    <3> DEFINE n == batch.calls[batch.at].gaps
    <3>1. batch.at \in DOMAIN batch.calls /\ batch.calls[batch.at].tool = "set_research_plan"
      BY <2>1 DEF SetsPlan, Runs, IInv, BatchOK
    <3>2. batch.calls[batch.at] \in Calls
      BY <3>1 DEF IInv, BatchOK
    <3>3. n \in Nat
      BY <3>1, <3>2, LoopAssumption DEF Calls
    <3>4. gaps' = IF IsPlan(n) THEN IF n > MaxGaps THEN MaxGaps ELSE n ELSE gaps
      BY <2>1 DEF SetsPlan
    <3> HIDE DEF n
    <3> QED BY <3>3, <3>4, Bounds DEF IsPlan, IInv, TypeOK
  <2>2. CASE PassesOver \/ Records \/ Concludes
    <3>1. gaps' = gaps
      BY <2>2 DEF PassesOver, Records, Concludes, plan
    <3> QED BY <3>1 DEF IInv, TypeOK
  <2> QED BY <2>1, <2>2
<1>4. /\ rejections' \in 0..MaxGateRejections
      /\ stop' \in BOOLEAN /\ explicit' \in BOOLEAN
      /\ stop => stop'
      /\ explicit' => stop'
  <2>1. CASE Concludes
    <3>1. \/ explicit' = TRUE /\ stop' = TRUE /\ rejections' = rejections
          \/ rejections < MaxGateRejections /\ rejections' = rejections + 1 /\ UNCHANGED <<explicit, stop>>
      BY <2>1 DEF Concludes, RejectionsLeft
    <3>2. CASE explicit' = TRUE /\ stop' = TRUE /\ rejections' = rejections
      BY <3>2 DEF IInv, TypeOK
    <3>3. CASE rejections < MaxGateRejections /\ rejections' = rejections + 1 /\ UNCHANGED <<explicit, stop>>
      <4>1. rejections' \in 0..MaxGateRejections
        BY <3>3, Bounds DEF IInv, TypeOK
      <4>2. explicit' = explicit /\ stop' = stop
        BY <3>3
      <4> QED BY <4>1, <4>2 DEF IInv, TypeOK, Announced
    <3> QED BY <3>1, <3>2, <3>3
  <2>2. CASE PassesOver \/ Records \/ SetsPlan
    <3>1. UNCHANGED <<rejections, stop, explicit>>
      BY <2>2 DEF PassesOver, Records, SetsPlan
    <3> QED BY <3>1 DEF IInv, TypeOK, Announced
  <2> QED BY <2>1, <2>2
<1>5. TypeOK'
  BY <1>1, <1>2, <1>3, <1>4 DEF IInv, TypeOK, BatchOK
<1>6. external' <= MaxToolCalls /\ ResearchIsPlanned'
  BY <1>1, <1>3 DEF IInv, ResearchIsPlanned
<1>7. OpenEnded' /\ Announced' /\ NeverCutOffUnwarned'
  BY <1>1, <1>4 DEF IInv, OpenEnded, Announced, NeverCutOffUnwarned
<1> QED BY <1>2, <1>5, <1>6, <1>7 DEF IInv

\* A turn starts, is idle or ends, an external call ends, time passes.
LEMMA TurnsKeepInvariant ==
    ASSUME IInv,
           \/ StartTurn \/ AnswersIdly \/ BatchEnds \/ LeavesLoop \/ GhostEnds \/ Tick
           \/ \E i \in 1..MaxBatch : ExternalEnds(i)
    PROVE  IInv'
<1> USE DEF clocks, plan, ends
<1>1. CASE StartTurn
  <2>1. /\ pc = "turn" /\ ~stop /\ steps < MaxSteps /\ pc' = "calling" /\ told' = MustConclude
        /\ UNCHANGED <<clocks, external, plan, rejections, fetched, nudged, stop, explicit, batch, ends>>
    BY <1>1 DEF StartTurn
  <2>2. told' \in BOOLEAN /\ (steps + 1 >= MaxSteps => told')
    BY <2>1, Bounds DEF MustConclude, LastTurn, IInv, TypeOK
  <2>3. TypeOK' /\ BatchOK'
    BY <2>1, <2>2 DEF IInv, TypeOK, BatchOK
  <2>4. external' <= MaxToolCalls /\ ResearchIsPlanned'
    BY <2>1 DEF IInv, ResearchIsPlanned
  <2>5. OpenEnded' /\ Announced' /\ NeverCutOffUnwarned'
    BY <2>1, <2>2 DEF IInv, OpenEnded, Announced, NeverCutOffUnwarned
  <2> QED BY <2>3, <2>4, <2>5 DEF IInv
<1>2. CASE AnswersIdly
  <2>1. /\ pc = "calling" /\ steps' = steps + 1 /\ stop' = nudged /\ nudged' = TRUE /\ pc' = "turn"
        /\ UNCHANGED <<clock, toolCalls, external, plan, rejections, fetched, explicit, told, batch, ends>>
    BY <1>2 DEF AnswersIdly
  <2>2. steps' \in 0..MaxSteps /\ stop' \in BOOLEAN /\ nudged' \in BOOLEAN
    BY <2>1, Bounds DEF IInv, TypeOK, Announced
  <2>3. TypeOK' /\ BatchOK'
    BY <2>1, <2>2 DEF IInv, TypeOK, BatchOK
  <2>4. ~explicit /\ (steps' >= MaxSteps => told)
    BY <2>1 DEF IInv, Announced
  <2>5. OpenEnded' /\ Announced' /\ NeverCutOffUnwarned'
    BY <2>1, <2>4 DEF IInv, OpenEnded, Announced, NeverCutOffUnwarned
  <2> QED BY <2>1, <2>3, <2>5 DEF IInv, ResearchIsPlanned
<1>3. CASE BatchEnds
  <2>1. /\ pc = "batch" /\ pc' = "turn" /\ batch' = Empty /\ fetched' = fetched \cup batch.reached
        /\ UNCHANGED <<clocks, external, plan, rejections, nudged, stop, explicit, told, ends>>
    BY <1>3 DEF BatchEnds
  <2>2. BatchOK' /\ batch'.reached \subseteq Pages
    BY <2>1, EmptyBatchOK DEF BatchOK
  <2> QED BY <2>1, <2>2 DEF IInv, TypeOK, ResearchIsPlanned, OpenEnded, Announced, NeverCutOffUnwarned
<1>4. CASE LeavesLoop
  <2>1. /\ pc = "turn" /\ (stop \/ steps >= MaxSteps) /\ pc' = IF explicit THEN "ghost" ELSE "done"
        /\ UNCHANGED <<clocks, external, plan, rejections, fetched, nudged, stop, explicit, told, batch, ends>>
    BY <1>4 DEF LeavesLoop
  <2>2. TypeOK' /\ BatchOK'
    BY <2>1 DEF IInv, TypeOK, BatchOK
  <2>3. OpenEnded' /\ Announced' /\ NeverCutOffUnwarned'
    BY <2>1 DEF IInv, OpenEnded, Announced, NeverCutOffUnwarned
  <2> QED BY <2>1, <2>2, <2>3 DEF IInv, ResearchIsPlanned
<1>5. CASE GhostEnds
  <2>1. /\ pc = "ghost" /\ pc' = "done"
        /\ UNCHANGED <<clocks, external, plan, rejections, fetched, nudged, stop, explicit, told, batch, ends>>
    BY <1>5 DEF GhostEnds
  <2>2. TypeOK' /\ BatchOK'
    BY <2>1 DEF IInv, TypeOK, BatchOK
  <2>3. OpenEnded' /\ Announced' /\ NeverCutOffUnwarned'
    BY <2>1 DEF IInv, OpenEnded, Announced, NeverCutOffUnwarned
  <2> QED BY <2>1, <2>2, <2>3 DEF IInv, ResearchIsPlanned
<1>6. CASE Tick
  <2>1. /\ clock' = clock + 1 /\ clock < WallDeadline
        /\ UNCHANGED <<pc, steps, toolCalls, external, plan, rejections, fetched, nudged, stop, explicit, told, batch, ends>>
    BY <1>6 DEF Tick
  <2>2. TypeOK' /\ BatchOK'
    BY <2>1, Bounds DEF IInv, TypeOK, BatchOK
  <2> QED BY <2>1, <2>2 DEF IInv, ResearchIsPlanned, OpenEnded, Announced, NeverCutOffUnwarned
<1>7. ASSUME NEW i \in 1..MaxBatch, ExternalEnds(i) PROVE IInv'
  <2> DEFINE call == batch.calls[i]
             pages == IF call.tool = "fetch" THEN {call.page} ELSE {}
  <2>1. PICK reached \in {{}, pages} :
           batch' = [batch EXCEPT !.ended = @ \cup {i}, !.reached = @ \cup reached]
    BY <1>7 DEF ExternalEnds
  <2>2. /\ i \in batch.admitted
        /\ UNCHANGED <<pc, clocks, external, plan, rejections, fetched, nudged, stop, explicit, told, ends>>
    <3>1. i \in Pending
      BY <1>7 DEF ExternalEnds
    <3>2. i \in batch.admitted
      BY <3>1 DEF Pending
    <3> QED BY <1>7, <3>2 DEF ExternalEnds
  <2>3. call \in Calls
    BY <2>2 DEF IInv, BatchOK
  <2>4. pages \subseteq Pages
    BY <2>3 DEF Calls
  <2> HIDE DEF call, pages
  <2>5. BatchOK' /\ batch'.reached \subseteq Pages
    BY <2>1, <2>2, <2>4 DEF IInv, BatchOK
  <2> QED BY <2>2, <2>5 DEF IInv, TypeOK, ResearchIsPlanned, OpenEnded, Announced, NeverCutOffUnwarned
<1> QED BY <1>1, <1>2, <1>3, <1>4, <1>5, <1>6, <1>7

\* The loop is cut: by its deadline, or by what its awaits raise.
LEMMA CutsKeepInvariant ==
    ASSUME IInv, Raises \/ DeadlineHits
    PROVE  IInv'
<1> USE DEF clocks, plan
<1>1. /\ pc' = "done" /\ batch' = Empty
      /\ UNCHANGED <<clocks, external, plan, rejections, fetched, nudged, stop, explicit, told>>
  BY DEF Raises, DeadlineHits
<1>2. /\ deadlineHit' \in BOOLEAN /\ failed' \in BOOLEAN
      /\ ~(deadlineHit' /\ failed') /\ (deadlineHit' \/ failed')
  <2>1. CASE Raises
    <3>1. PICK timeout \in BOOLEAN :
             /\ deadlineHit' = (timeout /\ clock >= WallDeadline)
             /\ failed' = ~deadlineHit'
      BY <2>1 DEF Raises
    <3> QED BY <3>1, Zenon
  <2>2. CASE DeadlineHits
    <3>1. deadlineHit' = TRUE /\ failed' = failed /\ pc # "done"
      BY <2>2 DEF DeadlineHits, Covered, Awaiting
    <3>2. ~failed
      BY <3>1 DEF IInv, OpenEnded
    <3> QED BY <3>1, <3>2 DEF IInv, TypeOK
  <2> QED BY <2>1, <2>2
<1>3. BatchOK' /\ batch'.reached \subseteq Pages
  BY <1>1, EmptyBatchOK DEF BatchOK
<1>4. TypeOK'
  BY <1>1, <1>2, <1>3 DEF IInv, TypeOK
<1>5. OpenEnded' /\ Announced' /\ NeverCutOffUnwarned'
  BY <1>1, <1>2 DEF IInv, OpenEnded, Announced, NeverCutOffUnwarned
<1> QED BY <1>1, <1>3, <1>4, <1>5 DEF IInv, ResearchIsPlanned

LEMMA InvariantStep == IInv /\ [Next]_vars => IInv'
<1> SUFFICES ASSUME IInv, [Next]_vars PROVE IInv'
  OBVIOUS
<1>1. ASSUME NEW calls \in Batches, AnswersWith(calls) PROVE IInv'
  BY <1>1, AnswersKeepInvariant
<1>2. CASE PassesOver \/ SetsPlan \/ Records \/ Concludes
  BY <1>2, HandlersKeepInvariant
<1>3. CASE \/ StartTurn \/ AnswersIdly \/ BatchEnds \/ LeavesLoop \/ GhostEnds \/ Tick
           \/ \E i \in 1..MaxBatch : ExternalEnds(i)
  BY <1>3, TurnsKeepInvariant
<1>4. CASE Raises \/ DeadlineHits
  BY <1>4, CutsKeepInvariant
<1>5. CASE UNCHANGED vars
  BY <1>5 DEF vars, clocks, plan, ends, IInv, TypeOK, BatchOK, OpenEnded, ResearchIsPlanned, Announced,
             NeverCutOffUnwarned
<1>6. CASE Done
  BY <1>5, <1>6 DEF Done
<1> QED BY <1>1, <1>2, <1>3, <1>4, <1>5, <1>6 DEF Next

LEMMA InvariantHolds == Spec => []IInv
  BY InvariantInit, InvariantStep, PTL DEF Spec

-----------------------------------------------------------------------------
(* What follows from it *)

\* The state stays well typed, and neither gate counts past its cap.
THEOREM TypeCorrect == Spec => []TypeOK
<1>1. IInv => TypeOK
  BY DEF IInv
<1> QED BY <1>1, InvariantHolds, PTL

\* No external call runs before a plan or the end of the plan gate's nudges.
THEOREM ResearchIsAlwaysPlanned == Spec => []ResearchIsPlanned
<1>1. IInv => ResearchIsPlanned
  BY DEF IInv
<1> QED BY <1>1, InvariantHolds, PTL

\* No batch, however long, takes the external calls beyond the budget.
THEOREM ExternalCallsAreBounded == Spec => []ExternalCallsBounded
<1>1. IInv => ExternalCallsBounded
  BY DEF IInv, ExternalCallsBounded
<1> QED BY <1>1, InvariantHolds, PTL

\* A driver that runs out of turns was told so in its last one.
THEOREM NobodyIsCutOffUnwarned == Spec => []NeverCutOffUnwarned
<1>1. IInv => NeverCutOffUnwarned
  BY DEF IInv
<1> QED BY <1>1, InvariantHolds, PTL

\* What a conclusion that no budget forces has behind it.
LEMMA ConclusionIsEarned ==
    ASSUME IInv, [Next]_vars, ~explicit, explicit', ~MustConclude, rejections < MaxGateRejections
    PROVE  IF gaps > 0 THEN fetched # {} /\ external >= gaps ELSE planSkipped
<1>1. Concludes
  <2>1. explicit' # explicit
    OBVIOUS
  <2> QED BY <2>1 DEF Next, Done, vars, StartTurn, AnswersIdly, AnswersWith, PassesOver, SetsPlan,
             Records, ExternalEnds, BatchEnds, LeavesLoop, GhostEnds, Raises, Tick, DeadlineHits
<1>2. Satisfied(batch.calls[batch.at])
  BY <1>1 DEF Concludes, RejectionsLeft
<1>3. CASE gaps > 0
  <2>1. NoDebts(batch.calls[batch.at])
    BY <1>2, <1>3 DEF Satisfied
  <2>2. fetched # {}
    BY <2>1, FS_EmptySet, Bounds DEF NoDebts
  <2> QED BY <1>3, <2>1, <2>2 DEF NoDebts
<1>4. CASE ~(gaps > 0)
  BY <1>2, <1>4 DEF Satisfied
<1> QED BY <1>3, <1>4

\* A driver that concludes unforced has done the research its plan asked for.
THEOREM ConclusionsAreEarned == Spec => EarlyConclusionsAreEarned
<1>1. IInv /\ [Next]_vars =>
        [~explicit /\ explicit' /\ ~MustConclude /\ rejections < MaxGateRejections =>
            IF gaps > 0 THEN fetched # {} /\ external >= gaps ELSE planSkipped]_vars
  BY ConclusionIsEarned
<1> QED BY <1>1, InvariantHolds, PTL DEF Spec, EarlyConclusionsAreEarned

-----------------------------------------------------------------------------
(* The bank of findings *)

Finding == [id : Nat, content : Contents]
Proposal == [content : Contents, replaces : Nat, owned : OwnerMap]

\* What a projection becomes once a proposal is banked on it.
ProjectedOn(own, c, r) ==
    IF r = Nobody THEN [own EXCEPT ![c] = IF @ = Nobody THEN PendingOwner ELSE @]
    ELSE [d \in Contents |-> IF d = c THEN r ELSE IF own[d] = r THEN Nobody ELSE own[d]]

\* The projection after the first k accepted proposals.
OwnAfter(k) == IF k < Len(accepted) THEN accepted[k + 1].owned ELSE owners

\* Every accepted proposal passed its checks, and the next projection follows from it.
Chained ==
    \A k \in 1..Len(accepted) :
        /\ OwnAfter(k) = ProjectedOn(accepted[k].owned, accepted[k].content, accepted[k].replaces)
        /\ accepted[k].replaces # Nobody =>
            /\ accepted[k].replaces \in 1..Len(before)
            /\ accepted[k].owned[accepted[k].content] \in {Nobody, accepted[k].replaces}

\* The bank is what the projection says: what is pending was banked by this call.
Tracks(own) ==
    \A c \in Contents : own[c] = seen[c] \/ (own[c] = PendingOwner /\ seen[c] > Len(before))

\* What the answer will say is true of the k proposals banked so far.
TrueSoFar(k) ==
    /\ banked + duplicates = k
    /\ Len(held) = k
    /\ \A j \in 1..k :
        \/ \E i \in DOMAIN findings : findings[i].id = held[j] /\ findings[i].content = accepted[j].content
        \/ \E l \in 1..k : l > j /\ accepted[l].replaces = held[j]
    /\ \A i \in DOMAIN before :
        \/ findings[i] = before[i]
        \/ findings[i].id = before[i].id /\ \E j \in 1..k : accepted[j].replaces = before[i].id

Numbered == next = Len(findings) + 1 /\ Len(before) <= Len(findings)

Validating == phase = "validating" => before = findings /\ Chained /\ Tracks(OwnAfter(0))

Banking ==
    phase = "banking" =>
        /\ done <= Len(accepted)
        /\ Chained
        /\ Tracks(OwnAfter(done))
        /\ TrueSoFar(done)

BankInv == BankTypeOK /\ BankIsExact /\ Numbered /\ Validating /\ Banking /\ AnswerIsTrue

-----------------------------------------------------------------------------
LEMMA BankInvInit == BankInit => BankInv
<1> SUFFICES ASSUME BankInit PROVE BankInv
  OBVIOUS
<1> USE DEF BankInit
<1>1. BankTypeOK
  <2>1. Len(findings) = 0 /\ findings \in Seq([id : Nat, content : Contents])
    OBVIOUS
  <2>2. accepted \in Seq([content : Contents, replaces : Nat, owned : OwnerMap]) /\ held \in Seq(Nat)
    OBVIOUS
  <2>3. before \in Seq([id : Nat, content : Contents])
    OBVIOUS
  <2>4. seen \in [Contents -> Places] /\ owners \in OwnerMap
    BY <2>1 DEF Places, OwnerMap, Owners, Nobody
  <2> HIDE DEF BankInit
  <2>5. /\ next = 1 /\ phase = "idle" /\ concluding = FALSE /\ done = 0
        /\ banked = 0 /\ duplicates = 0 /\ callsMade = 0
    BY DEF BankInit
  <2> QED BY <2>1, <2>2, <2>3, <2>4, <2>5 DEF BankTypeOK
<1>2. BankIsExact /\ Numbered /\ Validating /\ Banking /\ AnswerIsTrue
  BY DEF BankIsExact, Numbered, Validating, Banking, AnswerIsTrue, Nobody
<1> QED BY <1>1, <1>2 DEF BankInv

\* In an exact bank, who holds what is what the index says.
LEMMA OwnersAreIndexed ==
  ASSUME BankTypeOK, BankIsExact
  PROVE CurrentOwners = seen
<1> DEFINE Holders(c) == {i \in DOMAIN findings : findings[i].content = c}
<1>1. ASSUME NEW c \in Contents
      PROVE CurrentOwners[c] = seen[c]
  <2>1. CASE seen[c] = Nobody
    <3>1. Holders(c) = {}
      BY <2>1 DEF BankIsExact, BankTypeOK, Nobody
    <3> QED BY <2>1, <3>1 DEF CurrentOwners
  <2>2. CASE seen[c] # Nobody
    <3>1. seen[c] \in DOMAIN findings /\ findings[seen[c]].content = c /\ findings[seen[c]].id = seen[c]
      BY <2>2 DEF BankIsExact, BankTypeOK, Places, Nobody
    <3>2. Holders(c) = {seen[c]}
      BY <3>1 DEF BankIsExact
    <3>3. (CHOOSE i \in Holders(c) : \A j \in Holders(c) : j <= i) = seen[c]
      BY <3>1, <3>2 DEF BankTypeOK
    <3> QED BY <3>1, <3>2, <3>3 DEF CurrentOwners
  <2> QED BY <2>1, <2>2
<1> QED BY <1>1 DEF CurrentOwners, BankTypeOK

\* Its identities are its places, and a place is found by its identity.
LEMMA IdentitiesArePlaces ==
  ASSUME BankTypeOK, BankIsExact
  PROVE /\ FindingIds = 1..Len(findings)
        /\ \A r \in FindingIds : PlaceOf(r) = r
<1>1. DOMAIN findings = 1..Len(findings) /\ \A i \in DOMAIN findings : findings[i].id = i
  BY DEF BankIsExact, BankTypeOK
<1>2. FindingIds = {i : i \in DOMAIN findings}
  BY <1>1, Zenon DEF FindingIds
<1>3. FindingIds = 1..Len(findings)
  BY <1>1, <1>2, Zenon
<1>4. ASSUME NEW r \in FindingIds PROVE PlaceOf(r) = r
  BY <1>1, <1>3, <1>4 DEF PlaceOf
<1> QED BY <1>3, <1>4

-----------------------------------------------------------------------------
LEMMA BeginCallStep ==
  ASSUME BankInv, BeginCall
  PROVE BankInv'
<1> USE DEF BeginCall
<1>1. CurrentOwners = seen
  BY OwnersAreIndexed DEF BankInv
<1>2. BankTypeOK'
  BY <1>1 DEF BankInv, BankTypeOK, Places, OwnerMap, Owners
<1>3. BankIsExact' /\ Numbered'
  BY DEF BankInv, BankIsExact, Numbered, BankTypeOK
<1>4. Validating'
  BY <1>1 DEF BankInv, Validating, Chained, Tracks, OwnAfter
<1> QED BY <1>2, <1>3, <1>4 DEF BankInv, Banking, AnswerIsTrue

LEMMA AcceptStep ==
  ASSUME BankInv, NEW c \in Contents, NEW r \in Named, Accept(c, r)
  PROVE BankInv'
<1> DEFINE n == Len(accepted)
           new == [content |-> c, replaces |-> r, owned |-> owners]
<1> USE DEF Accept
<1>1. r \in Nat /\ (r # Nobody => r \in 1..Len(before))
  BY IdentitiesArePlaces DEF BankInv, Named, Grounded, Validating, BankTypeOK, Nobody
<1>2. accepted \in Seq(Proposal) /\ n \in Nat /\ new \in Proposal /\ owners \in OwnerMap
  BY <1>1 DEF BankInv, BankTypeOK, Proposal
<1>3. accepted' = Append(accepted, new) /\ owners' = ProjectedOn(owners, c, r)
  BY DEF Projected, ProjectedOn
<1>4. owners' \in OwnerMap
  BY <1>1, <1>2, <1>3 DEF ProjectedOn, OwnerMap, Owners, PendingOwner, Nobody
<1>5. BankTypeOK'
  BY <1>2, <1>4 DEF BankInv, BankTypeOK, Proposal, Places
<1>6. BankIsExact' /\ Numbered'
  BY DEF BankInv, BankIsExact, Numbered
<1>7. /\ Len(accepted') = n + 1
      /\ \A k \in 1..n : accepted'[k] = accepted[k]
      /\ accepted'[n + 1] = new
  BY <1>2, <1>3
<1>8. \A k \in 0..n : OwnAfter(k)' = OwnAfter(k)
  BY <1>2, <1>7 DEF OwnAfter
<1>9. Chained'
  <2> SUFFICES ASSUME NEW k \in 1..(n + 1)
               PROVE /\ OwnAfter(k)' = ProjectedOn(accepted'[k].owned, accepted'[k].content, accepted'[k].replaces)
                     /\ accepted'[k].replaces # Nobody =>
                           /\ accepted'[k].replaces \in 1..Len(before')
                           /\ accepted'[k].owned[accepted'[k].content] \in {Nobody, accepted'[k].replaces}
    BY <1>7 DEF Chained
  <2>1. CASE k \in 1..n
    BY <2>1, <1>2, <1>7, <1>8 DEF BankInv, Validating, Chained
  <2>2. CASE k = n + 1
    <3>1. OwnAfter(k)' = ProjectedOn(new.owned, new.content, new.replaces)
      BY <2>2, <1>2, <1>3, <1>7 DEF OwnAfter
    <3>2. new.replaces # Nobody =>
              /\ new.replaces \in 1..Len(before')
              /\ new.owned[new.content] \in {Nobody, new.replaces}
      BY <1>1 DEF Grounded
    <3> HIDE DEF new
    <3> QED BY <2>2, <3>1, <3>2, <1>7
  <2> QED BY <2>1, <2>2, <1>2
<1>10. Validating'
  BY <1>2, <1>8, <1>9 DEF BankInv, Validating, Tracks
<1> QED BY <1>5, <1>6, <1>10 DEF BankInv, Banking, AnswerIsTrue

LEMMA EndValidationStep ==
  ASSUME BankInv, EndValidation
  PROVE BankInv'
<1> USE DEF EndValidation
<1>1. BankTypeOK'
  BY DEF BankInv, BankTypeOK, Places
<1>2. BankIsExact' /\ Numbered'
  BY DEF BankInv, BankIsExact, Numbered
<1>3. Banking'
  BY DEF BankInv, BankTypeOK, Validating, Banking, Chained, Tracks, OwnAfter, TrueSoFar
<1> QED BY <1>1, <1>2, <1>3 DEF BankInv, Validating, AnswerIsTrue

-----------------------------------------------------------------------------
(* Banking one proposal. *)

LEMMA Currently ==
  ASSUME BankInv, phase = "banking", done < Len(accepted)
  PROVE /\ done + 1 \in 1..Len(accepted)
        /\ Current \in Proposal
        /\ Current.content \in Contents /\ Current.replaces \in Nat /\ Current.owned \in OwnerMap
        /\ Tracks(Current.owned)
        /\ OwnAfter(done + 1) = ProjectedOn(Current.owned, Current.content, Current.replaces)
        /\ Current.replaces # Nobody =>
              /\ Current.replaces \in 1..Len(before)
              /\ Current.owned[Current.content] \in {Nobody, Current.replaces}
<1>1. done + 1 \in 1..Len(accepted) /\ accepted \in Seq(Proposal)
  BY DEF BankInv, BankTypeOK, Proposal
<1>2. Current \in Proposal
  BY <1>1 DEF Current
<1>3. OwnAfter(done) = Current.owned
  BY DEF OwnAfter, Current
<1>4. Tracks(Current.owned)
  BY <1>3 DEF BankInv, Banking
<1>5. Chained
  BY DEF BankInv, Banking
<1> QED BY <1>1, <1>2, <1>4, <1>5 DEF Chained, Current, Proposal

\* What is left alone by the actions that bank.
LEMMA BankingFrame ==
  ASSUME BankInv, phase = "banking", done < Len(accepted), done' = done + 1,
         UNCHANGED <<phase, concluding, owners, accepted, before, callsMade>>
  PROVE /\ Chained' /\ done' <= Len(accepted')
        /\ Validating' /\ AnswerIsTrue'
        /\ OwnAfter(done)' = OwnAfter(done + 1)
<1>1. Chained /\ done \in Nat /\ accepted \in Seq(Proposal)
  BY DEF BankInv, Banking, BankTypeOK, Proposal
<1>2. Chained'
  BY <1>1 DEF Chained, OwnAfter
<1>3. OwnAfter(done)' = OwnAfter(done + 1)
  BY <1>1 DEF OwnAfter
<1>4. done' <= Len(accepted')
  BY <1>1
<1> QED BY <1>2, <1>3, <1>4 DEF Validating, AnswerIsTrue

LEMMA BankReplacementStep ==
  ASSUME BankInv, BankReplacement
  PROVE BankInv'
<1> DEFINE c == Current.content
           r == Current.replaces
           own == Current.owned
<1> USE DEF BankReplacement
<1>1. /\ c \in Contents /\ r \in Nat /\ own \in OwnerMap
      /\ r # Nobody /\ r \in 1..Len(before)
      /\ own[c] \in {Nobody, r}
      /\ Tracks(own)
      /\ OwnAfter(done + 1) = ProjectedOn(own, c, r)
  BY Currently
<1>2. /\ findings \in Seq(Finding) /\ Len(findings) \in Nat /\ before \in Seq(Finding) /\ Len(before) \in Nat
      /\ Len(before) <= Len(findings)
      /\ seen \in [Contents -> Places]
  BY DEF BankInv, BankTypeOK, Numbered, Finding
<1>3. r \in 1..Len(findings) /\ r \in FindingIds /\ PlaceOf(r) = r
  BY <1>1, <1>2, IdentitiesArePlaces DEF BankInv
<1>4. findings' = [findings EXCEPT ![r] = [id |-> r, content |-> c]]
  BY <1>3
<1>5. seen' = [d \in Contents |-> IF d = c THEN r ELSE IF seen[d] = r THEN Nobody ELSE seen[d]]
  BY <1>3 DEF Reindexed
<1>6. /\ findings' \in Seq(Finding) /\ Len(findings') = Len(findings)
      /\ findings'[r].id = r /\ findings'[r].content = c
      /\ \A i \in 1..Len(findings) : i # r => findings'[i] = findings[i]
  <2>1. [id |-> r, content |-> c] \in Finding
    BY <1>1 DEF Finding
  <2>2. r \in DOMAIN findings
    BY <1>2, <1>3
  <2> HIDE DEF r, c
  <2> QED BY <1>2, <1>3, <1>4, <2>1, <2>2
<1>7. banked' = banked + 1 /\ banked \in Nat /\ duplicates \in Nat /\ done \in Nat
  BY <1>3 DEF BankInv, BankTypeOK
<1>8. \A i \in 1..Len(findings) : i # r => findings[i].content # c
  \* the projection gave the content to nobody but the finding replaced
  <2>1. seen[c] \in {Nobody, r}
    BY <1>1 DEF Tracks, PendingOwner, Nobody
  <2> QED BY <2>1, <1>1, <1>2 DEF BankInv, BankIsExact, Nobody
<1> HIDE DEF c, r, own
<1>9. BankTypeOK'
  <2>1. seen' \in [Contents -> Places']
    BY <1>1, <1>2, <1>3, <1>5, <1>6 DEF Places, Nobody
  <2>2. held' \in Seq(Nat)
    BY <1>1 DEF BankInv, BankTypeOK, r
  <2> QED BY <1>6, <1>7, <2>1, <2>2 DEF BankInv, BankTypeOK, Finding
<1>10. BankIsExact'
  <2>1. DOMAIN findings' = 1..Len(findings)
    BY <1>6
  <2>2. ASSUME NEW i \in 1..Len(findings)
        PROVE findings'[i].id = i /\ seen'[findings'[i].content] = i
    <3>1. CASE i = r
      BY <3>1, <1>1, <1>5, <1>6
    <3>2. CASE i # r
      <4>1. findings[i].id = i /\ seen[findings[i].content] = i /\ i \in DOMAIN findings
        BY <1>2 DEF BankInv, BankIsExact
      <4>2. findings[i] \in Finding
        BY <1>2
      <4> QED BY <3>2, <4>1, <4>2, <1>5, <1>6, <1>8 DEF Finding
    <3> QED BY <3>1, <3>2
  <2>3. ASSUME NEW d \in Contents, seen'[d] # Nobody
        PROVE findings'[seen'[d]].content = d
    <3>1. CASE d = c
      BY <3>1, <1>5, <1>6
    <3>2. CASE d # c
      <4>1. seen'[d] = seen[d] /\ seen[d] # r
        BY <2>3, <3>2, <1>5
      <4>2. seen[d] \in 1..Len(findings) /\ findings[seen[d]].content = d
        BY <2>3, <4>1, <1>2 DEF BankInv, BankIsExact, Places, Nobody
      <4> QED BY <4>1, <4>2, <1>6
    <3> QED BY <3>1, <3>2
  <2> QED BY <2>1, <2>2, <2>3 DEF BankIsExact
<1>11. Numbered'
  BY <1>2, <1>6 DEF BankInv, Numbered
<1>12. Tracks(OwnAfter(done))'
  <2>1. ASSUME NEW d \in Contents
        PROVE LET o == ProjectedOn(own, c, r)[d]
              IN o = seen'[d] \/ (o = PendingOwner /\ seen'[d] > Len(before))
    <3>1. own[d] = seen[d] \/ (own[d] = PendingOwner /\ seen[d] > Len(before))
      BY <1>1 DEF Tracks
    <3>2. seen[d] \in Nat /\ own[d] \in Int
      BY <1>1, <1>2 DEF Places, OwnerMap, Owners
    <3> QED BY <3>1, <3>2, <1>1, <1>2, <1>5 DEF ProjectedOn, PendingOwner, Nobody
  <2>2. OwnAfter(done)' = ProjectedOn(own, c, r)
    BY <1>1, BankingFrame
  <2> QED BY <2>1, <2>2 DEF Tracks
<1>13. TrueSoFar(done)'
  <2>1. /\ banked + duplicates = done /\ Len(held) = done /\ held \in Seq(Nat)
        /\ held' = Append(held, r)
    BY DEF BankInv, Banking, TrueSoFar, BankTypeOK, r
  <2>2. Len(held') = done + 1 /\ held'[done + 1] = r /\ \A j \in 1..done : held'[j] = held[j]
    BY <2>1, <1>1, <1>7
  <2>3. accepted[done + 1].content = c /\ accepted[done + 1].replaces = r
    BY DEF Current, c, r
  <2>4. ASSUME NEW j \in 1..(done + 1)
        PROVE \/ \E i \in DOMAIN findings' : findings'[i].id = held'[j] /\ findings'[i].content = accepted[j].content
              \/ \E l \in 1..(done + 1) : l > j /\ accepted[l].replaces = held'[j]
    <3>1. CASE j = done + 1
      BY <3>1, <2>2, <2>3, <1>3, <1>6
    <3>2. CASE j \in 1..done /\ held[j] = r
      BY <3>2, <2>2, <2>3, <1>7
    <3>3. CASE j \in 1..done /\ held[j] # r
      <4>1. \/ \E i \in DOMAIN findings : findings[i].id = held[j] /\ findings[i].content = accepted[j].content
            \/ \E l \in 1..done : l > j /\ accepted[l].replaces = held[j]
        BY <3>3 DEF BankInv, Banking, TrueSoFar
      <4>2. CASE \E l \in 1..done : l > j /\ accepted[l].replaces = held[j]
        BY <4>2, <3>3, <2>2, <1>7
      <4>3. CASE \E i \in DOMAIN findings : findings[i].id = held[j] /\ findings[i].content = accepted[j].content
        <5>1. PICK i \in DOMAIN findings : findings[i].id = held[j] /\ findings[i].content = accepted[j].content
          BY <4>3
        <5>2. i # r /\ i \in 1..Len(findings)
          BY <5>1, <3>3, <1>2 DEF BankInv, BankIsExact
        <5>3. i \in DOMAIN findings' /\ findings'[i] = findings[i] /\ held'[j] = held[j]
          BY <5>2, <3>3, <2>2, <1>6
        <5> QED BY <5>1, <5>3
      <4> QED BY <4>1, <4>2, <4>3
    <3>4. j = done + 1 \/ j \in 1..done
      BY <1>7
    <3> QED BY <3>1, <3>2, <3>3, <3>4, Zenon
  <2>5. ASSUME NEW i \in DOMAIN before
        PROVE \/ findings'[i] = before[i]
              \/ findings'[i].id = before[i].id /\ \E j \in 1..(done + 1) : accepted[j].replaces = before[i].id
    <3>1. \/ findings[i] = before[i]
          \/ findings[i].id = before[i].id /\ \E j \in 1..done : accepted[j].replaces = before[i].id
      BY DEF BankInv, Banking, TrueSoFar
    <3>2. i \in 1..Len(findings) /\ findings[i].id = i
      BY <1>2 DEF BankInv, BankIsExact
    <3>3. CASE i = r
      BY <3>1, <3>2, <3>3, <2>3, <1>6, <1>7
    <3>4. CASE i # r
      BY <3>1, <3>2, <3>4, <1>6, <1>7
    <3> QED BY <3>3, <3>4
  <2>6. banked' + duplicates' = done + 1
    BY <2>1, <1>7
  <2> QED BY <2>2, <2>4, <2>5, <2>6, <1>7 DEF TrueSoFar
<1> QED BY <1>9, <1>10, <1>11, <1>12, <1>13, BankingFrame DEF BankInv, Banking

\* A proposal banked under identity h, while every finding of before it stays as it is.
LEMMA TrueStep ==
  ASSUME BankInv, phase = "banking", done < Len(accepted), done' = done + 1,
         UNCHANGED <<accepted, before>>,
         NEW h \in Nat, held' = Append(held, h),
         banked' + duplicates' = banked + duplicates + 1,
         \A i \in DOMAIN findings : i \in DOMAIN findings' /\ findings'[i] = findings[i],
         \E i \in DOMAIN findings' : findings'[i].id = h /\ findings'[i].content = Current.content
  PROVE TrueSoFar(done)'
<1>1. /\ banked + duplicates = done /\ Len(held) = done /\ held \in Seq(Nat) /\ done \in Nat
      /\ before \in Seq(Finding) /\ findings \in Seq(Finding) /\ Len(before) <= Len(findings)
  BY DEF BankInv, Banking, TrueSoFar, BankTypeOK, Numbered, Finding
<1>2. Len(held') = done + 1 /\ held'[done + 1] = h /\ \A j \in 1..done : held'[j] = held[j]
  BY <1>1
<1>3. ASSUME NEW j \in 1..(done + 1)
      PROVE \/ \E i \in DOMAIN findings' : findings'[i].id = held'[j] /\ findings'[i].content = accepted[j].content
            \/ \E l \in 1..(done + 1) : l > j /\ accepted[l].replaces = held'[j]
  <2>1. CASE j = done + 1
    BY <2>1, <1>2 DEF Current
  <2>2. CASE j \in 1..done
    <3>1. \/ \E i \in DOMAIN findings : findings[i].id = held[j] /\ findings[i].content = accepted[j].content
          \/ \E l \in 1..done : l > j /\ accepted[l].replaces = held[j]
      BY <2>2 DEF BankInv, Banking, TrueSoFar
    <3>2. held'[j] = held[j] /\ \A l \in 1..done : l \in 1..(done + 1)
      BY <2>2, <1>1, <1>2
    <3> QED BY <3>1, <3>2
  <2>3. j = done + 1 \/ j \in 1..done
    BY <1>1
  <2> QED BY <2>1, <2>2, <2>3, Zenon
<1>4. ASSUME NEW i \in DOMAIN before
      PROVE \/ findings'[i] = before[i]
            \/ findings'[i].id = before[i].id /\ \E j \in 1..(done + 1) : accepted[j].replaces = before[i].id
  <2>1. \/ findings[i] = before[i]
        \/ findings[i].id = before[i].id /\ \E j \in 1..done : accepted[j].replaces = before[i].id
    BY DEF BankInv, Banking, TrueSoFar
  <2>2. i \in DOMAIN findings
    BY <1>1
  <2> QED BY <2>1, <2>2, <1>1
<1>5. banked' + duplicates' = done + 1
  BY <1>1
<1> QED BY <1>2, <1>3, <1>4, <1>5 DEF TrueSoFar

LEMMA SkipDuplicateStep ==
  ASSUME BankInv, SkipDuplicate
  PROVE BankInv'
<1> DEFINE c == Current.content
           own == Current.owned
<1> USE DEF SkipDuplicate
<1>1. /\ c \in Contents /\ own \in OwnerMap /\ Current.replaces = Nobody
      /\ Tracks(own)
      /\ OwnAfter(done + 1) = ProjectedOn(own, c, Nobody)
  BY Currently
<1>2. /\ seen[c] \in DOMAIN findings /\ findings[seen[c]].content = c /\ findings[seen[c]].id = seen[c]
      /\ seen[c] \in Nat
  <2>1. seen[c] \in 1..Len(findings) /\ DOMAIN findings = 1..Len(findings)
    BY <1>1 DEF BankInv, BankTypeOK, Places, Nobody
  <2> QED BY <2>1, <1>1 DEF BankInv, BankIsExact
<1>3. held' = Append(held, seen[c])
  BY <1>2
<1>4. banked \in Nat /\ duplicates \in Nat /\ done \in Nat
  BY DEF BankInv, BankTypeOK
<1>5. BankTypeOK'
  <2>1. held' \in Seq(Nat)
    BY <1>2, <1>3 DEF BankInv, BankTypeOK
  <2> QED BY <2>1, <1>4 DEF BankInv, BankTypeOK, Places
<1>6. BankIsExact' /\ Numbered'
  BY DEF BankInv, BankIsExact, Numbered
<1>7. Tracks(OwnAfter(done))'
  <2>1. ProjectedOn(own, c, Nobody) = own
    <3>1. own[c] # Nobody
      BY <1>1, <1>2 DEF Tracks, PendingOwner, Nobody
    <3> QED BY <1>1, <3>1 DEF ProjectedOn, OwnerMap
  <2>2. OwnAfter(done)' = own
    BY <2>1, <1>1, BankingFrame
  <2> QED BY <2>2, <1>1 DEF Tracks
<1>8. TrueSoFar(done)'
  BY <1>2, <1>3, <1>4, TrueStep
<1> QED BY <1>5, <1>6, <1>7, <1>8, BankingFrame DEF BankInv, Banking

LEMMA BankNewStep ==
  ASSUME BankInv, BankNew
  PROVE BankInv'
<1> DEFINE c == Current.content
           own == Current.owned
           n == Len(findings)
           new == [id |-> next, content |-> c]
<1> USE DEF BankNew
<1>1. /\ c \in Contents /\ own \in OwnerMap /\ Current.replaces = Nobody
      /\ Tracks(own)
      /\ OwnAfter(done + 1) = ProjectedOn(own, c, Nobody)
  BY Currently
<1>2. /\ findings \in Seq(Finding) /\ n \in Nat /\ before \in Seq(Finding) /\ Len(before) \in Nat
      /\ next = n + 1 /\ Len(before) <= n
      /\ seen \in [Contents -> Places] /\ new \in Finding
  BY <1>1 DEF BankInv, BankTypeOK, Numbered, Finding
<1>3. findings' = Append(findings, new)
  OBVIOUS
<1>4. /\ findings' \in Seq(Finding) /\ Len(findings') = n + 1 /\ findings'[n + 1] = new
      /\ \A i \in 1..n : findings'[i] = findings[i]
  BY <1>2, <1>3
<1>5. seen' = [seen EXCEPT ![c] = n + 1]
  BY DEF NewPlace
<1>6. banked \in Nat /\ duplicates \in Nat /\ done \in Nat
  BY DEF BankInv, BankTypeOK
<1>7. \A i \in 1..n : findings[i].content # c
  BY <1>2 DEF BankInv, BankIsExact, Nobody
<1>8. BankTypeOK'
  <2>1. seen' \in [Contents -> Places']
    BY <1>1, <1>2, <1>4, <1>5 DEF Places
  <2>2. held' \in Seq(Nat)
    BY <1>2 DEF BankInv, BankTypeOK
  <2> QED BY <1>2, <1>4, <1>6, <2>1, <2>2 DEF BankInv, BankTypeOK, Finding
<1> HIDE DEF c, own
<1>9. BankIsExact'
  <2>1. ASSUME NEW i \in 1..(n + 1)
        PROVE findings'[i].id = i /\ seen'[findings'[i].content] = i
    <3>1. CASE i = n + 1
      BY <3>1, <1>1, <1>2, <1>4, <1>5
    <3>2. CASE i \in 1..n
      <4>1. findings[i] \in Finding /\ findings[i].id = i /\ seen[findings[i].content] = i
        BY <3>2, <1>2 DEF BankInv, BankIsExact
      <4> QED BY <3>2, <4>1, <1>2, <1>4, <1>5, <1>7 DEF Finding
    <3> QED BY <3>1, <3>2, <1>2
  <2>2. ASSUME NEW d \in Contents, seen'[d] # Nobody
        PROVE findings'[seen'[d]].content = d
    <3>1. CASE d = c
      BY <3>1, <1>1, <1>2, <1>4, <1>5
    <3>2. CASE d # c
      <4>1. seen'[d] = seen[d]
        BY <3>2, <1>2, <1>5
      <4>2. seen[d] \in 1..n /\ findings[seen[d]].content = d
        BY <2>2, <4>1, <1>2 DEF BankInv, BankIsExact, Places, Nobody
      <4> QED BY <4>1, <4>2, <1>4
    <3> QED BY <3>1, <3>2
  <2>3. DOMAIN findings' = 1..(n + 1)
    BY <1>2, <1>4
  <2> HIDE DEF new, n
  <2> QED BY <2>1, <2>2, <2>3 DEF BankIsExact
<1>10. Numbered'
  BY <1>2, <1>4 DEF Numbered
<1>11. Tracks(OwnAfter(done))'
  <2>1. ASSUME NEW d \in Contents
        PROVE LET o == ProjectedOn(own, c, Nobody)[d]
              IN o = seen'[d] \/ (o = PendingOwner /\ seen'[d] > Len(before))
    <3>1. own[d] = seen[d] \/ (own[d] = PendingOwner /\ seen[d] > Len(before))
      BY <1>1 DEF Tracks
    <3>2. seen[c] = Nobody
      BY DEF c
    <3>3. CASE d = c
      BY <3>1, <3>2, <3>3, <1>1, <1>2, <1>5 DEF ProjectedOn, OwnerMap, Nobody
    <3>4. CASE d # c
      BY <3>1, <3>4, <1>1, <1>2, <1>5 DEF ProjectedOn, OwnerMap, Nobody
    <3> QED BY <3>3, <3>4
  <2>2. OwnAfter(done)' = ProjectedOn(own, c, Nobody)
    BY <1>1, BankingFrame
  <2> QED BY <2>1, <2>2 DEF Tracks
<1>12. TrueSoFar(done)'
  <2>1. next \in Nat /\ held' = Append(held, next) /\ banked' + duplicates' = banked + duplicates + 1
    BY <1>2, <1>6
  <2>2. \A i \in DOMAIN findings : i \in DOMAIN findings' /\ findings'[i] = findings[i]
    BY <1>2, <1>4
  <2>3. n + 1 \in DOMAIN findings' /\ findings'[n + 1].id = next /\ findings'[n + 1].content = Current.content
    BY <1>2, <1>4 DEF c
  <2> QED BY <2>1, <2>2, <2>3, TrueStep
<1> QED BY <1>8, <1>9, <1>10, <1>11, <1>12, BankingFrame DEF BankInv, Banking

LEMMA AnswerStep ==
  ASSUME BankInv, Answer
  PROVE BankInv'
<1> USE DEF Answer
<1>1. BankTypeOK' /\ BankIsExact' /\ Numbered'
  BY DEF BankInv, BankTypeOK, BankIsExact, Numbered, Places
<1>2. TrueSoFar(Len(accepted)) /\ accepted \in Seq(Proposal)
  BY DEF BankInv, Banking, BankTypeOK, Proposal
<1>3. AnswerIsTrue'
  BY <1>2 DEF AnswerIsTrue, TrueSoFar
<1> QED BY <1>1, <1>3 DEF BankInv, Validating, Banking

LEMMA EndCallStep ==
  ASSUME BankInv, EndCall
  PROVE BankInv'
<1> USE DEF EndCall
<1>1. BankTypeOK' /\ BankIsExact' /\ Numbered'
  BY DEF BankInv, BankTypeOK, BankIsExact, Numbered, Places
<1> QED BY <1>1 DEF BankInv, Validating, Banking, AnswerIsTrue

LEMMA BankInvStutters ==
  ASSUME BankInv, UNCHANGED bankVars
  PROVE BankInv'
<1> USE DEF bankVars
<1>1. BankTypeOK' /\ BankIsExact' /\ Numbered'
  BY DEF BankInv, BankTypeOK, BankIsExact, Numbered, Places
<1>2. Validating' /\ Banking' /\ AnswerIsTrue'
  BY DEF BankInv, Validating, Banking, AnswerIsTrue, Chained, Tracks, OwnAfter, TrueSoFar
<1> QED BY <1>1, <1>2 DEF BankInv

LEMMA BankInvHolds == BankSpec => []BankInv
<1>1. BankInit => BankInv
  BY BankInvInit
<1>2. BankInv /\ [BankNext]_bankVars => BankInv'
  BY BeginCallStep, AcceptStep, EndValidationStep, BankReplacementStep, SkipDuplicateStep,
     BankNewStep, AnswerStep, EndCallStep, BankInvStutters DEF BankNext
<1> QED BY <1>1, <1>2, PTL DEF BankSpec

\* The bank's variables have their types whatever is proposed.
THEOREM BankTypesHold == BankSpec => []BankTypeOK
<1>1. BankInv => BankTypeOK
  BY DEF BankInv
<1> QED BY <1>1, BankInvHolds, PTL

\* No sequence of calls, of any length and with any proposals, makes the bank say a thing
\* twice or its index point elsewhere: what _project_finding_identity admits is enough.
THEOREM TheBankIsExact == BankSpec => []BankIsExact
<1>1. BankInv => BankIsExact
  BY DEF BankInv
<1> QED BY <1>1, BankInvHolds, PTL

\* Whatever a call proposes, its answer counts every accepted proposal, nothing accepted is
\* lost but to a later revision, and nothing else of the bank changes.
THEOREM AnswersAreTrue == BankSpec => []AnswerIsTrue
<1>1. BankInv => AnswerIsTrue
  BY DEF BankInv
<1> QED BY <1>1, BankInvHolds, PTL
=============================================================================
