----------------------------- MODULE AgenticLoop -----------------------------
(***************************************************************************)
(* research/agentic: the gap-fill v2 loop.  A driver model answers turn by *)
(* turn with a batch of tool calls; admission applies the plan gate and    *)
(* the call budget, the handlers of a batch run concurrently, and          *)
(* `conclude` passes a gate that demands research before it lets the       *)
(* driver go.  Wall clock, calls and turns are all bounded.                *)
(*                                                                         *)
(* The driver is any model: it may call any tool in any turn, offered or   *)
(* not, in any order.  The handlers of the internal tools await nothing:   *)
(* gather starts the calls of a batch in order, so they run in that order  *)
(* before any external call ends.                                          *)
(***************************************************************************)
EXTENDS Naturals, Sequences, FiniteSets

CONSTANTS
    MaxSteps,            \* LoopConfig.max_steps
    MaxToolCalls,        \* max_tool_calls
    MaxGaps,             \* max_gaps
    MaxPlanNudges,       \* max_plan_nudges
    MaxGateRejections,   \* max_conclude_gate_rejections
    FetchFloor,          \* _FETCH_FLOOR_MIN_CALLS
    WallDeadline,        \* wall_deadline_s
    ConcludeThreshold,   \* conclude_threshold_s
    Pages,               \* the primary sources that can be fetched
    Plans,               \* the numbers of valid gaps a plan may propose
    MaxBatch             \* bound: the calls of one turn

ASSUME LoopAssumption ==
    /\ {MaxSteps, MaxPlanNudges, MaxGaps, FetchFloor} \subseteq Nat \ {0}
    /\ {MaxToolCalls, MaxGateRejections, MaxBatch} \subseteq Nat
    /\ WallDeadline \in Nat /\ ConcludeThreshold \in Nat
    /\ Plans \subseteq Nat

VARIABLES
    pc,            \* where the loop stands
    clock,         \* since the loop started
    steps,         \* telemetry.steps
    toolCalls,     \* telemetry.tool_calls
    external,      \* _external_tool_call_count
    gaps,          \* the gaps of research_plan, 0 without one
    planNudges, planSkipped,
    rejections,    \* telemetry.conclude_gate_rejections
    fetched,       \* the pages whose url_best_tier is "fetched"
    nudged,        \* nudged_for_no_action
    stop,          \* stop_loop
    explicit,      \* explicit_conclude
    told,          \* the last turn offered the internal tools only
    batch,         \* the calls of this turn and how far they are
    deadlineHit, failed   \* telemetry.deadline_hit, telemetry.error

clocks == <<clock, steps, toolCalls>>
plan == <<gaps, planNudges, planSkipped>>
ends == <<deadlineHit, failed>>
vars == <<pc, clocks, external, plan, rejections, fetched, nudged, stop, explicit, told, batch, ends>>

-----------------------------------------------------------------------------
(* Tool calls *)

Internal == {"set_research_plan", "record_findings", "conclude"}
Calls ==
    [tool : {"set_research_plan"}, gaps : Plans]
    \cup [tool : {"record_findings", "search"}]
    \cup [tool : {"conclude"}, accounts : {"partial", "full", "citing"}]
    \cup [tool : {"fetch"}, page : Pages]

IsExternal(call) == call.tool \notin Internal

Empty == [calls |-> <<>>, admitted |-> {}, gated |-> FALSE, at |-> 1, ended |-> {}, reached |-> {}]
Pending == {i \in batch.admitted : IsExternal(batch.calls[i])} \ batch.ended
Handled == batch.at > Len(batch.calls)

Init ==
    /\ pc = "turn"
    /\ clock = 0 /\ steps = 0 /\ toolCalls = 0
    /\ external = 0
    /\ gaps = 0 /\ planNudges = 0 /\ planSkipped = FALSE
    /\ rejections = 0
    /\ fetched = {}
    /\ nudged = FALSE /\ stop = FALSE /\ explicit = FALSE /\ told = FALSE
    /\ batch = Empty
    /\ deadlineHit = FALSE /\ failed = FALSE

-----------------------------------------------------------------------------
(* Turns *)

\* A broken step budget: the last turn is like any other.
StepsRunOut == steps >= MaxSteps
\* The step budget leaves the concluding turn only.
LastTurn == steps >= MaxSteps - 1

\* _must_conclude
MustConclude ==
    \/ WallDeadline - clock < ConcludeThreshold
    \/ toolCalls >= MaxToolCalls
    \/ LastTurn

StartTurn ==
    /\ pc = "turn" /\ ~stop /\ steps < MaxSteps
    /\ told' = MustConclude
    /\ pc' = "calling"
    /\ UNCHANGED <<clocks, external, plan, rejections, fetched, nudged, stop, explicit, batch, ends>>

\* No tool call: one nudge, then the loop stops.
AnswersIdly ==
    /\ pc = "calling"
    /\ steps' = steps + 1
    /\ stop' = nudged
    /\ nudged' = TRUE
    /\ pc' = "turn"
    /\ UNCHANGED <<clock, toolCalls, external, plan, rejections, fetched, explicit, told, batch, ends>>

PlanGateActive == gaps = 0 /\ ~planSkipped

\* A broken clamp: the budget is checked once for the batch.
FitsBefore(i) == toolCalls < MaxToolCalls
\* Every call before the i-th was admitted, unless the budget is spent by then.
Fits(i) == toolCalls + i - 1 < MaxToolCalls

\* _admit_tool_calls: the plan gate is read once for the batch, before any
\* set_research_plan of the same batch ran.
Admitted(calls) ==
    {i \in DOMAIN calls : IsExternal(calls[i]) => ~PlanGateActive /\ Fits(i)}

AnswersWith(calls) ==
    LET admitted == Admitted(calls)
        charged == {i \in admitted : IsExternal(calls[i])}
        gated == PlanGateActive /\ \E i \in DOMAIN calls : IsExternal(calls[i])
    IN
    /\ pc = "calling"
    /\ calls # <<>>
    /\ steps' = steps + 1
    /\ toolCalls' = toolCalls + Cardinality(admitted)
    /\ external' = external + Cardinality(charged)
    /\ planNudges' = IF gated THEN planNudges + 1 ELSE planNudges
    /\ planSkipped' = (planSkipped \/ (gated /\ planNudges + 1 >= MaxPlanNudges))
    /\ batch' = [Empty EXCEPT !.calls = calls, !.admitted = admitted, !.gated = gated]
    /\ pc' = "batch"
    /\ UNCHANGED <<clock, gaps, rejections, fetched, nudged, stop, explicit, told, ends>>

-----------------------------------------------------------------------------
(* The handlers of a batch *)

\* The next call of the batch, if its handler runs at all.
Runs(tool) ==
    /\ pc = "batch" /\ ~Handled
    /\ batch.at \in batch.admitted
    /\ batch.calls[batch.at].tool = tool
    /\ batch' = [batch EXCEPT !.at = @ + 1]

\* Refused by a gate, or an external call that goes on in the background.
PassesOver ==
    /\ pc = "batch" /\ ~Handled
    /\ batch.at \notin batch.admitted \/ IsExternal(batch.calls[batch.at])
    /\ batch' = [batch EXCEPT !.at = @ + 1]
    /\ UNCHANGED <<pc, clocks, external, plan, rejections, fetched, nudged, stop, explicit, told, ends>>

\* A broken plan tool: an empty plan is stored like any other.
Stored(n) == TRUE
\* _coerce_planned_gaps found a valid gap.
IsPlan(n) == n > 0

\* _set_research_plan_tool: the tail beyond MaxGaps is dropped.
SetsPlan ==
    LET n == batch.calls[batch.at].gaps IN
    /\ Runs("set_research_plan")
    /\ gaps' = IF IsPlan(n) THEN IF n > MaxGaps THEN MaxGaps ELSE n ELSE gaps
    /\ UNCHANGED <<pc, clocks, external, planNudges, planSkipped, rejections, fetched, nudged, stop, explicit, told, ends>>

Records ==
    /\ Runs("record_findings")
    /\ UNCHANGED <<pc, clocks, external, plan, rejections, fetched, nudged, stop, explicit, told, ends>>

\* _conclude_gate_debts: each gap accounted for, a call for each gap, and the
\* fetch floor; a citing account names a fetch for the two top gaps.
NoDebts(call) ==
    /\ call.accounts # "partial"
    /\ external >= gaps
    /\ \/ call.accounts = "citing" /\ fetched # {}
       \/ Cardinality(fetched) >= FetchFloor

\* A broken cap: one rejection too many.
RejectionsBeyond == rejections <= MaxGateRejections
RejectionsLeft == rejections < MaxGateRejections

\* A broken gate: a driver that skipped the plan once is never asked again.
SkippersPass(call) == planSkipped \/ (gaps > 0 /\ NoDebts(call))
\* What lets an early conclusion through: no debts under a plan, or the plan gate's
\* own soft-continue without one.
Satisfied(call) == IF gaps > 0 THEN NoDebts(call) ELSE planSkipped

\* _evaluate_conclude_gate and _conclude_tool
Concludes ==
    LET call == batch.calls[batch.at] IN
    /\ Runs("conclude")
    /\ IF MustConclude \/ ~RejectionsLeft \/ Satisfied(call)
       THEN explicit' = TRUE /\ stop' = TRUE /\ UNCHANGED rejections
       ELSE rejections' = rejections + 1 /\ UNCHANGED <<explicit, stop>>
    /\ UNCHANGED <<pc, clocks, external, plan, fetched, nudged, told, ends>>

\* An external call ends: a fetch reached its page, or the call failed, timed out
\* or was no fetch.
ExternalEnds(i) ==
    /\ pc = "batch" /\ Handled /\ i \in Pending
    /\ LET call == batch.calls[i]
           pages == IF call.tool = "fetch" THEN {call.page} ELSE {}
       IN \E reached \in {{}, pages} :
             batch' = [batch EXCEPT !.ended = @ \cup {i}, !.reached = @ \cup reached]
    /\ UNCHANGED <<pc, clocks, external, plan, rejections, fetched, nudged, stop, explicit, told, ends>>

\* _absorb_tool_results and _append_tool_messages
BatchEnds ==
    /\ pc = "batch" /\ Handled /\ Pending = {}
    /\ fetched' = fetched \cup batch.reached
    /\ batch' = Empty
    /\ pc' = "turn"
    /\ UNCHANGED <<clocks, external, plan, rejections, nudged, stop, explicit, told, ends>>

-----------------------------------------------------------------------------
(* The ends of the loop *)

LeavesLoop ==
    /\ pc = "turn" /\ (stop \/ steps >= MaxSteps)
    /\ pc' = IF explicit THEN "ghost" ELSE "done"
    /\ UNCHANGED <<clocks, external, plan, rejections, fetched, nudged, stop, explicit, told, batch, ends>>

\* _complete_ghost never raises.
GhostEnds ==
    /\ pc = "ghost"
    /\ pc' = "done"
    /\ UNCHANGED <<clocks, external, plan, rejections, fetched, nudged, stop, explicit, told, batch, ends>>

\* The driver's call or the folding of a batch raises; a timeout at the deadline
\* is taken for the deadline.
Raises ==
    /\ pc = "calling" \/ (pc = "batch" /\ Handled /\ Pending = {})
    /\ \E timeout \in BOOLEAN :
          /\ deadlineHit' = (timeout /\ clock >= WallDeadline)
          /\ failed' = ~deadlineHit'
    /\ pc' = "done"
    /\ batch' = Empty
    /\ UNCHANGED <<clocks, external, plan, rejections, fetched, nudged, stop, explicit, told>>

\* What the loop awaits, and so where time passes and a deadline can strike.
Awaiting == pc \in {"calling", "ghost"} \/ (pc = "batch" /\ Handled /\ Pending # {})

\* A broken deadline: it covers the driver's answers only.
AwaitingDriver == pc \in {"calling", "ghost"}
\* The outer wait_for covers whatever the loop awaits.
Covered == Awaiting

Tick ==
    /\ Awaiting
    /\ clock < WallDeadline
    /\ clock' = clock + 1
    /\ UNCHANGED <<pc, steps, toolCalls, external, plan, rejections, fetched, nudged, stop, explicit, told, batch, ends>>

\* The outer wait_for: the batch is cancelled and its results are dropped; what its
\* internal calls did stays.
DeadlineHits ==
    /\ Covered
    /\ clock = WallDeadline
    /\ deadlineHit' = TRUE
    /\ pc' = "done"
    /\ batch' = Empty
    /\ UNCHANGED <<clocks, external, plan, rejections, fetched, nudged, stop, explicit, told, failed>>

Batches == UNION {[1..n -> Calls] : n \in 1..MaxBatch}

Done == pc = "done" /\ UNCHANGED vars

Next ==
    \/ StartTurn \/ AnswersIdly \/ \E calls \in Batches : AnswersWith(calls)
    \/ PassesOver \/ SetsPlan \/ Records \/ Concludes
    \/ \E i \in 1..MaxBatch : ExternalEnds(i)
    \/ BatchEnds \/ LeavesLoop \/ GhostEnds \/ Raises
    \/ Tick \/ DeadlineHits \/ Done

\* The loop runs and time passes; the driver and the tools may never answer.
Fairness ==
    /\ WF_vars(StartTurn) /\ WF_vars(LeavesLoop)
    /\ WF_vars(PassesOver \/ SetsPlan \/ Records \/ Concludes) /\ WF_vars(BatchEnds \/ Raises)
    /\ WF_vars(Tick) /\ WF_vars(DeadlineHits)

Spec == Init /\ [][Next]_vars /\ Fairness

-----------------------------------------------------------------------------
(* Properties *)

\* The types, and the caps of the two gates: neither is ever exceeded, so neither
\* can wedge the loop.
TypeOK ==
    /\ pc \in {"turn", "calling", "batch", "ghost", "done"}
    /\ clock \in 0..WallDeadline /\ steps \in 0..MaxSteps /\ toolCalls \in Nat
    /\ external \in 0..toolCalls
    /\ gaps \in 0..MaxGaps
    /\ planNudges \in 0..MaxPlanNudges
    /\ planSkipped \in BOOLEAN /\ (planSkipped <=> planNudges = MaxPlanNudges)
    /\ rejections \in 0..MaxGateRejections
    /\ fetched \subseteq Pages /\ batch.reached \subseteq Pages
    /\ nudged \in BOOLEAN /\ stop \in BOOLEAN /\ explicit \in BOOLEAN /\ told \in BOOLEAN
    /\ deadlineHit \in BOOLEAN /\ failed \in BOOLEAN
    /\ ~(deadlineHit /\ failed)

\* No research without a plan: an external call runs only once a plan with a gap
\* is stored or the driver wore out its nudges, and a plan once stored stays.
ResearchIsPlanned == external > 0 => gaps > 0 \/ planSkipped

\* However many calls a turn emits in parallel, no more external ones run than
\* the budget has.
ExternalCallsBounded == external <= MaxToolCalls

\* A driver that concludes before a budget forces it to, and before it wore out
\* the gate, reached a primary source and made a call for each gap of its plan,
\* or was let go without any plan.
EarlyConclusionsAreEarned ==
    [][~explicit /\ explicit' /\ ~MustConclude /\ rejections < MaxGateRejections =>
          IF gaps > 0 THEN fetched # {} /\ external >= gaps ELSE planSkipped]_vars

\* A driver that runs out of turns was offered the internal tools only in the
\* last one: it is never cut off in mid-research.
NeverCutOffUnwarned ==
    pc = "done" /\ ~stop /\ ~deadlineHit /\ ~failed => told

\* The loop ends, though the driver or a tool never answers.
AlwaysEnds == <>(pc = "done")
=============================================================================
