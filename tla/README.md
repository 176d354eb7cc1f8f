# A verification project for the Metaculus bot

The program is a forecasting bot. On a schedule it takes the open questions of a
tournament, researches each one, asks several language models for a prediction,
aggregates the predictions and posts one forecast and one comment per question.
Almost all of it runs on one asyncio event loop, with worker threads where a
library blocks. What is hard about it is not the arithmetic but the time, the
shared resources and the accounting: a question has a close time, calls hang and
are cancelled, caches and semaphores are shared by the questions of a batch, and
the exit status of a run is computed from counters that many handlers bump.

This directory holds TLA+ models of those parts, TLC configurations that check
them on small instances, and proofs that hold for every instance. Paths below are
relative to `src/metaculus_bot/` unless they say otherwise. `PROJECT.json` maps
each definition to the lines it models.

    tlasany M.tla                            parse a module
    tlc -workers 2 -config X.cfg M           model-check it
    tlapm M.tla                              check its proofs

---

## 1. Inventory

### 1.1 Components

| component | state it keeps | operations | module |
|---|---|---|---|
| Question run: `forecaster.py`, `time_budget.py`, `stacking_route.py`, `research/orchestrator.py`, `research/provider_fanout.py`, `research/gap_fill_stages.py`, `publish_gate.py` | a budget per question, the research semaphore, the member tasks and the drops list, three run counters | grant, research, fan out, gather, guard, route, stack, gate | `ForecastRun` |
| Publish path: `publish_hardening.py`, `run_status.py` | a four-worker thread pool, futures, a locked failure counter, run-status counts | gate, submit, wait, cancel, retry, count | `PublishHardening`, `PublishPromise` |
| Digest memo: `research/fetch_ladder/run_cache.py` | in-flight tasks, waiter counts, completed digests | join, start, leave, done callback, evict, clear | `DigestMemo` |
| Artifact cache: `research/fetch_ladder/run_cache.py` | two ordered maps over the same entries | put, get, look up, evict, clear | `ArtifactCache` |
| Parser gate: `research/http_fetch.py`, `research/fetch_ladder/classify.py`, `research/fetch_ladder/run_cache.py`, `research/agentic/tools.py`, `research/agentic/image_tools.py` | a two-slot semaphore and parser threads | acquire, parse, time out, cancel, hand over | `ParserGate` |
| Agentic gap-fill loop: `research/agentic/` | the plan, the budgets, the batch in flight, the gates' counters | a turn, admission, the tools, conclude, the deadline | `AgenticLoop` |
| LLM calls and exit ladder: `llm_retry.py`, `fallback_openrouter.py`, `credit_telemetry.py`, `degradation_counters.py`, `cli.py` | retry state per call, the probe's lock and verdict, counters | call, fail over, probe, retry, report | `LlmCalls` |
| Findings bank: `research/agentic/gates.py`, `research/agentic/loop.py` | the findings, an index from what they say to where they stand, the next identity | validate a call, bank, replace, answer | `FindingsBank` |
| Fetch ladder and browser: `research/fetch_ladder/`, `research/rendered_fetch.py`, `research/derived_api.py`, `research/http_fetch.py` | a wall per question, three nested gates, two memos | direct fetch, escalate, feed, render, tear down | `FetchEscalation` |
| Aggregation and stacking: `stacking_route.py`, `aggregation_pipeline.py`, `stacking.py` | five maps by question, the counters of the run | route, stack, fall back, combine, comment | `Aggregation` |
| Numeric pipeline `numeric/`, calculators `probabilistic_tools/` | none | percentiles to a CDF, simulations | not modelled: real arithmetic |
| Research providers, `research/known_api/`, `research/market_retrieval/` | little | one external query each, ranking, rendering | not modelled: I/O and data transformation |
| Prompts, schemas, value extraction, comment formatting | none | text in, text out | not modelled |
| Platform clients, start-up patches, persistence, raw logs | files no step of the run reads back | adapters | not modelled |
| Ablation, backtest, benchmark, calibration, performance analysis, `scripts/`, workflows | files | batch programs over stored results | not modelled |

### 1.2 How they interact

```
cli.main ── forecast_questions ──> one coroutine per question            ForecastRun
   │            │ research semaphore (orchestrator)
   │            ├─ providers, gap-fill ──> agentic loop                  AgenticLoop
   │            │                             ├─ findings bank           FindingsBank
   │            │                             └─ fetch ladder            FetchEscalation
   │            │                                  ├─ artifact cache     ArtifactCache
   │            │                                  ├─ parser gate        ParserGate
   │            │                                  └─ digest memo        DigestMemo
   │            ├─ member forecasts, stacker ──> LLM calls               LlmCalls
   │            ├─ routing, stacker ladder, combine, comment             Aggregation
   │            └─ publish gate ──> thread ──> POST pool                 PublishHardening
   └─ exit ladder, reading every counter                                 LlmCalls
```

The components meet at narrow interfaces, and each model keeps the other side as
a nondeterministic choice: for `ForecastRun`, research is a phase that ends at any
time up to its deadline; for `AgenticLoop`, a fetch reaches its page or fails; for
`LlmCalls`, the publish counts are a number the ladder finds; for `Aggregation`,
a stacker answers or fails, and the budget is spent or not. None assumes more of
its neighbour than the neighbour's code gives it.

### 1.3 What is hard, and the property that watches it

- **Time is granted once and spent by many.** The budget is cut at intake and
  spent by a queue, three research phases, a fan-out and a ladder of stackers:
  `ForecastShareProtected`, `CloseLimitedKeepsReserve`.
- **Work cannot always be cancelled.** A running POST, a parser thread and a probe
  outlive the caller that gave up on them: `ImplementsPromise`, `SlotsConserved`,
  `ParsesBounded` (which fails, section 5), `OnlyAbandonedExceed`, `KeyProbedOnce`.
- **Shared work is cancelled by several hands.** Readers share a digest, and leave
  it one by one: `OneDigestAtATime`, `NoOrphanDigest`.
- **State read before an await is used after it.** `get` presents an artifact off
  the loop and returns to a cache that has moved on: `FoundIsHeld`, `HeldIsFound`.
- **A model drives the program.** The agentic driver may emit any call in any turn:
  `ResearchIsPlanned`, `ExternalCallsBounded`, `EarlyConclusionsAreEarned`.
- **Counters become an exit status.** A drop counted twice, a lost increment or a
  subset subtracted by mistake turns a red run green: `EachDropCountedOnce`,
  `ForfeitsAreCounted`, `ExhaustedCallsCounted`, `GreenIsHonest`.
- **Gates are nested and held for long.** A render holds its question's gate and its
  host's while it queues for the launch cap, and is cut at any of these places:
  `NoCircularWait`, `PoliteAndCapped`, `FeedBeforeBrowser`, `TokensAreHonest`.
- **A check is made before what it checks happens.** The findings of a call are judged
  on a projection of what banking them will do: `BankIsExact`, `AnswerIsTrue`.
- **What is published must say how it was made.** The stages between the forecasts and
  the comment talk through maps that one leaves and another pops, and the stacker's
  value comes back through the door of a lone survivor's: `RecordsAreTrue`,
  `ProcessedOnce`, `OnlyLoneBinaryIsRaw` (which fails, section 5), `CountersAddUp`.
- **Everything must end**, with any external party silent for ever:
  `EveryQuestionSettles`, `EveryPublishReturns`, `AlwaysEnds`, `EveryCallEnds`,
  `WaitersAreServed`.

`PROJECT.json` lists each hazard at its line with the properties aimed at it, and
one that no property covers, with the reason.

---

## 2. The modules and the code

Conventions shared by all of them. An action is a stretch of code between two
awaits, or, where threads share memory, between two accesses to it. Time is a
counter of ticks and a timer fires at its deadline: `Tick` is disabled while
anything is due. A definition that precedes another of the same shape and whose
comment begins "A broken ..." is a plausible bug of that code; no specification
uses it, and substituting it must break a property.

### ForecastRun

`phase[q]` is the program counter of the coroutine of question `q`:

    batched -> waiting -> providers -> gap_fill -> fan_out -> gathered
            -> (crux -> search ->) primary -> fallback -> ready -> posted

with the exits `skipped_intake` (budget exhausted at intake), `failed` (too few
valid forecasts) and `skipped_gate` (closed at the gate). `Grant` is the head of
`_research_and_make_predictions`; `AcquireSlot` takes the orchestrator's
semaphore; `ProvidersEnd` and `GapFillEnds` re-read
`time_budget.research_phase_deadline_s`; `MemberEnds`, `MemberTimesOut` and
`GatherReturns` are the fan-out with its two timers and its two places that record
a drop; `RouteAfterForecasts` and the actions after it are `stacking_route.py` as
far as it spends time; `PublishGate` is `publish_gate.py`. The batch order comes
from `forecast_questions`: `TightestFirst` is its sort. Below the tick: the 2 s
grace after a cancellation, and every stretch that awaits nothing.

### PublishHardening and PublishPromise

`PublishHardening` has one publish thread per question (`pc`, `kind`, `attempt`),
a job per attempt, the pool's `queue`, and the two timers that start at different
moments: `waited`, the caller's, from submit, and `age`, the socket's, from the
request. `CallTimesOut` distinguishes a queued future, which cancel withdraws, from
a running one, which it leaves alone. `ReadCounter` and `WriteCounter` are the two
halves of `+=`. `PublishPromise` is what the path promises: at-least-once
delivery, the comment after a landed forecast, a bounded number of deliveries, and
no verdict without a delivery. `ImplementsPromise` checks the refinement, with
`VerdictOf` as the mapping.

### DigestMemo

`memoized_digest` for one key: callers join the registered task or start one; the
`finally` of `LeaveCall` counts out and cancels on the last; `DoneCallback` is
`_finish_memoized_digest`; `Evict` is the bound of the cache and `ClearMemo` is
`clear()`. `ahead` keeps asyncio's first-in-first-out ready queue where it matters.

### ArtifactCache

`cache` is `_CACHE`, `entries` and `older` are `_ENTRIES` and its order (for each
entry, the entries used less recently), `aliases` and `size` belong to the entry.
`Put`, `Touch`, `Evicted` and `Forgetting` are `put`, `move_to_end`,
`_evict_to_bounds` and the loop that unlinks aliases. `Bytes` is the sum of the sizes,
as the number of bytes held. A reader is in `get`: it
starts presenting, and returns through `Presented`, `Rejected` or `Abandoned`,
each of which looks again before it acts.

### ParserGate

The three disciplines by which a slot returns: the caller's `finally` ("pdf"),
caller or done callback ("source"), always the callback ("digest"). `Release`
hands a slot to the first waiter as `asyncio.Semaphore` does. A PDF's
`to_thread` call that no thread has picked up is cancelled with its caller; a
running thread is not; the shielded workers never are.

### AgenticLoop

`StartTurn` decides which tools the turn offers; `AnswersWith(calls)` is
`_admit_tool_calls`; the internal handlers (`SetsPlan`, `Records`, `Concludes`)
await nothing and so run in the order of the batch before any external call ends;
`ExternalEnds` are the concurrent ones; `BatchEnds` folds the results. `Raises`
and `DeadlineHits` are the two exceptional ends, and `GhostEnds` the completion
call after an explicit conclusion. The driver is unconstrained: it may call a tool
it was not offered. What becomes of the findings is the next module's; `conclude`
carries one of three kinds of account of the plan's gaps.

### FindingsBank

`findings`, `seen` and `next` are `state.findings`, `state.seen_finding_keys` and
`state.next_finding_number`, a place in the list counted from 1. A call is validated
by any number of `Accept`s, each of which extends the projection `owners` as
`_project_finding_identity` does, and then banked: `BankReplacement`, `SkipDuplicate`
and `BankNew` are the three branches of `_bank_findings`. Neither half awaits
anything; the steps are separate so that the bank is looked at between any two
proposals. A content stands for what `_finding_content_key` computes. That a proposal
is rejected as malformed, undelivered or not detached is the driver's choice not to
have it accepted, since a rejection leaves only a line in the answer. `held`, `before`
and `accepted[k].owned` are history.

### FetchEscalation

`pc[f]` is the place of the coroutine of fetch `f`:

    start -> direct -> escalate -> (feedQueue -> feed ->) renderQueue -> capQueue
          -> launch -> goto -> settle -> read -> drain -> close -> stop -> classify -> done

Who holds a gate is told by where it stands (`Escalating`, `HoldsHost`, `HoldsSlot`),
as `async with` would have it. `policy[f]` is the `LadderPolicy` the fetch runs under,
of which five things matter here: its memo scope (and with it the map of host gates),
whether it carries the rung `derived_api`, whether it has a thin-content floor, what
wall it starts with, and whether it starts one for all URLs of a question, as
`resolution_source.py` does, or one per tool call, as `_per_call_ctx` of the gap-fill
tools does. `left[f]` is the rungs' wall, counted down by `Tick` to the caller's own
cut, `Margin` past it; `timer[f]` is the bound of the step that runs. `EnterEscalation`
is `_escalate_via_browser` inside its gate: a policy without the feed goes straight to
the browser (`KnowsFeed`). A feed's request dials the feed's host (`FeedHost`), which
need not be the page's. `TryRender` makes the checks of `_rendered_rung` before the
queues; `TakeSlot` reads the clock again behind them (`GotoBudget`) and nothing else,
as the code does. `CutInQueue` and `CutRunning` are the rung's `wait_for`: a cut render
still owes its teardown. `memo` and `endpoint` are the two memos that outlive a
question; `seen` and `launch` are history. A page and its host are data; what a page turns out to hold is a free choice.

### Aggregation

`pc[q]` goes from `forecast`, the survivors of the fan-out, through the stacker ladder
(`crux`, `search`, `primary`, `fallback`) to `report`, `combined` and `published`, or to
`failed`. `meta`, `outcome`, `skip`, `method` and `expected` are the five maps of
`AggregationPipeline`, `count` its counters. Routing is `route_after_forecasts`: a lone
survivor, a spent budget, the always-stacking strategy, the verdict on the spread, or
none of these. `PrimaryStacks`, `PrimaryFails`, `FallbackStacks` and `FallbackFails` are
the ladder of `stack_predictions`; each ends in `Finalized`, which pops the reasoning.
A numeric stacker that is withheld after its text was stored is a `Leaves` choice.
`Combine` is the framework's call of `_aggregate_predictions` on what the report
carries, and `Comment` pops the labels. A prediction is modelled by who made it and
what was done to it, never by its number.

### LlmCalls

`call[c]` is one call in `invoke_with_transient_retry` or, for those in `Broad`,
`invoke_with_broad_retry`: it is at the donated key, probing, at the personal key
or in a pause, under one wall that covers all but the pause. `probe[c][a]` is the
thread that attempt `a` may have started, which goes on when nobody waits for it.
`ReadsCache`, `TakesLock` and `ProbeEnds` are `classify_donated_key_state`;
`Swaps` is the accounting of `record_donated_key_fallback`, which awaits nothing
between its two counters. `Reports` is the exit ladder `_report_degradation_and_exit`
and `_is_run_clean`, over whatever the rest of the bot left to report.

---

## 3. What the runs check

| run | bounds | what it shows |
|---|---|---|
| `forecast_run` | 2 questions, 1 slot, 2 models, close times before, at and beyond the static deadline | forecasters keep their share; a close-limited question keeps its reserve; drops and forfeits are counted once; the run ends |
| `publish` | 2 questions, 2 workers, 2 attempts | the path refines the promise; only what left no verdict is repeated; no increment is lost; every publish returns |
| `gap_fill_stores` | digests: 3 callers, 3 digests, 2 clears; artifacts: 3 URLs, 2 readers, 3 puts, sizes up to beyond the bound; findings: 3 contents, 3 calls of up to 3 proposals | one digest at a time and none for nobody; the two maps of artifacts stay in step and within both bounds; the bank holds a content once, its index is exact, and answers are true |
| `parser_gate` | 2 slots; 2 PDFs, 2 sources, 1 digest, each coming back | slots are conserved, only abandoned PDFs parse beyond them, waiters are served |
| `agentic_loop` | 5 turns, 5 calls, 2 gaps, batches of 2, 2 pages, 2 ticks | research is planned and bounded; early conclusions are earned; the loop ends |
| `llm_calls` | a call with 3 attempts and one with 2, wall 2, probe 1 | one probe; slow failures are rare; a green run is honest; every call ends |
| `fetch_escalation` | 3 fetches of 2 questions, 2 pages of a host, 1 slot, walls of 6 or 7 ticks; all for the resolution sources, or one question's a gap-fill fetch and a document | no circle of waits; hosts and cap are kept; skip tokens and memos are honest; who carries the feed tries it before a browser |
| `aggregation` | 2 questions of 5 kinds, 4 strategies, fallback on and off | labels, method and reasoning are true; post-processing happens once; counters add up |
| `forecast_run_static`, `digest_memo_join`, `aggregation_raw_mean`, `parser_gate_third_parse` | smaller, or the real constants | counterexamples, section 5 |

`gap_fill_stores` checks three components in one run. The artifact cache, the digest
memo and the findings bank share no variable, so a state of all three shows nothing that
a state of one does not: `MCGapFillStores` picks at the start which of them moves
(`moving`) and leaves the others in their initial states. URLs and contents are
symmetric: they are compared for equality only, and no property singles one out.

**Why the bounds are enough.** Every bound is past the point where the interesting
case first appears. Two questions and one slot make a wait, and two workers for two
questions let an abandoned POST and its own retry hold the pool; three callers and
three digests let a task be dropped, replaced and outlived; three URLs let entries
share and lose aliases, and a size of 3 under a bound of 2 lets one artifact evict
itself; five readers over two slots leave three waiting, one of each discipline;
five turns cover plan, fetch, rejected conclusion, repair and conclusion. Three
contents and three proposals let a call free a content, take it over and propose it
again, and three calls do so on what earlier ones left; three fetches let one hold the
slot, one its host's gate behind it and one wait for either, and a wall of 7 is just
enough for a render begun at once and too short behind another; two questions show what
shared maps and counters can confuse, since nothing else of `Aggregation` counts them.
The time
constants keep the order of the real ones. Where the code's relation matters exactly
(`forecast_run_static`), the real constants are used in units of 30 s. The largest
run has about 1.2 million distinct states.

`CHECK_DEADLOCK FALSE` stands only where the system stops: a run that has settled or
whose questions are published or lost, publishes that have returned, a bank whose calls
are used up, and the two caches, whose readers, digests and puts are bounded by the
model. The other four check it: `AgenticLoop`, `FetchEscalation` and
`LlmCalls` stutter only when the loop, every fetch or the run has ended, and in
`ParserGate` the readers come back for more.

Type invariants stand in the runs only where a run watches more with them than the
type: the order of the artifact cache, the count of a digest's waiters, the deliveries
of a POST, the slot that is free while somebody waits, the gates of the agentic loop,
which wear out once. `ForecastRun`, `LlmCalls`, `FetchEscalation` and `Aggregation` have theirs as the theorem `TypeCorrect` and
`FindingsBank` as `BankTypesHold`, which hold for every instance.

**Fairness, and why the code justifies it.** Liveness never assumes that an external
party answers, that a caller gives up or that a driver is sensible.
- `ForecastRun` and `PublishHardening` assume weak fairness of `Next`: the event
  loop and the threads are scheduled, and time passes. Each of their steps is one of
  these; the ends of phases, members and POSTs are forced by a timer the code sets,
  and such a run cannot go on for ever without settling because every loop in it is
  bounded.
- `ParserGate` assumes that a granted reader resumes, that done callbacks run, and
  that a parser thread starts and ends. The last is the one assumption about foreign
  code: pypdf and the HTML parsers work on bytes already in memory.
- `AgenticLoop` assumes the loop's own steps, `Tick` and `DeadlineHits`, and not the
  answers of driver or tools.
- `LlmCalls` assumes `Tick` and the timers, and no answer of either key or of the
  probe.

## 4. What is proved

Every invariant and action property of a passing run, and the refinement of
`PublishPromise`, is the statement of a theorem, for every value of the constants that
meets the assumption of its module. These assumptions say what the constants are (a
number of slots is a positive integer, the margin a natural number) and in what order
the code's own timeouts stand. The sets that are counted, such as the batch or the
publish threads, are assumed finite, which a list or a pool of the program is.

| proof module | of | theorems that state a property of a run |
|---|---|---|
| `ForecastRunProofs` | `ForecastRun` | `ForecastShareProtected`, `CloseLimitedKeepsReserve`, `EachDropCountedOnce`, `ForfeitsAreCounted` |
| `PublishHardeningProofs` | `PublishHardening` | `TypeOK`, `ExhaustedCallsCounted`, `RepeatedOnlyWithoutVerdict`, `ImplementsPromise` |
| `RunCacheProofs` | `ArtifactCache`, `DigestMemo` | `TypeOK`, `FoundIsHeld`, `HeldIsFound`, `WithinBounds`; `MemoTypeOK`, `OneDigestAtATime`, `NoOrphanDigest` |
| `ParserGateProofs` | `ParserGate` | `TypeOK`, `SlotsConserved`, `OnlyAbandonedExceed` |
| `GapFillProofs` | `AgenticLoop`, `FindingsBank` | the four properties of the loop, the two of the bank |
| `LlmCallsProofs` | `LlmCalls` | `KeyProbedOnce`, `SlowAttemptsAreRare`, `GreenIsHonest` |
| `FetchEscalationProofs` | `FetchEscalation` | `NoCircularWait`, `PoliteAndCapped`, `TokensAreHonest`, `FeedBeforeBrowser` |
| `AggregationProofs` | `Aggregation` | `RecordsAreTrue`, `ProcessedOnce`, `CountersAddUp` |

Two modules prove about two components each that share no state.

### The question run

`TypeCorrect` and `ForecastShareIsProtected` in `ForecastRunProofs` hold for every
number of questions, roster, slot count, set of close times and deadlines, under
`RunAssumption` and `DeadlineAssumption` alone. The property is not inductive: that
a question begins its fan-out within its window says nothing while it waits, and the
wait is bounded by other questions' timers, not its own. The invariant `IInv` adds
- `GrantedInOrder`: budgets are granted at time 0 in batch order, so that, the batch
  being sorted, budgets are sorted too (`TotalsSorted`);
- `FirstComeFirstServed`: whoever holds a slot precedes whoever waits for one;
- `WithinWindow`: whoever waits or holds is inside its window, and the timer of a
  holder is exactly the end of its window.

The step that needs all three is `Tick` (`WaitIsBounded`): while `q` waits, some
earlier `r` holds a slot, `r`'s timer has not expired, and `r`'s window ends no later
than `q`'s. Each of the three is needed; what happens without the sort is the mutant
of the property (`UnsortedBatch`).

`CloseLimitedKeepsItsReserve` has an invariant of its own: at each stage, the timer of
the stage under way plus all that the stages after it may take ends within the budget.
The route enters the ladder of stackers only with room for the whole of it, which is
where the invariant would break for a question that is not close-limited (section 5).
`EachDropIsCountedOnce` follows what became of a member: the raise site and the gather
both record drops, and a member that was recorded by one of them is never in the state
that makes the other record it. `ForfeitsAreAllCounted` equates each counter with the
size of the set of questions it counts; each step moves the two together.

### The publish path

`DeliveryInv` counts the attempts of a POST that are *spent*, that is started and no
longer under way in queue or pool. The platform has processed no more than those
(`ProcessedWhenOver`), although an abandoned job ends long after its caller left, or
after its own retry: each job is queued once (`QueueIsOfWaiting`: the queue holds a job
once, and none that a worker has) and ends once, and an attempt is submitted only when
its job has no state yet (`OnlyStarted`). With that an `ok` which a caller reads was
processed, so the verdicts of the promise are earned, and deliveries never outnumber
attempts (`NoPostBeyondItsAttempts`).

`PublishKeepsItsPromise` is the refinement. `Outcome` tabulates the mapping `VerdictOf`
without overlap; a step is then `Start` (the gate opens), `ForecastLands` or
`CommentLands` (an `ok` is read), `GiveUp` (the last attempt failed, or the job crashed),
`Deliver` (the platform processed a POST, awaited or not), or a stutter: a retry, a
cancellation, a job taken, time. `CommentFollowsForecast` says what a reader of the
platform sees of it: no comment without its forecast, abandoned attempts included.

`NoFailureUncounted` needs that at most one thread is between the two halves of `+=`,
and that what it read is what the counter still holds (`CountingInv`).
`NeverRepeatsAVerdict` is an action property and needs only the types: the only step
that raises an attempt reads an unavailable answer or a job still under way.

### The two caches

`WhatIsFoundIsHeld` and `WhatIsHeldIsFound` in `RunCacheProofs` say that
`_CACHE` and `_ENTRIES` stay in step for any URLs, readers, sizes and bounds. The two
are proved together, since each is needed for the other, as `InStep`: with the types,
that sequence numbers not drawn yet are not in use, and what a reader's stale entry
still guarantees. The eviction lemma says that forgetting what is evicted keeps the
maps in step whichever entries are chosen, so it does not matter that `Evicted` is
a `CHOOSE`. On them rests `OrderIsTotal`: a hit that moves to the end of the order is in
it. `BoundsHold` is where the `CHOOSE` matters. The prefixes of a total, transitive
order are nested, so among those whose removal fits there is a shortest (the one of
least cardinality, which exists because the numbers are well-founded); and there is one
at all, because dropping everything always fits. So the eviction ends, for an artifact
larger than the whole cache too.

The memo's invariant (`MemoInv`) says that what runs is what is registered, for
whatever drops a registration cancels the task or follows its end; `NeverTwoDigests`
is read off it. `EveryDigestHasAWaiter` needs `EarlierWaitersLeaveFirst`: a caller that
still waits for an earlier task stands in the ready queue ahead of all who joined the
registered one, so it never counts as one of theirs when the last of them leaves.

### The parser gate

`SlotsAreConserved` and `OnlyAbandonedPdfsExceed` in `ParserGateProofs` hold for any
number of readers of each discipline and of slots. The invariant counts the holders:
each holder has one slot (`OneSlotEach`), who waits is in the queue exactly once and
holds nothing (`QueueInStep`), and `count` and the holders add up. Every release takes
one holder away and either raises `count` or makes the first waiter a holder, so one
lemma about that step serves all three disciplines. The bound on the parses that are
not abandoned PDFs follows, since each of them has a holder. `NoSlotStaysFreeBeforeAWaiter` adds that whoever
waits has a place in the queue, so that no release overlooks anybody.

### The gap-fill loop and its bank

`GapFillProofs` proves the type invariant and the four safety properties of the
loop for any budgets, plans, pages and batch sizes, and for any driver. The bound on
external calls needs the cardinality of what admission charges: the charged calls of
a batch are some of the positions `1..(MaxToolCalls - toolCalls)`, so that internal
calls can only lower their number. `NeverCutOffUnwarned` is about the last turn but is
decided when that turn starts; `Announced` carries the decision through the turn.
`ConclusionsAreEarned` is an action property that needs no more than the types: only
`Concludes` sets `explicit`, and it does so through `NoDebts`, whose fetch floor is
not zero.

Its second part proves both properties of the bank for any contents, calls and proposals.
`BankIsExact` is not inductive by itself: that banking a replacement finds its content
free is decided while the call is validated, on a bank that has changed since. The
invariant relates the two: what the projection says of a content when a proposal is
accepted (`accepted[k].owned`) is what the bank will say when its turn comes, and the
projection after the last proposal is that of the bank once all are banked. Each
banking step then reads off its own entry that the place is its own or free.
`AnswersAreTrue` adds to it where each accepted proposal was held and that what held it
either still says it or was replaced later.

### The calls and the exit ladder

`LlmCallsProofs` proves the type invariant, `KeyProbedOnce`, `SlowAttemptsAreRare` and
`GreenIsHonest` for any callers, ladders and time constants. The argument of the last
is a chain: the lock and the second look leave one reader and a verdict written once
(`OneReader`); so what a waiting call is told is true of its failure
(`ProbesAnswerTruly`); so while `generic = credit`, each payment was for an empty
wallet or after a probe that found the key drained (`CountersAreHonest`); and the
ladder ends green outside that equality only when there was nothing to pay.

### The browser escalation

`FetchEscalationProofs` proves all four properties of its run, and the types, for any
fetches, pages, hosts, callers, caps and times. `NoCircularWait` needs no invariant: a
fetch that waits for a gate holds only outer ones, so in any set of waiting fetches one
that stands furthest inside waits for somebody outside the set or for nobody, wherever
the coroutines are. It is the order in which the code takes its gates that makes this
true, and the mutant, which keeps a host while queueing to escalate, breaks it.
`PoliteAndCapped` rests on each gate's being free when it is taken; the bound on
browsers adds a step about cardinality. `TokensAreHonest` needs the times: a render that
was launched has room for its navigation, its tail, the teardown and the slack inside
its wall (the invariant bounds `left` from below at each place by what is still to
come), so that a cut can strike only if the launch was late. `FeedBeforeBrowser` rests
on the escalation gate: while a fetch holds it nobody of its question can find a feed of
that host. It is stated for the fetches whose policy carries the feed, and holds whatever
policies the other fetches of the question have.

### Aggregation

`AggregationProofs` proves `RecordsAreTrue` and `ProcessedOnce` for any number of
questions under any configuration. The invariant says, place by place, what each map
holds for a question and how its value was made so far: what the later stages will pop
is determined by where the question stands, and no step of another question touches it.
`CountersHold` equates each counter with the size of the set of questions it is about
(`Tally`), which a step of a question enters or leaves exactly when it moves the
counter; that failed enrichments never outnumber the triggered ones needs those still
under way counted with the failures.

**Model-checked only.** The five liveness properties (`EveryQuestionSettles`,
`EveryPublishReturns`, `AlwaysEnds`, `EveryCallEnds`, `WaitersAreServed`), because
reasoning about fairness takes `ENABLED`, which the prover does not support; that the
four runs named in section 3 do not deadlock, for the same reason; and that the
four counterexamples of section 5 exist. The proofs are about the models: that a
definition is what the code does rests on reading it beside the lines `PROJECT.json`
names.

## 5. Where code and documentation disagree

Four runs end in a counterexample.

1. `forecast_run_static`. A question whose close is just beyond static deadline plus
   reserve is not close-limited, so its stacking floor stays at 90 s. In the trace the
   ladder begins with 1170 s of budget left, far above that floor and below the 1410 s
   that crux, search and both stackers may take; the fallback still runs at the close,
   its own deadline 150 s later. `time_budget.py:3-5` promises the submission before
   close.
2. `digest_memo_join` (a bug). The last waiter's cancellation leaves the dying task
   registered until its done callback; a reader that arrives in between joins it
   and is cancelled too. `CancelledError` is no `Exception`, so soft-fail handlers do
   not see it.
3. `parser_gate_third_parse`. The reader of a PDF releases its slot in a `finally`
   (`classify.py`, `_finish_document`), and a thread cannot be cancelled: when its wall
   cuts the reader off, the slot goes to the next document while pypdf runs on, and
   three documents parse on two slots. `http_fetch.py:229` says "at most two documents
   parsing at once, loop-wide", and the readers of local sources keep the slot for the
   worker (`classify.py:712-713`). `OnlyAbandonedExceed` says that this is the only way
   beyond the bound.
4. `aggregation_raw_mean`. Under plain STACKING a spent budget publishes a mean of the
   members, which `base_combine` calibrates only under CONDITIONAL_STACKING. The comment
   at `aggregation_pipeline.py:298-300` calls the lone binary survivor the only published
   binary path that is never calibrated. It takes effect once `PLATT_CALIBRATION_ENABLED`
   is set, which the comment says no workflow does. `ProcessedOnce` leaves this mean out
   and holds otherwise.

Smaller observations, without a run:
- The caller's cap on a POST counts queueing and pause, the socket's does not, so a
  caller may give up on a POST that is still fresh and submit a second one beside it.
  `publish_hardening.py:35-36` calls the abandoned worker unreachable. The model has
  it: `ImplementsPromise` is checked with such overlaps.
- Internal calls spend the tool-call budget, which `docs/agentic_gap_fill.md:546` and
  `tool_schemas.py:5-6` say they do not. `ExternalCallsBounded` holds either way.
- `read_document` may launch a browser on a host whose feed the same question already
  found: `policy.py:128-130` gives its ladder the impersonated retry and the browser
  only, while the docstring of `_run_local_document_ladder` (`agentic/tools.py:503-504`)
  calls its rungs "`fetch`'s minus the archive", which would keep the feed.
  `FeedBeforeBrowser` is about the fetches whose policy carries it, and the run has a
  document read beside a fetch of its question.
- When the primary numeric stacker is withheld for its units and the fallback fails
  too, the median is published with the withheld stacker's reasoning: the text is in
  `meta_reasoning` and nothing clears it (`aggregation_pipeline.py`, `_run_stacking_numeric`).
- A question elicited bin by bin is pooled by the mean under the label
  `fallback_median`, on the ladder's last rung and on the budget skip, though a comment
  there wants the marker to match the method. `RecordsAreTrue` excepts these questions.
- The render memo is read before a render queues for its gates and not behind them, so
  a fetch of another question that queued meanwhile launches again on a page found
  dead, which the comment on the memo (`rendered_fetch.py:120-122`) says is skipped.
  Fetches of one question and host are spared this by the escalation gate.
- The floor below which no render is tried (12 s) is less than what a launched render
  needs to keep its reserves (15 s): between the two a render queues for nothing.
- The escalation gate is keyed by netloc and the endpoint memo by host name; the host
  gates of the two callers are separate maps, so a host may see one request of each.
- `_must_conclude` is evaluated by `conclude` after the turn and the batch were
  counted, so the conclude gate steps aside one turn and one call before the driver
  is told to conclude. `EarlyConclusionsAreEarned` is stated with the code's own test.
- `MARKET_QUERY_AUTHOR_WALL_TIMEOUT` (20 s) is below `TRANSIENT_RETRY_MAX_ELAPSED_S`
  (30 s), though a comment in `llm_retry.py` has the gate below every wall. It is
  harmless: a timeout is no transient type there. `CallsAssumption` states the order
  for the calls it matters to.
- A probe given up leaves its fallback alertable, while its late verdict forgives
  later ones: one drained key can split as `docs/operations.md` says it cannot.
- `docs/operations.md:563` says the generic counter counts successful fallbacks; the
  code counts attempted ones, before the call.

## 6. The plan

Done: the ten components above, most important first: the question run, the publish
path, the shared caches and the gate, the agentic loop, the calls and the ladder, then
the browser escalation, the findings bank and the aggregation.

Next, the models:
1. The single-flight readers: the catalogue pulls of
   `research/market_retrieval/session_state.py`, whose waiters lead again when the
   leader is cancelled, and the robots.txt reads of `research/robots_policy.py`, whose
   waiters get none. Properties: one pull per key at a time; a verdict held is never
   overwritten by a failed read; a lost pull is counted once; every waiter is answered.
2. The rungs of the ladder without a browser, and the memos' eviction, in
   `FetchEscalation`.
3. The intake filters of `forecast_questions`: already forecast, unreadable history,
   cap and order.

Each new module comes with its own small instance and is not composed with the present
ones: the largest run is already near what can be checked in a few minutes.

Then their proofs. Each property of theirs should become a theorem as the present ones
are; that a lost pull is counted once can reuse the lemmas about sets that grow by one
element (`OneMore` in `PublishHardeningProofs`, `SizeMoves` in `AggregationProofs`). No
module named here declares a recursive operator.

## 7. What is not modelled, and why

The models stand for about a twentieth of the lines of the program, the lines where
state is shared, waited for, counted or retried. Most of the rest is not control:
prompts and their wording, adapters for some twenty external services, rendering of
their answers, numeric code over floats, and batch analyses of stored results.

Of the modelled components the following is left out. `ForecastRun`: the skip and cap
filters of intake, the research cache. `FetchEscalation`: the fast path, the impersonated
retry, redirects after the first, the rungs that need no browser, eviction of the two
memos at their 50 entries; the margin between the rungs' wall and the caller's cut is
one for all policies, though a gap-fill caller cuts at the wall of its tool call or
later. `FindingsBank`: the verification tier, a stamp that no step reads.
`Aggregation`: a missing stacker model, exceptions inside snapping and calibration, more
than one research report per question. `LlmCalls`: the text cues that classify a failure,
the spend ledger.

The text of anything (prompts, answers, findings, comments); floating-point work (the
numeric pipeline, the calculators, calibration); the content of external answers,
which are free choices; the offline programs, which publish nothing; start-up
monkey-patching, which is idempotent and runs once. Concurrency between processes is
not modelled: the concurrency group of each workflow lets one of its jobs run at a
time. Runs for different tournaments may overlap, and share no state but the external
keys and what is left on them.
