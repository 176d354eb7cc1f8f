--------------------------- MODULE FetchEscalation ---------------------------
(***************************************************************************)
(* The browser half of the fetch ladder: what the cited URLs of several    *)
(* questions share when a page does not read without a browser.  A fetch   *)
(* holds, from the outside in,                                             *)
(*                                                                         *)
(*   the escalation gate   one per question and cited host, across the     *)
(*                         derived feed and the browser;                   *)
(*   the host gate         one per caller's map and host dialed, around    *)
(*                         every request and around a whole render;        *)
(*   a launch slot         one of the few of the process.                  *)
(*                                                                         *)
(* Every wait is unbounded; what bounds a fetch is its wall, which the     *)
(* rungs read before they start and the transport reads again once its     *)
(* gates are held.  The policy a fetch runs under tells which rungs it     *)
(* carries and whether it shares its wall.  Two memos outlive a question:  *)
(* pages that a browser read to nothing, and feeds a browser found.  A     *)
(* caller that gets no page goes on to the rungs that need no browser,     *)
(* which are not here.                                                     *)
(***************************************************************************)
EXTENDS Integers, FiniteSets, FiniteSetsExt

CONSTANTS
    Questions, Fetches, Pages, Hosts, Policies, Scopes,
    QuestionOf,     \* fetch -> the question that cites its URL
    CitedHost,      \* fetch -> host of the cited URL
    PageOf,         \* fetch -> the page the direct fetch lands on, FetchResult.url
    HostOf,         \* page -> its host
    FeedHost,       \* cited host -> the host its feed answers on
    NoFetch,        \* nobody, where a host's feed is not known
    Callers,        \* who may be asking: assignments of a policy to each fetch
    MemoScope,      \* policy -> render_memo_scope
    FeedPolicies,   \* the policies that carry the rung derived_api
    ThinPolicies,   \* the policies with a thin-content floor
    OneWall,        \* the policies that start one wall for all the URLs of a question
    LaunchCap,      \* RENDER_LAUNCH_CAP
    Walls,          \* policy -> what a fetch may have of its wall when it begins
    Margin,         \* rung_wall_margin_s: the caller's wait_for past the rungs' wall
    HopMax, HopMin, \* RESOLUTION_SOURCE_HTTP_TIMEOUT and _MIN_HOP_TIMEOUT_S
    FeedFloor,      \* RESOLUTION_SOURCE_DERIVED_API_MIN_BUDGET_S
    RenderFloor,    \* RESOLUTION_SOURCE_RENDER_MIN_BUDGET_S
    GotoCap,        \* the ceiling of a navigation
    GotoFloor,      \* RENDER_MIN_GOTO_MS
    Settle, DomRead,\* RENDER_SETTLE_MS and RENDER_DOM_READ_TIMEOUT_MS
    Teardown,       \* RENDER_TEARDOWN_TIMEOUT_MS
    Slack,          \* the rest of RENDER_EXIT_RESERVE_MS, for the launch and the driver stop
    Launch          \* the longest a launch takes; a cold one is longer than Slack

ASSUME FetchAssumption ==
    /\ QuestionOf \in [Fetches -> Questions]
    /\ CitedHost \in [Fetches -> Hosts]
    /\ PageOf \in [Fetches -> Pages]
    /\ HostOf \in [Pages -> Hosts]
    /\ NoFetch \notin Fetches
    /\ IsFiniteSet(Fetches)
    /\ FeedHost \in [Hosts -> Hosts]
    /\ MemoScope \in [Policies -> Scopes]
    /\ Callers \subseteq [Fetches -> Policies]
    /\ FeedPolicies \subseteq Policies /\ ThinPolicies \subseteq Policies /\ OneWall \subseteq Policies
    /\ LaunchCap \in Nat \ {0}
    /\ Walls \in [Policies -> SUBSET Nat]
    /\ FeedFloor <= RenderFloor

ASSUME ClockAssumption ==
    /\ \A d \in {Margin, HopMax, HopMin, FeedFloor, RenderFloor, GotoCap, GotoFloor,
                 Settle, DomRead, Teardown, Slack, Launch} : d \in Nat
    /\ GotoFloor > 0

PostGotoTail == Settle + DomRead    \* RENDER_POST_GOTO_TAIL_MS
ExitReserve == Teardown + Slack     \* RENDER_EXIT_RESERVE_MS

Kinds == {"wall", "thin"}
Queues == {"start", "escalate", "feedQueue", "renderQueue", "capQueue"}
Gets == {"direct", "feed"}
Browsing == {"launch", "goto", "settle", "read", "drain", "close", "stop"}
Places == Queues \cup Gets \cup Browsing \cup {"classify", "done"}
\* The outcomes and skips of a rendered attempt.  "declined" stands for the skips that only
\* their own step records: renderer_unavailable, render_off_host, render_dom_too_large and
\* render_non_200.
Tokens == {"none", "rendered", "wall_budget", "rendered_no_text", "render_timeout", "declined"}
Memos == {"none", "no_text", "timed_out"}

VARIABLES
    policy,     \* fetch -> the LadderPolicy it runs under
    left,       \* fetch -> rung_budget_s, counted down to the caller's cut
    pc,         \* fetch -> where its coroutine stands
    timer,      \* fetch -> what is left of the step's own bound
    budget,     \* fetch -> the navigation budget computed behind the gates
    kind,       \* fetch -> why it escalates: unreadable, or too thin a success
    fed,        \* fetches that tried the host's derived feed
    launch,     \* history: fetch -> whether its launch is over, and was inside the slack or not
    token,      \* fetch -> the outcome or skip its rendered attempt records
    memo,       \* _RENDER_MEMO: <<scope, page>> -> what a render is remembered for
    endpoint,   \* _DERIVED_ENDPOINTS: host -> the fetch whose render found its feed
    seen        \* history: <<scope, page>> -> how browsers found no content there

vars == <<policy, left, pc, timer, budget, kind, fed, launch, token, memo, endpoint, seen>>

Keys == Scopes \X Pages
ScopeOf(f) == MemoScope[policy[f]]
Key(f) == <<ScopeOf(f), PageOf[f]>>
Left(f) == left[f]

Init ==
    /\ policy \in Callers
    /\ left \in [Fetches -> UNION {Walls[p] : p \in Policies}]
    /\ \A f \in Fetches : left[f] \in Walls[policy[f]]
    /\ \A f, g \in Fetches :
        QuestionOf[f] = QuestionOf[g] /\ policy[f] \in OneWall /\ policy[g] = policy[f] => left[f] = left[g]
    /\ pc = [f \in Fetches |-> "start"]
    /\ timer = [f \in Fetches |-> 0]
    /\ budget = [f \in Fetches |-> 0]
    /\ kind = [f \in Fetches |-> "wall"]
    /\ fed = {}
    /\ launch = [f \in Fetches |-> "never"]
    /\ token = [f \in Fetches |-> "none"]
    /\ memo = [k \in Keys |-> "none"]
    /\ endpoint = [h \in Hosts |-> NoFetch]
    /\ seen = [k \in Keys |-> {}]

-----------------------------------------------------------------------------
(* The gates.  Who holds one is told by where its coroutine stands. *)

\* A broken gate is taken for the feed and again for the browser.
GatePerRung(f) == pc[f] \in {"feedQueue", "feed"}

\* The escalation gate: across the derived feed and the browser.
Escalating(f) == pc[f] \in {"feedQueue", "feed", "renderQueue", "capQueue", "classify"} \cup Browsing

EscalationFree(f) ==
    \A g \in Fetches \ {f} : QuestionOf[g] = QuestionOf[f] /\ CitedHost[g] = CitedHost[f] => ~Escalating(g)

\* The host a fetch dials, or waits to dial: the cited one, the feed's own, or the page's.
Dials(f) ==
    CASE pc[f] \in {"start", "direct"} -> CitedHost[f]
      [] pc[f] \in {"feedQueue", "feed"} -> FeedHost[CitedHost[f]]
      [] OTHER -> HostOf[PageOf[f]]
SameGate(f, g) == ScopeOf(f) = ScopeOf(g) /\ Dials(f) = Dials(g)

\* A broken render gives the host back once the DOM is read.
HoldsHostToTheDom(f) == pc[f] \in Gets \cup {"capQueue", "launch", "goto", "settle", "read", "drain"}

\* A broken fetch keeps its host while it queues to escalate.
HoldsHostToEscalate(f) == pc[f] \in Gets \cup {"escalate", "capQueue"} \cup Browsing

HoldsHost(f) == pc[f] \in Gets \cup {"capQueue"} \cup Browsing
HostFree(f) == \A g \in Fetches \ {f} : SameGate(f, g) => ~HoldsHost(g)

HoldsSlot(f) == pc[f] \in Browsing
SlotFree == Cardinality({f \in Fetches : HoldsSlot(f)}) < LaunchCap

-----------------------------------------------------------------------------
(* The requests: a direct hop and the GET of a remembered feed. *)

Goes(f, place, bound) ==
    /\ pc' = [pc EXCEPT ![f] = place]
    /\ timer' = [timer EXCEPT ![f] = bound]

\* The hop's timeout is read once the host gate is held.
HopTimeout(f) == Min({HopMax, Max({Left(f), HopMin})})

Dial(f, from, to) ==
    /\ pc[f] = from
    /\ HostFree(f)
    /\ Goes(f, to, HopTimeout(f))
    /\ UNCHANGED <<policy, left, budget, kind, fed, launch, token, memo, endpoint, seen>>

Records(f, outcome) == token' = [token EXCEPT ![f] = outcome]
Settles(f, outcome) == Goes(f, "done", 0) /\ Records(f, outcome)

\* The page read, or it is for the rungs without a browser, or the request failed.
DirectEnds(f) ==
    /\ pc[f] = "direct"
    /\ Goes(f, "done", 0)
    /\ UNCHANGED <<policy, left, budget, kind, fed, launch, token, memo, endpoint, seen>>

\* The page answered, with nothing or too little in it.
DirectEscalates(f) ==
    /\ pc[f] = "direct"
    /\ \E k \in Kinds :
        /\ k = "thin" => policy[f] \in ThinPolicies
        /\ kind' = [kind EXCEPT ![f] = k]
    /\ Goes(f, "escalate", 0)
    /\ UNCHANGED <<policy, left, budget, fed, launch, token, memo, endpoint, seen>>

-----------------------------------------------------------------------------
(* The rendered rung: the checks it makes before it queues.  What it reads here *)
(* is not read again behind the gates, the clock excepted.                      *)

TryRender(f) ==
    IF memo[Key(f)] = "no_text" THEN Settles(f, "rendered_no_text")
    ELSE IF Left(f) < RenderFloor THEN Settles(f, "wall_budget")
    ELSE IF memo[Key(f)] = "timed_out" THEN Settles(f, "render_timeout")
    ELSE Goes(f, "renderQueue", 0) /\ UNCHANGED token

\* A policy without the rung skips it whatever is known of the host.
KnowsFeed(f) ==
    /\ policy[f] \in FeedPolicies
    /\ kind[f] = "wall"
    /\ endpoint[CitedHost[f]] # NoFetch
    /\ Left(f) >= FeedFloor

EnterEscalation(f) ==
    /\ pc[f] = "escalate"
    /\ EscalationFree(f)
    /\ IF KnowsFeed(f)
       THEN Goes(f, "feedQueue", 0) /\ fed' = fed \cup {f} /\ UNCHANGED token
       ELSE TryRender(f) /\ UNCHANGED fed
    /\ UNCHANGED <<policy, left, budget, kind, launch, memo, endpoint, seen>>

FeedServes(f) ==
    /\ pc[f] = "feed"
    /\ Settles(f, "rendered")
    /\ UNCHANGED <<policy, left, budget, kind, fed, launch, memo, endpoint, seen>>

\* A feed that fails, or answers something else than JSON, hands the page on.
FeedFails(f) ==
    /\ pc[f] = "feed"
    /\ TryRender(f)
    /\ UNCHANGED <<policy, left, budget, kind, fed, launch, memo, endpoint, seen>>

-----------------------------------------------------------------------------
(* The transport, render_page. *)

\* Playwright is missing, or the host cannot be pinned.
Unavailable(f) ==
    /\ pc[f] = "renderQueue"
    /\ Settles(f, "declined")
    /\ UNCHANGED <<policy, left, budget, kind, fed, launch, memo, endpoint, seen>>

TakeHost(f) ==
    /\ pc[f] = "renderQueue"
    /\ HostFree(f)
    /\ Goes(f, "capQueue", 0)
    /\ UNCHANGED <<policy, left, budget, kind, fed, launch, token, memo, endpoint, seen>>

\* A broken budget leaves no room for the exit.
GotoToTheWall(f) == Min({GotoCap, Left(f) - PostGotoTail})

\* _goto_budget_ms, on the deadline the rung hands over: its wall less the exit reserve.
GotoBudget(f) == Min({GotoCap, Left(f) - ExitReserve - PostGotoTail})

\* Both gates are held: the budget is read again, and a browser launched on it.
TakeSlot(f) ==
    /\ pc[f] = "capQueue"
    /\ SlotFree
    /\ IF GotoBudget(f) < GotoFloor
       THEN Settles(f, "wall_budget") /\ UNCHANGED budget
       ELSE /\ Goes(f, "launch", Launch)
            /\ budget' = [budget EXCEPT ![f] = GotoBudget(f)]
            /\ UNCHANGED token
    /\ UNCHANGED <<policy, left, kind, fed, launch, memo, endpoint, seen>>

\* The launch is over, one way or another.
LaunchEnds(f) ==
    launch' = [launch EXCEPT ![f] = IF pc[f] # "launch" THEN @
                                    ELSE IF Launch - timer[f] < Slack THEN "prompt" ELSE "late"]

Launched(f) ==
    /\ pc[f] = "launch"
    /\ Goes(f, "goto", budget[f])
    /\ LaunchEnds(f)
    /\ budget' = [budget EXCEPT ![f] = 0]
    /\ UNCHANGED <<policy, left, kind, fed, token, memo, endpoint, seen>>

\* The navigation returns, fails, or runs its budget out: all three go on.
Navigated(f) ==
    /\ pc[f] = "goto"
    /\ Goes(f, "settle", Settle)
    /\ UNCHANGED <<policy, left, budget, kind, fed, launch, token, memo, endpoint, seen>>

Settled(f) ==
    /\ pc[f] = "settle" /\ timer[f] = 0
    /\ Goes(f, "read", DomRead)
    /\ UNCHANGED <<policy, left, budget, kind, fed, launch, token, memo, endpoint, seen>>

Finds(f, nothing) == seen' = [seen EXCEPT ![Key(f)] = @ \cup {nothing}]
Remembers(f, what) == memo' = [memo EXCEPT ![Key(f)] = what]

\* _refuse_landing, before the read or after it: another host's page is forgotten,
\* the browser's own error document is not.
OffHost(f) ==
    /\ pc[f] = "read" \/ (pc[f] = "settle" /\ timer[f] = 0)
    /\ Goes(f, "close", Teardown)
    /\ Records(f, "declined")
    /\ \/ UNCHANGED <<memo, seen>>
       \/ Remembers(f, "timed_out") /\ Finds(f, "timed_out")
    /\ UNCHANGED <<policy, left, budget, kind, fed, launch, endpoint>>

\* The DOM read outlives its bound, or the page navigates under it: remembered where
\* it is raised.
ReadFails(f) ==
    /\ pc[f] = "read"
    /\ Goes(f, "close", Teardown)
    /\ Records(f, "render_timeout")
    /\ Finds(f, "timed_out")
    /\ Remembers(f, "timed_out")
    /\ UNCHANGED <<policy, left, budget, kind, fed, launch, endpoint>>

TooLarge(f) ==
    /\ pc[f] = "read"
    /\ Goes(f, "close", Teardown)
    /\ Records(f, "declined")
    /\ UNCHANGED <<policy, left, budget, kind, fed, launch, memo, endpoint, seen>>

\* The harvest drains in what is left of the read's bound, and not into the reserve.
DomIsRead(f) ==
    /\ pc[f] = "read"
    /\ Goes(f, "drain", Min({timer[f], Max({0, Left(f) - ExitReserve})}))
    /\ UNCHANGED <<policy, left, budget, kind, fed, launch, token, memo, endpoint, seen>>

Drained(f) ==
    /\ pc[f] = "drain"
    /\ Goes(f, "close", Teardown)
    /\ Records(f, "rendered")
    /\ UNCHANGED <<policy, left, budget, kind, fed, launch, memo, endpoint, seen>>

\* A Playwright error out of any other step.
Breaks(f) ==
    /\ pc[f] \in {"launch", "goto", "settle", "drain"}
    /\ Goes(f, "close", Teardown)
    /\ LaunchEnds(f)
    /\ Records(f, "declined")
    /\ UNCHANGED <<policy, left, budget, kind, fed, memo, endpoint, seen>>

\* The steps of the teardown share one bound; past it they are left to the driver stop.
TornDown(f) ==
    /\ pc[f] = "close"
    /\ Goes(f, "stop", 0)
    /\ UNCHANGED <<policy, left, budget, kind, fed, launch, token, memo, endpoint, seen>>

\* The driver stop is prompt; then both gates are free, and the rung has its answer.
Stopped(f) ==
    /\ pc[f] = "stop"
    /\ Goes(f, IF token[f] = "rendered" THEN "classify" ELSE "done", 0)
    /\ UNCHANGED <<policy, left, budget, kind, fed, launch, token, memo, endpoint, seen>>

-----------------------------------------------------------------------------
(* What the page was worth, outside the host gate and inside the escalation's. *)

\* The DOM has the text, or the browser was refused where the GET was not.
Reads(f) ==
    /\ pc[f] = "classify"
    /\ \E outcome \in {"rendered", "declined"} : Settles(f, outcome)
    /\ UNCHANGED <<policy, left, budget, kind, fed, launch, memo, endpoint, seen>>

\* remember_endpoint: the first find for a host stands.
FindsFeed(f) ==
    /\ pc[f] = "classify"
    /\ Settles(f, "rendered")
    /\ endpoint' = [endpoint EXCEPT ![CitedHost[f]] = IF @ = NoFetch THEN f ELSE @]
    /\ UNCHANGED <<policy, left, budget, kind, fed, launch, memo, seen>>

FindsNothing(f) ==
    /\ pc[f] = "classify"
    /\ Settles(f, "rendered")
    /\ Finds(f, "no_text")
    /\ Remembers(f, "no_text")
    /\ UNCHANGED <<policy, left, budget, kind, fed, launch, endpoint>>

-----------------------------------------------------------------------------
(* The walls. *)

\* The rung's wait_for on a render that still queues.
CutInQueue(f) ==
    /\ pc[f] \in {"renderQueue", "capQueue"}
    /\ Left(f) <= 0
    /\ Settles(f, "wall_budget")
    /\ UNCHANGED <<policy, left, budget, kind, fed, launch, memo, endpoint, seen>>

\* The rung's wait_for on a render that runs: it still waits for the teardown.
CutRunning(f) ==
    /\ pc[f] \in Browsing
    /\ Left(f) <= 0
    /\ token[f] # "wall_budget"
    /\ IF pc[f] \in {"close", "stop"} THEN UNCHANGED <<pc, timer>> ELSE Goes(f, "close", Teardown)
    /\ LaunchEnds(f)
    /\ Records(f, "wall_budget")
    /\ UNCHANGED <<policy, left, budget, kind, fed, memo, endpoint, seen>>

\* The caller's wait_for, Margin past the rungs' wall: the fetch is cancelled.
ProviderCut(f) ==
    /\ pc[f] \in {"start", "escalate", "feedQueue", "classify"} \cup Gets
    /\ Left(f) = -Margin
    /\ Goes(f, "done", 0)
    /\ UNCHANGED <<policy, left, budget, kind, fed, launch, token, memo, endpoint, seen>>

\* What happens at an instant happens before the next one.
Timed == Gets \cup (Browsing \ {"stop"})
Due(f) ==
    \/ pc[f] \in Timed /\ timer[f] = 0
    \/ pc[f] = "stop"
    \/ pc[f] \in {"renderQueue", "capQueue"} /\ Left(f) <= 0
    \/ pc[f] \in Browsing /\ Left(f) <= 0 /\ token[f] # "wall_budget"
    \/ pc[f] # "done" /\ pc[f] \notin Browsing /\ Left(f) = -Margin

Tick ==
    /\ \A f \in Fetches : ~Due(f)
    /\ \E f \in Fetches : pc[f] # "done"
    /\ left' = [f \in Fetches |-> Max({left[f] - 1, -Margin})]
    /\ timer' = [f \in Fetches |-> IF pc[f] \in Timed THEN timer[f] - 1 ELSE timer[f]]
    /\ UNCHANGED <<policy, pc, budget, kind, fed, launch, token, memo, endpoint, seen>>

AllDone ==
    /\ \A f \in Fetches : pc[f] = "done"
    /\ UNCHANGED vars

Step(f) ==
    \/ Dial(f, "start", "direct") \/ DirectEnds(f) \/ DirectEscalates(f)
    \/ EnterEscalation(f) \/ Dial(f, "feedQueue", "feed") \/ FeedServes(f) \/ FeedFails(f)
    \/ Unavailable(f) \/ TakeHost(f) \/ TakeSlot(f)
    \/ Launched(f) \/ Navigated(f) \/ Settled(f) \/ OffHost(f)
    \/ ReadFails(f) \/ TooLarge(f) \/ DomIsRead(f) \/ Drained(f) \/ Breaks(f)
    \/ TornDown(f) \/ Stopped(f)
    \/ Reads(f) \/ FindsFeed(f) \/ FindsNothing(f)
    \/ CutInQueue(f) \/ CutRunning(f) \/ ProviderCut(f)

Next == (\E f \in Fetches : Step(f)) \/ Tick \/ AllDone

Spec == Init /\ [][Next]_vars

-----------------------------------------------------------------------------
TypeOK ==
    /\ policy \in [Fetches -> Policies]
    /\ left \in [Fetches -> Int]
    /\ pc \in [Fetches -> Places]
    /\ timer \in [Fetches -> Nat]
    /\ budget \in [Fetches -> Nat]
    /\ kind \in [Fetches -> Kinds]
    /\ fed \subseteq Fetches
    /\ launch \in [Fetches -> {"never", "prompt", "late"}]
    /\ token \in [Fetches -> Tokens]
    /\ memo \in [Keys -> Memos]
    /\ endpoint \in [Hosts -> Fetches \cup {NoFetch}]
    /\ seen \in [Keys -> SUBSET Memos]

\* A host sees one request or one browser of a caller at a time, whichever questions the
\* fetches belong to and whatever their renders go through; and the browsers that run,
\* the ones being torn down included, are no more than the cap.
PoliteAndCapped ==
    /\ \A f, g \in Fetches :
        f # g /\ SameGate(f, g) => ~(pc[f] \in Gets \cup Browsing /\ pc[g] \in Gets \cup Browsing)
    /\ Cardinality({f \in Fetches : pc[f] \in Browsing}) <= LaunchCap

\* Whom f waits for: the holders of the gate it queues for.
WaitsFor(f) ==
    CASE pc[f] = "escalate" ->
            {g \in Fetches : Escalating(g) /\ QuestionOf[g] = QuestionOf[f] /\ CitedHost[g] = CitedHost[f]}
      [] pc[f] \in {"start", "feedQueue", "renderQueue"} -> {g \in Fetches : HoldsHost(g) /\ SameGate(f, g)}
      [] pc[f] = "capQueue" -> {g \in Fetches : HoldsSlot(g)}
      [] OTHER -> {}

\* No fetches wait for one another in a circle over the three kinds of gate: in every set
\* of waiting fetches one is blocked by nobody, or by somebody outside the set.
NoCircularWait ==
    \A S \in (SUBSET Fetches) \ {{}} :
        \E f \in S : pc[f] \notin Queues \/ WaitsFor(f) = {} \/ ~(WaitsFor(f) \subseteq S)

\* What the rendered attempt records is what happened: the wall is blamed for a browser
\* that ran only if its launch took more than the reserve has for it, a page is said to
\* time out or to have no text only if a browser of that caller found it so, and what a
\* browser found is remembered whoever cancelled the render meanwhile.
TokensAreHonest ==
    /\ \A f \in Fetches :
        /\ token[f] = "wall_budget" => launch[f] # "prompt"
        /\ token[f] = "render_timeout" => "timed_out" \in seen[Key(f)]
        /\ token[f] = "rendered_no_text" => "no_text" \in seen[Key(f)]
    /\ \A k \in Keys : IF seen[k] = {} THEN memo[k] = "none" ELSE memo[k] \in seen[k]

\* A question launches no browser for an unreadable page of a host when one of its own
\* fetches has already found that host's feed, unless the feed was tried for the page or
\* the policy of this fetch does not carry the feed, as the documents' does not.
FeedBeforeBrowser ==
    [][\A f \in Fetches :
        pc[f] = "capQueue" /\ pc'[f] = "launch" /\ kind[f] = "wall" /\ policy[f] \in FeedPolicies =>
            LET finder == endpoint[CitedHost[f]] IN
            finder = NoFetch \/ QuestionOf[finder] # QuestionOf[f] \/ f \in fed]_vars
=============================================================================
