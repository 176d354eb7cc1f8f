------------------------ MODULE FetchEscalationProofs ------------------------
(***************************************************************************)
(* The gates of the browser escalation, its memos and its walls, for any   *)
(* questions, pages, hosts, callers, caps and times.  Who holds a gate is  *)
(* read off pc, so that each gate's exclusion is an invariant of its own:  *)
(* a step enters a gate only past its check, or was already inside and     *)
(* still waits for the same gate.  What the tokens say rests on a budget:  *)
(* a browser launched inside the slack has, at every step after, more left *)
(* of the wall than the bounds of the steps before it add up to.           *)
(***************************************************************************)
EXTENDS FetchEscalation, FiniteSetTheorems, TLAPS

LEMMA ClockIsNat ==
    /\ Margin \in Nat /\ HopMax \in Nat /\ HopMin \in Nat /\ FeedFloor \in Nat /\ RenderFloor \in Nat
    /\ GotoCap \in Nat /\ GotoFloor \in Nat /\ GotoFloor > 0 /\ Settle \in Nat /\ DomRead \in Nat
    /\ Teardown \in Nat /\ Slack \in Nat /\ Launch \in Nat
BY ClockAssumption

LEMMA MinOfTwo ==
    ASSUME NEW a \in Int, NEW b \in Int
    PROVE  Min({a, b}) = IF a <= b THEN a ELSE b
BY DEF Min

LEMMA MaxOfTwo ==
    ASSUME NEW a \in Int, NEW b \in Int
    PROVE  Max({a, b}) = IF a >= b THEN a ELSE b
BY DEF Max

LEMMA QuestionsTyped ==
    ASSUME TypeOK, NEW f \in Fetches
    PROVE  /\ QuestionOf[f] \in Questions /\ Left(f) \in Int /\ Key(f) \in Keys
           /\ CitedHost[f] \in Hosts
BY FetchAssumption DEF TypeOK, Left, Key, Keys, ScopeOf

-----------------------------------------------------------------------------
(* Types. *)

LEMMA HopTimeoutIsNat ==
    ASSUME TypeOK, NEW f \in Fetches
    PROVE  HopTimeout(f) \in Nat
<1> DEFINE m == Max({Left(f), HopMin})
<1>1. Left(f) \in Int /\ HopMin \in Nat /\ HopMax \in Nat
  BY QuestionsTyped, ClockIsNat
<1>2. m \in Nat
  BY <1>1, MaxOfTwo
<1> HIDE DEF m
<1>3. Min({HopMax, m}) \in Nat
  BY <1>1, <1>2, MinOfTwo
<1> QED BY <1>3 DEF HopTimeout, m

LEMMA GotoBudgetIsInt ==
    ASSUME TypeOK, NEW f \in Fetches
    PROVE  /\ GotoBudget(f) \in Int
           /\ GotoBudget(f) <= Left(f) - ExitReserve - PostGotoTail
<1>1. Left(f) \in Int
  BY QuestionsTyped
<1>2. Left(f) - ExitReserve - PostGotoTail \in Int /\ GotoCap \in Int
  BY <1>1, ClockIsNat DEF ExitReserve, PostGotoTail
<1> QED BY <1>2, MinOfTwo DEF GotoBudget

LEMMA DrainIsNat ==
    ASSUME TypeOK, NEW f \in Fetches
    PROVE  /\ Min({timer[f], Max({0, Left(f) - ExitReserve})}) \in Nat
           /\ Min({timer[f], Max({0, Left(f) - ExitReserve})}) <= timer[f]
<1> DEFINE m == Max({0, Left(f) - ExitReserve})
<1>1. Left(f) - ExitReserve \in Int
  BY QuestionsTyped, ClockIsNat DEF ExitReserve
<1>2. m \in Nat
  BY <1>1, MaxOfTwo
<1>3. timer[f] \in Nat
  BY DEF TypeOK
<1> HIDE DEF m
<1>4. Min({timer[f], m}) \in Nat /\ Min({timer[f], m}) <= timer[f]
  BY <1>2, <1>3, MinOfTwo
<1> QED BY <1>4 DEF m

LEMMA GoingKeepsTypes ==
    ASSUME TypeOK, NEW f \in Fetches, NEW place \in Places, NEW bound \in Nat, Goes(f, place, bound)
    PROVE  pc' \in [Fetches -> Places] /\ timer' \in [Fetches -> Nat]
BY DEF TypeOK, Goes

LEMMA TryRenderKeepsTypes ==
    ASSUME TypeOK, NEW f \in Fetches, TryRender(f)
    PROVE  pc' \in [Fetches -> Places] /\ timer' \in [Fetches -> Nat] /\ token' \in [Fetches -> Tokens]
BY DEF TypeOK, TryRender, Settles, Goes, Records, Places, Queues, Tokens

LEMMA StepKeepsTypes ==
    ASSUME TypeOK, NEW f \in Fetches, Step(f)
    PROVE  TypeOK'
<1> USE DEF TypeOK
<1>0. Key(f) \in Keys /\ CitedHost[f] \in Hosts
  BY QuestionsTyped
<1>1. CASE Dial(f, "start", "direct") \/ Dial(f, "feedQueue", "feed")
  <2>1. pc' \in [Fetches -> Places] /\ timer' \in [Fetches -> Nat]
    BY <1>1, HopTimeoutIsNat DEF Dial, Goes, Places, Gets
  <2> QED BY <1>1, <2>1 DEF Dial
<1>2. CASE DirectEnds(f) \/ DirectEscalates(f)
  BY <1>2 DEF DirectEnds, DirectEscalates, Goes, Places, Queues
<1>3. CASE EnterEscalation(f)
  <2>1. CASE KnowsFeed(f)
    BY <1>3, <2>1 DEF EnterEscalation, Goes, Places, Queues
  <2>2. CASE ~KnowsFeed(f)
    BY <1>3, <2>2, TryRenderKeepsTypes DEF EnterEscalation
  <2> QED BY <2>1, <2>2
<1>4. CASE FeedServes(f) \/ Unavailable(f) \/ CutInQueue(f) \/ Reads(f)
  BY <1>4 DEF FeedServes, Unavailable, CutInQueue, Reads, Settles, Goes, Records, Places, Tokens
<1>5. CASE FeedFails(f)
  BY <1>5, TryRenderKeepsTypes DEF FeedFails
<1>6. CASE TakeHost(f) \/ TornDown(f) \/ Stopped(f) \/ ProviderCut(f)
  BY <1>6 DEF TakeHost, TornDown, Stopped, ProviderCut, Goes, Places, Queues, Browsing
<1>7. CASE TakeSlot(f)
  <2>1. CASE GotoBudget(f) < GotoFloor
    BY <1>7, <2>1 DEF TakeSlot, Settles, Goes, Records, Places, Tokens
  <2>2. CASE ~(GotoBudget(f) < GotoFloor)
    <3>1. GotoBudget(f) \in Nat /\ Launch \in Nat
      BY <2>2, GotoBudgetIsInt, ClockIsNat
    <3> QED BY <1>7, <2>2, <3>1 DEF TakeSlot, Goes, Places, Browsing
  <2> QED BY <2>1, <2>2
<1>8. CASE Launched(f)
  BY <1>8 DEF Launched, LaunchEnds, Goes, Places, Browsing
<1>9. CASE Navigated(f) \/ Settled(f)
  BY <1>9, ClockIsNat DEF Navigated, Settled, Goes, Places, Browsing
<1>10. CASE OffHost(f) \/ ReadFails(f) \/ TooLarge(f) \/ Drained(f)
  <2>1. pc' \in [Fetches -> Places] /\ timer' \in [Fetches -> Nat] /\ token' \in [Fetches -> Tokens]
    BY <1>10, ClockIsNat DEF OffHost, ReadFails, TooLarge, Drained, Goes, Records, Places, Browsing, Tokens
  <2>2. memo' \in [Keys -> Memos] /\ seen' \in [Keys -> SUBSET Memos]
    BY <1>0, <1>10 DEF OffHost, ReadFails, TooLarge, Drained, Finds, Remembers, Memos
  <2> QED BY <1>10, <2>1, <2>2 DEF OffHost, ReadFails, TooLarge, Drained
<1>11. CASE DomIsRead(f)
  <2>1. pc' \in [Fetches -> Places] /\ timer' \in [Fetches -> Nat]
    BY <1>11, DrainIsNat DEF DomIsRead, Goes, Places, Browsing
  <2> QED BY <1>11, <2>1 DEF DomIsRead
<1>12. CASE Breaks(f) \/ CutRunning(f)
  BY <1>12, ClockIsNat DEF Breaks, CutRunning, LaunchEnds, Goes, Records, Places, Browsing, Tokens
<1>13. CASE FindsFeed(f)
  BY <1>0, <1>13 DEF FindsFeed, Settles, Goes, Records, Places, Tokens
<1>14. CASE FindsNothing(f)
  BY <1>0, <1>14 DEF FindsNothing, Finds, Remembers, Settles, Goes, Records, Places, Tokens, Memos
<1> QED BY <1>1, <1>2, <1>3, <1>4, <1>5, <1>6, <1>7, <1>8, <1>9, <1>10, <1>11, <1>12, <1>13, <1>14 DEF Step

\* No bound runs below zero, and what is left of a wall goes down by one and no further than
\* the caller's cut.
LEMMA TickKeepsTypes ==
    ASSUME TypeOK, Tick
    PROVE  /\ TypeOK'
           /\ \A f \in Fetches : left'[f] >= left[f] - 1
<1> USE DEF TypeOK
<1>1. \A f \in Fetches : Max({left[f] - 1, -Margin}) \in Int /\ Max({left[f] - 1, -Margin}) >= left[f] - 1
  <2> TAKE f \in Fetches
  <2>1. left[f] - 1 \in Int /\ -Margin \in Int
    BY ClockIsNat
  <2> QED BY <2>1, MaxOfTwo
<1>2. left' \in [Fetches -> Int] /\ \A f \in Fetches : left'[f] >= left[f] - 1
  BY <1>1 DEF Tick
<1>3. timer' \in [Fetches -> Nat]
  <2>1. ASSUME NEW f \in Fetches, pc[f] \in Timed PROVE timer[f] - 1 \in Nat
    BY <2>1 DEF Tick, Due
  <2> QED BY <2>1 DEF Tick
<1> QED BY <1>2, <1>3 DEF Tick

LEMMA InitTypes == Init => TypeOK
<1> SUFFICES ASSUME Init PROVE TypeOK
  OBVIOUS
<1>1. policy \in [Fetches -> Policies]
  BY FetchAssumption DEF Init
<1>2. left \in [Fetches -> Int]
  <2>1. UNION {Walls[p] : p \in Policies} \subseteq Int
    BY FetchAssumption
  <2>2. left \in [Fetches -> UNION {Walls[p] : p \in Policies}]
    BY DEF Init
  <2> QED BY <2>1, <2>2
<1>3. /\ pc \in [Fetches -> Places] /\ timer \in [Fetches -> Nat] /\ budget \in [Fetches -> Nat]
      /\ kind \in [Fetches -> Kinds] /\ token \in [Fetches -> Tokens]
  BY DEF Init, Places, Queues, Kinds, Tokens
<1>4. /\ fed \subseteq Fetches /\ launch \in [Fetches -> {"never", "prompt", "late"}]
      /\ memo \in [Keys -> Memos] /\ seen \in [Keys -> SUBSET Memos]
      /\ endpoint \in [Hosts -> Fetches \cup {NoFetch}]
  BY DEF Init, Memos
<1> QED BY <1>1, <1>2, <1>3, <1>4 DEF TypeOK

\* Every variable keeps its type: no navigation gets less than its floor and no step a
\* bound below zero.
THEOREM TypeCorrect == Spec => []TypeOK
<1>1. Init => TypeOK
  BY InitTypes
<1>2. TypeOK /\ [Next]_vars => TypeOK'
  <2>1. ASSUME TypeOK, NEW f \in Fetches, Step(f) PROVE TypeOK'
    BY <2>1, StepKeepsTypes
  <2>2. ASSUME TypeOK, Tick PROVE TypeOK'
    BY <2>2, TickKeepsTypes
  <2>3. ASSUME TypeOK, AllDone \/ UNCHANGED vars PROVE TypeOK'
    BY <2>3 DEF AllDone, TypeOK, vars
  <2> QED BY <2>1, <2>2, <2>3 DEF Next
<1> QED BY <1>1, <1>2, PTL DEF Spec

-----------------------------------------------------------------------------
(* The gates. *)

\* A step of f moves f alone, and enters a gate past its check or was inside already.
LEMMA StepMoves ==
    ASSUME TypeOK, NEW f \in Fetches, Step(f)
    PROVE  /\ \A g \in Fetches \ {f} : pc'[g] = pc[g]
           /\ policy' = policy
           /\ Escalating(f)' => Escalating(f) \/ EscalationFree(f)
           /\ HoldsHost(f)' => Dials(f)' = Dials(f) /\ (HoldsHost(f) \/ HostFree(f))
           /\ HoldsSlot(f)' => HoldsSlot(f) \/ SlotFree
<1> USE DEF TypeOK, Goes, Settles
<1>a. ASSUME TryRender(f)
      PROVE  /\ \A g \in Fetches \ {f} : pc'[g] = pc[g]
             /\ pc'[f] \in {"done", "renderQueue"}
  BY <1>a DEF TryRender
<1> USE DEF Escalating, HoldsHost, HoldsSlot, Gets, Browsing, Dials
<1>1. CASE Dial(f, "start", "direct") \/ Dial(f, "feedQueue", "feed")
  BY <1>1 DEF Dial
<1>2. CASE DirectEnds(f) \/ DirectEscalates(f)
  BY <1>2 DEF DirectEnds, DirectEscalates
<1>3. CASE EnterEscalation(f)
  BY <1>3, <1>a DEF EnterEscalation
<1>4. CASE FeedServes(f) \/ Unavailable(f) \/ CutInQueue(f) \/ Reads(f)
  BY <1>4 DEF FeedServes, Unavailable, CutInQueue, Reads
<1>5. CASE FeedFails(f)
  BY <1>5, <1>a DEF FeedFails
<1>6. CASE TakeHost(f) \/ TornDown(f) \/ Stopped(f)
  BY <1>6 DEF TakeHost, TornDown, Stopped
<1>7. CASE TakeSlot(f)
  BY <1>7 DEF TakeSlot
<1>8. CASE Launched(f) \/ Navigated(f) \/ Settled(f) \/ DomIsRead(f)
  BY <1>8 DEF Launched, Navigated, Settled, DomIsRead
<1>9. CASE OffHost(f) \/ ReadFails(f) \/ TooLarge(f) \/ Drained(f) \/ Breaks(f)
  BY <1>9 DEF OffHost, ReadFails, TooLarge, Drained, Breaks
<1>10. CASE CutRunning(f)
  BY <1>10 DEF CutRunning
<1>11. CASE FindsFeed(f) \/ FindsNothing(f) \/ ProviderCut(f)
  BY <1>11 DEF FindsFeed, FindsNothing, ProviderCut
<1> QED BY <1>1, <1>2, <1>3, <1>4, <1>5, <1>6, <1>7, <1>8, <1>9, <1>10, <1>11 DEF Step

EscalateAlone ==
    \A f, g \in Fetches :
        f # g /\ QuestionOf[f] = QuestionOf[g] /\ CitedHost[f] = CitedHost[g] => ~(Escalating(f) /\ Escalating(g))

HostAlone == \A f, g \in Fetches : f # g /\ SameGate(f, g) => ~(HoldsHost(f) /\ HoldsHost(g))

Holders == {f \in Fetches : HoldsSlot(f)}
SlotsCapped == Cardinality(Holders) <= LaunchCap

GatesInv == TypeOK /\ EscalateAlone /\ HostAlone /\ SlotsCapped

LEMMA StepKeepsGates ==
    ASSUME GatesInv, NEW f \in Fetches, Step(f)
    PROVE  EscalateAlone' /\ HostAlone' /\ SlotsCapped'
<1>1. /\ TypeOK
      /\ \A g \in Fetches \ {f} : pc'[g] = pc[g]
      /\ policy' = policy
      /\ Escalating(f)' => Escalating(f) \/ EscalationFree(f)
      /\ HoldsHost(f)' => Dials(f)' = Dials(f) /\ (HoldsHost(f) \/ HostFree(f))
      /\ HoldsSlot(f)' => HoldsSlot(f) \/ SlotFree
  BY StepMoves DEF GatesInv
<1>2. \A g \in Fetches \ {f} :
        /\ Escalating(g)' <=> Escalating(g)
        /\ HoldsHost(g)' <=> HoldsHost(g)
        /\ HoldsSlot(g)' <=> HoldsSlot(g)
        /\ Dials(g)' = Dials(g)
  BY <1>1 DEF Escalating, HoldsHost, HoldsSlot, Dials
<1>3. EscalateAlone'
  BY <1>1, <1>2 DEF GatesInv, EscalateAlone, EscalationFree
<1>4. HostAlone'
  <2>1. ASSUME NEW g \in Fetches, NEW h \in Fetches, g # h, SameGate(g, h)', HoldsHost(g)', HoldsHost(h)'
        PROVE  FALSE
    <3>1. CASE g # f /\ h # f
      BY <1>1, <1>2, <2>1, <3>1 DEF GatesInv, HostAlone, SameGate, ScopeOf
    <3>2. ASSUME NEW k \in Fetches, k # f, SameGate(f, k)', HoldsHost(f)', HoldsHost(k)' PROVE FALSE
      <4>1. SameGate(f, k) /\ HoldsHost(k)
        BY <1>1, <1>2, <3>2 DEF SameGate, ScopeOf
      <4> QED BY <1>1, <3>2, <4>1 DEF GatesInv, HostAlone, HostFree
    <3>3. SameGate(h, g)'
      BY <2>1 DEF SameGate
    <3> QED BY <2>1, <3>1, <3>2, <3>3
  <2> QED BY <2>1 DEF HostAlone
<1>5. SlotsCapped'
  <2>1. IsFiniteSet(Holders) /\ Cardinality(Holders) \in Nat
    BY FetchAssumption, FS_Subset, FS_CardinalityType DEF Holders
  <2>2. CASE HoldsSlot(f)' /\ ~HoldsSlot(f)
    <3>1. Cardinality(Holders) < LaunchCap /\ LaunchCap \in Nat
      BY <1>1, <2>2, FetchAssumption DEF SlotFree, Holders
    <3>2. Holders' = Holders \cup {f} /\ f \notin Holders
      BY <1>2, <2>2 DEF Holders
    <3>3. Cardinality(Holders') = Cardinality(Holders) + 1
      BY <2>1, <3>2, FS_AddElement
    <3> QED BY <2>1, <3>1, <3>3 DEF SlotsCapped
  <2>3. CASE ~(HoldsSlot(f)' /\ ~HoldsSlot(f))
    <3>1. Holders' \subseteq Holders
      BY <1>2, <2>3 DEF Holders
    <3>2. Cardinality(Holders') <= Cardinality(Holders) /\ Cardinality(Holders') \in Nat
      BY <2>1, <3>1, FS_Subset, FS_CardinalityType
    <3> QED BY <2>1, <3>2, FetchAssumption DEF GatesInv, SlotsCapped
  <2> QED BY <2>2, <2>3
<1> QED BY <1>3, <1>4, <1>5

LEMMA TickKeepsGates ==
    ASSUME GatesInv, Tick \/ UNCHANGED vars
    PROVE  EscalateAlone' /\ HostAlone' /\ SlotsCapped'
<1>1. pc' = pc /\ policy' = policy
  BY DEF Tick, vars
<1> QED BY <1>1 DEF GatesInv, EscalateAlone, HostAlone, SlotsCapped, Holders, Escalating, HoldsHost, HoldsSlot,
                    SameGate, ScopeOf, Dials

LEMMA GatesHold == Spec => []GatesInv
<1>1. Init => GatesInv
  <2> SUFFICES ASSUME Init PROVE EscalateAlone /\ HostAlone /\ SlotsCapped
    BY InitTypes DEF GatesInv
  <2>1. \A f \in Fetches : ~Escalating(f) /\ ~HoldsHost(f) /\ ~HoldsSlot(f)
    BY DEF Init, Escalating, HoldsHost, HoldsSlot, Gets, Browsing
  <2>2. Holders = {}
    BY <2>1 DEF Holders
  <2>3. Cardinality(Holders) = 0
    BY <2>2, FS_EmptySet
  <2> QED BY <2>1, <2>3, FetchAssumption DEF EscalateAlone, HostAlone, SlotsCapped
<1>2. GatesInv /\ [Next]_vars => GatesInv'
  <2>1. ASSUME GatesInv, NEW f \in Fetches, Step(f) PROVE GatesInv'
    BY <2>1, StepKeepsGates, StepKeepsTypes DEF GatesInv
  <2>2. ASSUME GatesInv, Tick PROVE GatesInv'
    BY <2>2, TickKeepsGates, TickKeepsTypes DEF GatesInv
  <2>3. ASSUME GatesInv, AllDone \/ UNCHANGED vars PROVE GatesInv'
    <3>1. UNCHANGED vars
      BY <2>3 DEF AllDone
    <3>2. TypeOK'
      BY <2>3, <3>1 DEF GatesInv, TypeOK, vars
    <3> QED BY <2>3, <3>1, <3>2, TickKeepsGates DEF GatesInv
  <2> QED BY <2>1, <2>2, <2>3 DEF Next
<1> QED BY <1>1, <1>2, PTL DEF Spec

\* A host sees one request or browser of a caller at a time, and no more browsers run than
\* the cap allows, the ones being torn down included.
THEOREM PoliteAndCappedHolds == Spec => []PoliteAndCapped
<1>1. GatesInv => PoliteAndCapped
  <2> SUFFICES ASSUME GatesInv PROVE PoliteAndCapped
    OBVIOUS
  <2>1. Holders = {f \in Fetches : pc[f] \in Browsing}
    BY DEF Holders, HoldsSlot
  <2>2. Cardinality({f \in Fetches : pc[f] \in Browsing}) <= LaunchCap
    BY <2>1 DEF GatesInv, SlotsCapped
  <2>3. \A f \in Fetches : pc[f] \in Gets \cup Browsing => HoldsHost(f)
    BY DEF HoldsHost
  <2> QED BY <2>2, <2>3 DEF GatesInv, HostAlone, PoliteAndCapped
<1> QED BY <1>1, GatesHold, PTL

\* No circle of fetches waits over the gates: what holds a slot waits for no gate, what
\* holds a host waits for a slot at most, and nobody queues for the escalation gate inside
\* another.  It needs no invariant: in no state at all do the places of the coroutines
\* make a circle.
THEOREM NoCircularWaitHolds == Spec => []NoCircularWait
<1>1. NoCircularWait
  <2> SUFFICES ASSUME NEW S \in (SUBSET Fetches) \ {{}}
               PROVE  \E f \in S : pc[f] \notin Queues \/ WaitsFor(f) = {} \/ ~(WaitsFor(f) \subseteq S)
    BY DEF NoCircularWait
  <2> SUFFICES ASSUME \A f \in S : pc[f] \in Queues /\ WaitsFor(f) # {} /\ WaitsFor(f) \subseteq S
               PROVE  FALSE
    OBVIOUS
  <2>1. ASSUME NEW f \in S, pc[f] = "capQueue" PROVE FALSE
    <3>1. WaitsFor(f) = {g \in Fetches : HoldsSlot(g)}
      BY <2>1 DEF WaitsFor
    <3>2. PICK g \in S : HoldsSlot(g)
      BY <3>1
    <3> QED BY <3>2 DEF HoldsSlot, Queues, Browsing
  <2>2. ASSUME NEW f \in S, pc[f] \in {"start", "feedQueue", "renderQueue"} PROVE FALSE
    <3>1. WaitsFor(f) = {g \in Fetches : HoldsHost(g) /\ SameGate(f, g)}
      BY <2>2 DEF WaitsFor
    <3>2. PICK g \in S : HoldsHost(g)
      BY <3>1
    <3> QED BY <2>1, <3>2 DEF HoldsHost, Queues, Browsing, Gets
  <2>3. \A f \in S : pc[f] = "escalate"
    BY <2>1, <2>2 DEF Queues
  <2>4. PICK f \in S : TRUE
    OBVIOUS
  <2>5. WaitsFor(f) =
          {g \in Fetches : Escalating(g) /\ QuestionOf[g] = QuestionOf[f] /\ CitedHost[g] = CitedHost[f]}
    BY <2>3 DEF WaitsFor
  <2>6. PICK g \in S : Escalating(g)
    BY <2>5
  <2> QED BY <2>3, <2>6 DEF Escalating, Browsing
<1> QED BY <1>1, PTL

-----------------------------------------------------------------------------
(* The feeds. *)

\* A host's feed was found for that host, and whoever renders an unreadable page under a
\* policy that carries the feed, while a fetch of its own question is known to have found
\* one, has tried it.
Found(f) ==
    LET finder == endpoint[CitedHost[f]] IN
    finder # NoFetch => CitedHost[finder] = CitedHost[f]

Tried(f) ==
    pc[f] \in {"renderQueue", "capQueue"} /\ kind[f] = "wall" /\ policy[f] \in FeedPolicies =>
        LET finder == endpoint[CitedHost[f]] IN
        finder = NoFetch \/ QuestionOf[finder] # QuestionOf[f] \/ f \in fed

\* A feed is dialed by who is fed.
Feeding(f) == pc[f] \in {"feedQueue", "feed"} => f \in fed

FeedsInv == GatesInv /\ \A f \in Fetches : Found(f) /\ Tried(f) /\ Feeding(f)

\* What a step may do to the feeds and to those who should try them.
LEMMA StepFeeds ==
    ASSUME TypeOK, NEW f \in Fetches, Step(f)
    PROVE  /\ policy' = policy
           /\ \A g \in Fetches \ {f} : pc'[g] = pc[g] /\ kind'[g] = kind[g] /\ (g \in fed => g \in fed')
           /\ pc'[f] \in {"renderQueue", "capQueue"} =>
                /\ kind'[f] = kind[f] /\ fed' = fed /\ endpoint' = endpoint
                /\ \/ pc[f] = "renderQueue"
                   \/ pc[f] = "feed"
                   \/ ~KnowsFeed(f) /\ Left(f) >= RenderFloor
           /\ pc'[f] \in {"feedQueue", "feed"} => f \in fed' \/ (pc[f] \in {"feedQueue", "feed"} /\ fed' = fed)
           /\ endpoint' = endpoint \/ FindsFeed(f)
<1> USE DEF TypeOK, Goes, Settles
<1>a. ASSUME TryRender(f)
      PROVE  /\ \A g \in Fetches \ {f} : pc'[g] = pc[g]
             /\ pc'[f] = "done" \/ (pc'[f] = "renderQueue" /\ ~(Left(f) < RenderFloor))
  BY <1>a DEF TryRender
<1>b. Left(f) \in Int /\ RenderFloor \in Int
  BY QuestionsTyped, ClockIsNat
<1>1. CASE Dial(f, "start", "direct") \/ Dial(f, "feedQueue", "feed")
  BY <1>1 DEF Dial
<1>2. CASE DirectEnds(f) \/ DirectEscalates(f)
  BY <1>2 DEF DirectEnds, DirectEscalates
<1>3. CASE EnterEscalation(f)
  <2>1. CASE KnowsFeed(f)
    BY <1>3, <2>1 DEF EnterEscalation
  <2>2. CASE ~KnowsFeed(f)
    BY <1>3, <1>a, <1>b, <2>2 DEF EnterEscalation
  <2> QED BY <2>1, <2>2
<1>4. CASE FeedServes(f) \/ Unavailable(f) \/ CutInQueue(f) \/ Reads(f)
  BY <1>4 DEF FeedServes, Unavailable, CutInQueue, Reads
<1>5. CASE FeedFails(f)
  BY <1>5, <1>a DEF FeedFails
<1>6. CASE TakeHost(f) \/ TornDown(f) \/ Stopped(f)
  BY <1>6 DEF TakeHost, TornDown, Stopped
<1>7. CASE TakeSlot(f)
  BY <1>7 DEF TakeSlot
<1>8. CASE Launched(f) \/ Navigated(f) \/ Settled(f) \/ DomIsRead(f)
  BY <1>8 DEF Launched, Navigated, Settled, DomIsRead
<1>9. CASE OffHost(f) \/ ReadFails(f) \/ TooLarge(f) \/ Drained(f) \/ Breaks(f)
  BY <1>9 DEF OffHost, ReadFails, TooLarge, Drained, Breaks
<1>10. CASE CutRunning(f)
  BY <1>10 DEF CutRunning, Browsing
<1>11. CASE FindsFeed(f) \/ FindsNothing(f) \/ ProviderCut(f)
  BY <1>11 DEF FindsFeed, FindsNothing, ProviderCut
<1> QED BY <1>1, <1>2, <1>3, <1>4, <1>5, <1>6, <1>7, <1>8, <1>9, <1>10, <1>11 DEF Step

LEMMA StepKeepsFeeds ==
    ASSUME FeedsInv, NEW f \in Fetches, Step(f)
    PROVE  \A g \in Fetches : Found(g)' /\ Tried(g)' /\ Feeding(g)'
<1>0. TypeOK /\ EscalateAlone
  BY DEF FeedsInv, GatesInv
<1>1. /\ policy' = policy
      /\ \A g \in Fetches \ {f} : pc'[g] = pc[g] /\ kind'[g] = kind[g] /\ (g \in fed => g \in fed')
      /\ pc'[f] \in {"renderQueue", "capQueue"} =>
            /\ kind'[f] = kind[f] /\ fed' = fed /\ endpoint' = endpoint
            /\ pc[f] = "renderQueue" \/ pc[f] = "feed" \/ (~KnowsFeed(f) /\ Left(f) >= RenderFloor)
      /\ pc'[f] \in {"feedQueue", "feed"} => f \in fed' \/ (pc[f] \in {"feedQueue", "feed"} /\ fed' = fed)
      /\ endpoint' = endpoint \/ FindsFeed(f)
  BY <1>0, StepFeeds
<1> TAKE g \in Fetches
<1>2. CitedHost[g] \in Hosts /\ CitedHost[f] \in Hosts /\ NoFetch \notin Fetches
  BY FetchAssumption
<1>3. CASE endpoint' = endpoint
  <2>1. Found(g)'
    BY <1>3 DEF FeedsInv, Found
  <2>2. CASE g # f
    BY <1>1, <1>3, <2>1, <2>2 DEF FeedsInv, Tried, Feeding
  <2>3. CASE g = f
    <3>1. Feeding(f)'
      BY <1>1 DEF FeedsInv, Feeding
    <3>2. ASSUME pc'[f] \in {"renderQueue", "capQueue"}, kind'[f] = "wall", policy[f] \in FeedPolicies,
                 endpoint[CitedHost[f]] # NoFetch
          PROVE  f \in fed \/ QuestionOf[endpoint[CitedHost[f]]] # QuestionOf[f]
      <4>1. CASE pc[f] = "renderQueue" \/ pc[f] = "feed"
        BY <1>1, <3>2, <4>1 DEF FeedsInv, Tried, Feeding
      <4>2. CASE ~KnowsFeed(f) /\ Left(f) >= RenderFloor
        <5>1. Left(f) >= FeedFloor
          BY <1>0, <4>2, QuestionsTyped, ClockIsNat, FetchAssumption
        <5> QED BY <1>1, <3>2, <4>2, <5>1 DEF KnowsFeed
      <4> QED BY <1>1, <3>2, <4>1, <4>2
    <3>3. Tried(f)'
      BY <1>1, <1>3, <3>2 DEF Tried
    <3> QED BY <2>1, <2>3, <3>1, <3>3
  <2> QED BY <2>1, <2>2, <2>3
<1>4. CASE FindsFeed(f)
  <2>1. /\ pc[f] = "classify" /\ pc'[f] = "done" /\ fed' = fed /\ kind' = kind
        /\ endpoint' = [endpoint EXCEPT ![CitedHost[f]] = IF @ = NoFetch THEN f ELSE @]
    BY <1>0, <1>4 DEF FindsFeed, Settles, Goes, TypeOK
  <2>2. Found(g)'
    BY <1>0, <1>2, <2>1 DEF FeedsInv, Found, TypeOK
  <2>3. Feeding(g)'
    BY <1>1, <2>1 DEF FeedsInv, Feeding
  <2>4. Tried(g)'
    <3>1. CASE g = f
      BY <2>1, <3>1 DEF Tried
    <3>2. CASE g # f /\ endpoint'[CitedHost[g]] = endpoint[CitedHost[g]]
      BY <1>1, <2>1, <3>2 DEF FeedsInv, Tried
    <3>3. CASE g # f /\ endpoint'[CitedHost[g]] # endpoint[CitedHost[g]]
      <4>1. CitedHost[g] = CitedHost[f] /\ endpoint'[CitedHost[g]] = f
        BY <1>0, <1>2, <2>1, <3>3 DEF TypeOK
      <4>2. pc[g] \in {"renderQueue", "capQueue"} => QuestionOf[g] # QuestionOf[f]
        BY <1>0, <2>1, <3>3, <4>1 DEF EscalateAlone, Escalating
      <4> QED BY <1>1, <3>3, <4>1, <4>2 DEF Tried
    <3> QED BY <3>1, <3>2, <3>3
  <2> QED BY <2>2, <2>3, <2>4
<1> QED BY <1>1, <1>3, <1>4

LEMMA FeedsHold == Spec => []FeedsInv
<1>1. Init /\ GatesInv => FeedsInv
  <2> SUFFICES ASSUME Init, GatesInv, NEW f \in Fetches PROVE Found(f) /\ Tried(f) /\ Feeding(f)
    BY DEF FeedsInv
  <2>1. CitedHost[f] \in Hosts
    BY FetchAssumption
  <2> QED BY <2>1 DEF Init, Found, Tried, Feeding
<1>2. FeedsInv /\ GatesInv' /\ [Next]_vars => FeedsInv'
  <2>1. ASSUME FeedsInv, GatesInv', NEW f \in Fetches, Step(f) PROVE FeedsInv'
    BY <2>1, StepKeepsFeeds DEF FeedsInv
  <2>2. ASSUME FeedsInv, GatesInv', Tick \/ AllDone \/ UNCHANGED vars PROVE FeedsInv'
    <3>1. pc' = pc /\ kind' = kind /\ policy' = policy /\ fed' = fed /\ endpoint' = endpoint
      BY <2>2 DEF Tick, AllDone, vars
    <3> QED BY <2>2, <3>1 DEF FeedsInv, Found, Tried, Feeding
  <2> QED BY <2>1, <2>2 DEF Next
<1> QED BY <1>1, <1>2, GatesHold, PTL DEF Spec

\* No fetch whose policy carries the feed launches a browser for an unreadable page once a
\* fetch of the same question has found its host's feed, unless the feed was tried for the
\* page: whatever policies the fetches of a question mix, and whatever hosts the feeds are on.
THEOREM FeedBeforeBrowserHolds == Spec => FeedBeforeBrowser
<1>1. FeedsInv =>
        \A f \in Fetches :
            pc[f] = "capQueue" /\ pc'[f] = "launch" /\ kind[f] = "wall" /\ policy[f] \in FeedPolicies =>
                LET finder == endpoint[CitedHost[f]] IN
                finder = NoFetch \/ QuestionOf[finder] # QuestionOf[f] \/ f \in fed
  BY DEF FeedsInv, Tried
<1> QED BY <1>1, FeedsHold, PTL DEF FeedBeforeBrowser

-----------------------------------------------------------------------------
(* The memos. *)

MemoTrue(k) == IF seen[k] = {} THEN memo[k] = "none" ELSE memo[k] \in seen[k]

TokenTrue(f) ==
    /\ token[f] = "render_timeout" => "timed_out" \in seen[Key(f)]
    /\ token[f] = "rendered_no_text" => "no_text" \in seen[Key(f)]

MemoInv == TypeOK /\ (\A k \in Keys : MemoTrue(k)) /\ (\A f \in Fetches : TokenTrue(f))

\* A step remembers what it finds, and takes a token from the memo or from what it finds.
LEMMA StepMemos ==
    ASSUME TypeOK, NEW f \in Fetches, Step(f)
    PROVE  /\ policy' = policy
           /\ \A g \in Fetches \ {f} : token'[g] = token[g]
           /\ \/ /\ memo' = memo /\ seen' = seen
                 /\ \/ token'[f] \in {token[f], "wall_budget", "declined", "rendered"}
                    \/ token'[f] = "rendered_no_text" /\ memo[Key(f)] = "no_text"
                    \/ token'[f] = "render_timeout" /\ memo[Key(f)] = "timed_out"
              \/ \E x \in {"timed_out", "no_text"} :
                    /\ Remembers(f, x) /\ Finds(f, x)
                    /\ token'[f] \in {"declined", "rendered"} \/ (token'[f] = "render_timeout" /\ x = "timed_out")
<1> USE DEF TypeOK, Settles, Records
<1>a. ASSUME TryRender(f)
      PROVE  /\ \A g \in Fetches \ {f} : token'[g] = token[g]
             /\ \/ token'[f] \in {token[f], "wall_budget"}
                \/ token'[f] = "rendered_no_text" /\ memo[Key(f)] = "no_text"
                \/ token'[f] = "render_timeout" /\ memo[Key(f)] = "timed_out"
  BY <1>a DEF TryRender
<1>1. CASE Dial(f, "start", "direct") \/ Dial(f, "feedQueue", "feed")
  BY <1>1 DEF Dial
<1>2. CASE DirectEnds(f) \/ DirectEscalates(f)
  BY <1>2 DEF DirectEnds, DirectEscalates
<1>3. CASE EnterEscalation(f)
  BY <1>3, <1>a DEF EnterEscalation
<1>4. CASE FeedServes(f) \/ Unavailable(f) \/ CutInQueue(f) \/ Reads(f)
  BY <1>4 DEF FeedServes, Unavailable, CutInQueue, Reads
<1>5. CASE FeedFails(f)
  BY <1>5, <1>a DEF FeedFails
<1>6. CASE TakeHost(f) \/ TornDown(f) \/ Stopped(f)
  BY <1>6 DEF TakeHost, TornDown, Stopped
<1>7. CASE TakeSlot(f)
  BY <1>7 DEF TakeSlot
<1>8. CASE Launched(f) \/ Navigated(f) \/ Settled(f) \/ DomIsRead(f)
  BY <1>8 DEF Launched, Navigated, Settled, DomIsRead
<1>9. CASE TooLarge(f) \/ Drained(f) \/ Breaks(f)
  BY <1>9 DEF TooLarge, Drained, Breaks
<1>10. CASE OffHost(f)
  BY <1>10 DEF OffHost
<1>11. CASE ReadFails(f)
  BY <1>11 DEF ReadFails
<1>12. CASE CutRunning(f)
  BY <1>12 DEF CutRunning
<1>13. CASE FindsFeed(f) \/ ProviderCut(f)
  BY <1>13 DEF FindsFeed, ProviderCut
<1>14. CASE FindsNothing(f)
  BY <1>14 DEF FindsNothing
<1> QED BY <1>1, <1>2, <1>3, <1>4, <1>5, <1>6, <1>7, <1>8, <1>9, <1>10, <1>11, <1>12, <1>13, <1>14 DEF Step

LEMMA StepKeepsMemos ==
    ASSUME MemoInv, NEW f \in Fetches, Step(f)
    PROVE  (\A k \in Keys : MemoTrue(k)') /\ (\A g \in Fetches : TokenTrue(g)')
<1>1. TypeOK /\ policy' = policy /\ \A g \in Fetches \ {f} : token'[g] = token[g]
  BY StepMemos DEF MemoInv
<1>2. \A g \in Fetches : Key(g) \in Keys /\ Key(g)' = Key(g)
  BY <1>1, QuestionsTyped DEF Key, ScopeOf
<1>3. CASE memo' = memo /\ seen' = seen
  <2>1. \A k \in Keys : MemoTrue(k)'
    BY <1>3 DEF MemoInv, MemoTrue
  <2>2. \/ token'[f] \in {token[f], "wall_budget", "declined", "rendered"}
        \/ token'[f] = "rendered_no_text" /\ memo[Key(f)] = "no_text"
        \/ token'[f] = "render_timeout" /\ memo[Key(f)] = "timed_out"
        \/ \E x \in {"timed_out", "no_text"} : Finds(f, x) /\ Remembers(f, x) /\
              (token'[f] \in {"declined", "rendered"} \/ (token'[f] = "render_timeout" /\ x = "timed_out"))
    BY <1>1, StepMemos
  <2>3. TokenTrue(f)'
    <3>1. MemoTrue(Key(f)) /\ TokenTrue(f)
      BY <1>2 DEF MemoInv
    <3>2. CASE \E x \in {"timed_out", "no_text"} : Finds(f, x) /\ Remembers(f, x) /\
                  (token'[f] \in {"declined", "rendered"} \/ (token'[f] = "render_timeout" /\ x = "timed_out"))
      BY <1>1, <1>2, <3>2 DEF TokenTrue, Finds, TypeOK
    <3> QED BY <1>2, <1>3, <2>2, <3>1, <3>2 DEF TokenTrue, MemoTrue
  <2>4. ASSUME NEW g \in Fetches, g # f PROVE TokenTrue(g)'
    BY <1>1, <1>2, <1>3, <2>4 DEF MemoInv, TokenTrue
  <2> QED BY <2>1, <2>3, <2>4
<1>4. CASE \E x \in {"timed_out", "no_text"} :
              /\ Remembers(f, x) /\ Finds(f, x)
              /\ token'[f] \in {"declined", "rendered"} \/ (token'[f] = "render_timeout" /\ x = "timed_out")
  <2>1. PICK x \in {"timed_out", "no_text"} :
              /\ Remembers(f, x) /\ Finds(f, x)
              /\ token'[f] \in {"declined", "rendered"} \/ (token'[f] = "render_timeout" /\ x = "timed_out")
    BY <1>4
  <2>2. /\ seen'[Key(f)] = seen[Key(f)] \cup {x} /\ memo'[Key(f)] = x
        /\ \A k \in Keys \ {Key(f)} : seen'[k] = seen[k] /\ memo'[k] = memo[k]
    BY <1>1, <1>2, <2>1 DEF Remembers, Finds, TypeOK
  <2>3. \A k \in Keys : MemoTrue(k)'
    BY <2>2 DEF MemoInv, MemoTrue
  <2>4. TokenTrue(f)'
    BY <1>2, <2>1, <2>2 DEF TokenTrue
  <2>5. ASSUME NEW g \in Fetches, g # f PROVE TokenTrue(g)'
    BY <1>1, <1>2, <2>2, <2>5 DEF MemoInv, TokenTrue
  <2> QED BY <2>3, <2>4, <2>5
<1> QED BY <1>1, <1>3, <1>4, StepMemos

-----------------------------------------------------------------------------
(* The walls. *)

Before == {"start", "direct", "escalate", "feedQueue", "feed", "renderQueue", "capQueue", "launch"}

\* A launch runs on a budget that leaves its navigation, the steps after and the exit.
Launching(f) ==
    pc[f] = "launch" =>
        /\ timer[f] <= Launch
        /\ Left(f) + Launch - timer[f] >= budget[f] + PostGotoTail + ExitReserve

\* After a launch inside the slack, what is left of the wall is more than the bounds left.
Roomy(f) ==
    launch[f] = "prompt" =>
        /\ pc[f] = "goto" => Left(f) > timer[f] + Settle + DomRead + Teardown
        /\ pc[f] = "settle" => Left(f) > timer[f] + DomRead + Teardown
        /\ pc[f] \in {"read", "drain"} => Left(f) > timer[f] + Teardown
        /\ pc[f] = "close" => Left(f) > timer[f]
        /\ pc[f] = "stop" => Left(f) > 0

Blamed(f) ==
    /\ pc[f] \in Before => launch[f] = "never" /\ token[f] = "none"
    /\ token[f] = "wall_budget" => launch[f] # "prompt" /\ pc[f] \in {"close", "stop", "done"}

WallOf(f) == Launching(f) /\ Roomy(f) /\ Blamed(f)
WallInv == TypeOK /\ \A f \in Fetches : WallOf(f)

LEMMA StepKeepsWallOfOthers ==
    ASSUME TypeOK, NEW f \in Fetches, Step(f)
    PROVE  /\ left' = left
           /\ \A g \in Fetches \ {f} : /\ pc'[g] = pc[g] /\ timer'[g] = timer[g] /\ budget'[g] = budget[g]
                                       /\ launch'[g] = launch[g] /\ token'[g] = token[g]
<1> USE DEF TypeOK, Goes, Settles, Records, LaunchEnds
<1>a. ASSUME TryRender(f)
      PROVE  \A g \in Fetches \ {f} : pc'[g] = pc[g] /\ timer'[g] = timer[g] /\ token'[g] = token[g]
  BY <1>a DEF TryRender
<1>1. CASE Dial(f, "start", "direct") \/ Dial(f, "feedQueue", "feed") \/ DirectEnds(f) \/ DirectEscalates(f)
  BY <1>1 DEF Dial, DirectEnds, DirectEscalates
<1>2. CASE EnterEscalation(f) \/ FeedFails(f)
  BY <1>2, <1>a DEF EnterEscalation, FeedFails
<1>3. CASE FeedServes(f) \/ Unavailable(f) \/ CutInQueue(f) \/ Reads(f)
  BY <1>3 DEF FeedServes, Unavailable, CutInQueue, Reads
<1>4. CASE TakeHost(f) \/ TornDown(f) \/ Stopped(f) \/ TakeSlot(f)
  BY <1>4 DEF TakeHost, TornDown, Stopped, TakeSlot
<1>5. CASE Launched(f) \/ Navigated(f) \/ Settled(f) \/ DomIsRead(f)
  BY <1>5 DEF Launched, Navigated, Settled, DomIsRead
<1>6. CASE TooLarge(f) \/ Drained(f) \/ Breaks(f) \/ OffHost(f) \/ ReadFails(f)
  BY <1>6 DEF TooLarge, Drained, Breaks, OffHost, ReadFails
<1>7. CASE CutRunning(f) \/ FindsFeed(f) \/ FindsNothing(f) \/ ProviderCut(f)
  BY <1>7 DEF CutRunning, FindsFeed, FindsNothing, ProviderCut
<1> QED BY <1>1, <1>2, <1>3, <1>4, <1>5, <1>6, <1>7 DEF Step

LEMMA StepKeepsWall ==
    ASSUME TypeOK, NEW f \in Fetches, Step(f), WallOf(f)
    PROVE  WallOf(f)'
<1>0. /\ Left(f) \in Int /\ Left(f)' = Left(f)
      /\ timer[f] \in Nat /\ budget[f] \in Nat /\ pc[f] \in Places /\ token[f] \in Tokens
  BY QuestionsTyped, StepKeepsWallOfOthers DEF TypeOK, Left
<1>c. /\ Settle \in Nat /\ DomRead \in Nat /\ Teardown \in Nat /\ Slack \in Nat /\ Launch \in Nat
      /\ PostGotoTail = Settle + DomRead /\ ExitReserve = Teardown + Slack /\ GotoFloor \in Nat
  BY ClockIsNat DEF PostGotoTail, ExitReserve
<1>a. ASSUME TryRender(f), pc[f] \in {"escalate", "feed"}, launch' = launch PROVE WallOf(f)'
  <2>1. /\ pc'[f] \in {"done", "renderQueue"} /\ launch'[f] = "never"
        /\ pc'[f] = "renderQueue" => token'[f] = "none"
    BY <1>a DEF TryRender, Settles, Records, Goes, TypeOK, WallOf, Blamed, Before
  <2> QED BY <2>1 DEF WallOf, Launching, Roomy, Blamed, Before
<1>1. CASE Dial(f, "start", "direct") \/ Dial(f, "feedQueue", "feed") \/ DirectEnds(f) \/ DirectEscalates(f)
  <2>1. /\ pc'[f] \in {"direct", "feed", "done", "escalate"}
        /\ launch'[f] = "never" /\ token'[f] = "none"
    BY <1>1 DEF Dial, DirectEnds, DirectEscalates, Goes, TypeOK, WallOf, Blamed, Before
  <2> QED BY <2>1 DEF WallOf, Launching, Roomy, Blamed, Before
<1>2. CASE EnterEscalation(f) \/ FeedFails(f)
  <2>1. CASE TryRender(f)
    BY <1>2, <1>a, <2>1 DEF EnterEscalation, FeedFails
  <2>2. CASE ~TryRender(f)
    <3>1. pc'[f] = "feedQueue" /\ launch'[f] = "never" /\ token'[f] = "none"
      BY <1>2, <2>2 DEF EnterEscalation, FeedFails, Goes, TypeOK, WallOf, Blamed, Before
    <3> QED BY <3>1 DEF WallOf, Launching, Roomy, Blamed, Before
  <2> QED BY <2>1, <2>2
<1>3. CASE FeedServes(f) \/ Unavailable(f) \/ CutInQueue(f)
  <2>1. pc'[f] = "done" /\ launch'[f] = "never"
    BY <1>3 DEF FeedServes, Unavailable, CutInQueue, Settles, Goes, TypeOK, WallOf, Blamed, Before
  <2> QED BY <2>1 DEF WallOf, Launching, Roomy, Blamed, Before
<1>4. CASE TakeHost(f)
  <2>1. pc'[f] = "capQueue" /\ launch'[f] = "never" /\ token'[f] = "none"
    BY <1>4 DEF TakeHost, Goes, TypeOK, WallOf, Blamed, Before
  <2> QED BY <2>1 DEF WallOf, Launching, Roomy, Blamed, Before
<1>5. CASE TakeSlot(f)
  <2>0. launch'[f] = "never" /\ token[f] = "none"
    BY <1>5 DEF TakeSlot, WallOf, Blamed, Before
  <2>1. CASE GotoBudget(f) < GotoFloor
    <3>1. pc'[f] = "done"
      BY <1>5, <2>1 DEF TakeSlot, Settles, Goes, TypeOK
    <3> QED BY <2>0, <3>1 DEF WallOf, Launching, Roomy, Blamed, Before
  <2>2. CASE ~(GotoBudget(f) < GotoFloor)
    <3>1. /\ pc'[f] = "launch" /\ timer'[f] = Launch /\ budget'[f] = GotoBudget(f)
          /\ token'[f] = "none"
      BY <1>5, <2>0, <2>2 DEF TakeSlot, Goes, TypeOK
    <3>2. GotoBudget(f) \in Int /\ GotoBudget(f) <= Left(f) - ExitReserve - PostGotoTail
      BY GotoBudgetIsInt
    <3>3. Launching(f)'
      BY <1>0, <1>c, <3>1, <3>2 DEF Launching
    <3> QED BY <2>0, <3>1, <3>3 DEF WallOf, Roomy, Blamed, Before
  <2> QED BY <2>1, <2>2
<1>6. CASE Launched(f)
  <2>1. /\ pc'[f] = "goto" /\ timer'[f] = budget[f] /\ token'[f] = "none"
        /\ launch'[f] = IF Launch - timer[f] < Slack THEN "prompt" ELSE "late"
    BY <1>6 DEF Launched, LaunchEnds, Goes, TypeOK, WallOf, Blamed, Before
  <2>2. Left(f) + Launch - timer[f] >= budget[f] + PostGotoTail + ExitReserve
    BY <1>6 DEF Launched, WallOf, Launching
  <2>3. launch'[f] = "prompt" => Left(f) > budget[f] + Settle + DomRead + Teardown
    BY <1>0, <1>c, <2>1, <2>2
  <2> QED BY <1>0, <2>1, <2>3 DEF WallOf, Launching, Roomy, Blamed, Before
<1>7. CASE Navigated(f)
  <2>1. pc[f] = "goto" /\ pc'[f] = "settle" /\ timer'[f] = Settle /\ token'[f] = token[f] /\ launch'[f] = launch[f]
    BY <1>7 DEF Navigated, Goes, TypeOK
  <2>2. launch[f] = "prompt" => Left(f) > Settle + DomRead + Teardown
    BY <1>0, <1>c, <2>1 DEF WallOf, Roomy
  <2> QED BY <1>0, <2>1, <2>2 DEF WallOf, Launching, Roomy, Blamed, Before
<1>8. CASE Settled(f)
  <2>1. pc[f] = "settle" /\ pc'[f] = "read" /\ timer'[f] = DomRead /\ token'[f] = token[f] /\ launch'[f] = launch[f]
    BY <1>8 DEF Settled, Goes, TypeOK
  <2>2. launch[f] = "prompt" => Left(f) > DomRead + Teardown
    BY <1>0, <1>c, <2>1 DEF WallOf, Roomy
  <2> QED BY <1>0, <2>1, <2>2 DEF WallOf, Launching, Roomy, Blamed, Before
<1>9. CASE DomIsRead(f)
  <2>1. /\ pc[f] = "read" /\ pc'[f] = "drain" /\ timer'[f] <= timer[f] /\ timer'[f] \in Nat
        /\ token'[f] = token[f] /\ launch'[f] = launch[f]
    BY <1>9, DrainIsNat DEF DomIsRead, Goes, TypeOK
  <2>2. launch[f] = "prompt" => Left(f) > timer[f] + Teardown
    BY <2>1 DEF WallOf, Roomy
  <2>3. launch[f] = "prompt" => Left(f) > timer'[f] + Teardown
    BY <1>0, <1>c, <2>1, <2>2
  <2> QED BY <1>0, <2>1, <2>3 DEF WallOf, Launching, Roomy, Blamed, Before
<1>10. CASE OffHost(f) \/ ReadFails(f) \/ TooLarge(f) \/ Drained(f)
  <2>1. /\ pc[f] \in {"settle", "read", "drain"} /\ pc'[f] = "close" /\ timer'[f] = Teardown
        /\ token'[f] \in {"declined", "render_timeout", "rendered"} /\ launch'[f] = launch[f]
    BY <1>10 DEF OffHost, ReadFails, TooLarge, Drained, Records, Goes, TypeOK
  <2>2. launch[f] = "prompt" => Left(f) > Teardown
    BY <1>0, <1>c, <2>1 DEF WallOf, Roomy
  <2> QED BY <1>0, <2>1, <2>2 DEF WallOf, Launching, Roomy, Blamed, Before
<1>11. CASE Breaks(f)
  <2>1. /\ pc[f] \in {"launch", "goto", "settle", "drain"} /\ pc'[f] = "close" /\ timer'[f] = Teardown
        /\ token'[f] = "declined"
        /\ launch'[f] = IF pc[f] # "launch" THEN launch[f]
                        ELSE IF Launch - timer[f] < Slack THEN "prompt" ELSE "late"
    BY <1>11 DEF Breaks, LaunchEnds, Records, Goes, TypeOK
  <2>2. launch'[f] = "prompt" => Left(f) > Teardown
    BY <1>0, <1>c, <2>1 DEF WallOf, Roomy, Launching
  <2> QED BY <1>0, <2>1, <2>2 DEF WallOf, Launching, Roomy, Blamed, Before
<1>12. CASE TornDown(f)
  <2>1. pc[f] = "close" /\ pc'[f] = "stop" /\ token'[f] = token[f] /\ launch'[f] = launch[f]
    BY <1>12 DEF TornDown, Goes, TypeOK
  <2>2. launch[f] = "prompt" => Left(f) > 0
    BY <1>0, <2>1 DEF WallOf, Roomy
  <2> QED BY <1>0, <2>1, <2>2 DEF WallOf, Launching, Roomy, Blamed, Before
<1>13. CASE Stopped(f)
  <2>1. /\ pc[f] = "stop" /\ pc'[f] = (IF token[f] = "rendered" THEN "classify" ELSE "done")
        /\ token'[f] = token[f] /\ launch'[f] = launch[f]
    BY <1>13 DEF Stopped, Goes, TypeOK
  <2> QED BY <2>1 DEF WallOf, Launching, Roomy, Blamed, Before
<1>14. CASE Reads(f) \/ FindsFeed(f) \/ FindsNothing(f)
  <2>1. pc'[f] = "done" /\ token'[f] \in {"rendered", "declined"}
    BY <1>14 DEF Reads, FindsFeed, FindsNothing, Settles, Records, Goes, TypeOK
  <2> QED BY <2>1 DEF WallOf, Launching, Roomy, Blamed, Before
<1>15. CASE CutRunning(f)
  <2>1. /\ pc[f] \in Browsing /\ Left(f) <= 0 /\ pc'[f] \in {"close", "stop"}
        /\ token'[f] = "wall_budget"
        /\ launch'[f] = IF pc[f] # "launch" THEN launch[f]
                        ELSE IF Launch - timer[f] < Slack THEN "prompt" ELSE "late"
    BY <1>15 DEF CutRunning, LaunchEnds, Records, Goes, TypeOK
  <2>2. launch'[f] # "prompt"
    BY <1>0, <1>c, <2>1 DEF WallOf, Roomy, Launching, Browsing
  <2> QED BY <2>1, <2>2 DEF WallOf, Launching, Roomy, Blamed, Before
<1>16. CASE ProviderCut(f)
  <2>1. pc'[f] = "done" /\ token'[f] = token[f] /\ launch'[f] = launch[f]
    BY <1>16 DEF ProviderCut, Goes, TypeOK
  <2> QED BY <2>1 DEF WallOf, Launching, Roomy, Blamed, Before
<1> QED BY <1>1, <1>2, <1>3, <1>4, <1>5, <1>6, <1>7, <1>8, <1>9, <1>10, <1>11, <1>12, <1>13, <1>14,
           <1>15, <1>16 DEF Step

\* Between two instants the wall and the bounds run down together.
LEMMA TickKeepsWall ==
    ASSUME TypeOK, Tick, NEW f \in Fetches, WallOf(f)
    PROVE  WallOf(f)'
<1>1. /\ pc' = pc /\ budget' = budget /\ launch' = launch /\ token' = token
      /\ timer'[f] = IF pc[f] \in Timed THEN timer[f] - 1 ELSE timer[f]
      /\ pc[f] # "stop"
  BY DEF Tick, Due, TypeOK
<1>2. Left(f)' \in Int /\ Left(f) \in Int /\ Left(f)' >= Left(f) - 1
  BY TickKeepsTypes, QuestionsTyped DEF Left, TypeOK
<1>3. timer[f] \in Nat /\ budget[f] \in Nat
  BY DEF TypeOK
<1>4. pc[f] \in {"launch", "goto", "settle", "read", "drain", "close"} => timer'[f] = timer[f] - 1
  BY <1>1 DEF Timed, Browsing
<1>5. Launching(f)'
  BY <1>1, <1>2, <1>3, <1>4, ClockIsNat DEF WallOf, Launching, PostGotoTail, ExitReserve
<1>6. Roomy(f)'
  BY <1>1, <1>2, <1>3, <1>4, ClockIsNat DEF WallOf, Roomy
<1> QED BY <1>1, <1>5, <1>6 DEF WallOf, Blamed

TokensInv == WallInv /\ MemoInv

LEMMA TokensInvHolds == Spec => []TokensInv
<1>1. Init => TokensInv
  <2> SUFFICES ASSUME Init PROVE TokensInv
    OBVIOUS
  <2>1. TypeOK
    BY InitTypes
  <2>2. \A f \in Fetches : WallOf(f)
    BY DEF Init, WallOf, Launching, Roomy, Blamed
  <2>3. (\A k \in Keys : MemoTrue(k)) /\ (\A f \in Fetches : TokenTrue(f))
    BY DEF Init, MemoTrue, TokenTrue
  <2> QED BY <2>1, <2>2, <2>3 DEF TokensInv, WallInv, MemoInv
<1>2. TokensInv /\ [Next]_vars => TokensInv'
  <2>1. ASSUME TokensInv, NEW f \in Fetches, Step(f) PROVE TokensInv'
    <3>1. TypeOK /\ MemoInv /\ \A g \in Fetches : WallOf(g)
      BY <2>1 DEF TokensInv, WallInv
    <3>2. TypeOK'
      BY <2>1, <3>1, StepKeepsTypes
    <3>3. WallOf(f)'
      BY <2>1, <3>1, StepKeepsWall
    <3>4. ASSUME NEW g \in Fetches, g # f PROVE WallOf(g)'
      <4>1. /\ left' = left /\ pc'[g] = pc[g] /\ timer'[g] = timer[g] /\ budget'[g] = budget[g]
            /\ launch'[g] = launch[g] /\ token'[g] = token[g]
        BY <2>1, <3>1, <3>4, StepKeepsWallOfOthers
      <4> QED BY <3>1, <4>1 DEF WallOf, Launching, Roomy, Blamed, Left
    <3>5. MemoInv'
      BY <2>1, <3>1, <3>2, StepKeepsMemos DEF MemoInv
    <3> QED BY <3>2, <3>3, <3>4, <3>5 DEF TokensInv, WallInv
  <2>2. ASSUME TokensInv, Tick PROVE TokensInv'
    <3>1. TypeOK /\ MemoInv /\ \A g \in Fetches : WallOf(g)
      BY <2>2 DEF TokensInv, WallInv
    <3>2. TypeOK' /\ \A g \in Fetches : WallOf(g)'
      BY <2>2, <3>1, TickKeepsTypes, TickKeepsWall
    <3>3. MemoInv'
      BY <2>2, <3>1, <3>2 DEF MemoInv, MemoTrue, TokenTrue, Tick, Key, ScopeOf
    <3> QED BY <3>2, <3>3 DEF TokensInv, WallInv
  <2>3. ASSUME TokensInv, AllDone \/ UNCHANGED vars PROVE TokensInv'
    <3>1. UNCHANGED vars
      BY <2>3 DEF AllDone
    <3> QED BY <2>3, <3>1 DEF TokensInv, WallInv, MemoInv, TypeOK, WallOf, Launching, Roomy, Blamed, Left,
                              MemoTrue, TokenTrue, Key, ScopeOf, vars
  <2> QED BY <2>1, <2>2, <2>3 DEF Next
<1> QED BY <1>1, <1>2, PTL DEF Spec

\* What a rendered attempt records is what happened, however the cut of the rung, the
\* transport's own bounds and the cancellation of a question race.
THEOREM TokensAreHonestHolds == Spec => []TokensAreHonest
<1>1. TokensInv => TokensAreHonest
  BY DEF TokensInv, WallInv, WallOf, Blamed, MemoInv, MemoTrue, TokenTrue, TokensAreHonest
<1> QED BY <1>1, TokensInvHolds, PTL
=============================================================================
