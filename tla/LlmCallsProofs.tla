---------------------------- MODULE LlmCallsProofs ----------------------------
(***************************************************************************)
(* What holds of the calls for any callers, ladders, walls and budgets:    *)
(* the donated key is probed once, a slow failure ends its call, and a     *)
(* green run is honest about what it paid with.                            *)
(*                                                                         *)
(* The last needs the counters to know more than they say: as long as all  *)
(* fallbacks are suppressible, each was paid for an empty wallet or after  *)
(* a probe that found the key drained.  That in turn rests on who a probe  *)
(* answers to, and on a verdict that is written once because there is one  *)
(* reader.                                                                 *)
(***************************************************************************)
EXTENDS LlmCalls, FiniteSetTheorems, TLAPS

CallRecords ==
    [pc : {"donated", "probing", "personal", "pause", "over"}, attempt : Nat, at : Nat, slow : Nat,
     rerolled : BOOLEAN, kind : Failures \cup {"none"}, probing : Nat]
ProbeRecords == [at : {"idle", "asked", "queued", "reading", "done"}, says : BOOLEAN]

\* A call by itself: a slow failure ends it, but for the one reroll of a broad call.
CallOK(c, r) ==
    /\ r \in CallRecords
    /\ r.attempt \in 1..Attempts[c]
    /\ r.at \in 0..Horizon /\ r.probing \in 0..ProbeTimeout
    /\ (r.kind # "none") = (r.pc = "probing")
    /\ r.rerolled => c \in Broad
    /\ r.slow <= (IF r.rerolled THEN 1 ELSE 0) + (IF r.pc = "over" THEN 1 ELSE 0)

Shape ==
    /\ call = [c \in Callers |-> call[c]] /\ probe = [c \in Callers |-> probe[c]]
    /\ \A c \in Callers : CallOK(c, call[c]) /\ probe[c] \in [1..Attempts[c] -> ProbeRecords]
    /\ verdict \in {"none", "drained", "broken"}
    /\ generic \in Nat /\ credit \in 0..generic

\* The endpoint has one reader, and none once the verdict is in.
OneReader ==
    \A c, d \in Callers : \A a \in 1..Attempts[c], b \in 1..Attempts[d] :
        probe[c][a].at = "reading" =>
            /\ verdict = "none"
            /\ probe[d][b].at = "reading" => c = d /\ a = b

\* What a call that waits for its probe will be told.
Explains(r, p, known) ==
    r.pc = "probing" =>
        \/ p.at \in {"asked", "queued", "reading"} /\ r.kind = "spendCap"
        \/ p.at = "done" /\ (p.says => r.kind = "wallet" \/ (r.kind = "spendCap" /\ known = "drained"))

ProbesAnswerTruly == \A c \in Callers : Explains(call[c], probe[c][call[c].attempt], verdict)

\* What the counters say of what was paid.
CountersAreHonest ==
    /\ paidFor # {} => generic > 0
    /\ generic = credit =>
          paidFor \subseteq {"wallet", "spendCap"} /\ ("spendCap" \in paidFor => verdict = "drained")

\* How the run ended, if it did.
RunRecords ==
    [exit : {"none", "red", "green"}, outcome : {"unknown", "clean", "degraded", "hard_failure"}, active : BOOLEAN]
RunOK == run \in RunRecords /\ GreenIsHonest

IInv == Shape /\ OneReader /\ ProbesAnswerTruly /\ CountersAreHonest /\ RunOK

LEMMA Bounds ==
    /\ WallTimeout \in Nat /\ MaxElapsed \in Nat /\ Backoff \in Nat
    /\ ProbeTimeout \in Nat /\ Horizon \in Nat
    /\ Attempts \in [Callers -> Nat \ {0}]
  BY CallsAssumption

LEMMA InvariantInit == Init => IInv
<1> SUFFICES ASSUME Init PROVE IInv
  OBVIOUS
<1>1. Shape
  <2>1. ASSUME NEW c \in Callers PROVE CallOK(c, Started)
    BY Bounds DEF CallOK, CallRecords, Started
  <2>2. ASSUME NEW c \in Callers PROVE probe[c] \in [1..Attempts[c] -> ProbeRecords]
    BY DEF Init, Idle, ProbeRecords
  <2> QED BY <2>1, <2>2 DEF Init, Shape
<1>2. OneReader
  BY DEF Init, OneReader, Idle
<1>3. ProbesAnswerTruly
  BY DEF Init, ProbesAnswerTruly, Explains, Started
<1>4. CountersAreHonest /\ RunOK
  BY DEF Init, CountersAreHonest, RunOK, RunRecords, GreenIsHonest
<1> QED BY <1>1, <1>2, <1>3, <1>4 DEF IInv

-----------------------------------------------------------------------------
(* One call *)

\* However an attempt fails, its call stays in bounds and waits for no probe.
LEMMA FailureKeepsCall ==
    ASSUME NEW c \in Callers, NEW kind, Shape, call[c].pc # "over", AttemptFails(c, kind)
    PROVE  \E r : call' = [call EXCEPT ![c] = r] /\ CallOK(c, r) /\ r.pc # "probing"
<1> DEFINE over == [call[c] EXCEPT !.kind = "none", !.probing = 0, !.slow = IF Fast(c) THEN @ ELSE @ + 1]
           again == [over EXCEPT !.attempt = @ + 1, !.at = 0]
           last == [over EXCEPT !.pc = "over", !.at = 0]
           paused == [again EXCEPT !.pc = "pause"]
           rerolled == [again EXCEPT !.pc = "donated", !.rerolled = TRUE]
<1>1. PICK r : /\ call' = [call EXCEPT ![c] = r]
               /\ \/ r = last
                  \/ r = paused /\ ~IsLast(c) /\ Fast(c)
                  \/ r = rerolled /\ ~IsLast(c) /\ Rerolls(c, kind)
  BY DEF AttemptFails
<1>2. CallOK(c, call[c])
  BY DEF Shape
<1>3. Attempts[c] \in Nat \ {0}
  BY Bounds
<1>4. call[c] \in CallRecords
  BY <1>2 DEF CallOK
<1>5. /\ call[c].attempt \in 1..Attempts[c] /\ call[c].attempt \in Nat
      /\ call[c].rerolled => c \in Broad
      /\ call[c].slow <= (IF call[c].rerolled THEN 1 ELSE 0) /\ call[c].slow \in Nat
  BY <1>2 DEF CallOK, CallRecords
<1> DEFINE slow == IF Fast(c) THEN call[c].slow ELSE call[c].slow + 1
<1>6. slow \in Nat /\ slow <= call[c].slow + 1 /\ (Fast(c) => slow = call[c].slow)
  BY <1>5 DEF Fast
<1> HIDE DEF slow
<1>7. /\ over \in CallRecords /\ over.pc = call[c].pc /\ over.attempt = call[c].attempt
       /\ over.kind = "none" /\ over.probing = 0 /\ over.rerolled = call[c].rerolled /\ over.slow = slow
  BY <1>4, <1>6 DEF CallRecords, slow, Fast
<1> HIDE DEF over
<1>8. /\ again \in CallRecords /\ again.pc = call[c].pc /\ again.attempt = call[c].attempt + 1 /\ again.at = 0
       /\ again.kind = "none" /\ again.probing = 0 /\ again.rerolled = call[c].rerolled /\ again.slow = slow
  <2>1. over \in CallRecords /\ over.attempt + 1 \in Nat
    BY <1>5, <1>7
  <2>2. /\ again.pc = over.pc /\ again.attempt = over.attempt + 1 /\ again.at = 0
        /\ again.kind = over.kind /\ again.probing = over.probing
        /\ again.rerolled = over.rerolled /\ again.slow = over.slow
    BY <2>1 DEF CallRecords
  <2>3. again \in CallRecords
    BY <2>1 DEF CallRecords
  <2> QED BY <1>7, <2>2, <2>3
<1> HIDE DEF again
<1>9. CASE r = last
  <2>1. /\ r \in CallRecords /\ r.pc = "over" /\ r.attempt = call[c].attempt /\ r.at = 0
        /\ r.kind = "none" /\ r.probing = 0 /\ r.rerolled = call[c].rerolled /\ r.slow = slow
    BY <1>9, <1>7 DEF CallRecords
  <2>2. CallOK(c, r)
    BY <1>5, <1>6, <2>1, Bounds DEF CallOK
  <2> QED BY <1>1, <2>1, <2>2
<1>10. CASE r = paused /\ ~IsLast(c) /\ Fast(c)
  <2>1. /\ r \in CallRecords /\ r.pc = "pause" /\ r.attempt = call[c].attempt + 1 /\ r.at = 0
        /\ r.kind = "none" /\ r.probing = 0 /\ r.rerolled = call[c].rerolled /\ r.slow = slow
    BY <1>10, <1>8 DEF CallRecords
  <2>2. CallOK(c, r)
    BY <1>3, <1>5, <1>10, <1>6, <2>1, Bounds DEF CallOK, IsLast
  <2> QED BY <1>1, <2>1, <2>2
<1>11. CASE r = rerolled /\ ~IsLast(c) /\ Rerolls(c, kind)
  <2>1. /\ r \in CallRecords /\ r.pc = "donated" /\ r.attempt = call[c].attempt + 1 /\ r.at = 0
        /\ r.kind = "none" /\ r.probing = 0 /\ r.rerolled = TRUE /\ r.slow = slow
    BY <1>11, <1>8 DEF CallRecords
  <2>2. ~call[c].rerolled /\ ~Fast(c) /\ c \in Broad
    BY <1>11 DEF Rerolls, Retryable
  <2>3. CallOK(c, r)
    BY <1>3, <1>5, <1>11, <1>6, <2>1, <2>2, Bounds DEF CallOK, IsLast
  <2> QED BY <1>1, <2>1, <2>3
<1> QED BY <1>1, <1>9, <1>10, <1>11

\* The a-th probe of c is p now, and the others are what they were.
Becomes(c, a, p) ==
    /\ probe' = [d \in Callers |-> probe'[d]]
    /\ \A d \in Callers : probe'[d] \in [1..Attempts[d] -> ProbeRecords]
    /\ \A d \in Callers : \A b \in 1..Attempts[d] :
          probe'[d][b] = IF d = c /\ b = a THEN p ELSE probe[d][b]

LEMMA ProbeBecomes ==
    ASSUME Shape, NEW c \in Callers, NEW a \in 1..Attempts[c], NEW p \in ProbeRecords,
           probe' = [probe EXCEPT ![c][a] = p]
    PROVE  Becomes(c, a, p)
<1>1. /\ probe = [d \in Callers |-> probe[d]]
      /\ \A d \in Callers : probe[d] \in [1..Attempts[d] -> ProbeRecords]
  BY DEF Shape
<1>2. probe' = [d \in Callers |-> IF d = c THEN [probe[c] EXCEPT ![a] = p] ELSE probe[d]]
  BY <1>1
<1>3. probe' = [d \in Callers |-> probe'[d]]
  BY <1>2
<1>4. \A d \in Callers : probe'[d] \in [1..Attempts[d] -> ProbeRecords]
  BY <1>1, <1>2
<1>5. \A d \in Callers : \A b \in 1..Attempts[d] : probe'[d][b] = IF d = c /\ b = a THEN p ELSE probe[d][b]
  <2>1. ASSUME NEW d \in Callers, NEW b \in 1..Attempts[d]
        PROVE  probe'[d][b] = IF d = c /\ b = a THEN p ELSE probe[d][b]
    <3>1. CASE d = c
      <4>1. probe'[d] = [probe[c] EXCEPT ![a] = p]
        BY <1>2, <3>1
      <4> QED BY <1>1, <3>1, <4>1
    <3>2. CASE d # c
      BY <1>2, <3>2
    <3> QED BY <3>1, <3>2
  <2> QED BY <2>1
<1> QED BY <1>3, <1>4, <1>5 DEF Becomes

LEMMA ProbeStays ==
    ASSUME Shape, NEW c \in Callers, NEW a \in 1..Attempts[c], UNCHANGED probe
    PROVE  probe[c][a] \in ProbeRecords /\ Becomes(c, a, probe[c][a])
  BY DEF Shape, Becomes

\* What a step of one call does to the calls and their probes.
LEMMA CallStep ==
    ASSUME Shape, OneReader, ProbesAnswerTruly, UNCHANGED verdict,
           NEW c \in Callers, NEW r, CallOK(c, r), call' = [call EXCEPT ![c] = r],
           NEW p \in ProbeRecords, Becomes(c, call[c].attempt, p),
           p.at = "reading" => p = probe[c][call[c].attempt],
           r.pc = "probing" => r.attempt = call[c].attempt /\ Explains(r, p, verdict)
    PROVE  /\ generic' \in Nat /\ credit' \in 0..generic' => Shape'
           /\ OneReader' /\ ProbesAnswerTruly'
<1>1. /\ call = [d \in Callers |-> call[d]]
      /\ \A d \in Callers : CallOK(d, call[d])
  BY DEF Shape
<1>2. /\ call' = [d \in Callers |-> call'[d]] /\ call'[c] = r
      /\ \A d \in Callers : d # c => call'[d] = call[d]
  BY <1>1
<1>3. \A d \in Callers : CallOK(d, call'[d])
  BY <1>1, <1>2
<1>4. ASSUME generic' \in Nat, credit' \in 0..generic' PROVE Shape'
  BY <1>2, <1>3, <1>4 DEF Shape, Becomes
<1>5. \A d \in Callers : call[d].attempt \in 1..Attempts[d]
  BY <1>1 DEF CallOK
<1>6. OneReader'
  <2>1. \A d \in Callers : \A b \in 1..Attempts[d] :
           probe'[d][b].at = "reading" => probe[d][b].at = "reading"
    BY <1>5 DEF Becomes
  <2> QED BY <2>1 DEF OneReader
<1>7. ProbesAnswerTruly'
  <2>1. ASSUME NEW d \in Callers PROVE Explains(call'[d], probe'[d][call'[d].attempt], verdict)
    <3>1. CASE d = c
      BY <1>2, <1>5, <3>1 DEF Explains, Becomes
    <3>2. CASE d # c
      <4>1. call'[d] = call[d] /\ probe'[d][call[d].attempt] = probe[d][call[d].attempt]
        BY <1>2, <1>5, <3>2 DEF Becomes
      <4> QED BY <4>1 DEF ProbesAnswerTruly
    <3> QED BY <3>1, <3>2
  <2> QED BY <2>1 DEF ProbesAnswerTruly
<1> QED BY <1>4, <1>6, <1>7

\* A call moves on, or fails, and pays for nothing.
LEMMA UnpaidKeepsInvariant ==
    ASSUME IInv, NEW c \in Callers,
           Answers(c) \/ DonatedFails(c) \/ PersonalFails(c) \/ WallHits(c) \/ PauseEnds(c)
    PROVE  IInv'
<1> DEFINE a == call[c].attempt
<1>1. Shape /\ OneReader /\ ProbesAnswerTruly /\ CountersAreHonest /\ RunOK
  BY DEF IInv
<1>2. CallOK(c, call[c]) /\ a \in 1..Attempts[c]
  BY <1>1 DEF Shape, CallOK
<1>3. UNCHANGED <<verdict, generic, credit, paidFor, run>>
  BY DEF Answers, DonatedFails, PersonalFails, WallHits, PauseEnds
<1>4. \E r, p :
         /\ CallOK(c, r) /\ call' = [call EXCEPT ![c] = r]
         /\ p \in ProbeRecords /\ Becomes(c, a, p)
         /\ p.at = "reading" => p = probe[c][a]
         /\ r.pc = "probing" => r.attempt = a /\ Explains(r, p, verdict)
  <2>1. CASE Answers(c)
    <3> DEFINE r == [call[c] EXCEPT !.pc = "over", !.at = 0]
    <3>1. call' = [call EXCEPT ![c] = r] /\ UNCHANGED probe /\ call[c].pc \in {"donated", "personal"}
      BY <2>1 DEF Answers, At
    <3>2. /\ r \in CallRecords /\ r.pc = "over" /\ r.attempt = a /\ r.at = 0 /\ r.slow = call[c].slow
          /\ r.kind = call[c].kind /\ r.probing = call[c].probing /\ r.rerolled = call[c].rerolled
      BY <1>2 DEF CallOK, CallRecords
    <3> HIDE DEF r
    <3>3. /\ call[c].slow \in Nat /\ call[c].kind = "none"
          /\ call[c].rerolled => c \in Broad
          /\ call[c].slow <= IF call[c].rerolled THEN 1 ELSE 0
      BY <1>2, <3>1 DEF CallOK, CallRecords
    <3>4. CallOK(c, r) /\ r.pc # "probing"
      BY <1>2, <3>2, <3>3, Bounds DEF CallOK
    <3> QED BY <1>1, <1>2, <3>1, <3>4, ProbeStays
  <2>2. CASE PauseEnds(c)
    <3> DEFINE r == [call[c] EXCEPT !.pc = "donated", !.at = 0]
    <3>1. call' = [call EXCEPT ![c] = r] /\ UNCHANGED probe /\ call[c].pc = "pause"
      BY <2>2 DEF PauseEnds, At
    <3>2. /\ r \in CallRecords /\ r.pc = "donated" /\ r.attempt = a /\ r.at = 0 /\ r.slow = call[c].slow
          /\ r.kind = call[c].kind /\ r.probing = call[c].probing /\ r.rerolled = call[c].rerolled
      BY <1>2 DEF CallOK, CallRecords
    <3> HIDE DEF r
    <3>3. /\ call[c].slow \in Nat /\ call[c].kind = "none"
          /\ call[c].rerolled => c \in Broad
          /\ call[c].slow <= IF call[c].rerolled THEN 1 ELSE 0
      BY <1>2, <3>1 DEF CallOK, CallRecords
    <3>4. CallOK(c, r) /\ r.pc # "probing"
      BY <1>2, <3>2, <3>3, Bounds DEF CallOK
    <3> QED BY <1>1, <1>2, <3>1, <3>4, ProbeStays
  <2>3. CASE PersonalFails(c)
    <3>1. PICK kind \in Failures : AttemptFails(c, kind)
      BY <2>3 DEF PersonalFails
    <3>2. UNCHANGED probe /\ call[c].pc # "over"
      BY <2>3 DEF PersonalFails, At
    <3>3. PICK r : call' = [call EXCEPT ![c] = r] /\ CallOK(c, r) /\ r.pc # "probing"
      BY <1>1, <3>1, <3>2, FailureKeepsCall
    <3> QED BY <1>1, <1>2, <3>2, <3>3, ProbeStays
  <2>4. CASE WallHits(c)
    <3> DEFINE p == IF probe[c][a].at = "done" THEN Idle ELSE probe[c][a]
    <3>1. AttemptFails(c, "timeout") /\ call[c].pc # "over" /\ probe' = [probe EXCEPT ![c][a] = p]
      BY <2>4 DEF WallHits, Capped
    <3>2. p \in ProbeRecords /\ (p.at = "reading" => p = probe[c][a])
      BY <1>1, <1>2 DEF Shape, Idle, ProbeRecords
    <3> HIDE DEF p
    <3>3. Becomes(c, a, p)
      BY <1>1, <1>2, <3>1, <3>2, ProbeBecomes
    <3> QED BY <1>1, <3>1, <3>2, <3>3, FailureKeepsCall
  <2>5. CASE DonatedFails(c)
    <3>1. PICK kind \in Failures :
             IF FallsBack(kind)
             THEN /\ call' = [call EXCEPT ![c].pc = "probing", ![c].kind = kind]
                  /\ probe' = [probe EXCEPT ![c][a] =
                        IF kind = "spendCap" THEN [@ EXCEPT !.at = "asked"]
                                             ELSE [at |-> "done", says |-> kind = "wallet"]]
             ELSE AttemptFails(c, kind) /\ UNCHANGED probe
      BY <2>5 DEF DonatedFails
    <3>2. call[c].pc = "donated"
      BY <2>5 DEF DonatedFails, At
    <3>3. CASE ~FallsBack(kind)
      BY <1>1, <1>2, <3>1, <3>2, <3>3, FailureKeepsCall, ProbeStays
    <3>4. CASE FallsBack(kind)
      <4> DEFINE r == [call[c] EXCEPT !.pc = "probing", !.kind = kind]
                 p == IF kind = "spendCap" THEN [probe[c][a] EXCEPT !.at = "asked"]
                                           ELSE [at |-> "done", says |-> kind = "wallet"]
      <4>1. call' = [call EXCEPT ![c] = r] /\ probe' = [probe EXCEPT ![c][a] = p]
        BY <3>1, <3>4
      <4>2. CallOK(c, r) /\ r.attempt = a /\ r.kind = kind
        BY <1>2, <3>2 DEF CallOK, CallRecords, Failures
      <4>3. probe[c][a] \in ProbeRecords
        BY <1>1, <1>2 DEF Shape
      <4>4. CASE kind = "spendCap"
        <5>1. p \in ProbeRecords /\ p.at = "asked"
          BY <4>3, <4>4 DEF ProbeRecords
        <5> HIDE DEF r, p
        <5> QED BY <1>1, <1>2, <4>1, <4>2, <4>4, <5>1, ProbeBecomes DEF Explains
      <4>5. CASE kind # "spendCap"
        <5>1. p \in ProbeRecords /\ p.at = "done" /\ (p.says => kind = "wallet")
          BY <4>5 DEF ProbeRecords
        <5> HIDE DEF r, p
        <5> QED BY <1>1, <1>2, <4>1, <4>2, <5>1, ProbeBecomes DEF Explains
      <4> QED BY <4>4, <4>5
    <3> QED BY <3>3, <3>4
  <2> QED BY <2>1, <2>2, <2>3, <2>4, <2>5
<1>5. generic' \in Nat /\ credit' \in 0..generic'
  BY <1>1, <1>3 DEF Shape
<1>6. Shape' /\ OneReader' /\ ProbesAnswerTruly'
  BY <1>1, <1>3, <1>4, <1>5, CallStep
<1>7. CountersAreHonest' /\ RunOK'
  BY <1>1, <1>3 DEF CountersAreHonest, RunOK, GreenIsHonest
<1> QED BY <1>6, <1>7 DEF IInv

\* The personal key is paid: suppressibly only for what the probe's answer stands for.
LEMMA SwapsKeepInvariant ==
    ASSUME IInv, NEW c \in Callers, ProbeAnswers(c) \/ ProbeGivenUp(c)
    PROVE  IInv'
<1> DEFINE a == call[c].attempt
           r == [call[c] EXCEPT !.pc = "personal", !.kind = "none", !.probing = 0]
<1>1. Shape /\ OneReader /\ ProbesAnswerTruly /\ CountersAreHonest /\ RunOK
  BY DEF IInv
<1>2. CallOK(c, call[c]) /\ a \in 1..Attempts[c]
  BY <1>1 DEF Shape, CallOK
<1>3. probe[c][a] \in ProbeRecords /\ Forecasting /\ call[c].pc = "probing"
  BY <1>1, <1>2 DEF Shape, ProbeAnswers, ProbeGivenUp, At
<1>4. PICK says \in BOOLEAN :
         /\ Swaps(c, says)
         /\ says => call[c].kind = "wallet" \/ (call[c].kind = "spendCap" /\ verdict = "drained")
  <2>1. CASE ProbeGivenUp(c)
    BY <2>1 DEF ProbeGivenUp
  <2>2. CASE ProbeAnswers(c)
    BY <1>1, <1>3, <2>2 DEF ProbeAnswers, ProbesAnswerTruly, Explains, ProbeRecords
  <2> QED BY <2>1, <2>2
<1>5. /\ call' = [call EXCEPT ![c] = r] /\ UNCHANGED <<verdict, run>>
      /\ generic' = generic + 1 /\ credit' = IF says THEN credit + 1 ELSE credit
      /\ paidFor' = paidFor \cup {call[c].kind}
  BY <1>4 DEF Swaps, Suppressible
<1>6. CallOK(c, r) /\ r.pc # "probing"
  <2>1. /\ r \in CallRecords /\ r.pc = "personal" /\ r.attempt = a /\ r.at = call[c].at
        /\ r.slow = call[c].slow /\ r.kind = "none" /\ r.probing = 0 /\ r.rerolled = call[c].rerolled
    BY <1>2 DEF CallOK, CallRecords
  <2> HIDE DEF r
  <2> QED BY <1>2, <1>3, <2>1, Bounds DEF CallOK
<1>7. \E p \in ProbeRecords : Becomes(c, a, p) /\ (p.at = "reading" => p = probe[c][a])
  <2>1. CASE ProbeGivenUp(c)
    BY <1>1, <1>2, <2>1, ProbeStays DEF ProbeGivenUp
  <2>2. CASE ProbeAnswers(c)
    <3>1. probe' = [probe EXCEPT ![c][a] = Idle]
      BY <2>2 DEF ProbeAnswers
    <3>2. Idle \in ProbeRecords /\ Idle.at = "idle"
      BY DEF Idle, ProbeRecords
    <3> QED BY <1>1, <1>2, <3>1, <3>2, ProbeBecomes
  <2> QED BY <2>1, <2>2
<1> HIDE DEF r
<1>8. generic' \in Nat /\ credit' \in 0..generic'
  BY <1>1, <1>5 DEF Shape
<1>9. Shape' /\ OneReader' /\ ProbesAnswerTruly'
  BY <1>1, <1>5, <1>6, <1>7, <1>8, CallStep
<1>10. CountersAreHonest'
  <2>1. generic' > 0
    BY <1>1, <1>5 DEF Shape
  <2>2. ASSUME generic' = credit'
        PROVE  /\ paidFor' \subseteq {"wallet", "spendCap"}
               /\ "spendCap" \in paidFor' => verdict' = "drained"
    <3>1. says /\ generic = credit
      BY <1>1, <1>5, <2>2 DEF Shape
    <3> QED BY <1>1, <1>4, <1>5, <3>1 DEF CountersAreHonest
  <2> QED BY <2>1, <2>2 DEF CountersAreHonest
<1>11. RunOK'
  BY <1>1, <1>3, <1>5 DEF Forecasting, RunOK, GreenIsHonest
<1> QED BY <1>9, <1>10, <1>11 DEF IInv

-----------------------------------------------------------------------------
(* The probe's threads *)

LEMMA WhatAThreadTells ==
    ASSUME Shape, ProbesAnswerTruly, NEW c \in Callers, NEW a \in 1..Attempts[c], NEW state,
           probe[c][a].at \in {"asked", "queued", "reading"}
    PROVE  /\ Told(c, a, state) \in ProbeRecords /\ Told(c, a, state).at # "reading"
           /\ call[c].attempt = a => Explains(call[c], Told(c, a, state), state)
<1>1. ASSUME call[c].attempt = a, call[c].pc = "probing" PROVE call[c].kind = "spendCap"
  BY <1>1 DEF ProbesAnswerTruly, Explains
<1> QED BY <1>1 DEF Told, Idle, ProbeRecords, Explains

\* What a step of one thread does, but for who reads after it.
LEMMA ThreadStep ==
    ASSUME IInv, NEW c \in Callers, NEW a \in 1..Attempts[c], NEW p \in ProbeRecords,
           Becomes(c, a, p), UNCHANGED <<call, generic, credit, paidFor, run>>,
           verdict' \in {"none", "drained", "broken"}, verdict # "none" => verdict' = verdict,
           call[c].attempt = a => Explains(call[c], p, verdict'), OneReader'
    PROVE  IInv'
<1>1. Shape /\ OneReader /\ ProbesAnswerTruly /\ CountersAreHonest /\ RunOK
  BY DEF IInv
<1>2. Shape'
  BY <1>1 DEF Shape, Becomes
<1>3. ProbesAnswerTruly'
  <2>1. ASSUME NEW d \in Callers PROVE Explains(call[d], probe'[d][call[d].attempt], verdict')
    <3>1. call[d].attempt \in 1..Attempts[d]
      BY <1>1 DEF Shape, CallOK
    <3>2. CASE d = c /\ call[d].attempt = a
      BY <3>1, <3>2 DEF Becomes
    <3>3. CASE ~(d = c /\ call[d].attempt = a)
      <4>1. probe'[d][call[d].attempt] = probe[d][call[d].attempt]
        BY <3>1, <3>3 DEF Becomes
      <4> QED BY <1>1, <4>1 DEF ProbesAnswerTruly, Explains
    <3> QED BY <3>2, <3>3
  <2> QED BY <2>1 DEF ProbesAnswerTruly
<1>4. CountersAreHonest' /\ RunOK'
  BY <1>1 DEF CountersAreHonest, RunOK, GreenIsHonest
<1> QED BY <1>2, <1>3, <1>4 DEF IInv

LEMMA ThreadsKeepInvariant ==
    ASSUME IInv, NEW c \in Callers, NEW a \in 1..Attempts[c],
           ReadsCache(c, a) \/ TakesLock(c, a) \/ ProbeEnds(c, a)
    PROVE  IInv'
<1>1. Shape /\ OneReader /\ ProbesAnswerTruly
  BY DEF IInv
<1>2. probe[c][a] \in ProbeRecords /\ verdict \in {"none", "drained", "broken"}
  BY <1>1 DEF Shape
<1>3. probe[c][a].at \in {"asked", "queued", "reading"} /\ UNCHANGED <<call, generic, credit, paidFor, run>>
  BY DEF ReadsCache, TakesLock, ProbeEnds
<1>4. \A d \in Callers : call[d].attempt \in 1..Attempts[d]
  BY <1>1 DEF Shape, CallOK
<1>5. CASE ReadsCache(c, a)
  <2> DEFINE p == IF verdict = "none" THEN [probe[c][a] EXCEPT !.at = "queued"] ELSE Told(c, a, verdict)
  <2>1. probe' = [probe EXCEPT ![c][a] = p] /\ UNCHANGED verdict
    BY <1>5 DEF ReadsCache
  <2>2. p \in ProbeRecords /\ p.at # "reading" /\ (call[c].attempt = a => Explains(call[c], p, verdict))
    <3>1. CASE verdict = "none"
      BY <1>1, <1>2, <1>3, <3>1 DEF ProbeRecords, ProbesAnswerTruly, Explains
    <3>2. CASE verdict # "none"
      BY <1>1, <1>3, <3>2, WhatAThreadTells
    <3> QED BY <3>1, <3>2
  <2> HIDE DEF p
  <2>3. Becomes(c, a, p)
    BY <1>1, <2>1, <2>2, ProbeBecomes
  <2>4. OneReader'
    BY <1>1, <2>1, <2>2, <2>3 DEF OneReader, Becomes
  <2> QED BY <1>2, <1>3, <2>1, <2>2, <2>3, <2>4, ThreadStep
<1>6. CASE TakesLock(c, a)
  <2> DEFINE p == IF StillUnknown THEN [probe[c][a] EXCEPT !.at = "reading"] ELSE Told(c, a, verdict)
  <2>1. probe' = [probe EXCEPT ![c][a] = p] /\ UNCHANGED verdict /\ LockFree
    BY <1>6 DEF TakesLock
  <2>2. /\ p \in ProbeRecords /\ (p.at = "reading" => verdict = "none")
        /\ call[c].attempt = a => Explains(call[c], p, verdict)
    <3>1. CASE StillUnknown
      BY <1>1, <1>2, <1>3, <3>1 DEF StillUnknown, ProbeRecords, ProbesAnswerTruly, Explains
    <3>2. CASE ~StillUnknown
      BY <1>1, <1>3, <3>2, WhatAThreadTells
    <3> QED BY <3>1, <3>2
  <2> HIDE DEF p
  <2>3. Becomes(c, a, p)
    BY <1>1, <2>1, <2>2, ProbeBecomes
  <2>4. \A d \in Callers : \A b \in 1..Attempts[d] : probe[d][b].at # "reading"
    BY <1>1, <2>1 DEF LockFree, Shape
  <2>5. OneReader'
    BY <2>1, <2>2, <2>3, <2>4 DEF OneReader, Becomes
  <2> QED BY <1>2, <1>3, <2>1, <2>2, <2>3, <2>5, ThreadStep
<1>7. CASE ProbeEnds(c, a)
  <2>1. PICK state \in {"drained", "broken"} :
           verdict' = state /\ probe' = [probe EXCEPT ![c][a] = Told(c, a, state)]
    BY <1>7 DEF ProbeEnds
  <2>2. probe[c][a].at = "reading" /\ verdict = "none"
    BY <1>1, <1>7 DEF ProbeEnds, OneReader
  <2>3. /\ Told(c, a, state) \in ProbeRecords /\ Told(c, a, state).at # "reading"
        /\ call[c].attempt = a => Explains(call[c], Told(c, a, state), state)
    BY <1>1, <1>3, WhatAThreadTells
  <2>4. Becomes(c, a, Told(c, a, state))
    BY <1>1, <2>1, <2>3, ProbeBecomes
  <2>5. \A d \in Callers : \A b \in 1..Attempts[d] : probe'[d][b].at # "reading"
    BY <1>1, <2>2, <2>3, <2>4 DEF OneReader, Becomes
  <2>6. OneReader'
    BY <2>5 DEF OneReader
  <2> QED BY <1>3, <2>1, <2>2, <2>3, <2>4, <2>6, ThreadStep
<1> QED BY <1>5, <1>6, <1>7

-----------------------------------------------------------------------------
(* Time and the end of the run *)

\* No timer counts beyond its time, since a due one stops the clock.
LEMMA TickKeepsInvariant == ASSUME IInv, Tick PROVE IInv'
<1> DEFINE later(c) == IF Settled(c) THEN call[c]
                       ELSE [call[c] EXCEPT !.at = Later(@),
                                            !.probing = IF call[c].pc = "probing" THEN Later(@) ELSE @]
<1>1. Shape /\ OneReader /\ ProbesAnswerTruly /\ CountersAreHonest /\ RunOK
  BY DEF IInv
<1>2. /\ call' = [c \in Callers |-> later(c)] /\ \A c \in Callers : ~Due(c)
      /\ UNCHANGED <<probe, verdict, generic, credit, paidFor, run>>
  BY DEF Tick
<1>3. ASSUME NEW c \in Callers
      PROVE  /\ CallOK(c, later(c))
             /\ later(c).pc = call[c].pc /\ later(c).attempt = call[c].attempt /\ later(c).kind = call[c].kind
  <2>1. CallOK(c, call[c])
    BY <1>1 DEF Shape
  <2>2. CASE Settled(c)
    BY <2>1, <2>2
  <2>3. CASE ~Settled(c)
    <3> DEFINE at == Later(call[c].at)
               probing == IF call[c].pc = "probing" THEN Later(call[c].probing) ELSE call[c].probing
    <3>1. call[c] \in CallRecords /\ call[c].at \in 0..Horizon /\ call[c].probing \in 0..ProbeTimeout
      BY <2>1 DEF CallOK
    <3>2. call[c].pc = "probing" => call[c].probing # ProbeTimeout
      BY <1>2 DEF Due
    <3>3. at \in 0..Horizon /\ at \in Nat /\ probing \in 0..ProbeTimeout /\ probing \in Nat
      BY <3>1, <3>2, Bounds DEF Later
    <3> HIDE DEF at, probing
    <3>4. later(c) = [call[c] EXCEPT !.at = at, !.probing = probing]
      BY <2>3 DEF at, probing
    <3>5. /\ later(c) \in CallRecords /\ later(c).pc = call[c].pc /\ later(c).attempt = call[c].attempt
          /\ later(c).at = at /\ later(c).slow = call[c].slow /\ later(c).kind = call[c].kind
          /\ later(c).probing = probing /\ later(c).rerolled = call[c].rerolled
      BY <3>1, <3>3, <3>4 DEF CallRecords
    <3> HIDE DEF later
    <3> QED BY <2>1, <3>3, <3>5 DEF CallOK
  <2> QED BY <2>2, <2>3
<1> HIDE DEF later
<1>4. Shape'
  BY <1>1, <1>2, <1>3 DEF Shape
<1>5. OneReader' /\ CountersAreHonest' /\ RunOK'
  BY <1>1, <1>2 DEF OneReader, CountersAreHonest, RunOK, GreenIsHonest
<1>6. ProbesAnswerTruly'
  BY <1>1, <1>2, <1>3 DEF ProbesAnswerTruly, Explains
<1> QED BY <1>4, <1>5, <1>6 DEF IInv

\* The ladder: a green run had as many suppressible fallbacks as fallbacks.
LEMMA EndKeepsInvariant == ASSUME IInv, Reports \/ Crashes PROVE IInv'
<1>1. Shape /\ OneReader /\ ProbesAnswerTruly /\ CountersAreHonest
  BY DEF IInv
<1>2. UNCHANGED <<call, probe, verdict, generic, credit, paidFor>>
  BY DEF Reports, Crashes
<1>3. Shape' /\ OneReader' /\ ProbesAnswerTruly' /\ CountersAreHonest'
  BY <1>1, <1>2 DEF Shape, OneReader, ProbesAnswerTruly, CountersAreHonest
<1>4. CASE Crashes
  <2>1. run' = [run EXCEPT !.exit = "red", !.outcome = "hard_failure"]
    BY <1>4 DEF Crashes
  <2>2. run' \in RunRecords /\ run'.exit = "red" /\ run'.outcome = "hard_failure"
    BY <2>1 DEF IInv, RunOK, RunRecords
  <2> QED BY <1>3, <2>2 DEF IInv, RunOK, GreenIsHonest
<1>5. CASE Reports
  <2>1. PICK f \in Findings :
           run' = [exit |-> IF EndsRed(f) THEN "red" ELSE "green",
                   outcome |-> IF f.summary THEN "hard_failure" ELSE IF RunClean(f) THEN "clean" ELSE "degraded",
                   active |-> f.active \/ EndsRed(f)]
    BY <1>5 DEF Reports
  <2>2. generic \in Nat /\ credit \in 0..generic
    BY <1>1 DEF Shape
  <2>3. Alertable(f) \in Nat
    BY <2>2 DEF Findings, Alertable
  <2>4. ~EndsRed(f) <=> ~f.summary /\ RunClean(f)
    BY <2>3 DEF EndsRed, RunClean
  <2>5. ASSUME ~EndsRed(f)
        PROVE  /\ paidFor \subseteq IF f.active THEN {} ELSE {"wallet", "spendCap"}
               /\ "spendCap" \in paidFor => verdict = "drained"
    <3>1. Alertable(f) = 0
      BY <2>3, <2>5 DEF EndsRed
    <3>2. CASE f.active
      <4>1. generic = 0
        BY <2>2, <3>1, <3>2 DEF Findings, Alertable
      <4> QED BY <1>1, <3>2, <4>1 DEF CountersAreHonest
    <3>3. CASE ~f.active
      <4>1. generic = credit
        BY <2>2, <3>1, <3>3 DEF Findings, Alertable
      <4> QED BY <1>1, <3>3, <4>1 DEF CountersAreHonest
    <3> QED BY <3>2, <3>3
  <2>6. GreenIsHonest'
    <3>1. CASE EndsRed(f)
      BY <2>1, <2>4, <3>1 DEF RunOK, GreenIsHonest
    <3>2. CASE ~EndsRed(f)
      BY <1>2, <2>1, <2>4, <2>5, <3>2 DEF RunOK, GreenIsHonest
    <3> QED BY <3>1, <3>2
  <2>7. run' \in RunRecords
    BY <2>1 DEF RunRecords, EndsRed, Findings
  <2> QED BY <1>3, <2>6, <2>7 DEF IInv, RunOK
<1> QED BY <1>4, <1>5

LEMMA InvariantStep == IInv /\ [Next]_vars => IInv'
<1> SUFFICES ASSUME IInv, [Next]_vars PROVE IInv'
  OBVIOUS
<1>1. ASSUME NEW c \in Callers,
             Answers(c) \/ DonatedFails(c) \/ PersonalFails(c) \/ WallHits(c) \/ PauseEnds(c)
      PROVE  IInv'
  BY <1>1, UnpaidKeepsInvariant
<1>2. ASSUME NEW c \in Callers, ProbeAnswers(c) \/ ProbeGivenUp(c) PROVE IInv'
  BY <1>2, SwapsKeepInvariant
<1>3. ASSUME NEW c \in Callers, NEW a \in 1..Attempts[c],
             ReadsCache(c, a) \/ TakesLock(c, a) \/ ProbeEnds(c, a)
      PROVE  IInv'
  BY <1>3, ThreadsKeepInvariant
<1>4. CASE Tick
  BY <1>4, TickKeepsInvariant
<1>5. CASE Reports \/ Crashes
  BY <1>5, EndKeepsInvariant
<1>6. CASE UNCHANGED vars
  BY <1>6 DEF vars, IInv, Shape, OneReader, ProbesAnswerTruly, CountersAreHonest, RunOK, GreenIsHonest
<1>7. CASE Ended
  BY <1>6, <1>7 DEF Ended
<1> QED BY <1>1, <1>2, <1>3, <1>4, <1>5, <1>6, <1>7 DEF Next

LEMMA InvariantHolds == Spec => []IInv
  BY InvariantInit, InvariantStep, PTL DEF Spec

-----------------------------------------------------------------------------
(* What follows from it *)

\* Calls, probes, verdict and counters stay well typed and in their bounds.
THEOREM TypeCorrect == Spec => []TypeOK
<1>1. IInv => TypeOK
  BY DEF IInv, Shape, CallOK, CallRecords, ProbeRecords, TypeOK
<1> QED BY <1>1, InvariantHolds, PTL

\* The endpoint of the donated key is read by one thread and to one verdict.
THEOREM KeyIsProbedOnce == Spec => []KeyProbedOnce
<1>1. ASSUME IInv PROVE KeyProbedOnce
  <2> DEFINE reading == UNION {{<<c, a>> : a \in {b \in DOMAIN probe[c] : probe[c][b].at = "reading"}} : c \in Callers}
  <2>1. ASSUME NEW x \in reading, NEW y \in reading PROVE verdict = "none" /\ x = y
    <3>1. \A c \in Callers : DOMAIN probe[c] = 1..Attempts[c]
      BY <1>1 DEF IInv, Shape
    <3>2. PICK c \in Callers : \E a \in 1..Attempts[c] : x = <<c, a>> /\ probe[c][a].at = "reading"
      BY <3>1
    <3>3. PICK d \in Callers : \E b \in 1..Attempts[d] : y = <<d, b>> /\ probe[d][b].at = "reading"
      BY <3>1
    <3> QED BY <1>1, <3>2, <3>3 DEF IInv, OneReader
  <2>2. reading = {} \/ \E x : reading = {x} /\ verdict = "none"
    BY <2>1
  <2>3. Cardinality(reading) <= IF verdict = "none" THEN 1 ELSE 0
    <3> HIDE DEF reading
    <3>1. Cardinality({}) = 0 /\ \A x : Cardinality({x}) = 1
      BY FS_EmptySet, FS_Singleton
    <3>2. CASE reading = {}
      BY <3>1, <3>2
    <3>3. CASE \E x : reading = {x} /\ verdict = "none"
      <4>1. PICK x : reading = {x} /\ verdict = "none"
        BY <3>3
      <4>2. Cardinality(reading) = 1
        BY <3>1, <4>1
      <4> QED BY <4>1, <4>2
    <3> QED BY <2>2, <3>2, <3>3
  <2> QED BY <2>3 DEF KeyProbedOnce
<1> QED BY <1>1, InvariantHolds, PTL

\* No call has more slow failures than its one, or the one and the reroll's.
THEOREM SlowFailuresEndCalls == Spec => []SlowAttemptsAreRare
<1>1. ASSUME IInv PROVE SlowAttemptsAreRare
  <2>1. ASSUME NEW c \in Callers PROVE call[c].slow <= IF c \in Broad THEN 2 ELSE 1
    <3>1. /\ call[c].slow \in Nat /\ call[c].rerolled \in BOOLEAN
          /\ call[c].rerolled => c \in Broad
          /\ call[c].slow <= (IF call[c].rerolled THEN 1 ELSE 0) + (IF call[c].pc = "over" THEN 1 ELSE 0)
      BY <1>1 DEF IInv, Shape, CallOK, CallRecords
    <3> QED BY <3>1
  <2> QED BY <2>1 DEF SlowAttemptsAreRare
<1> QED BY <1>1, InvariantHolds, PTL

\* Whatever the calls, the keys and the probes did, a green run paid for nothing
\* that the ladder should have been told of.
THEOREM GreenRunsAreHonest == Spec => []GreenIsHonest
<1>1. IInv => GreenIsHonest
  BY DEF IInv, RunOK
<1> QED BY <1>1, InvariantHolds, PTL
=============================================================================
