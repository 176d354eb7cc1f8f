------------------------------- MODULE LlmCalls -------------------------------
(***************************************************************************)
(* The bot's LLM calls and the exit status they lead to: the elapsed-gated *)
(* retry loop of llm_retry, the swap from the donated to the personal key  *)
(* of fallback_openrouter, the probe of a spent donated key, which runs in *)
(* worker threads under a lock, and the exit ladder of cli that reads the  *)
(* counters once the calls are over.                                       *)
(*                                                                         *)
(* A failure is known by its kind.  The spend cap and an empty wallet are  *)
(* the donated key out of money; "scoped" stands for every other failure   *)
(* that is the key's own (429, 401, a blocked route); "empty" is an answer *)
(* without content; "refused" is any other 4xx.                            *)
(***************************************************************************)
EXTENDS Naturals, FiniteSets

CONSTANTS
    Callers,       \* the calls in flight
    Broad,         \* those made with invoke_with_broad_retry
    Attempts,      \* len(backoffs) + 1, for each call
    WallTimeout,   \* wall_timeout of an attempt
    MaxElapsed,    \* TRANSIENT_RETRY_MAX_ELAPSED_S
    Backoff,       \* the pause before a retry
    ProbeTimeout,  \* DONATED_KEY_PROBE_TIMEOUT_S
    Horizon        \* bound: a timer counts up to here

\* A call that may retry a timeout has a wall beyond what still counts as fast.
ASSUME CallsAssumption ==
    /\ Broad \subseteq Callers
    /\ Attempts \in [Callers -> Nat \ {0}]
    /\ {WallTimeout, MaxElapsed} \subseteq Nat \ {0}
    /\ {Backoff, ProbeTimeout, Horizon} \subseteq Nat
    /\ MaxElapsed <= WallTimeout

VARIABLES
    call,              \* where each call stands
    probe,             \* the worker thread each attempt may have started
    verdict,           \* _probed_donated_key_state
    generic, credit,   \* _generic_key_fallback_count, _credit_key_fallback_count
    paidFor,           \* history: the kinds of failure a personal key was billed for
    run                \* the exit status, the outcome run_status publishes, and for a
                       \* green run whether credit alerts were active

vars == <<call, probe, verdict, generic, credit, paidFor, run>>

-----------------------------------------------------------------------------
(* Failures *)

Failures == {"overload", "scoped", "wallet", "spendCap", "refused", "empty"}

\* should_retry_with_general_key
FallsBack(kind) == kind \in {"scoped", "wallet", "spendCap"}
\* _is_transient_type and is_broadly_retryable; "timeout" is the wall.
Retryable(c, kind) ==
    kind \in IF c \in Broad THEN {"overload", "scoped", "empty", "timeout"} ELSE {"overload"}

Fast(c) == call[c].at < MaxElapsed

\* A broken exemption: an empty answer is always asked for again.
RerollAlways(c, kind) == Retryable(c, kind) /\ ~Fast(c) /\ kind = "empty"
\* A slow answer without content is asked for once more, at once.
Rerolls(c, kind) == Retryable(c, kind) /\ ~Fast(c) /\ kind = "empty" /\ ~call[c].rerolled

IsLast(c) == call[c].attempt = Attempts[c]

-----------------------------------------------------------------------------
(* Calls *)

\* An answered call and one that raised are both over; slow is history: the failures
\* that took MaxElapsed or longer.
Started == [pc |-> "donated", attempt |-> 1, at |-> 0, slow |-> 0, rerolled |-> FALSE, kind |-> "none", probing |-> 0]
Idle == [at |-> "idle", says |-> FALSE]

Init ==
    /\ call = [c \in Callers |-> Started]
    /\ probe = [c \in Callers |-> [a \in 1..Attempts[c] |-> Idle]]
    /\ verdict = "none"
    /\ generic = 0 /\ credit = 0
    /\ paidFor = {}
    /\ run = [exit |-> "none", outcome |-> "unknown", active |-> TRUE]

Forecasting == run.exit = "none"
Settled(c) == call[c].pc = "over"
At(c, pc) == Forecasting /\ call[c].pc = pc

Answers(c) ==
    /\ At(c, "donated") \/ At(c, "personal")
    /\ call' = [call EXCEPT ![c].pc = "over", ![c].at = 0]
    /\ UNCHANGED <<probe, verdict, generic, credit, paidFor, run>>

\* What invoke_with_transient_retry makes of a failed attempt.
AttemptFails(c, kind) ==
    LET over == [call[c] EXCEPT !.kind = "none", !.probing = 0, !.slow = IF Fast(c) THEN @ ELSE @ + 1]
        again == [over EXCEPT !.attempt = @ + 1, !.at = 0]
    IN
    call' = [call EXCEPT ![c] =
        IF IsLast(c) THEN [over EXCEPT !.pc = "over", !.at = 0]
        ELSE IF Retryable(c, kind) /\ Fast(c) THEN [again EXCEPT !.pc = "pause"]
        ELSE IF Rerolls(c, kind) THEN [again EXCEPT !.pc = "donated", !.rerolled = TRUE]
        ELSE [over EXCEPT !.pc = "over", !.at = 0]]

\* FallbackOpenRouterLlm.invoke on the donated key's failure: it starts the probe in
\* a thread, or lets the failure through.
DonatedFails(c) ==
    /\ At(c, "donated")
    /\ \E kind \in Failures :
          IF FallsBack(kind)
          THEN /\ call' = [call EXCEPT ![c].pc = "probing", ![c].kind = kind]
               /\ probe' = [probe EXCEPT ![c][call[c].attempt] =
                     IF kind = "spendCap" THEN [@ EXCEPT !.at = "asked"]
                                          ELSE [at |-> "done", says |-> kind = "wallet"]]
          ELSE AttemptFails(c, kind) /\ UNCHANGED probe
    /\ UNCHANGED <<verdict, generic, credit, paidFor, run>>

\* A broken exemption: whatever sounds like money is expected.
SoundsLikeMoney(c, says) == call[c].kind \in {"wallet", "spendCap"}
\* is_suppressible_credit_error, if the probe's thread said so in time.
Suppressible(c, says) == says

\* record_donated_key_fallback after its await: the counts and the personal call,
\* with nothing in between.
Swaps(c, says) ==
    /\ generic' = generic + 1
    /\ credit' = IF Suppressible(c, says) THEN credit + 1 ELSE credit
    /\ paidFor' = paidFor \cup {call[c].kind}
    /\ call' = [call EXCEPT ![c].pc = "personal", ![c].kind = "none", ![c].probing = 0]
    /\ UNCHANGED <<verdict, run>>

ProbeAnswers(c) ==
    /\ At(c, "probing")
    /\ probe[c][call[c].attempt].at = "done"
    /\ Swaps(c, probe[c][call[c].attempt].says)
    /\ probe' = [probe EXCEPT ![c][call[c].attempt] = Idle]

\* The probe outlasts its budget and its thread goes on; the fallback stays alertable.
ProbeGivenUp(c) ==
    /\ At(c, "probing")
    /\ call[c].probing = ProbeTimeout
    /\ Swaps(c, FALSE)
    /\ UNCHANGED probe

PersonalFails(c) ==
    /\ At(c, "personal")
    /\ \E kind \in Failures : AttemptFails(c, kind)
    /\ UNCHANGED <<probe, verdict, generic, credit, paidFor, run>>

\* A broken cap: the swap of keys runs outside it.
CapsDonatedOnly(c) == call[c].pc = "donated"
\* wait_for covers the attempt, whichever key it is at.
Capped(c) == call[c].pc \in {"donated", "probing", "personal"}

WallHits(c) ==
    /\ Forecasting /\ Capped(c)
    /\ call[c].at = WallTimeout
    /\ AttemptFails(c, "timeout")
    /\ probe' = [probe EXCEPT ![c][call[c].attempt] = IF @.at = "done" THEN Idle ELSE @]
    /\ UNCHANGED <<verdict, generic, credit, paidFor, run>>

PauseEnds(c) ==
    /\ At(c, "pause")
    /\ call[c].at = Backoff
    /\ call' = [call EXCEPT ![c].pc = "donated", ![c].at = 0]
    /\ UNCHANGED <<probe, verdict, generic, credit, paidFor, run>>

\* No timer waits beyond its time.
Due(c) ==
    \/ Capped(c) /\ call[c].at = WallTimeout
    \/ call[c].pc = "probing" /\ call[c].probing = ProbeTimeout
    \/ call[c].pc = "pause" /\ call[c].at = Backoff

Later(time) == IF time < Horizon THEN time + 1 ELSE time

Tick ==
    /\ \E c \in Callers : ~Settled(c)
    /\ \A c \in Callers : ~Due(c)
    /\ call' = [c \in Callers |->
          IF Settled(c) THEN call[c]
          ELSE [call[c] EXCEPT !.at = Later(@),
                               !.probing = IF call[c].pc = "probing" THEN Later(@) ELSE @]]
    /\ UNCHANGED <<probe, verdict, generic, credit, paidFor, run>>

-----------------------------------------------------------------------------
(* classify_donated_key_state, in the probe's threads *)

\* The thread ends; nobody may be waiting any more.
Told(c, a, state) ==
    IF call[c].pc = "probing" /\ call[c].attempt = a THEN [at |-> "done", says |-> state = "drained"] ELSE Idle

ReadsCache(c, a) ==
    /\ probe[c][a].at = "asked"
    /\ probe' = [probe EXCEPT ![c][a] =
          IF verdict = "none" THEN [@ EXCEPT !.at = "queued"] ELSE Told(c, a, verdict)]
    /\ UNCHANGED <<call, verdict, generic, credit, paidFor, run>>

\* _PROBE_LOCK is held while the endpoint is read.
LockFree == \A c \in Callers : \A a \in DOMAIN probe[c] : probe[c][a].at # "reading"

\* A broken double check: whoever gets the lock reads the endpoint.
Unread == TRUE
\* The second look at the cache, under the lock.
StillUnknown == verdict = "none"

TakesLock(c, a) ==
    /\ probe[c][a].at = "queued" /\ LockFree
    /\ probe' = [probe EXCEPT ![c][a] =
          IF StillUnknown THEN [@ EXCEPT !.at = "reading"] ELSE Told(c, a, verdict)]
    /\ UNCHANGED <<call, verdict, generic, credit, paidFor, run>>

\* The endpoint calls the key drained, or anything else, failures included.
ProbeEnds(c, a) ==
    /\ probe[c][a].at = "reading"
    /\ \E state \in {"drained", "broken"} :
          /\ verdict' = state
          /\ probe' = [probe EXCEPT ![c][a] = Told(c, a, state)]
    /\ UNCHANGED <<call, generic, credit, paidFor, run>>

-----------------------------------------------------------------------------
(* The end of the run *)

\* What else the ladder looks at: the bot's own counters and dropped posts, the
\* credit floor, another alarm (the cup reminder, a stale tournament, a deprecated
\* model), a summary that raises, and credit_alerts_active.
Findings == [events : {0, 1}, floor : BOOLEAN, alarm : BOOLEAN, summary : BOOLEAN, active : BOOLEAN]

Alertable(f) == f.events + generic - (IF f.active THEN 0 ELSE credit)

\* _is_run_clean
RunClean(f) ==
    /\ ~f.summary /\ Alertable(f) = 0
    /\ ~(f.floor /\ f.active) /\ ~f.alarm

\* The rungs of _report_degradation_and_exit that end the run red.
EndsRed(f) ==
    \/ f.summary \/ Alertable(f) > 0 \/ f.alarm
    \/ f.floor /\ f.active

Reports ==
    /\ Forecasting /\ \A c \in Callers : Settled(c)
    /\ \E f \in Findings :
          run' = [exit |-> IF EndsRed(f) THEN "red" ELSE "green",
                  outcome |-> IF f.summary THEN "hard_failure" ELSE IF RunClean(f) THEN "clean" ELSE "degraded",
                  active |-> f.active \/ EndsRed(f)]
    /\ UNCHANGED <<call, probe, verdict, generic, credit, paidFor>>

\* The forecasts raise, once nothing of theirs runs: main publishes the failure and
\* lets it through.
Crashes ==
    /\ Forecasting /\ \A c \in Callers : Settled(c)
    /\ run' = [run EXCEPT !.exit = "red", !.outcome = "hard_failure"]
    /\ UNCHANGED <<call, probe, verdict, generic, credit, paidFor>>

Ended == ~Forecasting /\ UNCHANGED vars

Next ==
    \/ \E c \in Callers :
          \/ Answers(c) \/ DonatedFails(c) \/ PersonalFails(c)
          \/ ProbeAnswers(c) \/ ProbeGivenUp(c) \/ WallHits(c) \/ PauseEnds(c)
          \/ \E a \in 1..Attempts[c] : ReadsCache(c, a) \/ TakesLock(c, a) \/ ProbeEnds(c, a)
    \/ Tick \/ Reports \/ Crashes \/ Ended

\* The event loop runs and time passes; neither key nor the probe need ever answer.
TimerFires == \E c \in Callers : WallHits(c) \/ ProbeGivenUp(c) \/ PauseEnds(c)
Fairness == WF_vars(Tick) /\ WF_vars(TimerFires)

Spec == Init /\ [][Next]_vars /\ Fairness

-----------------------------------------------------------------------------
(* Properties *)

\* The types; no call is attempted more often than its ladder has rungs, and the
\* suppressible fallbacks are some of all.
TypeOK ==
    /\ \A c \in Callers :
          /\ call[c].pc \in {"donated", "probing", "personal", "pause", "over"}
          /\ call[c].attempt \in 1..Attempts[c]
          /\ call[c].at \in 0..Horizon /\ call[c].probing \in 0..ProbeTimeout
          /\ (call[c].kind # "none") = (call[c].pc = "probing")
          /\ \A a \in 1..Attempts[c] : probe[c][a].at \in {"idle", "asked", "queued", "reading", "done"}
    /\ verdict \in {"none", "drained", "broken"}
    /\ credit \in 0..generic

\* However many calls fail on one spent key at once, and however many were given up,
\* the endpoint is read once: one thread at a time, none once the verdict is in.
KeyProbedOnce ==
    LET reading == UNION {{<<c, a>> : a \in {b \in DOMAIN probe[c] : probe[c][b].at = "reading"}} : c \in Callers} IN
    Cardinality(reading) <= IF verdict = "none" THEN 1 ELSE 0

\* A slow failure ends its call: what it costs stays the fast ladder and one wall, or
\* two when the forecasters' retry asks once more after an empty answer.
SlowAttemptsAreRare == \A c \in Callers : call[c].slow <= IF c \in Broad THEN 2 ELSE 1

\* A run ends green only if its status says so, and if it paid with the personal key
\* for nothing, or inside the window for a donated key that was empty or that the
\* probe found drained.
GreenIsHonest ==
    /\ run.exit # "none" => (run.exit = "green") = (run.outcome = "clean")
    /\ run.exit = "green" =>
          /\ paidFor \subseteq IF run.active THEN {} ELSE {"wallet", "spendCap"}
          /\ "spendCap" \in paidFor => verdict = "drained"

\* Every call ends, though neither key nor the probe ever answers.
EveryCallEnds == <>(\A c \in Callers : Settled(c))
=============================================================================
