-------------------------- MODULE PublishHardening --------------------------
(***************************************************************************)
(* The publish path.  After the gate, a question's two POSTs, the forecast *)
(* then the comment, run on a thread of its own.  Each POST is a job of    *)
(* one small thread pool that all questions share; the caller waits for it *)
(* with a cap, and tries once more when the answer is lost.                *)
(*                                                                         *)
(* Cancelling a future that already runs does nothing: its worker is       *)
(* abandoned and keeps its place in the pool until its socket closes.      *)
(* Time is counted in ticks; whatever is due happens before the next tick. *)
(* The platform, and the client's pause before every request, are external.*)
(***************************************************************************)
EXTENDS Naturals, Sequences, FiniteSets

CONSTANTS
    Publishers,      \* the questions whose forecasts are ready
    Workers,         \* max_workers of the pool
    Attempts,        \* PUBLISH_POST_RETRIES + 1
    Cap,             \* PUBLISH_POST_TIMEOUT, as the caller's cap
    SocketTimeout,   \* PUBLISH_POST_TIMEOUT, as forced on requests.post
    Pause            \* _sleep_between_requests, inside the job

ASSUME PublishAssumption ==
    /\ IsFiniteSet(Publishers)
    /\ Workers \in Nat \ {0}
    /\ Attempts \in Nat \ {0}
    /\ Cap \in Nat \ {0}
    /\ SocketTimeout \in Nat
    /\ Pause \in Nat

Kinds == {"forecasts", "comments"}
Jobs == Publishers \X Kinds \X (1..Attempts)

VARIABLES
    pc,          \* publisher -> where its publish thread is
    kind,        \* publisher -> the POST it is at
    attempt,     \* publisher -> the attempt it is at
    waited,      \* publisher -> ticks spent in future.result, 0 outside
    queue,       \* the pool's work queue
    job,         \* job -> state of its future, until its result is read or no longer awaited
    age,         \* job -> ticks since its pause or its POST began
    delivered,   \* publisher -> kind -> how often the platform processed the POST
    failures,    \* _PUBLISH_ATTEMPT_FAILURES
    snapshot,    \* publisher -> the counter as read inside the lock, 0 outside
    tally        \* kind -> RUN_STATUS: POSTs attempted, succeeded, failed

callVars == <<pc, kind, attempt, waited>>
poolVars == <<queue, job, age>>
countVars == <<failures, snapshot, tally>>
vars == <<callVars, poolVars, delivered, countVars>>

Running == {"pausing", "posting"}
\* An answer that proves nothing (a timeout, a reset, a 5xx, a 408 or 429), a
\* permanent refusal (any other 4xx), and an exception that is no RequestException.
Answers == {"ok", "unavailable", "refused", "crashed"}
JobStates == {"none", "queued", "cancelled"} \cup Running \cup Answers

Settled == {"skipped", "published", "raised", "crashed"}
PcStates == {"gate", "waiting", "locking", "adding", "reporting"} \cup Settled

Current(q) == <<q, kind[q], attempt[q]>>

Init ==
    /\ pc = [q \in Publishers |-> "gate"]
    /\ kind = [q \in Publishers |-> "forecasts"]
    /\ attempt = [q \in Publishers |-> 1]
    /\ waited = [q \in Publishers |-> 0]
    /\ queue = <<>>
    /\ job = [j \in Jobs |-> "none"]
    /\ age = [j \in Jobs |-> 0]
    /\ delivered = [q \in Publishers |-> [k \in Kinds |-> 0]]
    /\ failures = 0
    /\ snapshot = [q \in Publishers |-> 0]
    /\ tally = [k \in Kinds |-> [attempted |-> 0, succeeded |-> 0, failed |-> 0]]

-----------------------------------------------------------------------------
(* The caller: one wrapper call per POST *)

\* executor.submit, after the fate of the attempt before it is recorded.
Submit(q, k, a, jobs) ==
    /\ kind' = [kind EXCEPT ![q] = k]
    /\ attempt' = [attempt EXCEPT ![q] = a]
    /\ waited' = [waited EXCEPT ![q] = 0]
    /\ pc' = [pc EXCEPT ![q] = "waiting"]
    /\ queue' = Append(queue, <<q, k, a>>)
    /\ job' = [jobs EXCEPT ![<<q, k, a>>] = "queued"]

Gate(q) ==
    /\ pc[q] = "gate"
    /\ \/ /\ pc' = [pc EXCEPT ![q] = "skipped"]
          /\ UNCHANGED <<kind, attempt, waited, queue, job, tally>>
       \/ /\ Submit(q, "forecasts", 1, job)
          /\ tally' = [tally EXCEPT !["forecasts"].attempted = @ + 1]
    /\ UNCHANGED <<age, delivered, failures, snapshot>>

Stop(q, where) ==
    /\ pc' = [pc EXCEPT ![q] = where]
    /\ waited' = [waited EXCEPT ![q] = 0]
    /\ UNCHANGED <<kind, attempt, queue>>

AnswersRetried == {"unavailable", "refused"}
\* _is_retryable: a 4xx that a second identical POST cannot fix is final.
Retryable == {"unavailable"}

OneTooMany(q) == attempt[q] <= Attempts
AttemptsLeft(q) == attempt[q] < Attempts

\* The attempt failed: go round the loop, or fall out of it.
RetryOrFail(q, retryable, jobs) ==
    \/ /\ retryable /\ AttemptsLeft(q)
       /\ Submit(q, kind[q], attempt[q] + 1, jobs)
    \/ /\ ~(retryable /\ AttemptsLeft(q))
       /\ Stop(q, "locking")
       /\ job' = jobs

CommentRegardless(q) == kind[q] = "forecasts" /\ job[Current(q)] \in {"ok", "crashed"}
\* The report posts its comment once the forecast's wrapper has returned.
CommentNext(q) == kind[q] = "forecasts" /\ job[Current(q)] = "ok"

\* future.result returns the job's result, or raises its exception.
CallReturns(q) ==
    LET answer == job[Current(q)]
        read == [job EXCEPT ![Current(q)] = "none"]
    IN
    /\ pc[q] = "waiting"
    /\ \/ /\ CommentNext(q)
          /\ Submit(q, "comments", 1, read)
          /\ tally' = [tally EXCEPT !["forecasts"].succeeded = @ + 1, !["comments"].attempted = @ + 1]
       \/ /\ answer = "ok" /\ kind[q] = "comments"
          /\ Stop(q, "published")
          /\ job' = read
          /\ tally' = [tally EXCEPT !["comments"].succeeded = @ + 1]
       \/ /\ answer \in {"unavailable", "refused"}
          /\ RetryOrFail(q, answer \in Retryable, read)
          /\ UNCHANGED tally
       \/ /\ answer = "crashed" /\ ~CommentNext(q)
          /\ Stop(q, "crashed")
          /\ job' = read
          /\ UNCHANGED tally
    /\ UNCHANGED <<age, delivered, failures, snapshot>>

\* The caller's cap, queueing time included.  future.cancel() withdraws a
\* queued job and leaves a running one alone.
CallTimesOut(q) ==
    /\ pc[q] = "waiting"
    /\ waited[q] = Cap
    /\ \/ /\ job[Current(q)] = "queued"
          /\ RetryOrFail(q, TRUE, [job EXCEPT ![Current(q)] = "cancelled"])
       \/ /\ job[Current(q)] \in Running
          /\ RetryOrFail(q, TRUE, job)
    /\ UNCHANGED <<age, delivered, countVars>>

LeakyLock == \A r \in Publishers : pc[r] \notin {"adding", "raised"}
NoLock == TRUE
LockFree == \A r \in Publishers : pc[r] # "adding"

\* _bump_publish_attempt_failure: the two halves of += under the lock.
ReadCounter(q) ==
    /\ pc[q] = "locking"
    /\ LockFree
    /\ pc' = [pc EXCEPT ![q] = "adding"]
    /\ snapshot' = [snapshot EXCEPT ![q] = failures]
    /\ UNCHANGED <<kind, attempt, waited, poolVars, delivered, failures, tally>>

WriteCounter(q) ==
    /\ pc[q] = "adding"
    /\ failures' = snapshot[q] + 1
    /\ snapshot' = [snapshot EXCEPT ![q] = 0]
    /\ pc' = [pc EXCEPT ![q] = "reporting"]
    /\ UNCHANGED <<kind, attempt, waited, poolVars, delivered, tally>>

\* RUN_STATUS.record_publish_failure, then the last exception is raised.
ReportFailure(q) ==
    /\ pc[q] = "reporting"
    /\ tally' = [tally EXCEPT ![kind[q]].failed = @ + 1]
    /\ pc' = [pc EXCEPT ![q] = "raised"]
    /\ UNCHANGED <<kind, attempt, waited, poolVars, delivered, failures, snapshot>>

-----------------------------------------------------------------------------
(* The pool and the platform *)

Busy == {j \in Jobs : job[j] \in Running}
CanTake == queue # <<>> /\ Cardinality(Busy) < Workers

\* A free worker takes the head of the queue; a cancelled future is dropped.
TakeJob ==
    /\ CanTake
    /\ queue' = Tail(queue)
    /\ job' = [job EXCEPT ![Head(queue)] = IF @ = "cancelled" THEN "none" ELSE "pausing"]
    /\ UNCHANGED <<callVars, age, delivered, countVars>>

PauseEnds(j) ==
    /\ job[j] = "pausing"
    /\ age[j] = Pause
    /\ job' = [job EXCEPT ![j] = "posting"]
    /\ age' = [age EXCEPT ![j] = 0]
    /\ UNCHANGED <<callVars, queue, delivered, countVars>>

Awaited(j) == pc[j[1]] = "waiting" /\ j = Current(j[1])

\* The POST ends, answered or by its socket closing.  The platform has processed
\* the request if it answers ok, has not if it refuses it, and otherwise may have.
PostEnds(j) ==
    /\ job[j] = "posting"
    /\ \E answer \in Answers, processed \in {0, 1} :
          /\ answer = "ok" => processed = 1
          /\ answer \in {"refused", "crashed"} => processed = 0
          /\ job' = [job EXCEPT ![j] = IF Awaited(j) THEN answer ELSE "none"]
          /\ delivered' = [delivered EXCEPT ![j[1]][j[2]] = @ + processed]
    /\ age' = [age EXCEPT ![j] = 0]
    /\ UNCHANGED <<callVars, queue, countVars>>

\* Time passes, up to the next thing due.
Tick ==
    /\ \E q \in Publishers : pc[q] = "waiting"
    /\ \A q \in Publishers : pc[q] = "waiting" =>
          waited[q] < Cap /\ job[Current(q)] \notin Answers
    /\ ~CanTake
    /\ \A j \in Busy : age[j] < IF job[j] = "pausing" THEN Pause ELSE SocketTimeout
    /\ waited' = [q \in Publishers |-> waited[q] + IF pc[q] = "waiting" THEN 1 ELSE 0]
    /\ age' = [j \in Jobs |-> age[j] + IF j \in Busy THEN 1 ELSE 0]
    /\ UNCHANGED <<pc, kind, attempt, queue, job, delivered, countVars>>

PublisherStep(q) ==
    \/ Gate(q) \/ CallReturns(q) \/ CallTimesOut(q)
    \/ ReadCounter(q) \/ WriteCounter(q) \/ ReportFailure(q)

Next ==
    \/ TakeJob
    \/ Tick
    \/ \E q \in Publishers : PublisherStep(q)
    \/ \E j \in Jobs : PauseEnds(j) \/ PostEnds(j)

Spec == Init /\ [][Next]_vars

\* The threads are scheduled, and a socket closes when its timeout is up.
FairSpec == Spec /\ WF_vars(Next)

-----------------------------------------------------------------------------
(* Properties *)

TypeOK ==
    /\ pc \in [Publishers -> PcStates]
    /\ kind \in [Publishers -> Kinds]
    /\ attempt \in [Publishers -> 1..Attempts]
    /\ waited \in [Publishers -> 0..Cap]
    /\ queue \in Seq(Jobs)
    /\ job \in [Jobs -> JobStates]
    /\ age \in [Jobs -> Nat]
    /\ delivered \in [Publishers -> [Kinds -> 0..Attempts]]
    /\ failures \in Nat
    /\ snapshot \in [Publishers -> Nat]
    /\ tally \in [Kinds -> [attempted : Nat, succeeded : Nat, failed : Nat]]

\* A POST is repeated only when the attempt before it left no verdict: it never
\* ran, it was given up on while running, or its answer proves nothing.  A
\* comment is not idempotent, so any other repeat would be a needless duplicate,
\* and repeating a refused POST would spend its siblings' time.
RepeatedOnlyWithoutVerdict ==
    [][\A q \in Publishers :
          attempt'[q] > attempt[q] => job[Current(q)] \notin {"ok", "refused", "crashed"}]_vars

\* Once the threads are out of the counting code, the counter that turns the run
\* red holds one failure per wrapper call that burnt its attempts: no two
\* threads' increments overlap, and the structured run status agrees.
ExhaustedCallsCounted ==
    /\ (\A q \in Publishers : pc[q] # "adding") =>
          failures = Cardinality({q \in Publishers : pc[q] \in {"reporting", "raised"}})
    /\ tally["forecasts"].failed + tally["comments"].failed
         = Cardinality({q \in Publishers : pc[q] = "raised"})

\* The verdicts and deliveries of the abstract promise.
VerdictOf(q, k) ==
    CASE pc[q] \in {"gate", "skipped"} -> "none"
      [] k = "forecasts" /\ kind[q] = "comments" -> "landed"
      [] k = "comments" /\ kind[q] = "forecasts" -> "none"
      [] k = kind[q] /\ pc[q] = "waiting" -> "pending"
      [] k = kind[q] /\ pc[q] = "published" -> "landed"
      [] OTHER -> "gave_up"

Promise == INSTANCE PublishPromise WITH
    verdict   <- [q \in Publishers |-> [k \in Kinds |-> VerdictOf(q, k)]]

\* The pool, its timeouts and its retries deliver what the promise states:
\* whatever the path reports as landed has landed, the comment never precedes
\* its forecast, and nothing is processed more often than it may be attempted.
ImplementsPromise == Promise!PromiseSpec

\* Every publish ends, even with every worker of the pool stuck on a stalled
\* platform: no caller waits for a slot for ever.
EveryPublishReturns == <>[](\A q \in Publishers : pc[q] \in Settled)
=============================================================================
