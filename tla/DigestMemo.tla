----------------------------- MODULE DigestMemo -----------------------------
(***************************************************************************)
(* run_cache.memoized_digest: readers of one page and query share one      *)
(* digest call, in flight or completed.  One key is modelled; keys are     *)
(* independent but for the bound of the cache, which may drop this key's   *)
(* entry at any time.                                                      *)
(*                                                                         *)
(* Everything runs on one event loop; an action is a stretch between two   *)
(* awaits.  A cancelled task is not done at once: it unwinds first.  Its   *)
(* done callback runs before any caller that awaits it wakes, but not in   *)
(* the step that ends it.  The loop's ready queue is first in, first out:  *)
(* who was about to wake when a caller joined wakes before it can leave.   *)
(***************************************************************************)
EXTENDS Naturals, FiniteSets

CONSTANTS
    Callers,       \* the readers; each calls once
    MaxDigests,    \* bound: digest tasks ever created
    MaxResets,     \* bound: calls of run_cache.clear()
    NoTask

Tasks == 1..MaxDigests

ASSUME DigestAssumption ==
    /\ IsFiniteSet(Callers)
    /\ MaxDigests \in Nat
    /\ MaxResets \in Nat
    /\ NoTask \notin Tasks

VARIABLES
    caller,      \* caller -> where it stands
    joined,      \* caller -> the task it awaits
    ahead,       \* caller -> those already in the ready queue when it joined
    gaveUp,      \* callers cancelled from outside: their own timeout or cancellation
    task,        \* task -> its state
    unfinished,  \* tasks whose done callback has not run yet
    registered,  \* _DIGEST_TASKS[key], or NoTask
    waiters,     \* _DIGEST_WAITERS[key], 0 when absent
    cached,      \* whether _DIGEST_CACHE holds the key
    resets       \* how often clear() ran

callerVars == <<caller, joined, ahead, gaveUp>>
taskVars == <<task, unfinished, registered, cached>>
memoVars == <<callerVars, taskVars, waiters, resets>>

\* A transient outcome (api_error, timeout, empty_completion, insufficient_budget)
\* is returned but not kept; "error" is an exception.
Outcomes == {"stable", "transient", "error", "cancelled"}
TaskStates == {"unborn", "running", "cancelling"} \cup Outcomes
Finished == {"served", "failed", "cancelled"}

Done(t) == task[t] \in Outcomes

MemoInit ==
    /\ caller = [c \in Callers |-> "idle"]
    /\ joined = [c \in Callers |-> NoTask]
    /\ ahead = [c \in Callers |-> {}]
    /\ gaveUp = {}
    /\ task = [t \in Tasks |-> "unborn"]
    /\ unfinished = {}
    /\ registered = NoTask
    /\ waiters = 0
    /\ cached = FALSE
    /\ resets = 0

-----------------------------------------------------------------------------
(* The callers *)

ResultOf(t) ==
    CASE task[t] \in {"stable", "transient"} -> "served"
      [] task[t] = "error" -> "failed"
      [] OTHER -> "cancelled"

CacheHit(c) ==
    /\ caller[c] = "idle"
    /\ cached
    /\ caller' = [caller EXCEPT ![c] = "served"]
    /\ UNCHANGED <<joined, ahead, gaveUp, taskVars, waiters, resets>>

Waiting == {c \in Callers : caller[c] = "waiting"}
Runnable(c) == c \in Waiting /\ Done(joined[c]) /\ joined[c] \notin unfinished

\* A broken count: each caller that joins sets it to one.
CountsOne(c, t) ==
    /\ caller' = [caller EXCEPT ![c] = "waiting"]
    /\ joined' = [joined EXCEPT ![c] = t]
    /\ ahead' = [ahead EXCEPT ![c] = {d \in Callers : Runnable(d)}]
    /\ waiters' = 1
    /\ UNCHANGED gaveUp
Join(c, t) ==
    /\ caller' = [caller EXCEPT ![c] = "waiting"]
    /\ joined' = [joined EXCEPT ![c] = t]
    /\ ahead' = [ahead EXCEPT ![c] = {d \in Callers : Runnable(d)}]
    /\ waiters' = waiters + 1
    /\ UNCHANGED gaveUp

\* The registered task is joined whatever its state.  One that is already done
\* answers without a wait, and the waiter count is as before.
JoinRegistered(c) ==
    /\ caller[c] = "idle"
    /\ ~cached
    /\ registered # NoTask
    /\ \/ /\ ~Done(registered)
          /\ Join(c, registered)
       \/ /\ Done(registered)
          /\ caller' = [caller EXCEPT ![c] = ResultOf(registered)]
          /\ UNCHANGED <<joined, ahead, gaveUp, waiters>>
    /\ UNCHANGED <<taskVars, resets>>

StartDigest(c) ==
    /\ caller[c] = "idle"
    /\ ~cached
    /\ registered = NoTask
    /\ \E t \in Tasks :
          /\ task[t] = "unborn" /\ \A u \in Tasks : u < t => task[u] # "unborn"
          /\ task' = [task EXCEPT ![t] = "running"]
          /\ registered' = t
          /\ Join(c, t)
    /\ UNCHANGED <<unfinished, cached, resets>>

\* A broken variant: the last caller leaves the call running.
NeverCancels(t) == FALSE
CancelsOnLast(t) == waiters = 1 /\ ~Done(t)

\* The finally clause: count this caller out; the last one cancels the call.
LeaveCall(c) ==
    /\ waiters' = waiters - 1
    /\ task' = IF CancelsOnLast(joined[c]) THEN [task EXCEPT ![joined[c]] = "cancelling"] ELSE task
    /\ joined' = [joined EXCEPT ![c] = NoTask]
    /\ ahead' = [ahead EXCEPT ![c] = {}]

\* The shared task ended and its result, exception or cancellation reaches c.
Wake(c) ==
    /\ Runnable(c)
    /\ caller' = [caller EXCEPT ![c] = ResultOf(joined[c])]
    /\ LeaveCall(c)
    /\ UNCHANGED <<gaveUp, unfinished, registered, cached, resets>>

\* c's own timeout or cancellation.  The shield keeps it from the shared task.
GiveUp(c) ==
    /\ c \in Waiting
    /\ \A d \in ahead[c] : d \notin Waiting
    /\ caller' = [caller EXCEPT ![c] = "cancelled"]
    /\ gaveUp' = gaveUp \cup {c}
    /\ LeaveCall(c)
    /\ UNCHANGED <<unfinished, registered, cached, resets>>

-----------------------------------------------------------------------------
(* The shared task *)

DigestEnds(t) ==
    /\ \/ task[t] = "running" /\ \E o \in Outcomes \ {"cancelled"} : task' = [task EXCEPT ![t] = o]
       \/ task[t] = "cancelling" /\ task' = [task EXCEPT ![t] = "cancelled"]
    /\ unfinished' = unfinished \cup {t}
    /\ UNCHANGED <<callerVars, registered, waiters, cached, resets>>

\* A broken variant: the callback does not ask whose registration it drops.
AnyTask(t) == registered # NoTask
IsRegistered(t) == registered = t

\* _finish_memoized_digest.  clear() may have dropped this task, or another may
\* have replaced it under the key.
DoneCallback(t) ==
    /\ t \in unfinished
    /\ unfinished' = unfinished \ {t}
    /\ \/ /\ IsRegistered(t)
          /\ registered' = NoTask
          /\ cached' = (cached \/ task[t] = "stable")
       \/ /\ ~IsRegistered(t)
          /\ UNCHANGED <<registered, cached>>
    /\ UNCHANGED <<callerVars, task, waiters, resets>>

\* Fifty other digests push this one out of the cache.
Evict ==
    /\ cached
    /\ cached' = FALSE
    /\ UNCHANGED <<callerVars, task, unfinished, registered, waiters, resets>>

ClearMemo ==
    /\ resets < MaxResets
    /\ resets' = resets + 1
    /\ task' = IF registered # NoTask /\ ~Done(registered)
               THEN [task EXCEPT ![registered] = "cancelling"] ELSE task
    /\ registered' = NoTask
    /\ cached' = FALSE
    /\ UNCHANGED <<callerVars, unfinished, waiters>>

MemoNext ==
    \/ \E c \in Callers : CacheHit(c) \/ JoinRegistered(c) \/ StartDigest(c) \/ Wake(c) \/ GiveUp(c)
    \/ \E t \in Tasks : DigestEnds(t) \/ DoneCallback(t)
    \/ Evict
    \/ ClearMemo

MemoSpec == MemoInit /\ [][MemoNext]_memoVars

-----------------------------------------------------------------------------
(* Properties *)

\* The types.  The waiter count is kept per key, not per task: it counts the
\* callers that wait on any task of the key.
MemoTypeOK ==
    /\ caller \in [Callers -> {"idle", "waiting"} \cup Finished]
    /\ joined \in [Callers -> Tasks \cup {NoTask}]
    /\ ahead \in [Callers -> SUBSET Callers]
    /\ gaveUp \subseteq Callers
    /\ task \in [Tasks -> TaskStates]
    /\ unfinished \subseteq Tasks
    /\ registered \in Tasks \cup {NoTask}
    /\ waiters \in Nat
    /\ waiters = Cardinality(Waiting)
    /\ cached \in BOOLEAN
    /\ resets \in 0..MaxResets

\* The same read is not paid for twice: at most one digest runs that nobody has
\* cancelled, and none runs while a completed one is kept, whatever clear()
\* drops or replaces under it.
OneDigestAtATime ==
    LET running == {t \in Tasks : task[t] = "running"} IN
    /\ Cardinality(running) <= 1
    /\ cached => running = {}

\* No digest runs on for nobody: the last waiter's cancellation cancels the
\* shared call.  clear() alone may leave one behind, for its callers are still
\* counted under the key while a new digest runs under it.
NoOrphanDigest ==
    resets = 0 =>
        \A t \in Tasks : task[t] = "running" => \E c \in Waiting : joined[c] = t

\* A waiter's cancellation stays its own: as the tests have it, a cancelled
\* waiter keeps the shared call for the remaining waiter.
CancelledOnlyByItself == resets = 0 => \A c \in Callers : caller[c] = "cancelled" => c \in gaveUp
=============================================================================
