----------------------------- MODULE ParserGate -----------------------------
(***************************************************************************)
(* http_fetch.pdf_parse_semaphore: the two slots every parse of a fetched  *)
(* document contends for.  A parse runs in a thread, and a thread cannot   *)
(* be cancelled, so whoever releases the slot decides whether the gate     *)
(* still bounds the parses.  Its users follow three disciplines:           *)
(*                                                                         *)
(*   "pdf"     classify._finish_document: the caller releases on its way   *)
(*             out, however it leaves;                                     *)
(*   "source"  classify._finish_source and run_cache._present_source: the  *)
(*             caller releases if it saw its worker end, and otherwise     *)
(*             leaves it to the worker's done callback;                    *)
(*   "digest"  tools._local_source_digest_outcome and                      *)
(*             ImageViewState.normalize: the worker's done callback        *)
(*             releases, always.                                           *)
(***************************************************************************)
EXTENDS Naturals, Sequences, FiniteSets, SequencesExt

CONSTANTS
    Readers,     \* the calls that parse
    Kind,        \* reader -> its discipline
    Slots        \* _PDF_PARSE_SLOTS

ASSUME GateAssumption ==
    /\ IsFiniteSet(Readers)
    /\ Kind \in [Readers -> {"pdf", "source", "digest"}]
    /\ Slots \in Nat \ {0}

VARIABLES
    free,        \* the semaphore's value
    queue,       \* the readers waiting to acquire it, first come first
    at,          \* reader -> where its coroutine stands
    worker,      \* reader -> its thread
    registered   \* the readers whose worker has a done callback that releases

vars == <<free, queue, at, worker, registered>>

Places == {"outside", "queued", "granted", "parsing"}
WorkerStates == {"none", "submitted", "running", "ended"}

Init ==
    /\ free = Slots
    /\ queue = <<>>
    /\ at = [r \in Readers |-> "outside"]
    /\ worker = [r \in Readers |-> "none"]
    /\ registered = {}

-----------------------------------------------------------------------------
(* The semaphore: a released slot goes to the first waiter, if there is one. *)

Release(moved) ==
    IF queue # <<>>
    THEN /\ at' = [moved EXCEPT ![Head(queue)] = "granted"]
         /\ queue' = Tail(queue)
         /\ UNCHANGED free
    ELSE at' = moved /\ free' = free + 1 /\ UNCHANGED queue

\* r leaves, and releases its slot or not.
Leaves(r, releases) ==
    LET moved == [at EXCEPT ![r] = "outside"] IN
    IF releases THEN Release(moved) ELSE at' = moved /\ UNCHANGED <<free, queue>>

Arrive(r) ==
    /\ at[r] = "outside"
    /\ worker[r] \in {"none", "ended"} /\ r \notin registered
    /\ worker' = [worker EXCEPT ![r] = "none"]
    /\ IF free > 0 /\ queue = <<>>
       THEN free' = free - 1 /\ at' = [at EXCEPT ![r] = "granted"] /\ UNCHANGED queue
       ELSE queue' = Append(queue, r) /\ at' = [at EXCEPT ![r] = "queued"] /\ UNCHANGED free
    /\ UNCHANGED registered

\* The wait for a slot runs out, or the reader is cancelled in it.
LeavesQueue(r) ==
    /\ at[r] = "queued"
    /\ \E i \in DOMAIN queue : queue[i] = r /\ queue' = RemoveAt(queue, i)
    /\ at' = [at EXCEPT ![r] = "outside"]
    /\ UNCHANGED <<free, worker, registered>>

\* No budget is left once the slot is there, or the reader is cancelled before
\* it resumes.
LeavesUnparsed(r) ==
    /\ at[r] = "granted"
    /\ Leaves(r, TRUE)
    /\ UNCHANGED <<worker, registered>>

-----------------------------------------------------------------------------
(* The parse *)

StartsWorker(r) ==
    /\ at[r] = "granted"
    /\ at' = [at EXCEPT ![r] = "parsing"]
    /\ worker' = [worker EXCEPT ![r] = "submitted"]
    /\ registered' = IF Kind[r] = "digest" THEN registered \cup {r} ELSE registered
    /\ UNCHANGED <<free, queue>>

\* The default executor takes the call up, and the parser returns or raises.
ThreadStarts(r) ==
    /\ worker[r] = "submitted"
    /\ worker' = [worker EXCEPT ![r] = "running"]
    /\ UNCHANGED <<free, queue, at, registered>>

ThreadEnds(r) ==
    /\ worker[r] = "running"
    /\ worker' = [worker EXCEPT ![r] = "ended"]
    /\ UNCHANGED <<free, queue, at, registered>>

\* The caller sees its worker end: release_gate_here, or the finally of the PDF.
SeesTheEnd(r) ==
    /\ at[r] = "parsing"
    /\ worker[r] = "ended"
    /\ Leaves(r, Kind[r] # "digest")
    /\ UNCHANGED <<worker, registered>>

\* A broken hand-over: release_gate_here stays TRUE when the caller leaves early.
EveryCallerReleases(r) == Kind[r] # "digest"
\* Who releases the slot itself when it leaves before it saw its worker end.
ReleasesEarly(r) == Kind[r] = "pdf"

\* A broken hand-over: no callback for a worker that is done by now.
RegistersUnlessDone(r) == Kind[r] = "source" /\ worker[r] # "ended"
\* Who leaves the slot to the done callback; on a worker that is done by now,
\* the callback runs at once.
Registers(r) == Kind[r] = "source"

\* The caller times out or is cancelled.  A PDF's call that no thread took up is
\* cancelled with it; the other workers are shielded.
LeavesEarly(r) ==
    /\ at[r] = "parsing"
    /\ Leaves(r, ReleasesEarly(r))
    /\ registered' = IF Registers(r) THEN registered \cup {r} ELSE registered
    /\ worker' = [worker EXCEPT ![r] = IF Kind[r] = "pdf" /\ @ = "submitted" THEN "none" ELSE @]

\* _release_parser_gate, _release_source_gate, _finish_local_digest_worker and
\* _normalization_finished.
DoneCallback(r) ==
    /\ worker[r] = "ended"
    /\ r \in registered
    /\ Release(at)
    /\ registered' = registered \ {r}
    /\ UNCHANGED worker

Next ==
    \E r \in Readers :
        \/ Arrive(r) \/ LeavesQueue(r) \/ LeavesUnparsed(r)
        \/ StartsWorker(r) \/ ThreadStarts(r) \/ ThreadEnds(r)
        \/ SeesTheEnd(r) \/ LeavesEarly(r) \/ DoneCallback(r)

\* The loop resumes who may go on and runs its callbacks, threads start and end.
\* Nothing makes a reader arrive, time out or be cancelled.
Fairness ==
    \A r \in Readers :
        /\ WF_vars(StartsWorker(r) \/ LeavesUnparsed(r))
        /\ WF_vars(ThreadStarts(r)) /\ WF_vars(ThreadEnds(r))
        /\ WF_vars(SeesTheEnd(r)) /\ WF_vars(DoneCallback(r))

Spec == Init /\ [][Next]_vars /\ Fairness

-----------------------------------------------------------------------------
(* Properties *)

TypeOK ==
    /\ free \in 0..Slots
    /\ queue \in Seq(Readers)
    /\ at \in [Readers -> Places]
    /\ worker \in [Readers -> WorkerStates]
    /\ registered \subseteq Readers
    /\ IsInjective(queue) /\ ToSet(queue) = {r \in Readers : at[r] = "queued"}
    /\ free > 0 => queue = <<>>

Unfinished(r) == worker[r] \in {"submitted", "running"}

\* Who has a slot: a reader that was granted one, a PDF's reader while it
\* parses, another's from its grant until its worker's end was taken note of.
HasSlot(r) ==
    \/ at[r] = "granted"
    \/ at[r] = "parsing" /\ Kind[r] \in {"pdf", "source"}
    \/ r \in registered

\* No slot is lost or released twice, whichever of the caller's end, its timeout,
\* its cancellation and the end of its thread comes first.
SlotsConserved == free + Cardinality({r \in Readers : HasSlot(r)}) = Slots

\* At most two documents parse at once, loop-wide, as the gate's own comment has it.
ParsesBounded == Cardinality({r \in Readers : worker[r] = "running"}) <= Slots

\* A PDF's reader left, and its parse goes on.
Abandoned(r) == Kind[r] = "pdf" /\ Unfinished(r) /\ at[r] # "parsing"

\* Only abandoned PDFs come on top: however many of them there are, the other parses
\* never outnumber the slots, for a source's or a digest's reader that leaves early does
\* not let the next one in while its own worker goes on.
OnlyAbandonedExceed == Cardinality({r \in Readers : Unfinished(r) /\ ~Abandoned(r)}) <= Slots

\* A reader that waits for a slot gets one or gives up: no slot stays with a
\* reader that left.
WaitersAreServed == \A r \in Readers : at[r] = "queued" ~> at[r] # "queued"
=============================================================================
