-------------------------- MODULE ParserGateProofs --------------------------
(***************************************************************************)
(* That the parser gate neither loses a slot nor gives one back twice, for *)
(* any number of readers of each kind and any number of slots, and that it *)
(* therefore bounds the parses whose readers were shielded or still wait.  *)
(*                                                                         *)
(* The argument is a count of holders.  A slot is held by a reader that    *)
(* was granted one, by a parsing reader whose kind releases it itself, or  *)
(* by a registered callback, and no reader holds two: who is queued or     *)
(* granted has no callback left over from an earlier call.  A release      *)
(* takes one holder away and either raises the count or makes the first    *)
(* waiter a holder, who was none.                                          *)
(*                                                                         *)
(* The types go with a second fact: whoever waits has a place in the       *)
(* queue, and nobody waits while a slot is free.  A slot that is released  *)
(* goes to the first waiter, so that none is overlooked.                   *)
(***************************************************************************)
EXTENDS ParserGate, FiniteSetTheorems, SequenceTheorems, TLAPS

\* The holders of a slot, where the readers are at a and the callbacks are reg.
Holders(a, reg) ==
    {r \in Readers : \/ a[r] = "granted"
                     \/ a[r] = "parsing" /\ Kind[r] \in {"pdf", "source"}
                     \/ r \in reg}

\* Each place in the queue is that of a queued reader, and of one only.
QueueInStep(q, a) ==
    /\ q \in Seq(Readers)
    /\ \A i \in 1..Len(q) : a[q[i]] = "queued"
    /\ \A i, j \in 1..Len(q) : q[i] = q[j] => i = j

Shape ==
    /\ free \in Nat
    /\ at \in [Readers -> Places]
    /\ worker \in [Readers -> WorkerStates]
    /\ registered \subseteq Readers
    /\ QueueInStep(queue, at)

\* No reader holds two slots, and a shielded worker that runs holds one.
OneSlotEach ==
    \A r \in Readers :
        /\ at[r] \in {"queued", "granted"} => r \notin registered /\ worker[r] = "none"
        /\ at[r] = "parsing" /\ Kind[r] = "source" => r \notin registered
        /\ Kind[r] = "pdf" => r \notin registered
        /\ Unfinished(r) /\ Kind[r] # "pdf" => r \in Holders(at, registered)

IInv ==
    /\ Shape
    /\ OneSlotEach
    /\ free + Cardinality(Holders(at, registered)) = Slots

LEMMA HoldersAreFinite ==
    ASSUME NEW a, NEW reg
    PROVE  /\ IsFiniteSet(Holders(a, reg))
           /\ Cardinality(Holders(a, reg)) \in Nat
<1>1. Holders(a, reg) \in SUBSET Readers
  BY DEF Holders
<1>2. IsFiniteSet(Holders(a, reg))
  BY <1>1, GateAssumption, FS_Subset
<1> QED
  BY <1>2, FS_CardinalityType

\* The elements of a sequence without the i-th.
LEMMA RemoveAtElements ==
    ASSUME NEW S, NEW q \in Seq(S), NEW i \in 1..Len(q)
    PROVE  /\ RemoveAt(q, i) \in Seq(S) /\ Len(RemoveAt(q, i)) = Len(q) - 1
           /\ \A k \in 1..(Len(q) - 1) : RemoveAt(q, i)[k] = IF k < i THEN q[k] ELSE q[k + 1]
<1> DEFINE front == SubSeq(q, 1, i - 1)
           back == SubSeq(q, i + 1, Len(q))
           p == front \o back
<1>1. q \in Seq(S) /\ Len(q) \in Nat /\ i \in Nat /\ \A k \in 1..Len(q) : q[k] \in S
  OBVIOUS
<1>2. front \in Seq(S) /\ Len(front) = i - 1 /\ \A k \in 1..(i - 1) : front[k] = q[k]
  <2>1. \A k \in 1..(i - 1) : q[k] \in S
    BY <1>1
  <2>2. /\ front \in Seq(S)
        /\ Len(front) = IF 1 <= i - 1 THEN (i - 1) - 1 + 1 ELSE 0
        /\ \A k \in 1..((i - 1) - 1 + 1) : front[k] = q[1 + k - 1]
    BY <1>1, <2>1, SubSeqProperties
  <2> QED BY <1>1, <2>2
<1>3. /\ back \in Seq(S) /\ Len(back) = Len(q) - i
      /\ \A k \in 1..(Len(q) - i) : back[k] = q[i + k]
  <2>1. \A k \in (i + 1)..Len(q) : q[k] \in S
    BY <1>1
  <2>2. /\ back \in Seq(S)
        /\ Len(back) = IF i + 1 <= Len(q) THEN Len(q) - (i + 1) + 1 ELSE 0
        /\ \A k \in 1..(Len(q) - (i + 1) + 1) : back[k] = q[(i + 1) + k - 1]
    BY <1>1, <2>1, SubSeqProperties
  <2> QED BY <1>1, <2>2
<1>4. /\ p \in Seq(S) /\ Len(p) = Len(q) - 1
      /\ \A k \in 1..(Len(q) - 1) : p[k] = IF k < i THEN q[k] ELSE q[k + 1]
  <2> HIDE DEF front, back
  <2>1. /\ p \in Seq(S) /\ Len(p) = Len(front) + Len(back)
        /\ \A k \in 1..(Len(front) + Len(back)) :
              p[k] = IF k <= Len(front) THEN front[k] ELSE back[k - Len(front)]
    BY <1>2, <1>3, ConcatProperties
  <2>2. Len(front) + Len(back) = Len(q) - 1
    BY <1>1, <1>2, <1>3
  <2>3. ASSUME NEW k \in 1..(Len(q) - 1)
        PROVE  p[k] = IF k < i THEN q[k] ELSE q[k + 1]
    <3>1. CASE k < i
      BY <1>1, <1>2, <2>1, <2>2, <3>1
    <3>2. CASE ~(k < i)
      <4>1. k - (i - 1) \in 1..(Len(q) - i) /\ i + (k - (i - 1)) = k + 1
        BY <1>1, <3>2
      <4>2. p[k] = back[k - (i - 1)]
        BY <1>1, <1>2, <2>1, <2>2, <3>2
      <4>3. back[k - (i - 1)] = q[i + (k - (i - 1))]
        BY <1>3, <4>1
      <4> QED BY <3>2, <4>1, <4>2, <4>3
    <3> QED BY <3>1, <3>2
  <2> QED BY <2>1, <2>2, <2>3
<1>5. RemoveAt(q, i) = p
  BY DEF RemoveAt
<1> QED BY <1>4, <1>5

\* A queue that loses one of its places stays in step, wherever that reader goes.
LEMMA RemovalKeepsQueue ==
    ASSUME NEW q, NEW a, QueueInStep(q, a), NEW i \in 1..Len(q),
           NEW b, \A r \in Readers : r # q[i] => b[r] = a[r]
    PROVE  QueueInStep(RemoveAt(q, i), b)
<1> DEFINE p == RemoveAt(q, i)
<1>1. q \in Seq(Readers) /\ Len(q) \in Nat /\ i \in Nat /\ \A k \in 1..Len(q) : q[k] \in Readers
  BY DEF QueueInStep
<1>2. /\ p \in Seq(Readers) /\ Len(p) = Len(q) - 1
      /\ \A k \in 1..(Len(q) - 1) : p[k] = IF k < i THEN q[k] ELSE q[k + 1]
  BY <1>1, RemoveAtElements
<1> HIDE DEF p
<1>3. \A k \in 1..Len(p) : \E n \in 1..Len(q) :
          p[k] = q[n] /\ n # i /\ n = IF k < i THEN k ELSE k + 1
  BY <1>1, <1>2
<1>4. \A k \in 1..Len(p) : b[p[k]] = "queued"
  <2> TAKE k \in 1..Len(p)
  <2>1. PICK n \in 1..Len(q) : p[k] = q[n] /\ n # i
    BY <1>3
  <2> QED BY <1>1, <2>1 DEF QueueInStep
<1>5. \A k, n \in 1..Len(p) : p[k] = p[n] => k = n
  BY <1>1, <1>2, <1>3 DEF QueueInStep
<1>6. QueueInStep(p, b)
  BY <1>2, <1>4, <1>5 DEF QueueInStep
<1> QED BY <1>6 DEF p

LEMMA TailKeepsQueue ==
    ASSUME NEW q, NEW a, QueueInStep(q, a), q # <<>>,
           NEW b, \A r \in Readers : r # Head(q) => b[r] = a[r]
    PROVE  QueueInStep(Tail(q), b) /\ Head(q) \in Readers /\ a[Head(q)] = "queued"
<1>1. /\ q \in Seq(Readers) /\ Len(q) \in Nat \ {0} /\ Head(q) = q[1]
      /\ \A k \in 1..Len(q) : q[k] \in Readers
  BY DEF QueueInStep
<1>2. /\ Tail(q) \in Seq(Readers) /\ Len(Tail(q)) = Len(q) - 1
      /\ \A k \in 1..(Len(q) - 1) : Tail(q)[k] = q[k + 1]
  BY <1>1, HeadTailProperties
<1>3. \A k \in 1..(Len(q) - 1) : k + 1 \in 1..Len(q) /\ k + 1 # 1
  BY <1>1
<1>4. \A k \in 1..(Len(q) - 1) : b[Tail(q)[k]] = "queued"
  BY <1>1, <1>2, <1>3 DEF QueueInStep
<1>5. \A k, n \in 1..(Len(q) - 1) : Tail(q)[k] = Tail(q)[n] => k = n
  BY <1>1, <1>2, <1>3 DEF QueueInStep
<1> QED
  BY <1>1, <1>2, <1>4, <1>5 DEF QueueInStep

LEMMA AppendKeepsQueue ==
    ASSUME NEW q, NEW a, QueueInStep(q, a), NEW r \in Readers, a[r] # "queued",
           NEW b, b[r] = "queued", \A s \in Readers : s # r => b[s] = a[s]
    PROVE  QueueInStep(Append(q, r), b)
<1>1. q \in Seq(Readers) /\ Len(q) \in Nat /\ \A k \in 1..Len(q) : q[k] \in Readers /\ q[k] # r
  BY DEF QueueInStep
<1>2. /\ Append(q, r) \in Seq(Readers) /\ Len(Append(q, r)) = Len(q) + 1
      /\ \A k \in 1..(Len(q) + 1) : Append(q, r)[k] = IF k <= Len(q) THEN q[k] ELSE r
  BY <1>1, AppendProperties
<1>3. \A k \in 1..(Len(q) + 1) : b[Append(q, r)[k]] = "queued"
  BY <1>1, <1>2 DEF QueueInStep
<1>4. \A k, n \in 1..(Len(q) + 1) : Append(q, r)[k] = Append(q, r)[n] => k = n
  BY <1>1, <1>2 DEF QueueInStep
<1> QED
  BY <1>2, <1>3, <1>4 DEF QueueInStep

\* Readers that are not queued may move: the queue is in step with where they go.
LEMMA OthersKeepQueue ==
    ASSUME NEW q, NEW a, QueueInStep(q, a), NEW r, a[r] # "queued",
           NEW b, \A s \in Readers : s # r => b[s] = a[s]
    PROVE  QueueInStep(q, b)
<1>1. q \in Seq(Readers) /\ \A k \in 1..Len(q) : q[k] \in Readers /\ q[k] # r
  BY DEF QueueInStep
<1> QED
  BY <1>1 DEF QueueInStep

-----------------------------------------------------------------------------
(* A release *)

\* A slot that has lost its holder goes back to the count, or to the first waiter.
LEMMA ReleaseKeepsSlots ==
    ASSUME NEW moved \in [Readers -> Places], QueueInStep(queue, moved), free \in Nat,
           NEW reg, \A r \in Readers : moved[r] = "queued" => r \notin reg,
           free + Cardinality(Holders(moved, reg)) = Slots - 1,
           Release(moved)
    PROVE  /\ free' \in Nat
           /\ at' \in [Readers -> Places]
           /\ QueueInStep(queue', at')
           /\ \A r \in Readers : at'[r] = moved[r] \/ (moved[r] = "queued" /\ at'[r] = "granted")
           /\ free' + Cardinality(Holders(at', reg)) = Slots
<1>0. IsFiniteSet(Holders(moved, reg)) /\ Cardinality(Holders(moved, reg)) \in Nat /\ Slots \in Nat
  BY HoldersAreFinite, GateAssumption
<1>1. CASE queue = <<>>
  <2>1. at' = moved /\ free' = free + 1 /\ queue' = queue
    BY <1>1 DEF Release
  <2> QED BY <1>0, <2>1
<1>2. CASE queue # <<>>
  <2> DEFINE h == Head(queue)
  <2>1. at' = [moved EXCEPT ![h] = "granted"] /\ queue' = Tail(queue) /\ free' = free
    BY <1>2 DEF Release
  <2>2. h \in Readers /\ moved[h] = "queued"
    BY <1>2, TailKeepsQueue
  <2> HIDE DEF h
  <2>3. /\ at' \in [Readers -> Places] /\ at'[h] = "granted"
        /\ \A r \in Readers : r # h => at'[r] = moved[r]
    BY <2>1, <2>2 DEF Places
  <2>4. QueueInStep(queue', at')
    BY <1>2, <2>1, <2>3, TailKeepsQueue DEF h
  <2>5. Holders(at', reg) = Holders(moved, reg) \cup {h} /\ h \notin Holders(moved, reg)
    BY <2>2, <2>3 DEF Holders
  <2>6. Cardinality(Holders(at', reg)) = Cardinality(Holders(moved, reg)) + 1
    BY <1>0, <2>5, FS_AddElement
  <2> QED BY <1>0, <2>1, <2>2, <2>3, <2>4, <2>6
<1> QED BY <1>1, <1>2

\* A reader that holds a slot and leaves without it gives it back.
LEMMA HolderReleases ==
    ASSUME IInv, NEW r \in Readers, r \in Holders(at, registered), at[r] # "queued",
           NEW place \in Places \ {"queued"}, NEW reg \in SUBSET registered,
           registered \ {r} \subseteq reg,
           r \notin Holders([at EXCEPT ![r] = place], reg),
           Release([at EXCEPT ![r] = place])
    PROVE  /\ free' \in Nat
           /\ at' \in [Readers -> Places]
           /\ QueueInStep(queue', at')
           /\ \A s \in Readers : s # r =>
                 at'[s] = at[s] \/ (at[s] = "queued" /\ at'[s] = "granted")
           /\ at'[r] = place
           /\ free' + Cardinality(Holders(at', reg)) = Slots
<1> DEFINE moved == [at EXCEPT ![r] = place]
<1>1. /\ moved \in [Readers -> Places] /\ moved[r] = place
      /\ \A s \in Readers : s # r => moved[s] = at[s]
  BY DEF IInv, Shape
<1>2. QueueInStep(queue, moved)
  <2>1. QueueInStep(queue, at)
    BY DEF IInv, Shape
  <2> HIDE DEF moved
  <2> QED BY <1>1, <2>1, OthersKeepQueue
<1>3. Holders(moved, reg) = Holders(at, registered) \ {r}
  BY <1>1 DEF Holders
<1>4. Cardinality(Holders(moved, reg)) = Cardinality(Holders(at, registered)) - 1
  BY <1>3, HoldersAreFinite, FS_RemoveElement
<1>5. free \in Nat /\ free + Cardinality(Holders(moved, reg)) = Slots - 1
  <2> DEFINE before == Cardinality(Holders(at, registered))
             after == Cardinality(Holders(moved, reg))
  <2>1. before \in Nat /\ Slots \in Nat /\ free \in Nat /\ free + before = Slots
    BY HoldersAreFinite, GateAssumption DEF IInv, Shape
  <2>2. after = before - 1
    BY <1>4
  <2> HIDE DEF before, after
  <2>3. free + after = Slots - 1
    BY <2>1, <2>2
  <2> QED BY <2>1, <2>3 DEF after
<1>6. \A s \in Readers : moved[s] = "queued" => s \notin reg
  BY <1>1 DEF IInv, OneSlotEach
<1> HIDE DEF moved
<1>7. Release(moved)
  BY DEF moved
<1> QED
  BY <1>1, <1>2, <1>5, <1>6, <1>7, ReleaseKeepsSlots

-----------------------------------------------------------------------------
(* The invariant *)

LEMMA InvariantInit == Init => IInv
<1> SUFFICES ASSUME Init PROVE IInv
  OBVIOUS
<1>1. Shape
  BY GateAssumption DEF Init, Shape, Places, WorkerStates, QueueInStep
<1>2. OneSlotEach
  BY DEF Init, OneSlotEach, Unfinished
<1>3. Holders(at, registered) = {}
  BY DEF Init, Holders
<1>4. free + Cardinality(Holders(at, registered)) = Slots
  BY <1>3, FS_EmptySet, GateAssumption DEF Init
<1> QED BY <1>1, <1>2, <1>4 DEF IInv

\* A reader takes a free slot or the last place in the queue.
LEMMA ArriveKeepsInvariant ==
    ASSUME IInv, NEW r \in Readers, Arrive(r)
    PROVE  IInv'
<1>0. /\ at[r] = "outside" /\ r \notin registered /\ registered' = registered
      /\ worker' \in [Readers -> WorkerStates] /\ worker'[r] = "none"
      /\ \A s \in Readers : s # r => worker'[s] = worker[s]
      /\ free \in Nat /\ QueueInStep(queue, at) /\ registered \subseteq Readers
  BY DEF Arrive, IInv, Shape, WorkerStates
<1>1. /\ at' \in [Readers -> Places] /\ at'[r] \in {"queued", "granted"}
      /\ \A s \in Readers : s # r => at'[s] = at[s]
  BY DEF Arrive, IInv, Shape, Places
<1>2. OneSlotEach'
  BY <1>0, <1>1 DEF IInv, OneSlotEach, Unfinished, Holders
<1>3. CASE free > 0 /\ queue = <<>>
  <2>1. free' = free - 1 /\ queue' = queue /\ at'[r] = "granted"
    BY <1>3 DEF Arrive, IInv, Shape
  <2>2. Holders(at', registered') = Holders(at, registered) \cup {r} /\ r \notin Holders(at, registered)
    BY <1>0, <1>1, <2>1 DEF Holders
  <2>3. Cardinality(Holders(at', registered')) = Cardinality(Holders(at, registered)) + 1
    BY <2>2, HoldersAreFinite, FS_AddElement
  <2>4. QueueInStep(queue', at')
    BY <1>0, <1>1, <2>1, OthersKeepQueue
  <2>5. free' \in Nat /\ free' + Cardinality(Holders(at', registered')) = Slots
    BY <1>0, <1>3, <2>1, <2>3, HoldersAreFinite, GateAssumption DEF IInv
  <2> QED BY <1>0, <1>1, <1>2, <2>4, <2>5 DEF IInv, Shape
<1>4. CASE ~(free > 0 /\ queue = <<>>)
  <2>1. free' = free /\ queue' = Append(queue, r) /\ at'[r] = "queued"
    BY <1>4 DEF Arrive, IInv, Shape
  <2>2. Holders(at', registered') = Holders(at, registered)
    BY <1>0, <1>1, <2>1 DEF Holders
  <2>3. QueueInStep(queue', at')
    BY <1>0, <1>1, <2>1, AppendKeepsQueue
  <2> QED BY <1>0, <1>1, <1>2, <2>1, <2>2, <2>3 DEF IInv, Shape
<1> QED BY <1>3, <1>4

LEMMA LeavesQueueKeepsInvariant ==
    ASSUME IInv, NEW r \in Readers, LeavesQueue(r)
    PROVE  IInv'
<1>1. PICK i \in DOMAIN queue : queue[i] = r /\ queue' = RemoveAt(queue, i)
  BY DEF LeavesQueue
<1>2. /\ at[r] = "queued" /\ at' \in [Readers -> Places] /\ at'[r] = "outside"
      /\ \A s \in Readers : s # r => at'[s] = at[s]
      /\ UNCHANGED <<free, worker, registered>>
      /\ QueueInStep(queue, at) /\ i \in 1..Len(queue)
  BY <1>1 DEF LeavesQueue, IInv, Shape, Places, QueueInStep
<1>3. QueueInStep(queue', at')
  BY <1>1, <1>2, RemovalKeepsQueue
<1>4. Holders(at', registered') = Holders(at, registered)
  BY <1>2 DEF Holders
<1>5. OneSlotEach'
  BY <1>2, <1>4 DEF IInv, OneSlotEach, Unfinished, Holders
<1> QED BY <1>2, <1>3, <1>4, <1>5 DEF IInv, Shape

\* The threads and the start of a worker move no slot.
LEMMA WorkerStepsKeepInvariant ==
    ASSUME IInv, NEW r \in Readers, StartsWorker(r) \/ ThreadStarts(r) \/ ThreadEnds(r)
    PROVE  IInv'
<1>1. CASE StartsWorker(r)
  <2>1. /\ at[r] = "granted" /\ at' \in [Readers -> Places] /\ at'[r] = "parsing"
        /\ \A s \in Readers : s # r => at'[s] = at[s] /\ worker'[s] = worker[s]
        /\ worker' \in [Readers -> WorkerStates]
        /\ registered' = IF Kind[r] = "digest" THEN registered \cup {r} ELSE registered
        /\ UNCHANGED <<free, queue>>
        /\ QueueInStep(queue, at) /\ registered' \subseteq Readers
        /\ Kind[r] \in {"pdf", "source", "digest"}
    BY <1>1, GateAssumption DEF StartsWorker, IInv, Shape, Places, WorkerStates
  <2>2. Holders(at', registered') = Holders(at, registered)
    BY <2>1 DEF Holders
  <2>3. QueueInStep(queue', at')
    BY <2>1, OthersKeepQueue
  <2>4. OneSlotEach'
    BY <2>1 DEF IInv, OneSlotEach, Unfinished, Holders
  <2> QED BY <2>1, <2>2, <2>3, <2>4 DEF IInv, Shape
<1>2. CASE ThreadStarts(r) \/ ThreadEnds(r)
  <2>1. /\ worker[r] \in {"submitted", "running"} /\ worker'[r] # "none"
        /\ worker' \in [Readers -> WorkerStates]
        /\ \A s \in Readers : s # r => worker'[s] = worker[s]
        /\ UNCHANGED <<free, queue, at, registered>>
    BY <1>2 DEF ThreadStarts, ThreadEnds, IInv, Shape, WorkerStates
  <2>2. OneSlotEach'
    BY <2>1 DEF IInv, OneSlotEach, Unfinished, Holders
  <2> QED BY <2>1, <2>2 DEF IInv, Shape
<1> QED BY <1>1, <1>2

\* A release leaves the invariant if it left nobody with two slots.
LEMMA ReleaseStepsKeepInvariant ==
    ASSUME IInv, NEW r \in Readers,
           LeavesUnparsed(r) \/ SeesTheEnd(r) \/ LeavesEarly(r) \/ DoneCallback(r)
    PROVE  IInv'
<1> USE DEF Leaves
<1>1. CASE LeavesUnparsed(r)
  <2>1. /\ at[r] = "granted" /\ Release([at EXCEPT ![r] = "outside"])
        /\ UNCHANGED <<worker, registered>>
    BY <1>1 DEF LeavesUnparsed
  <2>2. r \in Holders(at, registered) /\ r \notin registered /\ worker[r] = "none"
    BY <2>1 DEF Holders, IInv, OneSlotEach
  <2>3. r \notin Holders([at EXCEPT ![r] = "outside"], registered)
    BY <2>2 DEF Holders, IInv, Shape
  <2>4. /\ free' \in Nat /\ at' \in [Readers -> Places] /\ QueueInStep(queue', at')
        /\ \A s \in Readers : s # r => at'[s] = at[s] \/ (at[s] = "queued" /\ at'[s] = "granted")
        /\ at'[r] = "outside"
        /\ free' + Cardinality(Holders(at', registered)) = Slots
    BY <2>1, <2>2, <2>3, HolderReleases DEF Places
  <2>5. OneSlotEach'
    BY <2>1, <2>2, <2>4 DEF IInv, OneSlotEach, Unfinished, Holders
  <2> QED BY <2>1, <2>4, <2>5 DEF IInv, Shape
<1>2. CASE SeesTheEnd(r)
  <2>1. at[r] = "parsing" /\ worker[r] = "ended" /\ UNCHANGED <<worker, registered>>
    BY <1>2 DEF SeesTheEnd
  <2>2. CASE Kind[r] = "digest"
    <3>1. /\ at' \in [Readers -> Places] /\ at'[r] = "outside"
          /\ \A s \in Readers : s # r => at'[s] = at[s]
          /\ UNCHANGED <<free, queue>>
      BY <1>2, <2>2 DEF SeesTheEnd, IInv, Shape, Places
    <3>2. QueueInStep(queue', at')
      BY <2>1, <3>1, OthersKeepQueue DEF IInv, Shape
    <3>3. Holders(at', registered') = Holders(at, registered)
      BY <2>1, <2>2, <3>1 DEF Holders
    <3>4. OneSlotEach'
      BY <2>1, <2>2, <3>1 DEF IInv, OneSlotEach, Unfinished, Holders
    <3> QED BY <2>1, <3>1, <3>2, <3>3, <3>4 DEF IInv, Shape
  <2>3. CASE Kind[r] # "digest"
    <3>1. Release([at EXCEPT ![r] = "outside"]) /\ Kind[r] \in {"pdf", "source"}
      BY <1>2, <2>3, GateAssumption DEF SeesTheEnd
    <3>2. r \in Holders(at, registered) /\ r \notin registered
      BY <2>1, <3>1 DEF Holders, IInv, OneSlotEach
    <3>3. r \notin Holders([at EXCEPT ![r] = "outside"], registered)
      BY <3>2 DEF Holders, IInv, Shape
    <3>4. /\ free' \in Nat /\ at' \in [Readers -> Places] /\ QueueInStep(queue', at')
          /\ \A s \in Readers : s # r => at'[s] = at[s] \/ (at[s] = "queued" /\ at'[s] = "granted")
          /\ at'[r] = "outside"
          /\ free' + Cardinality(Holders(at', registered)) = Slots
      BY <2>1, <3>1, <3>2, <3>3, HolderReleases DEF Places
    <3>5. OneSlotEach'
      BY <2>1, <3>2, <3>4 DEF IInv, OneSlotEach, Unfinished, Holders
    <3> QED BY <2>1, <3>4, <3>5 DEF IInv, Shape
  <2> QED BY <2>2, <2>3
<1>3. CASE LeavesEarly(r)
  <2>1. /\ at[r] = "parsing"
        /\ registered' = IF Kind[r] = "source" THEN registered \cup {r} ELSE registered
        /\ worker' \in [Readers -> WorkerStates]
        /\ \A s \in Readers : s # r => worker'[s] = worker[s]
        /\ Kind[r] # "pdf" => worker'[r] = worker[r]
        /\ Kind[r] \in {"pdf", "source", "digest"} /\ registered' \subseteq Readers
    BY <1>3, GateAssumption DEF LeavesEarly, Registers, IInv, Shape, WorkerStates
  <2>2. CASE Kind[r] = "pdf"
    <3>1. Release([at EXCEPT ![r] = "outside"]) /\ registered' = registered
      BY <1>3, <2>1, <2>2 DEF LeavesEarly, ReleasesEarly
    <3>2. r \in Holders(at, registered) /\ r \notin registered
      BY <2>1, <2>2 DEF Holders, IInv, OneSlotEach
    <3>3. r \notin Holders([at EXCEPT ![r] = "outside"], registered)
      BY <3>2 DEF Holders, IInv, Shape
    <3>4. /\ free' \in Nat /\ at' \in [Readers -> Places] /\ QueueInStep(queue', at')
          /\ \A s \in Readers : s # r => at'[s] = at[s] \/ (at[s] = "queued" /\ at'[s] = "granted")
          /\ at'[r] = "outside"
          /\ free' + Cardinality(Holders(at', registered)) = Slots
      BY <2>1, <3>1, <3>2, <3>3, HolderReleases DEF Places
    <3>5. OneSlotEach'
      BY <2>1, <2>2, <3>1, <3>2, <3>4 DEF IInv, OneSlotEach, Unfinished, Holders
    <3> QED BY <2>1, <3>1, <3>4, <3>5 DEF IInv, Shape
  <2>3. CASE Kind[r] # "pdf"
    <3>1. /\ at' \in [Readers -> Places] /\ at'[r] = "outside"
          /\ \A s \in Readers : s # r => at'[s] = at[s]
          /\ UNCHANGED <<free, queue>>
      BY <1>3, <2>3 DEF LeavesEarly, ReleasesEarly, IInv, Shape, Places
    <3>2. QueueInStep(queue', at')
      BY <2>1, <3>1, OthersKeepQueue DEF IInv, Shape
    <3>3. Holders(at', registered') = Holders(at, registered)
      BY <2>1, <2>3, <3>1 DEF Holders
    <3>4. OneSlotEach'
      BY <2>1, <2>3, <3>1 DEF IInv, OneSlotEach, Unfinished, Holders
    <3> QED BY <2>1, <3>1, <3>2, <3>3, <3>4 DEF IInv, Shape
  <2> QED BY <2>2, <2>3
<1>4. CASE DoneCallback(r)
  <2>1. /\ r \in registered /\ worker[r] = "ended" /\ Release(at)
        /\ registered' = registered \ {r} /\ UNCHANGED worker
    BY <1>4 DEF DoneCallback
  <2>2. /\ r \in Holders(at, registered) /\ at[r] \in Places \ {"queued"} /\ at[r] # "granted"
        /\ ~(at[r] = "parsing" /\ Kind[r] \in {"pdf", "source"})
        /\ [at EXCEPT ![r] = at[r]] = at
    BY <2>1 DEF Holders, IInv, OneSlotEach, Shape
  <2>3. r \notin Holders(at, registered')
    BY <2>1, <2>2 DEF Holders
  <2>4. /\ free' \in Nat /\ at' \in [Readers -> Places] /\ QueueInStep(queue', at')
        /\ \A s \in Readers : s # r => at'[s] = at[s] \/ (at[s] = "queued" /\ at'[s] = "granted")
        /\ at'[r] = at[r]
        /\ free' + Cardinality(Holders(at', registered')) = Slots
    <3> DEFINE reg == registered \ {r}
    <3>1. reg \in SUBSET registered /\ registered \ {r} \subseteq reg
      OBVIOUS
    <3>2. r \notin Holders([at EXCEPT ![r] = at[r]], reg) /\ Release([at EXCEPT ![r] = at[r]])
      BY <2>1, <2>2, <2>3
    <3> HIDE DEF reg
    <3>3. /\ free' \in Nat /\ at' \in [Readers -> Places] /\ QueueInStep(queue', at')
          /\ \A s \in Readers : s # r => at'[s] = at[s] \/ (at[s] = "queued" /\ at'[s] = "granted")
          /\ at'[r] = at[r]
          /\ free' + Cardinality(Holders(at', reg)) = Slots
      BY <2>2, <3>1, <3>2, HolderReleases
    <3> QED BY <2>1, <3>3 DEF reg
  <2>5. OneSlotEach'
    BY <2>1, <2>2, <2>4 DEF IInv, OneSlotEach, Unfinished, Holders
  <2> QED BY <2>1, <2>4, <2>5 DEF IInv, Shape
<1> QED BY <1>1, <1>2, <1>3, <1>4

LEMMA InvariantStep == IInv /\ [Next]_vars => IInv'
<1> SUFFICES ASSUME IInv, [Next]_vars PROVE IInv'
  OBVIOUS
<1>1. ASSUME NEW r \in Readers,
             \/ Arrive(r) \/ LeavesQueue(r) \/ LeavesUnparsed(r)
             \/ StartsWorker(r) \/ ThreadStarts(r) \/ ThreadEnds(r)
             \/ SeesTheEnd(r) \/ LeavesEarly(r) \/ DoneCallback(r)
      PROVE  IInv'
  BY <1>1, ArriveKeepsInvariant, LeavesQueueKeepsInvariant, WorkerStepsKeepInvariant,
     ReleaseStepsKeepInvariant
<1>2. CASE UNCHANGED vars
  BY <1>2 DEF vars, IInv, Shape, OneSlotEach, Unfinished, Holders
<1> QED BY <1>1, <1>2 DEF Next

LEMMA InvariantHolds == Spec => []IInv
  BY InvariantInit, InvariantStep, PTL DEF Spec

-----------------------------------------------------------------------------
(* What follows from it *)

\* No slot of the gate is lost or given back twice, for any readers, kinds and
\* number of slots.
THEOREM SlotsAreConserved == Spec => []SlotsConserved
<1>1. IInv => SlotsConserved
  BY DEF IInv, SlotsConserved, HasSlot, Holders
<1> QED BY <1>1, InvariantHolds, PTL

\* However many readers come, time out and are cancelled, no more parser threads than slots
\* run besides those of the PDFs whose reader has left: a thread beyond the slots is always
\* an abandoned PDF.
THEOREM OnlyAbandonedPdfsExceed == Spec => []OnlyAbandonedExceed
<1>1. IInv => OnlyAbandonedExceed
  <2> SUFFICES ASSUME IInv PROVE OnlyAbandonedExceed
    OBVIOUS
  <2> DEFINE kept == {r \in Readers : Unfinished(r) /\ ~Abandoned(r)}
  <2>1. kept \in SUBSET Holders(at, registered)
    BY GateAssumption DEF IInv, OneSlotEach, Holders, Abandoned
  <2>2. Cardinality(kept) <= Cardinality(Holders(at, registered))
    BY <2>1, HoldersAreFinite, FS_Subset
  <2>3. IsFiniteSet(kept) /\ Cardinality(kept) \in Nat
    BY <2>1, HoldersAreFinite, FS_Subset, FS_CardinalityType
  <2>4. /\ free \in Nat /\ Slots \in Nat /\ Cardinality(Holders(at, registered)) \in Nat
        /\ free + Cardinality(Holders(at, registered)) = Slots
    BY HoldersAreFinite, GateAssumption DEF IInv, Shape
  <2> QED BY <2>2, <2>3, <2>4 DEF OnlyAbandonedExceed
<1> QED BY <1>1, InvariantHolds, PTL
-----------------------------------------------------------------------------
(* Who waits, waits in the queue *)

\* Every queued reader has a place in the queue.
LineComplete(q, a) == \A r \in Readers : a[r] = "queued" => \E i \in 1..Len(q) : q[i] = r

\* And nobody waits while a slot is free.
NobodyOverlooked == LineComplete(queue, at) /\ (free > 0 => queue = <<>>)

\* The first waiter leaves the queue when a slot is released, if there is one.
LEMMA ReleaseOverlooksNobody ==
    ASSUME IInv, NobodyOverlooked, NEW moved \in [Readers -> Places],
           \A r \in Readers : moved[r] = "queued" => at[r] = "queued", Release(moved)
    PROVE  NobodyOverlooked'
<1>1. LineComplete(queue, moved)
  BY DEF NobodyOverlooked, LineComplete
<1>2. CASE queue = <<>>
  BY <1>1, <1>2 DEF Release, NobodyOverlooked
<1>3. CASE queue # <<>>
  <2> DEFINE h == Head(queue)
  <2>1. at' = [moved EXCEPT ![h] = "granted"] /\ queue' = Tail(queue) /\ free' = free
    BY <1>3 DEF Release
  <2>2. /\ queue \in Seq(Readers) /\ Len(queue) \in Nat \ {0} /\ h = queue[1]
        /\ \A k \in 1..Len(queue) : queue[k] \in Readers
    BY <1>3 DEF IInv, Shape, QueueInStep
  <2>3. /\ Len(Tail(queue)) = Len(queue) - 1
        /\ \A k \in 1..(Len(queue) - 1) : Tail(queue)[k] = queue[k + 1]
    BY <2>2, HeadTailProperties
  <2>4. h \in Readers
    BY <2>2
  <2> HIDE DEF h
  <2>5. ASSUME NEW r \in Readers, at'[r] = "queued" PROVE \E i \in 1..Len(queue') : queue'[i] = r
    <3>1. r # h /\ moved[r] = "queued"
      BY <2>1, <2>4, <2>5
    <3>2. PICK i \in 1..Len(queue) : queue[i] = r
      BY <1>1, <3>1 DEF LineComplete
    <3>3. i - 1 \in 1..(Len(queue) - 1) /\ Tail(queue)[i - 1] = r
      <4>1. i # 1
        BY <2>2, <3>1, <3>2
      <4>2. i - 1 \in 1..(Len(queue) - 1) /\ (i - 1) + 1 = i
        BY <2>2, <4>1
      <4> QED BY <2>3, <3>2, <4>2
    <3> QED BY <2>1, <2>3, <3>3
  <2>6. ~(free' > 0)
    BY <1>3, <2>1 DEF NobodyOverlooked
  <2> QED BY <2>5, <2>6 DEF NobodyOverlooked, LineComplete
<1> QED BY <1>2, <1>3

\* A reader that is not queued may move anywhere but into the queue.
LEMMA OthersOverlookNobody ==
    ASSUME IInv, NobodyOverlooked, UNCHANGED <<free, queue>>,
           \A r \in Readers : at'[r] = "queued" => at[r] = "queued"
    PROVE  NobodyOverlooked'
  BY DEF NobodyOverlooked, LineComplete

LEMMA NobodyOverlookedStep == IInv /\ NobodyOverlooked /\ [Next]_vars => NobodyOverlooked'
<1> SUFFICES ASSUME IInv, NobodyOverlooked, [Next]_vars PROVE NobodyOverlooked'
  OBVIOUS
<1>0. /\ at \in [Readers -> Places] /\ free \in Nat /\ queue \in Seq(Readers) /\ Len(queue) \in Nat
  BY DEF IInv, Shape, QueueInStep
<1>1. ASSUME NEW r \in Readers, Arrive(r) PROVE NobodyOverlooked'
  <2>1. CASE free > 0 /\ queue = <<>>
    <3>1. UNCHANGED queue /\ \A s \in Readers : at'[s] = "queued" => at[s] = "queued"
      BY <1>0, <1>1, <2>1 DEF Arrive
    <3> QED BY <2>1, <3>1 DEF NobodyOverlooked, LineComplete
  <2>2. CASE ~(free > 0 /\ queue = <<>>)
    <3>1. /\ queue' = Append(queue, r) /\ free' = free
          /\ \A s \in Readers : s # r => at'[s] = at[s]
      BY <1>0, <1>1, <2>2 DEF Arrive
    <3>2. /\ Len(queue') = Len(queue) + 1
          /\ \A k \in 1..(Len(queue) + 1) : queue'[k] = IF k <= Len(queue) THEN queue[k] ELSE r
      BY <1>0, <3>1, AppendProperties
    <3>3. ASSUME NEW s \in Readers, at'[s] = "queued" PROVE \E i \in 1..Len(queue') : queue'[i] = s
      <4>1. CASE s = r
        <5>1. Len(queue) + 1 \in 1..(Len(queue) + 1) /\ ~(Len(queue) + 1 <= Len(queue))
          BY <1>0
        <5>2. queue'[Len(queue) + 1] = s
          BY <3>2, <4>1, <5>1
        <5> QED BY <3>2, <5>1, <5>2
      <4>2. CASE s # r
        <5>1. PICK i \in 1..Len(queue) : queue[i] = s
          BY <3>1, <3>3, <4>2 DEF NobodyOverlooked, LineComplete
        <5>2. i \in 1..(Len(queue) + 1) /\ i <= Len(queue)
          BY <1>0
        <5> QED BY <3>2, <5>1, <5>2
      <4> QED BY <4>1, <4>2
    <3>4. ~(free' > 0)
      BY <2>2, <3>1 DEF NobodyOverlooked
    <3> QED BY <3>3, <3>4 DEF NobodyOverlooked, LineComplete
  <2> QED BY <2>1, <2>2
<1>2. ASSUME NEW r \in Readers, LeavesQueue(r) PROVE NobodyOverlooked'
  <2>1. PICK i \in DOMAIN queue : queue[i] = r /\ queue' = RemoveAt(queue, i)
    BY <1>2 DEF LeavesQueue
  <2>2. i \in 1..Len(queue) /\ free' = free /\ at'[r] = "outside" /\ at[r] = "queued"
        /\ \A s \in Readers : s # r => at'[s] = at[s]
    BY <1>0, <1>2, <2>1 DEF LeavesQueue
  <2>3. /\ Len(queue') = Len(queue) - 1
        /\ \A k \in 1..(Len(queue) - 1) : queue'[k] = IF k < i THEN queue[k] ELSE queue[k + 1]
    BY <1>0, <2>1, <2>2, RemoveAtElements
  <2>4. ASSUME NEW s \in Readers, at'[s] = "queued" PROVE \E k \in 1..Len(queue') : queue'[k] = s
    <3>1. s # r /\ at[s] = "queued"
      BY <2>2, <2>4
    <3>2. PICK j \in 1..Len(queue) : queue[j] = s
      BY <3>1 DEF NobodyOverlooked, LineComplete
    <3>3. j # i
      BY <2>1, <3>1, <3>2
    <3>4. CASE j < i
      <4>1. j \in 1..(Len(queue) - 1)
        BY <1>0, <2>2, <3>4
      <4> QED BY <2>3, <3>2, <3>4, <4>1
    <3>5. CASE ~(j < i)
      <4>1. j - 1 \in 1..(Len(queue) - 1) /\ ~(j - 1 < i) /\ (j - 1) + 1 = j
        BY <1>0, <2>2, <3>3, <3>5
      <4> QED BY <2>3, <3>2, <4>1
    <3> QED BY <3>4, <3>5
  <2>5. ~(free' > 0)
    BY <1>0, <2>2 DEF NobodyOverlooked
  <2> QED BY <2>4, <2>5 DEF NobodyOverlooked, LineComplete
<1>3. ASSUME NEW r \in Readers, StartsWorker(r) \/ ThreadStarts(r) \/ ThreadEnds(r)
      PROVE  NobodyOverlooked'
  <2>1. UNCHANGED <<free, queue>> /\ \A s \in Readers : at'[s] = "queued" => at[s] = "queued"
    BY <1>0, <1>3 DEF StartsWorker, ThreadStarts, ThreadEnds
  <2> QED BY <2>1, OthersOverlookNobody
<1>4. ASSUME NEW r \in Readers, NEW releases \in BOOLEAN, Leaves(r, releases) PROVE NobodyOverlooked'
  <2> DEFINE moved == [at EXCEPT ![r] = "outside"]
  <2>1. moved \in [Readers -> Places] /\ \A s \in Readers : moved[s] = "queued" => at[s] = "queued"
    BY <1>0 DEF Places
  <2>2. CASE releases
    <3>1. Release(moved)
      BY <1>4, <2>2 DEF Leaves
    <3> HIDE DEF moved
    <3> QED BY <2>1, <3>1, ReleaseOverlooksNobody
  <2>3. CASE ~releases
    <3>1. at' = moved /\ UNCHANGED <<free, queue>>
      BY <1>4, <2>3 DEF Leaves
    <3> QED BY <2>1, <3>1, OthersOverlookNobody
  <2> QED BY <2>2, <2>3
<1>5. ASSUME NEW r \in Readers, LeavesUnparsed(r) \/ SeesTheEnd(r) \/ LeavesEarly(r)
      PROVE  NobodyOverlooked'
  BY <1>4, <1>5 DEF LeavesUnparsed, SeesTheEnd, LeavesEarly, ReleasesEarly
<1>6. ASSUME NEW r \in Readers, DoneCallback(r) PROVE NobodyOverlooked'
  BY <1>0, <1>6, ReleaseOverlooksNobody DEF DoneCallback
<1>7. CASE UNCHANGED vars
  BY <1>7, OthersOverlookNobody DEF vars
<1> QED BY <1>1, <1>2, <1>3, <1>5, <1>6, <1>7 DEF Next

\* The types of the gate, that its queue holds exactly the readers that wait, each
\* once, and that no slot stays free while one waits.
THEOREM NoSlotStaysFreeBeforeAWaiter == Spec => []TypeOK
<1>1. Init => NobodyOverlooked
  BY DEF Init, NobodyOverlooked, LineComplete
<1>2. IInv /\ NobodyOverlooked => TypeOK
  <2> SUFFICES ASSUME IInv, NobodyOverlooked PROVE TypeOK
    OBVIOUS
  <2>1. free \in 0..Slots
    <3>1. /\ free \in Nat /\ Slots \in Nat /\ Cardinality(Holders(at, registered)) \in Nat
          /\ free + Cardinality(Holders(at, registered)) = Slots
      BY HoldersAreFinite, GateAssumption DEF IInv, Shape
    <3> QED BY <3>1
  <2>2. queue \in Seq(Readers) /\ DOMAIN queue = 1..Len(queue)
        /\ \A i \in 1..Len(queue) : queue[i] \in Readers /\ at[queue[i]] = "queued"
    BY DEF IInv, Shape, QueueInStep
  <2>3. IsInjective(queue)
    BY <2>2 DEF IsInjective, IInv, Shape, QueueInStep
  <2>4. ToSet(queue) = {r \in Readers : at[r] = "queued"}
    BY <2>2 DEF ToSet, NobodyOverlooked, LineComplete
  <2> QED BY <2>1, <2>2, <2>3, <2>4 DEF TypeOK, IInv, Shape, NobodyOverlooked
<1> QED BY <1>1, <1>2, NobodyOverlookedStep, InvariantHolds, PTL DEF Spec
=============================================================================
