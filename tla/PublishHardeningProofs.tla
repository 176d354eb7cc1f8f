----------------------- MODULE PublishHardeningProofs -----------------------
(***************************************************************************)
(* What the publish path guarantees for any number of questions, workers   *)
(* and attempts and any timeouts, and that it implements the promise of    *)
(* PublishPromise.                                                         *)
(*                                                                         *)
(* An abandoned job goes on after its caller has left, so what may still   *)
(* be delivered is more than what is awaited.  The invariant counts the    *)
(* attempts of a POST that are spent, started and no longer under way in   *)
(* queue or pool: the platform has processed no more than those, for an    *)
(* attempt is queued once and ends once.  That the queue holds each job    *)
(* once is what keeps a worker from taking a job that another has.         *)
(*                                                                         *)
(* The failure counter is read and written in two steps.  At most one      *)
(* thread is between the two, and what it read is still what it is.        *)
(***************************************************************************)
EXTENDS PublishHardening, FiniteSetTheorems, SequenceTheorems, TLAPS

UnderWay == {"queued", "cancelled"} \cup Running

\* How many attempts of a POST were submitted, as far as the caller remembers:
\* of the forecast's, once it is at the comment, any number.
Started(q, k) ==
    IF pc[q] \in {"gate", "skipped"} THEN 0
    ELSE IF k = kind[q] THEN attempt[q]
    ELSE IF k = "forecasts" THEN Attempts ELSE 0

\* The attempts that are over.
Spent(q, k) == {a \in 1..Attempts : a <= Started(q, k) /\ job[<<q, k, a>>] \notin UnderWay}

Shape ==
    /\ pc \in [Publishers -> PcStates]
    /\ kind \in [Publishers -> Kinds]
    /\ attempt \in [Publishers -> 1..Attempts]
    /\ waited \in [Publishers -> 0..Cap]
    /\ queue \in Seq(Jobs)
    /\ job \in [Jobs -> JobStates]
    /\ age \in [Jobs -> Nat]
    /\ delivered \in [Publishers -> [Kinds -> Nat]]
    /\ failures \in Nat
    /\ snapshot \in [Publishers -> Nat]
    /\ tally \in [Kinds -> [attempted : Nat, succeeded : Nat, failed : Nat]]

\* The queue holds each of its jobs once, and none that a worker has.
QueueIsOfWaiting ==
    /\ \A i \in 1..Len(queue) : job[queue[i]] \in {"queued", "cancelled"}
    /\ \A i, j \in 1..Len(queue) : queue[i] = queue[j] => i = j

\* A job that has a state was submitted, and one that answers ok was processed.
OnlyStarted ==
    \A q \in Publishers, k \in Kinds, a \in 1..Attempts :
        /\ job[<<q, k, a>>] # "none" => a <= Started(q, k)
        /\ job[<<q, k, a>>] = "ok" => delivered[q][k] > 0

\* A publisher starts with its forecast.
ForecastFirst == \A q \in Publishers : pc[q] \in {"gate", "skipped"} => kind[q] = "forecasts"

\* The platform processed no more than the attempts that are over.
ProcessedWhenOver ==
    \A q \in Publishers, k \in Kinds : delivered[q][k] <= Cardinality(Spent(q, k))

DeliveryInv == Shape /\ QueueIsOfWaiting /\ OnlyStarted /\ ForecastFirst /\ ProcessedWhenOver

Exhausted == {q \in Publishers : pc[q] \in {"reporting", "raised"}}
Raised == {q \in Publishers : pc[q] = "raised"}

\* Who is between the two halves of += is alone there, and read what is there still.
CountingInv ==
    /\ \A q, r \in Publishers : pc[q] = "adding" /\ pc[r] = "adding" => q = r
    /\ \A q \in Publishers : pc[q] = "adding" => snapshot[q] = failures
    /\ failures = Cardinality(Exhausted)
    /\ tally["forecasts"].failed + tally["comments"].failed = Cardinality(Raised)

-----------------------------------------------------------------------------
(* What the steps have in common *)

\* What becomes of the states of the jobs when a caller reads a result or withdraws
\* a job: an answer is taken away, or a queued job is cancelled.
HandedOver(jobs) ==
    /\ jobs \in [Jobs -> JobStates]
    /\ \A j \in Jobs :
        \/ jobs[j] = job[j]
        \/ jobs[j] = "none" /\ job[j] \in Answers
        \/ jobs[j] = "cancelled" /\ job[j] = "queued"

LEMMA HandedOverJobs ==
    ASSUME NEW jobs, HandedOver(jobs)
    PROVE  \A j \in Jobs : /\ jobs[j] # "none" => job[j] # "none"
                           /\ jobs[j] = "ok" => job[j] = "ok"
                           /\ job[j] \notin UnderWay => jobs[j] \notin UnderWay
  BY DEF HandedOver, Answers, UnderWay, Running

LEMMA JobNames ==
    /\ \A q \in Publishers, k \in Kinds, a \in 1..Attempts : <<q, k, a>> \in Jobs
    /\ \A j \in Jobs : /\ j[1] \in Publishers /\ j[2] \in Kinds /\ j[3] \in 1..Attempts
                       /\ j = <<j[1], j[2], j[3]>>
    /\ \A q, p, k, l, a, b : <<q, k, a>> = <<p, l, b>> <=> q = p /\ k = l /\ a = b
  BY DEF Jobs

LEMMA StartedTypes ==
    ASSUME Shape, NEW q \in Publishers, NEW k \in Kinds
    PROVE  Started(q, k) \in 0..Attempts
  BY PublishAssumption DEF Shape, Started

\* More attempts are over, so more may have been processed.
LEMMA SpentCount ==
    ASSUME NEW S \in SUBSET (1..Attempts), NEW T \in SUBSET (1..Attempts), S \subseteq T
    PROVE  /\ Cardinality(S) \in Nat /\ Cardinality(T) \in Nat
           /\ Cardinality(S) <= Cardinality(T) /\ Cardinality(T) <= Attempts
           /\ \A a \in T : a \notin S => Cardinality(S) + 1 <= Cardinality(T)
<1>1. Attempts \in Nat /\ IsFiniteSet(1..Attempts) /\ Cardinality(1..Attempts) = Attempts
  BY PublishAssumption, FS_Interval
<1>2. /\ IsFiniteSet(S) /\ IsFiniteSet(T) /\ Cardinality(S) <= Cardinality(T)
      /\ Cardinality(T) <= Attempts /\ Cardinality(S) \in Nat /\ Cardinality(T) \in Nat
  BY <1>1, FS_Subset, FS_CardinalityType
<1>3. ASSUME NEW a \in T, a \notin S PROVE Cardinality(S) + 1 <= Cardinality(T)
  <2>1. S \cup {a} \in SUBSET T
    BY <1>3
  <2>2. Cardinality(S \cup {a}) = Cardinality(S) + 1
    BY <1>2, <1>3, FS_AddElement
  <2>3. Cardinality(S \cup {a}) <= Cardinality(T)
    BY <1>2, <2>1, FS_Subset
  <2> QED BY <2>2, <2>3
<1> QED BY <1>2, <1>3

\* Nothing is delivered, and every attempt that was over is over still.
LEMMA OverStaysOver ==
    ASSUME DeliveryInv, delivered' = delivered,
           \A q \in Publishers, k \in Kinds : Spent(q, k) \subseteq Spent(q, k)'
    PROVE  ProcessedWhenOver'
<1> SUFFICES ASSUME NEW q \in Publishers, NEW k \in Kinds
             PROVE  delivered[q][k] <= Cardinality(Spent(q, k)')
  BY DEF ProcessedWhenOver
<1> DEFINE S == Spent(q, k)
           T == Spent(q, k)'
<1>1. S \in SUBSET (1..Attempts) /\ T \in SUBSET (1..Attempts) /\ S \subseteq T
  BY DEF Spent
<1>2. delivered[q][k] <= Cardinality(S) /\ delivered[q][k] \in Nat
  BY DEF DeliveryInv, ProcessedWhenOver, Shape
<1> HIDE DEF S, T
<1>3. Cardinality(S) \in Nat /\ Cardinality(T) \in Nat /\ Cardinality(S) <= Cardinality(T)
  BY <1>1, SpentCount
<1>4. delivered[q][k] <= Cardinality(T)
  BY <1>2, <1>3
<1> QED BY <1>4 DEF T

\* The jobs go on, none of them new, and nothing is delivered.
LEMMA GoingOn ==
    ASSUME DeliveryInv, delivered' = delivered,
           \A p \in Publishers, k \in Kinds : Started(p, k)' = Started(p, k),
           \A j \in Jobs : /\ job'[j] # "none" => job[j] # "none"
                           /\ job'[j] = "ok" => job[j] = "ok"
                           /\ job[j] \notin UnderWay => job'[j] \notin UnderWay
    PROVE  OnlyStarted' /\ ProcessedWhenOver'
<1>1. OnlyStarted'
  <2> SUFFICES ASSUME NEW p \in Publishers, NEW k \in Kinds, NEW a \in 1..Attempts
               PROVE  /\ job'[<<p, k, a>>] # "none" => a <= Started(p, k)
                      /\ job'[<<p, k, a>>] = "ok" => delivered[p][k] > 0
    BY DEF OnlyStarted
  <2> DEFINE j == <<p, k, a>>
  <2>1. j \in Jobs
    BY JobNames
  <2>2. /\ job[j] # "none" => a <= Started(p, k)
        /\ job[j] = "ok" => delivered[p][k] > 0
    BY DEF DeliveryInv, OnlyStarted
  <2> HIDE DEF j
  <2>3. /\ job'[j] # "none" => a <= Started(p, k)
        /\ job'[j] = "ok" => delivered[p][k] > 0
    BY <2>1, <2>2
  <2> QED BY <2>3 DEF j
<1>2. \A p \in Publishers, k \in Kinds : Spent(p, k) \subseteq Spent(p, k)'
  <2> SUFFICES ASSUME NEW p \in Publishers, NEW k \in Kinds, NEW a \in 1..Attempts,
                      a \in Spent(p, k)
               PROVE  a \in Spent(p, k)'
    BY DEF Spent
  <2> DEFINE j == <<p, k, a>>
  <2>1. j \in Jobs
    BY JobNames
  <2>2. job[j] \notin UnderWay /\ a <= Started(p, k)
    BY DEF Spent
  <2> HIDE DEF j
  <2>3. job'[j] \notin UnderWay /\ a <= Started(p, k)'
    BY <2>1, <2>2
  <2> QED BY <2>3 DEF Spent, j
<1>3. ProcessedWhenOver'
  BY <1>2, OverStaysOver
<1> QED BY <1>1, <1>3

\* A caller that leaves the wrapper, with the states of the jobs it leaves.
LEMMA StopKeepsDelivery ==
    ASSUME DeliveryInv, NEW q \in Publishers, NEW where \in PcStates \ {"gate", "skipped"},
           pc[q] = "waiting", Stop(q, where),
           NEW jobs, HandedOver(jobs), job' = jobs,
           UNCHANGED <<age, delivered, failures, snapshot>>,
           tally' \in [Kinds -> [attempted : Nat, succeeded : Nat, failed : Nat]]
    PROVE  DeliveryInv'
<1>1. /\ \A p \in Publishers : pc'[p] = IF p = q THEN where ELSE pc[p]
      /\ UNCHANGED <<kind, attempt, queue>>
  BY DEF Stop, DeliveryInv, Shape
<1>2. Shape'
  <2>1. job' \in [Jobs -> JobStates]
    BY DEF HandedOver
  <2>2. pc' \in [Publishers -> PcStates] /\ waited' \in [Publishers -> 0..Cap]
    BY PublishAssumption DEF Stop, DeliveryInv, Shape
  <2> QED BY <1>1, <2>1, <2>2 DEF DeliveryInv, Shape
<1>3. \A p \in Publishers, k \in Kinds : Started(p, k)' = Started(p, k)
  BY <1>1 DEF Started
<1>4. QueueIsOfWaiting'
  <2>1. \A i \in 1..Len(queue) : queue[i] \in Jobs /\ job[queue[i]] \in {"queued", "cancelled"}
    BY DEF DeliveryInv, Shape, QueueIsOfWaiting
  <2> QED BY <1>1, <2>1 DEF HandedOver, DeliveryInv, QueueIsOfWaiting, Answers
<1>a. \A j \in Jobs : /\ jobs[j] # "none" => job[j] # "none"
                      /\ jobs[j] = "ok" => job[j] = "ok"
                      /\ job[j] \notin UnderWay => jobs[j] \notin UnderWay
  BY HandedOverJobs
<1>5. OnlyStarted' /\ ProcessedWhenOver'
  BY <1>3, <1>a, GoingOn
<1>6. ForecastFirst'
  BY <1>1 DEF DeliveryInv, ForecastFirst
<1> QED BY <1>2, <1>4, <1>5, <1>6 DEF DeliveryInv

\* Nothing but the call's own progress and the clock moves.
LEMMA QuietKeepsDelivery ==
    ASSUME DeliveryInv, Shape', ForecastFirst', UNCHANGED <<queue, job, delivered>>,
           \A p \in Publishers, k \in Kinds : Started(p, k)' = Started(p, k)
    PROVE  DeliveryInv'
<1>1. QueueIsOfWaiting'
  BY DEF DeliveryInv, QueueIsOfWaiting
<1>2. OnlyStarted' /\ ProcessedWhenOver'
  BY GoingOn
<1> QED BY <1>1, <1>2 DEF DeliveryInv

\* A caller that submits an attempt it has not made: its job is new to queue and pool.
LEMMA SubmitKeepsDelivery ==
    ASSUME DeliveryInv, NEW q \in Publishers, NEW k \in Kinds, NEW a \in 1..Attempts,
           NEW jobs, HandedOver(jobs), Submit(q, k, a, jobs), a > Started(q, k),
           \A l \in Kinds \ {k} : Started(q, l) <= IF l = "forecasts" THEN Attempts ELSE 0,
           UNCHANGED <<age, delivered, failures, snapshot>>,
           tally' \in [Kinds -> [attempted : Nat, succeeded : Nat, failed : Nat]]
    PROVE  DeliveryInv'
<1> DEFINE new == <<q, k, a>>
<1>n. new \in Jobs /\ job[new] = "none" /\ jobs[new] = "none"
  <2>1. new \in Jobs
    BY JobNames
  <2>2. Started(q, k) \in Nat /\ job[new] = "none"
    BY StartedTypes DEF DeliveryInv, OnlyStarted
  <2> QED BY <2>1, <2>2 DEF HandedOver, Answers
<1>s. /\ kind' = [kind EXCEPT ![q] = k] /\ attempt' = [attempt EXCEPT ![q] = a]
      /\ waited' = [waited EXCEPT ![q] = 0] /\ pc' = [pc EXCEPT ![q] = "waiting"]
      /\ queue' = Append(queue, new) /\ job' = [jobs EXCEPT ![new] = "queued"]
  BY DEF Submit
<1>w. \A p \in Publishers, l \in Kinds, b \in 1..Attempts :
        <<p, l, b>> = new => p = q /\ l = k /\ b = a
  BY JobNames
<1> HIDE DEF new
<1>1. \A p \in Publishers : /\ pc'[p] = IF p = q THEN "waiting" ELSE pc[p]
                            /\ kind'[p] = IF p = q THEN k ELSE kind[p]
                            /\ attempt'[p] = IF p = q THEN a ELSE attempt[p]
  BY <1>s DEF DeliveryInv, Shape
<1>j. \A j \in Jobs : job'[j] = IF j = new THEN "queued" ELSE jobs[j]
  BY <1>s DEF HandedOver
<1>2. Shape'
  <2>1. queue' \in Seq(Jobs)
    BY <1>n, <1>s, AppendProperties DEF DeliveryInv, Shape
  <2>2. job' \in [Jobs -> JobStates]
    BY <1>s DEF HandedOver, JobStates
  <2>3. /\ pc' \in [Publishers -> PcStates] /\ kind' \in [Publishers -> Kinds]
        /\ attempt' \in [Publishers -> 1..Attempts] /\ waited' \in [Publishers -> 0..Cap]
    <3>1. 0 \in 0..Cap /\ "waiting" \in PcStates
      BY PublishAssumption DEF PcStates
    <3> QED BY <1>s, <3>1 DEF DeliveryInv, Shape
  <2> QED BY <2>1, <2>2, <2>3 DEF DeliveryInv, Shape
<1>3. \A p \in Publishers, l \in Kinds :
          /\ Started(p, l) <= Started(p, l)'
          /\ Started(p, l) \in Nat /\ Started(p, l)' \in Nat
          /\ p = q /\ l = k => Started(p, l)' = a
  <2> SUFFICES ASSUME NEW p \in Publishers, NEW l \in Kinds
               PROVE  /\ Started(p, l) <= Started(p, l)'
                      /\ Started(p, l) \in Nat /\ Started(p, l)' \in Nat
                      /\ p = q /\ l = k => Started(p, l)' = a
    OBVIOUS
  <2>1. Started(p, l) \in Nat
    BY StartedTypes DEF DeliveryInv
  <2>2. CASE p # q
    BY <1>1, <2>1, <2>2 DEF Started
  <2>3. CASE p = q
    <3>1. Started(p, l)' = IF l = k THEN a ELSE IF l = "forecasts" THEN Attempts ELSE 0
      BY <1>1, <2>3 DEF Started
    <3> QED BY <2>1, <2>3, <3>1, PublishAssumption
  <2> QED BY <2>2, <2>3
<1>4. QueueIsOfWaiting'
  <2>1. \A i \in 1..Len(queue) : /\ queue[i] \in Jobs /\ job[queue[i]] \in {"queued", "cancelled"}
                                /\ queue[i] # new
    <3>1. queue \in Seq(Jobs)
      BY DEF DeliveryInv, Shape
    <3>2. \A i \in 1..Len(queue) : queue[i] \in Jobs
      BY <3>1
    <3>3. \A i \in 1..Len(queue) : job[queue[i]] \in {"queued", "cancelled"}
      BY DEF DeliveryInv, QueueIsOfWaiting
    <3> QED BY <1>n, <3>2, <3>3
  <2>2. \A i \in 1..Len(queue) : job'[queue[i]] \in {"queued", "cancelled"}
    BY <1>j, <2>1 DEF HandedOver, Answers
  <2>3. /\ Len(queue') = Len(queue) + 1 /\ Len(queue) \in Nat
        /\ \A i \in 1..Len(queue) : queue'[i] = queue[i]
        /\ queue'[Len(queue) + 1] = new
    <3>1. queue \in Seq(Jobs) /\ queue' = Append(queue, new)
      BY <1>s DEF DeliveryInv, Shape
    <3> QED BY <1>n, <3>1, AppendProperties
  <2>4. \A i \in 1..Len(queue') : i \in 1..Len(queue) \/ i = Len(queue) + 1
    BY <2>3
  <2>5. \A i \in 1..Len(queue') : job'[queue'[i]] \in {"queued", "cancelled"}
    BY <1>n, <1>j, <2>2, <2>3, <2>4
  <2>6. \A i, j \in 1..Len(queue') : queue'[i] = queue'[j] => i = j
    BY <2>1, <2>3, <2>4 DEF DeliveryInv, QueueIsOfWaiting
  <2> QED BY <2>5, <2>6 DEF QueueIsOfWaiting
<1>a. \A j \in Jobs : /\ jobs[j] # "none" => job[j] # "none"
                      /\ jobs[j] = "ok" => job[j] = "ok"
                      /\ job[j] \notin UnderWay => jobs[j] \notin UnderWay
  BY HandedOverJobs
<1>5. OnlyStarted'
  <2> SUFFICES ASSUME NEW p \in Publishers, NEW l \in Kinds, NEW b \in 1..Attempts
               PROVE  /\ job'[<<p, l, b>>] # "none" => b <= Started(p, l)'
                      /\ job'[<<p, l, b>>] = "ok" => delivered[p][l] > 0
    BY DEF OnlyStarted
  <2> DEFINE j == <<p, l, b>>
  <2>1. /\ j \in Jobs
        /\ j = new => p = q /\ l = k /\ b = a
        /\ job[j] # "none" => b <= Started(p, l)
        /\ job[j] = "ok" => delivered[p][l] > 0
    BY <1>w, JobNames DEF DeliveryInv, OnlyStarted
  <2> HIDE DEF j
  <2>s. Started(p, l) <= Started(p, l)' /\ Started(p, l) \in Nat /\ Started(p, l)' \in Nat
    BY <1>3
  <2>2. ASSUME j = new
        PROVE  /\ job'[j] # "none" => b <= Started(p, l)'
               /\ job'[j] = "ok" => delivered[p][l] > 0
    <3>1. job'[j] = "queued" /\ b = a /\ Started(p, l)' = a
      BY <1>3, <1>j, <2>1, <2>2
    <3> QED BY <3>1
  <2>3. ASSUME j # new
        PROVE  /\ job'[j] # "none" => b <= Started(p, l)'
               /\ job'[j] = "ok" => delivered[p][l] > 0
    <3>1. job'[j] = jobs[j]
      BY <1>j, <2>1, <2>3
    <3> QED BY <1>a, <2>1, <2>s, <3>1
  <2>4. /\ job'[j] # "none" => b <= Started(p, l)'
        /\ job'[j] = "ok" => delivered[p][l] > 0
    BY <2>2, <2>3
  <2> QED BY <2>4 DEF j
<1>6. ForecastFirst'
  BY <1>1 DEF DeliveryInv, ForecastFirst
<1>7. \A p \in Publishers, l \in Kinds : Spent(p, l) \subseteq Spent(p, l)'
  <2> SUFFICES ASSUME NEW p \in Publishers, NEW l \in Kinds, NEW b \in 1..Attempts,
                      b \in Spent(p, l)
               PROVE  b \in Spent(p, l)'
    BY DEF Spent
  <2> DEFINE j == <<p, l, b>>
  <2>1. j \in Jobs /\ (j = new => p = q /\ l = k /\ b = a)
    BY <1>w, JobNames
  <2>2. job[j] \notin UnderWay /\ b <= Started(p, l)
    BY DEF Spent
  <2> HIDE DEF j
  <2>3. Started(p, l) <= Started(p, l)' /\ Started(p, l) \in Nat /\ Started(p, l)' \in Nat
    BY <1>3
  <2>4. j # new
    BY <2>1, <2>2, <2>3
  <2>5. job'[j] = jobs[j] /\ jobs[j] \notin UnderWay
    BY <1>a, <1>j, <2>1, <2>2, <2>4
  <2>6. job'[j] \notin UnderWay /\ b <= Started(p, l)'
    BY <2>2, <2>3, <2>5
  <2> QED BY <2>6 DEF Spent, j
<1>8. ProcessedWhenOver'
  BY <1>7, OverStaysOver
<1> QED BY <1>2, <1>4, <1>5, <1>6, <1>8 DEF DeliveryInv

-----------------------------------------------------------------------------
(* The steps of a publisher *)

TallyTypes == [Kinds -> [attempted : Nat, succeeded : Nat, failed : Nat]]

LEMMA CurrentIsAJob ==
    ASSUME Shape, NEW q \in Publishers
    PROVE  Current(q) \in Jobs
  BY DEF Shape, Current, Jobs

\* A result that is read, and a queued job that is withdrawn.
LEMMA ReadingHandsOver ==
    ASSUME Shape, NEW q \in Publishers, job[Current(q)] \in Answers
    PROVE  HandedOver([job EXCEPT ![Current(q)] = "none"])
<1> DEFINE c == Current(q)
<1>1. c \in Jobs /\ job[c] \in Answers /\ job \in [Jobs -> JobStates]
  BY CurrentIsAJob DEF Shape
<1> HIDE DEF c
<1>2. HandedOver([job EXCEPT ![c] = "none"])
  BY <1>1 DEF HandedOver, JobStates
<1> QED BY <1>2 DEF c

LEMMA CancellingHandsOver ==
    ASSUME Shape, NEW q \in Publishers, job[Current(q)] = "queued"
    PROVE  HandedOver([job EXCEPT ![Current(q)] = "cancelled"])
<1> DEFINE c == Current(q)
<1>1. c \in Jobs /\ job[c] = "queued" /\ job \in [Jobs -> JobStates]
  BY CurrentIsAJob DEF Shape
<1> HIDE DEF c
<1>2. HandedOver([job EXCEPT ![c] = "cancelled"])
  BY <1>1 DEF HandedOver, JobStates
<1> QED BY <1>2 DEF c

\* The two ends of a failed attempt: one more, or none.
LEMMA RetryKeepsDelivery ==
    ASSUME DeliveryInv, NEW q \in Publishers, pc[q] = "waiting", NEW retryable,
           NEW jobs, HandedOver(jobs), RetryOrFail(q, retryable, jobs),
           UNCHANGED <<age, delivered, failures, snapshot, tally>>
    PROVE  DeliveryInv'
<1>1. /\ kind[q] \in Kinds /\ attempt[q] \in 1..Attempts /\ tally \in TallyTypes
      /\ \A l \in Kinds : Started(q, l) = IF l = kind[q] THEN attempt[q]
                                          ELSE IF l = "forecasts" THEN Attempts ELSE 0
  BY DEF DeliveryInv, Shape, Started, TallyTypes
<1>t. tally' \in TallyTypes
  BY <1>1
<1>2. CASE AttemptsLeft(q) /\ Submit(q, kind[q], attempt[q] + 1, jobs)
  <2>1. attempt[q] + 1 \in 1..Attempts /\ attempt[q] + 1 > Started(q, kind[q])
    BY <1>1, <1>2, PublishAssumption DEF AttemptsLeft
  <2>2. \A l \in Kinds \ {kind[q]} : Started(q, l) <= IF l = "forecasts" THEN Attempts ELSE 0
    BY <1>1, PublishAssumption
  <2> QED BY <1>1, <1>2, <1>t, <2>1, <2>2, SubmitKeepsDelivery DEF TallyTypes
<1>3. CASE Stop(q, "locking") /\ job' = jobs
  <2>1. "locking" \in PcStates \ {"gate", "skipped"}
    BY DEF PcStates
  <2> QED BY <1>3, <1>t, <2>1, StopKeepsDelivery DEF TallyTypes
<1> QED BY <1>2, <1>3 DEF RetryOrFail

LEMMA GateKeepsDelivery ==
    ASSUME DeliveryInv, NEW q \in Publishers, Gate(q)
    PROVE  DeliveryInv'
<1>1. pc[q] = "gate" /\ kind[q] = "forecasts" /\ \A l \in Kinds : Started(q, l) = 0
  BY DEF Gate, DeliveryInv, ForecastFirst, Started
<1>2. CASE /\ pc' = [pc EXCEPT ![q] = "skipped"]
           /\ UNCHANGED <<kind, attempt, waited, queue, job, tally>>
  <2>1. \A p \in Publishers : pc'[p] = IF p = q THEN "skipped" ELSE pc[p]
    BY <1>2 DEF DeliveryInv, Shape
  <2>2. Shape'
    BY <1>2 DEF Gate, DeliveryInv, Shape, PcStates, Settled
  <2>3. ForecastFirst'
    BY <1>1, <1>2, <2>1 DEF DeliveryInv, ForecastFirst
  <2>4. \A p \in Publishers, l \in Kinds : Started(p, l)' = Started(p, l)
    BY <1>1, <1>2, <2>1 DEF Started
  <2> QED BY <1>2, <2>2, <2>3, <2>4, QuietKeepsDelivery DEF Gate
<1>3. CASE /\ Submit(q, "forecasts", 1, job)
           /\ tally' = [tally EXCEPT !["forecasts"].attempted = @ + 1]
  <2>1. tally' \in TallyTypes
    <3>1. tally \in TallyTypes
      BY DEF DeliveryInv, Shape, TallyTypes
    <3> QED BY <1>3, <3>1 DEF TallyTypes, Kinds
  <2>2. "forecasts" \in Kinds /\ 1 \in 1..Attempts /\ 1 > Started(q, "forecasts")
    BY <1>1, PublishAssumption DEF Kinds
  <2>3. \A l \in Kinds \ {"forecasts"} : Started(q, l) <= IF l = "forecasts" THEN Attempts ELSE 0
    BY <1>1
  <2>4. HandedOver(job)
    BY DEF HandedOver, DeliveryInv, Shape
  <2> QED BY <1>3, <2>1, <2>2, <2>3, <2>4, SubmitKeepsDelivery DEF Gate, TallyTypes
<1> QED BY <1>2, <1>3 DEF Gate

LEMMA ReturnKeepsDelivery ==
    ASSUME DeliveryInv, NEW q \in Publishers, CallReturns(q)
    PROVE  DeliveryInv'
<1> DEFINE read == [job EXCEPT ![Current(q)] = "none"]
<1>1. /\ pc[q] = "waiting" /\ kind[q] \in Kinds /\ attempt[q] \in 1..Attempts
      /\ UNCHANGED <<age, delivered, failures, snapshot>>
      /\ tally \in TallyTypes
  BY DEF CallReturns, DeliveryInv, Shape, TallyTypes
<1>r. ASSUME job[Current(q)] \in Answers PROVE HandedOver(read)
  BY <1>r, ReadingHandsOver DEF DeliveryInv
<1>p. "published" \in PcStates \ {"gate", "skipped"} /\ "crashed" \in PcStates \ {"gate", "skipped"}
  BY DEF PcStates, Settled
<1> HIDE DEF read
<1>2. ASSUME CommentNext(q), Submit(q, "comments", 1, read),
             tally' = [tally EXCEPT !["forecasts"].succeeded = @ + 1, !["comments"].attempted = @ + 1]
      PROVE  DeliveryInv'
  <2>1. tally' \in TallyTypes
    <3> DEFINE mid == [tally EXCEPT !["forecasts"].succeeded = @ + 1]
    <3>1. mid \in TallyTypes
      BY <1>1 DEF TallyTypes, Kinds
    <3>2. tally' = [mid EXCEPT !["comments"].attempted = @ + 1]
      BY <1>2
    <3> HIDE DEF mid
    <3> QED BY <3>1, <3>2 DEF TallyTypes, Kinds
  <2>2. /\ "comments" \in Kinds /\ 1 \in 1..Attempts
        /\ Started(q, "comments") = 0 /\ Started(q, "forecasts") = attempt[q]
    BY <1>1, <1>2, PublishAssumption DEF Kinds, CommentNext, Started
  <2>3. /\ 1 > Started(q, "comments")
        /\ \A l \in Kinds \ {"comments"} : Started(q, l) <= IF l = "forecasts" THEN Attempts ELSE 0
    BY <1>1, <2>2, PublishAssumption DEF Kinds
  <2>4. HandedOver(read)
    BY <1>2, <1>r DEF CommentNext, Answers
  <2> QED BY <1>1, <1>2, <2>1, <2>2, <2>3, <2>4, SubmitKeepsDelivery DEF TallyTypes
<1>3. ASSUME job[Current(q)] = "ok", Stop(q, "published"), job' = read,
             tally' = [tally EXCEPT !["comments"].succeeded = @ + 1]
      PROVE  DeliveryInv'
  <2>1. tally' \in TallyTypes
    BY <1>1, <1>3 DEF TallyTypes, Kinds
  <2>2. HandedOver(read)
    BY <1>3, <1>r DEF Answers
  <2> QED BY <1>1, <1>3, <1>p, <2>1, <2>2, StopKeepsDelivery DEF TallyTypes
<1>4. ASSUME job[Current(q)] \in {"unavailable", "refused"}, UNCHANGED tally,
             RetryOrFail(q, job[Current(q)] \in Retryable, read)
      PROVE  DeliveryInv'
  <2>1. HandedOver(read)
    BY <1>4, <1>r DEF Answers
  <2> QED BY <1>1, <1>4, <2>1, RetryKeepsDelivery
<1>5. ASSUME job[Current(q)] = "crashed", Stop(q, "crashed"), job' = read, UNCHANGED tally
      PROVE  DeliveryInv'
  <2>1. HandedOver(read)
    BY <1>5, <1>r DEF Answers
  <2> QED BY <1>1, <1>5, <1>p, <2>1, StopKeepsDelivery DEF TallyTypes
<1> QED BY <1>2, <1>3, <1>4, <1>5 DEF CallReturns, read

LEMMA TimeoutKeepsDelivery ==
    ASSUME DeliveryInv, NEW q \in Publishers, CallTimesOut(q)
    PROVE  DeliveryInv'
<1>1. pc[q] = "waiting" /\ UNCHANGED <<age, delivered, failures, snapshot, tally>>
  BY DEF CallTimesOut, countVars
<1>2. CASE job[Current(q)] = "queued" /\ RetryOrFail(q, TRUE, [job EXCEPT ![Current(q)] = "cancelled"])
  <2>1. HandedOver([job EXCEPT ![Current(q)] = "cancelled"])
    BY <1>2, CancellingHandsOver DEF DeliveryInv
  <2> QED BY <1>1, <1>2, <2>1, RetryKeepsDelivery
<1>3. CASE RetryOrFail(q, TRUE, job)
  <2>1. HandedOver(job)
    BY DEF HandedOver, DeliveryInv, Shape
  <2> QED BY <1>1, <1>3, <2>1, RetryKeepsDelivery
<1> QED BY <1>2, <1>3 DEF CallTimesOut

\* The steps through the counting code move no job and no delivery.
LEMMA CountingKeepsDelivery ==
    ASSUME DeliveryInv, NEW q \in Publishers,
           ReadCounter(q) \/ WriteCounter(q) \/ ReportFailure(q)
    PROVE  DeliveryInv'
<1>1. /\ UNCHANGED <<kind, attempt, waited, queue, job, age, delivered>>
      /\ \E where \in {"adding", "reporting", "raised"} : pc' = [pc EXCEPT ![q] = where]
      /\ pc[q] \notin {"gate", "skipped"}
  BY DEF ReadCounter, WriteCounter, ReportFailure, poolVars
<1>2. \A p \in Publishers : IF p = q THEN pc'[p] \in {"adding", "reporting", "raised"}
                                     ELSE pc'[p] = pc[p]
  BY <1>1 DEF DeliveryInv, Shape
<1>3. Shape'
  <2>1. pc' \in [Publishers -> PcStates]
    BY <1>1 DEF DeliveryInv, Shape, PcStates, Settled
  <2>2. failures' \in Nat /\ snapshot' \in [Publishers -> Nat]
    <3>1. failures \in Nat /\ snapshot \in [Publishers -> Nat]
      BY DEF DeliveryInv, Shape
    <3>2. CASE ReadCounter(q)
      BY <3>1, <3>2 DEF ReadCounter
    <3>3. CASE WriteCounter(q)
      BY <3>1, <3>3 DEF WriteCounter
    <3>4. CASE ReportFailure(q)
      BY <3>1, <3>4 DEF ReportFailure
    <3> QED BY <3>2, <3>3, <3>4
  <2>3. tally' \in TallyTypes
    <3>1. tally \in TallyTypes /\ kind[q] \in Kinds
      BY DEF DeliveryInv, Shape, TallyTypes
    <3>2. CASE UNCHANGED tally
      BY <3>1, <3>2
    <3>3. CASE tally' = [tally EXCEPT ![kind[q]].failed = @ + 1]
      BY <3>1, <3>3 DEF TallyTypes
    <3> QED BY <3>2, <3>3 DEF ReadCounter, WriteCounter, ReportFailure
  <2> QED BY <1>1, <2>1, <2>2, <2>3 DEF DeliveryInv, Shape, TallyTypes
<1>4. ForecastFirst'
  BY <1>1, <1>2 DEF DeliveryInv, ForecastFirst
<1>5. \A p \in Publishers, l \in Kinds : Started(p, l)' = Started(p, l)
  BY <1>1, <1>2 DEF Started
<1> QED BY <1>1, <1>3, <1>4, <1>5, QuietKeepsDelivery

-----------------------------------------------------------------------------
(* The steps of the pool, and the clock *)

LEMMA TakeJobKeepsDelivery ==
    ASSUME DeliveryInv, TakeJob
    PROVE  DeliveryInv'
<1> DEFINE head == Head(queue)
<1>1. /\ queue \in Seq(Jobs) /\ queue # <<>> /\ queue' = Tail(queue)
      /\ job' = [job EXCEPT ![head] = IF @ = "cancelled" THEN "none" ELSE "pausing"]
      /\ UNCHANGED <<pc, kind, attempt, waited, age, delivered, failures, snapshot, tally>>
  BY DEF TakeJob, CanTake, DeliveryInv, Shape, callVars, countVars
<1>2. /\ Len(queue) \in Nat /\ 1 \in 1..Len(queue) /\ head = queue[1] /\ head \in Jobs
      /\ queue' \in Seq(Jobs) /\ Len(queue') = Len(queue) - 1
      /\ \A i \in 1..Len(queue') : i + 1 \in 1..Len(queue) /\ queue'[i] = queue[i + 1]
  BY <1>1, HeadTailProperties
<1>3. job[head] \in {"queued", "cancelled"} /\ job \in [Jobs -> JobStates]
  BY <1>2 DEF DeliveryInv, QueueIsOfWaiting, Shape
<1> HIDE DEF head
<1>4. /\ \A j \in Jobs : j # head => job'[j] = job[j]
      /\ job'[head] \in {"none", "pausing"} /\ job' \in [Jobs -> JobStates]
  BY <1>1, <1>2, <1>3 DEF JobStates, Running
<1>a. \A j \in Jobs : /\ job'[j] # "none" => job[j] # "none"
                      /\ job'[j] = "ok" => job[j] = "ok"
                      /\ job[j] \notin UnderWay => job'[j] \notin UnderWay
  BY <1>3, <1>4 DEF UnderWay
<1>5. Shape'
  BY <1>1, <1>2, <1>4 DEF DeliveryInv, Shape
<1>6. QueueIsOfWaiting'
  <2>1. \A i \in 1..Len(queue') : /\ queue'[i] = queue[i + 1] /\ i + 1 \in 1..Len(queue)
                                  /\ i + 1 # 1 /\ queue[i + 1] \in Jobs
    BY <1>1, <1>2
  <2>2. \A i, j \in 1..Len(queue) : queue[i] = queue[j] => i = j
    BY DEF DeliveryInv, QueueIsOfWaiting
  <2>3. \A i \in 1..Len(queue) : job[queue[i]] \in {"queued", "cancelled"}
    BY DEF DeliveryInv, QueueIsOfWaiting
  <2>4. \A i \in 1..Len(queue') : queue'[i] # head
    BY <1>2, <2>1, <2>2
  <2>5. \A i \in 1..Len(queue') : job'[queue'[i]] \in {"queued", "cancelled"}
    BY <1>4, <2>1, <2>3, <2>4
  <2>6. \A i, j \in 1..Len(queue') : queue'[i] = queue'[j] => i = j
    BY <1>2, <2>1, <2>2
  <2> QED BY <2>5, <2>6 DEF QueueIsOfWaiting
<1>7. \A p \in Publishers, k \in Kinds : Started(p, k)' = Started(p, k)
  BY <1>1 DEF Started
<1>8. OnlyStarted' /\ ProcessedWhenOver'
  BY <1>1, <1>7, <1>a, GoingOn
<1>9. ForecastFirst'
  BY <1>1 DEF DeliveryInv, ForecastFirst
<1> QED BY <1>5, <1>6, <1>8, <1>9 DEF DeliveryInv

LEMMA PauseKeepsDelivery ==
    ASSUME DeliveryInv, NEW j \in Jobs, PauseEnds(j)
    PROVE  DeliveryInv'
<1>1. /\ job \in [Jobs -> JobStates] /\ job[j] = "pausing" /\ job' = [job EXCEPT ![j] = "posting"]
      /\ age \in [Jobs -> Nat] /\ age' = [age EXCEPT ![j] = 0]
      /\ UNCHANGED <<pc, kind, attempt, waited, queue, delivered, failures, snapshot, tally>>
  BY DEF PauseEnds, DeliveryInv, Shape, callVars, countVars
<1>2. \A i \in Jobs : job'[i] = IF i = j THEN "posting" ELSE job[i]
  BY <1>1
<1>a. \A i \in Jobs : /\ job'[i] # "none" => job[i] # "none"
                      /\ job'[i] = "ok" => job[i] = "ok"
                      /\ job[i] \notin UnderWay => job'[i] \notin UnderWay
  BY <1>1, <1>2 DEF UnderWay, Running
<1>3. Shape'
  <2>1. job' \in [Jobs -> JobStates] /\ age' \in [Jobs -> Nat]
    BY <1>1 DEF JobStates, Running
  <2> QED BY <1>1, <2>1 DEF DeliveryInv, Shape
<1>4. QueueIsOfWaiting'
  <2>1. queue \in Seq(Jobs)
    BY DEF DeliveryInv, Shape
  <2>2. \A i \in 1..Len(queue) : queue[i] \in Jobs
    BY <2>1
  <2>3. \A i \in 1..Len(queue) : job[queue[i]] \in {"queued", "cancelled"}
    BY DEF DeliveryInv, QueueIsOfWaiting
  <2>4. \A i \in 1..Len(queue) : job'[queue[i]] \in {"queued", "cancelled"}
    BY <1>1, <1>2, <2>2, <2>3
  <2> QED BY <1>1, <2>4 DEF DeliveryInv, QueueIsOfWaiting
<1>7. \A p \in Publishers, k \in Kinds : Started(p, k)' = Started(p, k)
  BY <1>1 DEF Started
<1>8. OnlyStarted' /\ ProcessedWhenOver'
  BY <1>1, <1>7, <1>a, GoingOn
<1>9. ForecastFirst'
  BY <1>1 DEF DeliveryInv, ForecastFirst
<1> QED BY <1>3, <1>4, <1>8, <1>9 DEF DeliveryInv

\* The attempt that ends is one more that is over, and the only one delivered.
LEMMA PostKeepsDelivery ==
    ASSUME DeliveryInv, NEW j \in Jobs, PostEnds(j)
    PROVE  DeliveryInv'
<1> DEFINE owner == j[1]
           post == j[2]
           nth == j[3]
<1>o. owner \in Publishers /\ post \in Kinds /\ nth \in 1..Attempts /\ j = <<owner, post, nth>>
  BY JobNames
<1>1. PICK answer \in Answers, processed \in {0, 1} :
          /\ answer = "ok" => processed = 1
          /\ job' = [job EXCEPT ![j] = IF Awaited(j) THEN answer ELSE "none"]
          /\ delivered' = [delivered EXCEPT ![owner][post] = @ + processed]
  BY DEF PostEnds
<1>2. /\ job \in [Jobs -> JobStates] /\ job[j] = "posting"
      /\ delivered \in [Publishers -> [Kinds -> Nat]]
      /\ age \in [Jobs -> Nat] /\ age' = [age EXCEPT ![j] = 0]
      /\ UNCHANGED <<pc, kind, attempt, waited, queue, failures, snapshot, tally>>
  BY DEF PostEnds, DeliveryInv, Shape, callVars, countVars
<1> HIDE DEF owner, post, nth
<1>3. \A i \in Jobs : IF i = j THEN job'[i] = answer \/ job'[i] = "none"
                               ELSE job'[i] = job[i]
  BY <1>1, <1>2
<1>4. \A p \in Publishers, k \in Kinds :
          /\ delivered'[p][k] = IF p = owner /\ k = post THEN delivered[p][k] + processed
                                                         ELSE delivered[p][k]
          /\ delivered[p][k] \in Nat
  BY <1>o, <1>1, <1>2
<1>5. Shape'
  <2>1. job' \in [Jobs -> JobStates] /\ age' \in [Jobs -> Nat]
    BY <1>1, <1>2 DEF JobStates
  <2>2. delivered' \in [Publishers -> [Kinds -> Nat]]
    BY <1>o, <1>1, <1>2
  <2> QED BY <1>2, <2>1, <2>2 DEF DeliveryInv, Shape
<1>6. QueueIsOfWaiting'
  <2>1. queue \in Seq(Jobs)
    BY DEF DeliveryInv, Shape
  <2>2. \A i \in 1..Len(queue) : queue[i] \in Jobs
    BY <2>1
  <2>3. \A i \in 1..Len(queue) : job[queue[i]] \in {"queued", "cancelled"}
    BY DEF DeliveryInv, QueueIsOfWaiting
  <2>4. \A i \in 1..Len(queue) : job'[queue[i]] \in {"queued", "cancelled"}
    BY <1>2, <1>3, <2>2, <2>3
  <2> QED BY <1>2, <2>4 DEF DeliveryInv, QueueIsOfWaiting
<1>7. \A p \in Publishers, k \in Kinds : Started(p, k)' = Started(p, k)
  BY <1>2 DEF Started
<1>8. nth <= Started(owner, post) /\ nth \notin Spent(owner, post)
  <2>1. job[<<owner, post, nth>>] = "posting"
    BY <1>o, <1>2
  <2> QED BY <1>o, <2>1 DEF DeliveryInv, OnlyStarted, Spent, UnderWay, Running
<1>9. OnlyStarted'
  <2> SUFFICES ASSUME NEW p \in Publishers, NEW k \in Kinds, NEW a \in 1..Attempts
               PROVE  /\ job'[<<p, k, a>>] # "none" => a <= Started(p, k)
                      /\ job'[<<p, k, a>>] = "ok" => delivered'[p][k] > 0
    BY <1>7 DEF OnlyStarted
  <2> DEFINE i == <<p, k, a>>
  <2>1. /\ i \in Jobs
        /\ i = j => p = owner /\ k = post /\ a = nth
        /\ job[i] # "none" => a <= Started(p, k)
        /\ job[i] = "ok" => delivered[p][k] > 0
    BY <1>o, JobNames DEF DeliveryInv, OnlyStarted
  <2> HIDE DEF i
  <2>2. CASE i = j
    <3>1. job'[i] = "ok" => delivered'[p][k] = delivered[p][k] + 1 /\ delivered[p][k] \in Nat
      BY <1>1, <1>3, <1>4, <2>1, <2>2
    <3>2. a <= Started(p, k)
      BY <1>8, <2>1, <2>2
    <3>3. /\ job'[i] # "none" => a <= Started(p, k)
          /\ job'[i] = "ok" => delivered'[p][k] > 0
      BY <3>1, <3>2
    <3> QED BY <3>3 DEF i
  <2>3. CASE i # j
    <3>1. job'[i] = job[i] /\ delivered'[p][k] >= delivered[p][k] /\ delivered'[p][k] \in Nat
      BY <1>3, <1>4, <2>1, <2>3
    <3>2. /\ job'[i] # "none" => a <= Started(p, k)
          /\ job'[i] = "ok" => delivered'[p][k] > 0
      BY <1>4, <2>1, <3>1
    <3> QED BY <3>2 DEF i
  <2> QED BY <2>2, <2>3
<1>10. ForecastFirst'
  BY <1>2 DEF DeliveryInv, ForecastFirst
<1>11. \A p \in Publishers, k \in Kinds :
           /\ Spent(p, k) \subseteq Spent(p, k)'
           /\ p = owner /\ k = post => nth \in Spent(p, k)'
  <2> SUFFICES ASSUME NEW p \in Publishers, NEW k \in Kinds, NEW a \in 1..Attempts,
                      a \in Spent(p, k) \/ (p = owner /\ k = post /\ a = nth)
               PROVE  a \in Spent(p, k)'
    BY <1>o DEF Spent
  <2> DEFINE i == <<p, k, a>>
  <2>1. i \in Jobs /\ (p = owner /\ k = post /\ a = nth => i = j)
    BY <1>o, JobNames
  <2>2. a <= Started(p, k) /\ (job[i] \notin UnderWay \/ i = j)
    BY <1>8, <2>1 DEF Spent
  <2> HIDE DEF i
  <2>3. job'[i] \notin UnderWay /\ a <= Started(p, k)'
    BY <1>3, <1>7, <2>1, <2>2 DEF UnderWay, Running, Answers
  <2> QED BY <2>3 DEF Spent, i
<1>12. ProcessedWhenOver'
  <2> SUFFICES ASSUME NEW p \in Publishers, NEW k \in Kinds
               PROVE  delivered'[p][k] <= Cardinality(Spent(p, k)')
    BY DEF ProcessedWhenOver
  <2> DEFINE S == Spent(p, k)
             T == Spent(p, k)'
  <2>1. /\ S \in SUBSET (1..Attempts) /\ T \in SUBSET (1..Attempts) /\ S \subseteq T
        /\ p = owner /\ k = post => nth \in T /\ nth \notin S
    BY <1>8, <1>11 DEF Spent
  <2>2. delivered[p][k] <= Cardinality(S) /\ delivered[p][k] \in Nat
    BY <1>4 DEF DeliveryInv, ProcessedWhenOver
  <2> HIDE DEF S, T
  <2>3. /\ Cardinality(S) \in Nat /\ Cardinality(T) \in Nat /\ Cardinality(S) <= Cardinality(T)
        /\ p = owner /\ k = post => Cardinality(S) + 1 <= Cardinality(T)
    BY <2>1, SpentCount
  <2>4. delivered'[p][k] <= Cardinality(T)
    BY <1>4, <2>2, <2>3
  <2> QED BY <2>4 DEF T
<1> QED BY <1>5, <1>6, <1>9, <1>10, <1>12 DEF DeliveryInv

LEMMA TickKeepsDelivery ==
    ASSUME DeliveryInv, Tick
    PROVE  DeliveryInv'
<1>1. /\ \A p \in Publishers : pc[p] = "waiting" => waited[p] < Cap
      /\ waited' = [p \in Publishers |-> waited[p] + IF pc[p] = "waiting" THEN 1 ELSE 0]
      /\ age' = [j \in Jobs |-> age[j] + IF j \in Busy THEN 1 ELSE 0]
      /\ UNCHANGED <<pc, kind, attempt, queue, job, delivered, failures, snapshot, tally>>
  BY DEF Tick, countVars
<1>2. Shape'
  <2>1. waited' \in [Publishers -> 0..Cap] /\ age' \in [Jobs -> Nat]
    BY <1>1, PublishAssumption DEF DeliveryInv, Shape
  <2> QED BY <1>1, <2>1 DEF DeliveryInv, Shape
<1>3. ForecastFirst' /\ \A p \in Publishers, k \in Kinds : Started(p, k)' = Started(p, k)
  BY <1>1 DEF DeliveryInv, ForecastFirst, Started
<1> QED BY <1>1, <1>2, <1>3, QuietKeepsDelivery

-----------------------------------------------------------------------------
(* What is delivered *)

LEMMA InitDelivers == Init => DeliveryInv
<1> SUFFICES ASSUME Init PROVE DeliveryInv
  OBVIOUS
<1>1. Shape
  BY PublishAssumption DEF Init, Shape, PcStates, Kinds, JobStates
<1>2. QueueIsOfWaiting
  BY DEF Init, QueueIsOfWaiting
<1>3. OnlyStarted
  <2> SUFFICES ASSUME NEW q \in Publishers, NEW k \in Kinds, NEW a \in 1..Attempts
               PROVE  job[<<q, k, a>>] = "none"
    BY DEF OnlyStarted
  <2> DEFINE j == <<q, k, a>>
  <2>1. j \in Jobs
    BY JobNames
  <2> HIDE DEF j
  <2>2. job[j] = "none"
    BY <2>1 DEF Init
  <2> QED BY <2>2 DEF j
<1>4. ForecastFirst
  BY DEF Init, ForecastFirst
<1>5. ProcessedWhenOver
  <2> SUFFICES ASSUME NEW q \in Publishers, NEW k \in Kinds
               PROVE  delivered[q][k] <= Cardinality(Spent(q, k))
    BY DEF ProcessedWhenOver
  <2> DEFINE S == Spent(q, k)
  <2>1. S \in SUBSET (1..Attempts) /\ delivered[q][k] = 0
    BY DEF Spent, Init
  <2> HIDE DEF S
  <2>2. delivered[q][k] <= Cardinality(S)
    BY <2>1, SpentCount
  <2> QED BY <2>2 DEF S
<1> QED BY <1>1, <1>2, <1>3, <1>4, <1>5 DEF DeliveryInv

LEMMA NextKeepsDelivery == DeliveryInv /\ [Next]_vars => DeliveryInv'
<1> SUFFICES ASSUME DeliveryInv, [Next]_vars PROVE DeliveryInv'
  OBVIOUS
<1>1. CASE TakeJob
  BY <1>1, TakeJobKeepsDelivery
<1>2. CASE Tick
  BY <1>2, TickKeepsDelivery
<1>3. ASSUME NEW q \in Publishers, PublisherStep(q) PROVE DeliveryInv'
  <2>1. CASE Gate(q)
    BY <2>1, GateKeepsDelivery
  <2>2. CASE CallReturns(q)
    BY <2>2, ReturnKeepsDelivery
  <2>3. CASE CallTimesOut(q)
    BY <2>3, TimeoutKeepsDelivery
  <2>4. CASE ReadCounter(q) \/ WriteCounter(q) \/ ReportFailure(q)
    BY <2>4, CountingKeepsDelivery
  <2> QED BY <1>3, <2>1, <2>2, <2>3, <2>4 DEF PublisherStep
<1>4. ASSUME NEW j \in Jobs, PauseEnds(j) PROVE DeliveryInv'
  BY <1>4, PauseKeepsDelivery
<1>5. ASSUME NEW j \in Jobs, PostEnds(j) PROVE DeliveryInv'
  BY <1>5, PostKeepsDelivery
<1>6. CASE UNCHANGED vars
  <2>1. Shape' /\ ForecastFirst' /\ UNCHANGED <<queue, job, delivered>>
    BY <1>6 DEF vars, callVars, poolVars, countVars, DeliveryInv, Shape, ForecastFirst
  <2>2. \A p \in Publishers, k \in Kinds : Started(p, k)' = Started(p, k)
    BY <1>6 DEF vars, callVars, Started
  <2> QED BY <2>1, <2>2, QuietKeepsDelivery
<1> QED BY <1>1, <1>2, <1>3, <1>4, <1>5, <1>6 DEF Next

LEMMA DeliveryInvHolds == Spec => []DeliveryInv
  BY InitDelivers, NextKeepsDelivery, PTL DEF Spec

\* The publish path's state stays well typed, and with it the bound that matters:
\* the platform processes no POST more often than it may be attempted, whatever
\* becomes of the attempts that were abandoned.
THEOREM NoPostBeyondItsAttempts == Spec => []TypeOK
<1>1. DeliveryInv => TypeOK
  <2> SUFFICES ASSUME DeliveryInv PROVE TypeOK
    OBVIOUS
  <2>1. \A q \in Publishers, k \in Kinds : delivered[q][k] \in 0..Attempts
    <3> SUFFICES ASSUME NEW q \in Publishers, NEW k \in Kinds
                 PROVE  delivered[q][k] \in 0..Attempts
      OBVIOUS
    <3> DEFINE S == Spent(q, k)
    <3>1. S \in SUBSET (1..Attempts)
      BY DEF Spent
    <3>2. delivered[q][k] <= Cardinality(S) /\ delivered[q][k] \in Nat
      BY DEF DeliveryInv, ProcessedWhenOver, Shape
    <3> HIDE DEF S
    <3> QED BY <3>1, <3>2, SpentCount, PublishAssumption
  <2>2. delivered \in [Publishers -> [Kinds -> 0..Attempts]]
    BY <2>1 DEF DeliveryInv, Shape
  <2> QED BY <2>2 DEF DeliveryInv, Shape, TypeOK
<1> QED BY <1>1, DeliveryInvHolds, PTL

-----------------------------------------------------------------------------
(* What is counted *)

\* A step that leaves the counting code, and who is in it, alone.
LEMMA ElsewhereKeepsCount ==
    ASSUME CountingInv, UNCHANGED <<failures, snapshot>>,
           tally'["forecasts"].failed = tally["forecasts"].failed,
           tally'["comments"].failed = tally["comments"].failed,
           \A p \in Publishers :
               \/ pc'[p] = pc[p]
               \/ {pc[p], pc'[p]} \cap {"adding", "reporting", "raised"} = {}
    PROVE  CountingInv'
<1>1. Exhausted' = Exhausted /\ Raised' = Raised
  BY DEF Exhausted, Raised
<1>2. \A p \in Publishers : pc'[p] = "adding" <=> pc[p] = "adding"
  OBVIOUS
<1> QED BY <1>1, <1>2 DEF CountingInv

\* Where a publisher may go by its own step outside the counting code.
LEMMA StepsElsewhere ==
    ASSUME Shape, NEW q \in Publishers, Gate(q) \/ CallReturns(q) \/ CallTimesOut(q)
    PROVE  /\ pc[q] \in {"gate", "waiting"}
           /\ \A p \in Publishers :
                IF p = q THEN pc'[p] \in {"skipped", "waiting", "locking", "published", "crashed"}
                         ELSE pc'[p] = pc[p]
           /\ UNCHANGED <<failures, snapshot>>
           /\ tally'["forecasts"].failed = tally["forecasts"].failed
           /\ tally'["comments"].failed = tally["comments"].failed
<1>1. \E where \in {"skipped", "waiting", "locking", "published", "crashed"} :
        pc' = [pc EXCEPT ![q] = where]
  BY DEF Gate, CallReturns, CallTimesOut, RetryOrFail, Submit, Stop
<1>2. pc[q] \in {"gate", "waiting"} /\ UNCHANGED <<failures, snapshot>>
  BY DEF Gate, CallReturns, CallTimesOut, countVars
<1>3. tally \in TallyTypes
  BY DEF Shape, TallyTypes
<1>4. \/ UNCHANGED tally
      \/ tally' = [tally EXCEPT !["forecasts"].attempted = @ + 1]
      \/ tally' = [tally EXCEPT !["comments"].succeeded = @ + 1]
      \/ tally' = [tally EXCEPT !["forecasts"].succeeded = @ + 1, !["comments"].attempted = @ + 1]
  BY DEF Gate, CallReturns, CallTimesOut, countVars
<1>5. /\ tally'["forecasts"].failed = tally["forecasts"].failed
      /\ tally'["comments"].failed = tally["comments"].failed
  BY <1>3, <1>4 DEF TallyTypes, Kinds
<1> QED BY <1>1, <1>2, <1>5 DEF Shape

\* One more in the set, one more in its count.
LEMMA OneMore ==
    ASSUME NEW q \in Publishers, NEW S \in SUBSET Publishers, q \notin S
    PROVE  Cardinality(S \cup {q}) = Cardinality(S) + 1 /\ Cardinality(S) \in Nat
<1>1. IsFiniteSet(S)
  BY PublishAssumption, FS_Subset
<1> QED BY <1>1, FS_AddElement, FS_CardinalityType

LEMMA ReadKeepsCount ==
    ASSUME Shape, CountingInv, NEW q \in Publishers, ReadCounter(q)
    PROVE  CountingInv'
<1>1. /\ \A p \in Publishers : pc'[p] = IF p = q THEN "adding" ELSE pc[p]
      /\ \A p \in Publishers : pc[p] # "adding"
      /\ pc[q] = "locking" /\ snapshot'[q] = failures /\ UNCHANGED <<failures, tally>>
  BY DEF ReadCounter, LockFree, Shape
<1>2. Exhausted' = Exhausted /\ Raised' = Raised
  BY <1>1 DEF Exhausted, Raised
<1> QED BY <1>1, <1>2 DEF CountingInv

LEMMA WriteKeepsCount ==
    ASSUME Shape, CountingInv, NEW q \in Publishers, WriteCounter(q)
    PROVE  CountingInv'
<1>1. /\ \A p \in Publishers : pc'[p] = IF p = q THEN "reporting" ELSE pc[p]
      /\ pc[q] = "adding" /\ failures' = snapshot[q] + 1 /\ UNCHANGED tally
  BY DEF WriteCounter, Shape
<1>2. Exhausted' = Exhausted \cup {q} /\ q \notin Exhausted /\ Raised' = Raised
  BY <1>1 DEF Exhausted, Raised
<1>3. Exhausted \in SUBSET Publishers
  BY DEF Exhausted
<1>4. failures = Cardinality(Exhausted) /\ snapshot[q] = failures
  BY <1>1 DEF CountingInv
<1>5. failures' = Cardinality(Exhausted')
  <2> DEFINE S == Exhausted
             T == Exhausted'
  <2>1. T = S \cup {q} /\ q \notin S /\ S \in SUBSET Publishers /\ failures = Cardinality(S)
    BY <1>2, <1>3, <1>4
  <2> HIDE DEF S, T
  <2>2. failures' = Cardinality(T)
    BY <1>1, <1>4, <2>1, OneMore
  <2> QED BY <2>2 DEF T
<1>6. \A p \in Publishers : pc'[p] # "adding"
  BY <1>1 DEF CountingInv
<1> QED BY <1>1, <1>2, <1>5, <1>6 DEF CountingInv

LEMMA ReportKeepsCount ==
    ASSUME Shape, CountingInv, NEW q \in Publishers, ReportFailure(q)
    PROVE  CountingInv'
<1>1. /\ \A p \in Publishers : pc'[p] = IF p = q THEN "raised" ELSE pc[p]
      /\ pc[q] = "reporting" /\ UNCHANGED <<failures, snapshot>>
      /\ tally' = [tally EXCEPT ![kind[q]].failed = @ + 1]
      /\ kind[q] \in Kinds /\ tally \in TallyTypes
  BY DEF ReportFailure, Shape, TallyTypes
<1>2. Raised' = Raised \cup {q} /\ q \notin Raised /\ Exhausted' = Exhausted
  BY <1>1 DEF Exhausted, Raised
<1>3. Raised \in SUBSET Publishers
  BY DEF Raised
<1>4. /\ tally["forecasts"].failed \in Nat /\ tally["comments"].failed \in Nat
      /\ tally'["forecasts"].failed + tally'["comments"].failed
           = tally["forecasts"].failed + tally["comments"].failed + 1
  <2>1. tally["forecasts"].failed \in Nat /\ tally["comments"].failed \in Nat
    BY <1>1 DEF TallyTypes, Kinds
  <2>2. \A k \in Kinds : tally'[k].failed = IF k = kind[q] THEN tally[k].failed + 1 ELSE tally[k].failed
    BY <1>1 DEF TallyTypes
  <2>3. kind[q] = "forecasts" \/ kind[q] = "comments"
    BY <1>1 DEF Kinds
  <2> QED BY <2>1, <2>2, <2>3 DEF Kinds
<1>5. tally["forecasts"].failed + tally["comments"].failed = Cardinality(Raised)
  BY DEF CountingInv
<1>6. tally'["forecasts"].failed + tally'["comments"].failed = Cardinality(Raised')
  <2> DEFINE S == Raised
             T == Raised'
  <2>1. T = S \cup {q} /\ q \notin S /\ S \in SUBSET Publishers
    BY <1>2, <1>3
  <2>2. tally["forecasts"].failed + tally["comments"].failed = Cardinality(S)
    BY <1>5
  <2> HIDE DEF S, T
  <2>3. Cardinality(T) = Cardinality(S) + 1
    BY <2>1, OneMore
  <2>4. tally'["forecasts"].failed + tally'["comments"].failed = Cardinality(T)
    BY <1>4, <2>2, <2>3
  <2> QED BY <2>4 DEF T
<1> QED BY <1>1, <1>2, <1>6 DEF CountingInv

LEMMA InitCounts == Init => CountingInv
<1> SUFFICES ASSUME Init PROVE CountingInv
  OBVIOUS
<1>1. Exhausted = {} /\ Raised = {}
  BY DEF Init, Exhausted, Raised
<1>2. Cardinality(Exhausted) = 0 /\ Cardinality(Raised) = 0
  BY <1>1, FS_EmptySet
<1>3. tally["forecasts"].failed = 0 /\ tally["comments"].failed = 0
  BY DEF Init, Kinds
<1> QED BY <1>2, <1>3 DEF Init, CountingInv

LEMMA NextKeepsCount == Shape /\ CountingInv /\ [Next]_vars => CountingInv'
<1> SUFFICES ASSUME Shape, CountingInv, [Next]_vars PROVE CountingInv'
  OBVIOUS
<1>1. ASSUME NEW q \in Publishers, PublisherStep(q) PROVE CountingInv'
  <2>1. CASE Gate(q) \/ CallReturns(q) \/ CallTimesOut(q)
    <3>1. \A p \in Publishers :
            \/ pc'[p] = pc[p]
            \/ {pc[p], pc'[p]} \cap {"adding", "reporting", "raised"} = {}
      BY <2>1, StepsElsewhere
    <3>2. /\ UNCHANGED <<failures, snapshot>>
          /\ tally'["forecasts"].failed = tally["forecasts"].failed
          /\ tally'["comments"].failed = tally["comments"].failed
      BY <2>1, StepsElsewhere
    <3> QED BY <3>1, <3>2, ElsewhereKeepsCount
  <2>2. CASE ReadCounter(q)
    BY <2>2, ReadKeepsCount
  <2>3. CASE WriteCounter(q)
    BY <2>3, WriteKeepsCount
  <2>4. CASE ReportFailure(q)
    BY <2>4, ReportKeepsCount
  <2> QED BY <1>1, <2>1, <2>2, <2>3, <2>4 DEF PublisherStep
<1>2. ASSUME \/ TakeJob \/ Tick \/ UNCHANGED vars
             \/ \E j \in Jobs : PauseEnds(j) \/ PostEnds(j)
      PROVE  CountingInv'
  <2>1. UNCHANGED <<pc, failures, snapshot, tally>>
    BY <1>2 DEF TakeJob, Tick, PauseEnds, PostEnds, vars, callVars, countVars
  <2> QED BY <2>1, ElsewhereKeepsCount
<1> QED BY <1>1, <1>2 DEF Next

\* Whenever no thread is between the two halves of the increment, the counter that
\* turns the run red holds one failure per call that burnt its attempts, and the
\* run status counts those that were raised: no increment is ever lost.
THEOREM NoFailureUncounted == Spec => []ExhaustedCallsCounted
<1>1. CountingInv => ExhaustedCallsCounted
  BY DEF CountingInv, ExhaustedCallsCounted, Exhausted, Raised
<1>2. DeliveryInv => Shape
  BY DEF DeliveryInv
<1> QED BY <1>1, <1>2, InitCounts, NextKeepsCount, DeliveryInvHolds, PTL DEF Spec

-----------------------------------------------------------------------------
(* What is repeated *)

\* The attempt before a repeat has no verdict.
LEMMA StepRepeats ==
    ASSUME Shape, [Next]_vars, NEW q \in Publishers, attempt'[q] > attempt[q]
    PROVE  job[Current(q)] \notin {"ok", "refused", "crashed"}
<1>a. \A p \in Publishers : attempt[p] \in 1..Attempts
  BY DEF Shape
<1>1. PICK p \in Publishers : Gate(p) \/ CallReturns(p) \/ CallTimesOut(p)
  <2>1. attempt' # attempt
    BY <1>a
  <2>2. ASSUME NEW p \in Publishers, PublisherStep(p)
        PROVE  Gate(p) \/ CallReturns(p) \/ CallTimesOut(p)
    BY <2>1, <2>2 DEF PublisherStep, ReadCounter, WriteCounter, ReportFailure
  <2> QED BY <2>1, <2>2 DEF Next, TakeJob, Tick, PauseEnds, PostEnds, vars, callVars
<1>2. \/ UNCHANGED attempt
      \/ attempt' = [attempt EXCEPT ![p] = 1]
      \/ /\ attempt' = [attempt EXCEPT ![p] = attempt[p] + 1]
         /\ job[Current(p)] \in {"unavailable", "queued"} \cup Running
  BY <1>1 DEF Gate, CallReturns, CallTimesOut, RetryOrFail, Submit, Stop, Retryable
<1>b. attempt = [x \in Publishers |-> attempt[x]]
  BY DEF Shape
<1>3. p = q /\ job[Current(p)] \in {"unavailable", "queued"} \cup Running
  <2>1. attempt'[q] # attempt[q]
    BY <1>a
  <2>2. CASE UNCHANGED attempt
    BY <2>1, <2>2
  <2>3. CASE attempt' = [attempt EXCEPT ![p] = 1]
    <3>1. attempt'[q] \in {1, attempt[q]}
      BY <2>3, <1>b
    <3>2. attempt[q] \in Int /\ attempt[q] >= 1
      BY <1>a
    <3> QED BY <3>1, <3>2
  <2>4. CASE /\ attempt' = [attempt EXCEPT ![p] = attempt[p] + 1]
             /\ job[Current(p)] \in {"unavailable", "queued"} \cup Running
    <3>1. p # q => attempt'[q] = attempt[q]
      BY <2>4, <1>b
    <3> QED BY <3>1, <2>1, <2>4
  <2> QED BY <1>2, <2>2, <2>3, <2>4
<1> QED BY <1>3 DEF Running

\* A POST is never repeated after an answer that settles it: the comment is not
\* idempotent, and a refusal would only be refused again.
THEOREM NeverRepeatsAVerdict == Spec => RepeatedOnlyWithoutVerdict
<1>1. Shape /\ [Next]_vars =>
        [\A q \in Publishers :
           attempt'[q] > attempt[q] => job[Current(q)] \notin {"ok", "refused", "crashed"}]_vars
  BY StepRepeats
<1>2. DeliveryInv => Shape
  BY DEF DeliveryInv
<1> QED BY <1>1, <1>2, DeliveryInvHolds, PTL DEF Spec, RepeatedOnlyWithoutVerdict

-----------------------------------------------------------------------------
(* What is promised *)

\* The verdict of a POST, case by case.
Outcome(q, k) ==
    IF pc[q] \in {"gate", "skipped"} THEN "none"
    ELSE IF k = kind[q] THEN CASE pc[q] = "waiting" -> "pending"
                               [] pc[q] = "published" -> "landed"
                               [] OTHER -> "gave_up"
    ELSE IF k = "forecasts" THEN "landed" ELSE "none"

Verdict == [q \in Publishers |-> [k \in Kinds |-> VerdictOf(q, k)]]
PromiseVerdicts == [Publishers -> [Kinds -> Promise!Verdicts]]

Tabulated == \A q \in Publishers, k \in Kinds : VerdictOf(q, k) = Outcome(q, k)

LEMMA VerdictsAreTabulated == Shape /\ ForecastFirst => Tabulated
<1> SUFFICES ASSUME Shape, ForecastFirst, NEW q \in Publishers, NEW k \in Kinds
             PROVE  VerdictOf(q, k) = Outcome(q, k)
  BY DEF Tabulated
<1>1. kind[q] \in Kinds
  BY DEF Shape
<1>2. CASE pc[q] \in {"gate", "skipped"}
  BY <1>1, <1>2 DEF VerdictOf, Outcome, ForecastFirst, Kinds
<1>3. CASE pc[q] \notin {"gate", "skipped"}
  BY <1>1, <1>3 DEF VerdictOf, Outcome, Kinds
<1> QED BY <1>2, <1>3

LEMMA VerdictTypes ==
    ASSUME Tabulated
    PROVE  /\ Verdict \in PromiseVerdicts
           /\ \A q \in Publishers, k \in Kinds : Verdict[q][k] = Outcome(q, k)
<1>1. \A q \in Publishers, k \in Kinds : Outcome(q, k) \in Promise!Verdicts
  BY DEF Outcome, Promise!Verdicts
<1> QED BY <1>1 DEF Tabulated, Verdict, PromiseVerdicts

\* Both states of a step of the publish path, as the promise sees them.
Seen ==
    /\ Verdict \in PromiseVerdicts /\ Verdict' \in PromiseVerdicts
    /\ \A q \in Publishers, k \in Kinds : /\ Verdict[q][k] = Outcome(q, k)
                                          /\ Verdict'[q][k] = Outcome(q, k)'

LEMMA StepsAreSeen == DeliveryInv /\ DeliveryInv' => Seen
<1>1. DeliveryInv => Verdict \in PromiseVerdicts
                     /\ \A q \in Publishers, k \in Kinds : Verdict[q][k] = Outcome(q, k)
  BY VerdictsAreTabulated, VerdictTypes DEF DeliveryInv
<1>2. DeliveryInv' => Tabulated'
  BY VerdictsAreTabulated, PTL DEF DeliveryInv
<1>3. Tabulated' => Verdict' \in PromiseVerdicts
                    /\ \A q \in Publishers, k \in Kinds : Verdict'[q][k] = Outcome(q, k)'
  <2> SUFFICES ASSUME Tabulated'
               PROVE  Verdict' \in PromiseVerdicts
                      /\ \A q \in Publishers, k \in Kinds : Verdict'[q][k] = Outcome(q, k)'
    OBVIOUS
  <2>1. \A q \in Publishers, k \in Kinds : Outcome(q, k)' \in Promise!Verdicts
    BY DEF Outcome, Promise!Verdicts
  <2> QED BY <2>1 DEF Tabulated, Verdict, PromiseVerdicts
<1> QED BY <1>1, <1>2, <1>3 DEF Seen

\* How one verdict is changed.
LEMMA OneVerdictChanges ==
    ASSUME NEW F \in PromiseVerdicts, NEW G \in PromiseVerdicts,
           NEW q \in Publishers, NEW k \in Kinds, NEW v,
           \A p \in Publishers, l \in Kinds : G[p][l] = IF p = q /\ l = k THEN v ELSE F[p][l]
    PROVE  G = [F EXCEPT ![q][k] = v]
  BY DEF PromiseVerdicts

LEMMA NoVerdictChanges ==
    ASSUME NEW F \in PromiseVerdicts, NEW G \in PromiseVerdicts,
           \A p \in Publishers, l \in Kinds : G[p][l] = F[p][l]
    PROVE  G = F
  BY DEF PromiseVerdicts

\* The steps of the promise, over the verdicts as one function.
LEMMA PromiseSteps ==
    /\ Verdict' = Verdict /\ UNCHANGED delivered => UNCHANGED Promise!pvars
    /\ \A q \in Publishers :
          \/ /\ Verdict[q]["forecasts"] = "none" /\ UNCHANGED delivered
             /\ Verdict' = [Verdict EXCEPT ![q]["forecasts"] = "pending"]
          \/ /\ Verdict[q]["forecasts"] = "pending" /\ delivered[q]["forecasts"] > 0
             /\ Verdict' = [Verdict EXCEPT ![q] = [forecasts |-> "landed", comments |-> "pending"]]
             /\ UNCHANGED delivered
          \/ /\ Verdict[q]["comments"] = "pending" /\ delivered[q]["comments"] > 0
             /\ Verdict' = [Verdict EXCEPT ![q]["comments"] = "landed"]
             /\ UNCHANGED delivered
          => Promise!PromiseNext
    /\ \A q \in Publishers, k \in Kinds :
          \/ /\ Verdict[q][k] = "pending" /\ UNCHANGED delivered
             /\ Verdict' = [Verdict EXCEPT ![q][k] = "gave_up"]
          \/ /\ Verdict[q][k] # "none" /\ delivered[q][k] < Attempts
             /\ delivered' = [delivered EXCEPT ![q][k] = @ + 1]
             /\ Verdict' = Verdict
          => Promise!PromiseNext
<1>1. Verdict' = Verdict /\ UNCHANGED delivered => UNCHANGED Promise!pvars
  BY DEF Verdict, Promise!pvars
<1>2. ASSUME NEW q \in Publishers,
             Verdict[q]["forecasts"] = "none", UNCHANGED delivered,
             Verdict' = [Verdict EXCEPT ![q]["forecasts"] = "pending"]
      PROVE  Promise!PromiseNext
  <2>1. Promise!Start(q)
    BY <1>2 DEF Verdict, Promise!Start
  <2> QED BY <2>1 DEF Promise!PromiseNext
<1>3. ASSUME NEW q \in Publishers,
             Verdict[q]["forecasts"] = "pending", delivered[q]["forecasts"] > 0,
             Verdict' = [Verdict EXCEPT ![q] = [forecasts |-> "landed", comments |-> "pending"]],
             UNCHANGED delivered
      PROVE  Promise!PromiseNext
  <2>1. Promise!ForecastLands(q)
    BY <1>3 DEF Verdict, Promise!ForecastLands
  <2> QED BY <2>1 DEF Promise!PromiseNext
<1>4. ASSUME NEW q \in Publishers,
             Verdict[q]["comments"] = "pending", delivered[q]["comments"] > 0,
             Verdict' = [Verdict EXCEPT ![q]["comments"] = "landed"], UNCHANGED delivered
      PROVE  Promise!PromiseNext
  <2>1. Promise!CommentLands(q)
    BY <1>4 DEF Verdict, Promise!CommentLands
  <2> QED BY <2>1 DEF Promise!PromiseNext
<1>5. ASSUME NEW q \in Publishers, NEW k \in Kinds,
             Verdict[q][k] = "pending", UNCHANGED delivered,
             Verdict' = [Verdict EXCEPT ![q][k] = "gave_up"]
      PROVE  Promise!PromiseNext
  <2>1. Promise!GiveUp(q, k)
    BY <1>5 DEF Verdict, Promise!GiveUp
  <2> QED BY <2>1 DEF Promise!PromiseNext, Promise!Kinds, Kinds
<1>6. ASSUME NEW q \in Publishers, NEW k \in Kinds,
             Verdict[q][k] # "none", delivered[q][k] < Attempts, Verdict' = Verdict,
             delivered' = [delivered EXCEPT ![q][k] = @ + 1]
      PROVE  Promise!PromiseNext
  <2>1. Promise!Deliver(q, k)
    BY <1>6 DEF Verdict, Promise!Deliver
  <2> QED BY <2>1 DEF Promise!PromiseNext, Promise!Kinds, Kinds
<1> QED BY <1>1, <1>2, <1>3, <1>4, <1>5, <1>6

\* A step that leaves the call's kind alone, and moves it between places of one verdict.
LEMMA NothingSeen ==
    ASSUME Seen, \A p \in Publishers, l \in Kinds : Outcome(p, l)' = Outcome(p, l),
           UNCHANGED delivered
    PROVE  UNCHANGED Promise!pvars
<1>1. Verdict' = Verdict
  <2> DEFINE F == Verdict
             G == Verdict'
  <2>1. F \in PromiseVerdicts /\ G \in PromiseVerdicts
        /\ \A p \in Publishers, l \in Kinds : G[p][l] = F[p][l]
    BY DEF Seen
  <2> HIDE DEF F, G
  <2>2. G = F
    BY <2>1, NoVerdictChanges
  <2> QED BY <2>2 DEF F, G
<1> QED BY <1>1, PromiseSteps

LEMMA OneSeen ==
    ASSUME Seen, NEW q \in Publishers, NEW k \in Kinds, NEW v,
           \A p \in Publishers, l \in Kinds :
              Outcome(p, l)' = IF p = q /\ l = k THEN v ELSE Outcome(p, l)
    PROVE  Verdict' = [Verdict EXCEPT ![q][k] = v] /\ Verdict[q][k] = Outcome(q, k)
<1> DEFINE F == Verdict
           G == Verdict'
<1>1. F \in PromiseVerdicts /\ G \in PromiseVerdicts
      /\ \A p \in Publishers, l \in Kinds : G[p][l] = IF p = q /\ l = k THEN v ELSE F[p][l]
  BY DEF Seen
<1> HIDE DEF F, G
<1>2. G = [F EXCEPT ![q][k] = v]
  BY <1>1, OneVerdictChanges
<1> QED BY <1>2 DEF F, G, Seen

LEMMA BothSeen ==
    ASSUME Seen, NEW q \in Publishers, NEW v, NEW w,
           \A p \in Publishers, l \in Kinds :
              Outcome(p, l)' = IF p = q THEN IF l = "forecasts" THEN v ELSE w ELSE Outcome(p, l)
    PROVE  Verdict' = [Verdict EXCEPT ![q] = [forecasts |-> v, comments |-> w]]
<1> DEFINE F == Verdict
           G == Verdict'
<1>1. F \in PromiseVerdicts /\ G \in PromiseVerdicts
      /\ \A p \in Publishers, l \in Kinds :
            G[p][l] = IF p = q THEN IF l = "forecasts" THEN v ELSE w ELSE F[p][l]
  BY DEF Seen
<1> HIDE DEF F, G
<1>2. G = [F EXCEPT ![q] = [forecasts |-> v, comments |-> w]]
  <2>1. G[q] = [forecasts |-> v, comments |-> w]
    BY <1>1 DEF PromiseVerdicts, Kinds
  <2> QED BY <1>1, <2>1 DEF PromiseVerdicts
<1> QED BY <1>2 DEF F, G

\* A failed attempt is repeated, which the promise does not see, or given up.
LEMMA RetryIsSeen ==
    ASSUME DeliveryInv, Seen, NEW q \in Publishers, pc[q] = "waiting", NEW retryable, NEW jobs,
           RetryOrFail(q, retryable, jobs), UNCHANGED delivered
    PROVE  [Promise!PromiseNext]_(Promise!pvars)
<1>t. Shape /\ kind[q] \in Kinds
  BY DEF DeliveryInv, Shape
<1>1. CASE Submit(q, kind[q], attempt[q] + 1, jobs)
  <2>1. pc' = pc /\ kind' = kind
    BY <1>1, <1>t DEF Submit, Shape
  <2>2. \A p \in Publishers, l \in Kinds : Outcome(p, l)' = Outcome(p, l)
    BY <2>1 DEF Outcome
  <2> QED BY <2>2, NothingSeen
<1>2. CASE Stop(q, "locking")
  <2>1. \A p \in Publishers : pc'[p] = (IF p = q THEN "locking" ELSE pc[p]) /\ kind'[p] = kind[p]
    BY <1>2, <1>t DEF Stop, Shape
  <2>2. \A p \in Publishers, l \in Kinds :
          Outcome(p, l)' = IF p = q /\ l = kind[q] THEN "gave_up" ELSE Outcome(p, l)
    BY <2>1 DEF Outcome
  <2>3. Verdict' = [Verdict EXCEPT ![q][kind[q]] = "gave_up"] /\ Outcome(q, kind[q]) = "pending"
        /\ Verdict[q][kind[q]] = Outcome(q, kind[q])
    <3> DEFINE k == kind[q]
    <3>1. k \in Kinds /\ Outcome(q, k) = "pending"
      BY <1>t DEF Outcome
    <3>2. \A p \in Publishers, l \in Kinds :
            Outcome(p, l)' = IF p = q /\ l = k THEN "gave_up" ELSE Outcome(p, l)
      BY <2>2
    <3> HIDE DEF k
    <3>3. Verdict' = [Verdict EXCEPT ![q][k] = "gave_up"] /\ Verdict[q][k] = Outcome(q, k)
      BY <3>1, <3>2, OneSeen
    <3> QED BY <3>1, <3>3 DEF k
  <2> QED BY <1>t, <2>3, PromiseSteps
<1> QED BY <1>1, <1>2 DEF RetryOrFail

LEMMA GateIsSeen ==
    ASSUME DeliveryInv, Seen, NEW q \in Publishers, Gate(q)
    PROVE  [Promise!PromiseNext]_(Promise!pvars)
<1>t. /\ Shape /\ pc[q] = "gate" /\ kind[q] = "forecasts" /\ UNCHANGED delivered
      /\ "forecasts" \in Kinds
  BY DEF DeliveryInv, ForecastFirst, Gate, Kinds
<1>1. CASE pc' = [pc EXCEPT ![q] = "skipped"] /\ UNCHANGED kind
  <2>1. \A p \in Publishers : pc'[p] = (IF p = q THEN "skipped" ELSE pc[p]) /\ kind'[p] = kind[p]
    BY <1>1, <1>t DEF Shape
  <2>2. \A p \in Publishers, l \in Kinds : Outcome(p, l)' = Outcome(p, l)
    BY <1>t, <2>1 DEF Outcome
  <2> QED BY <1>t, <2>2, NothingSeen
<1>2. CASE Submit(q, "forecasts", 1, job)
  <2>1. \A p \in Publishers : pc'[p] = (IF p = q THEN "waiting" ELSE pc[p]) /\ kind'[p] = kind[p]
    BY <1>2, <1>t DEF Submit, Shape
  <2>2. \A p \in Publishers, l \in Kinds :
          Outcome(p, l)' = IF p = q /\ l = "forecasts" THEN "pending" ELSE Outcome(p, l)
    BY <1>t, <2>1 DEF Outcome
  <2>3. Verdict' = [Verdict EXCEPT ![q]["forecasts"] = "pending"]
        /\ Verdict[q]["forecasts"] = Outcome(q, "forecasts")
    BY <1>t, <2>2, OneSeen
  <2>4. Outcome(q, "forecasts") = "none"
    BY <1>t DEF Outcome
  <2> QED BY <1>t, <2>3, <2>4, PromiseSteps
<1> QED BY <1>1, <1>2 DEF Gate

\* An answer is read: a POST that answers ok was processed.
LEMMA ReturnIsSeen ==
    ASSUME DeliveryInv, Seen, NEW q \in Publishers, CallReturns(q)
    PROVE  [Promise!PromiseNext]_(Promise!pvars)
<1> DEFINE read == [job EXCEPT ![Current(q)] = "none"]
<1>t. /\ Shape /\ pc[q] = "waiting" /\ kind[q] \in Kinds /\ UNCHANGED delivered
      /\ Outcome(q, kind[q]) = "pending"
  BY DEF DeliveryInv, Shape, CallReturns, Outcome
<1>d. job[Current(q)] = "ok" => delivered[q][kind[q]] > 0
  BY DEF DeliveryInv, Shape, OnlyStarted, Current
<1> HIDE DEF read
<1>1. ASSUME CommentNext(q), Submit(q, "comments", 1, read)
      PROVE  Promise!PromiseNext
  <2>1. \A p \in Publishers : /\ pc'[p] = IF p = q THEN "waiting" ELSE pc[p]
                              /\ kind'[p] = IF p = q THEN "comments" ELSE kind[p]
    BY <1>1, <1>t DEF Submit, Shape
  <2>2. \A p \in Publishers, l \in Kinds :
          Outcome(p, l)' = IF p = q THEN IF l = "forecasts" THEN "landed" ELSE "pending"
                                    ELSE Outcome(p, l)
    BY <2>1 DEF Outcome, Kinds
  <2>3. Verdict' = [Verdict EXCEPT ![q] = [forecasts |-> "landed", comments |-> "pending"]]
    BY <2>2, BothSeen
  <2>4. kind[q] = "forecasts" /\ Verdict[q]["forecasts"] = "pending" /\ delivered[q]["forecasts"] > 0
    BY <1>1, <1>t, <1>d DEF CommentNext, Seen, Kinds
  <2> QED BY <1>t, <2>3, <2>4, PromiseSteps
<1>2. ASSUME job[Current(q)] = "ok", kind[q] = "comments", Stop(q, "published")
      PROVE  Promise!PromiseNext
  <2>1. \A p \in Publishers : pc'[p] = (IF p = q THEN "published" ELSE pc[p]) /\ kind'[p] = kind[p]
    BY <1>2, <1>t DEF Stop, Shape
  <2>2. \A p \in Publishers, l \in Kinds :
          Outcome(p, l)' = IF p = q /\ l = "comments" THEN "landed" ELSE Outcome(p, l)
    BY <1>2, <1>t, <2>1 DEF Outcome
  <2>3. Verdict' = [Verdict EXCEPT ![q]["comments"] = "landed"]
        /\ Verdict[q]["comments"] = Outcome(q, "comments")
    BY <1>2, <1>t, <2>2, OneSeen
  <2> QED BY <1>2, <1>t, <1>d, <2>3, PromiseSteps
<1>3. ASSUME RetryOrFail(q, job[Current(q)] \in Retryable, read)
      PROVE  [Promise!PromiseNext]_(Promise!pvars)
  BY <1>3, <1>t, RetryIsSeen
<1>4. ASSUME Stop(q, "crashed")
      PROVE  Promise!PromiseNext
  <2> DEFINE k == kind[q]
  <2>1. \A p \in Publishers : pc'[p] = (IF p = q THEN "crashed" ELSE pc[p]) /\ kind'[p] = kind[p]
    BY <1>4, <1>t DEF Stop, Shape
  <2>2. \A p \in Publishers, l \in Kinds :
          Outcome(p, l)' = IF p = q /\ l = k THEN "gave_up" ELSE Outcome(p, l)
    BY <1>t, <2>1 DEF Outcome
  <2>3. k \in Kinds /\ Outcome(q, k) = "pending"
    BY <1>t
  <2> HIDE DEF k
  <2>4. Verdict' = [Verdict EXCEPT ![q][k] = "gave_up"] /\ Verdict[q][k] = Outcome(q, k)
    BY <2>2, <2>3, OneSeen
  <2> QED BY <1>t, <2>3, <2>4, PromiseSteps
<1> QED BY <1>1, <1>2, <1>3, <1>4 DEF CallReturns, read

\* The platform processes a POST that was asked for, less often than it may be.
LEMMA PostIsSeen ==
    ASSUME DeliveryInv, DeliveryInv', Seen, NEW j \in Jobs, PostEnds(j)
    PROVE  [Promise!PromiseNext]_(Promise!pvars)
<1> DEFINE q == j[1]
           k == j[2]
<1>1. q \in Publishers /\ k \in Kinds /\ j[3] \in 1..Attempts /\ j = <<q, k, j[3]>>
  BY JobNames
<1>2. PICK processed \in {0, 1} : delivered' = [delivered EXCEPT ![q][k] = @ + processed]
  BY DEF PostEnds
<1>3. Shape /\ pc' = pc /\ kind' = kind
  BY DEF DeliveryInv, PostEnds, callVars
<1>4. \A p \in Publishers, l \in Kinds : Outcome(p, l)' = Outcome(p, l)
  BY <1>3 DEF Outcome
<1>5. Outcome(q, k) # "none"
  <2>1. job[<<q, k, j[3]>>] = "posting"
    BY <1>1 DEF PostEnds
  <2>2. j[3] <= Started(q, k)
    BY <1>1, <2>1 DEF DeliveryInv, OnlyStarted
  <2>3. Started(q, k) # 0
    BY <1>1, <2>2
  <2> QED BY <2>3 DEF Outcome, Started
<1> HIDE DEF q, k
<1>6. CASE processed = 0
  <2>1. delivered' = delivered
    BY <1>1, <1>2, <1>3, <1>6 DEF Shape
  <2> QED BY <1>4, <2>1, NothingSeen
<1>7. CASE processed = 1
  <2>1. delivered' = [delivered EXCEPT ![q][k] = @ + 1]
    BY <1>2, <1>7
  <2>2. delivered[q][k] \in Nat /\ delivered'[q][k] = delivered[q][k] + 1
    BY <1>1, <1>3, <2>1 DEF Shape
  <2>3. delivered'[q][k] <= Attempts
    <3> DEFINE T == Spent(q, k)'
    <3>1. T \in SUBSET (1..Attempts) /\ delivered'[q][k] <= Cardinality(T)
      BY <1>1 DEF DeliveryInv, ProcessedWhenOver, Spent
    <3> HIDE DEF T
    <3> QED BY <2>2, <3>1, SpentCount, PublishAssumption
  <2>4. Verdict' = Verdict
    <3> DEFINE F == Verdict
               G == Verdict'
    <3>1. F \in PromiseVerdicts /\ G \in PromiseVerdicts
          /\ \A p \in Publishers, l \in Kinds : G[p][l] = F[p][l]
      BY <1>4 DEF Seen
    <3> HIDE DEF F, G
    <3>2. G = F
      BY <3>1, NoVerdictChanges
    <3> QED BY <3>2 DEF F, G
  <2>5. Verdict[q][k] # "none" /\ delivered[q][k] < Attempts
    BY <1>1, <1>5, <2>2, <2>3, PublishAssumption DEF Seen
  <2> QED BY <1>1, <2>1, <2>4, <2>5, PromiseSteps
<1> QED BY <1>2, <1>6, <1>7

LEMMA InitIsSeen == Init => Promise!PromiseInit
<1> SUFFICES ASSUME Init PROVE Promise!PromiseInit
  OBVIOUS
<1>1. Shape /\ ForecastFirst
  BY InitDelivers DEF DeliveryInv
<1>2. Tabulated
  BY <1>1, VerdictsAreTabulated
<1>3. \A q \in Publishers, k \in Kinds : VerdictOf(q, k) = "none"
  BY <1>2 DEF Tabulated, Outcome, Init
<1> QED BY <1>3 DEF Init, Promise!PromiseInit, Promise!Kinds, Kinds

LEMMA NextIsSeen == DeliveryInv /\ DeliveryInv' /\ [Next]_vars => [Promise!PromiseNext]_(Promise!pvars)
<1> SUFFICES ASSUME DeliveryInv, DeliveryInv', [Next]_vars
             PROVE  [Promise!PromiseNext]_(Promise!pvars)
  OBVIOUS
<1>s. Seen
  BY StepsAreSeen
<1>1. ASSUME NEW q \in Publishers, Gate(q) \/ CallReturns(q)
      PROVE  [Promise!PromiseNext]_(Promise!pvars)
  BY <1>1, <1>s, GateIsSeen, ReturnIsSeen
<1>2. ASSUME NEW q \in Publishers, CallTimesOut(q)
      PROVE  [Promise!PromiseNext]_(Promise!pvars)
  <2>1. pc[q] = "waiting" /\ UNCHANGED delivered
    BY <1>2 DEF CallTimesOut
  <2>2. \E jobs : RetryOrFail(q, TRUE, jobs)
    BY <1>2 DEF CallTimesOut
  <2> QED BY <1>s, <2>1, <2>2, RetryIsSeen
<1>3. ASSUME NEW q \in Publishers, ReadCounter(q) \/ WriteCounter(q) \/ ReportFailure(q)
      PROVE  [Promise!PromiseNext]_(Promise!pvars)
  <2>1. /\ kind' = kind /\ delivered' = delivered /\ Shape
        /\ pc[q] \in {"locking", "adding", "reporting"}
        /\ \E where \in {"adding", "reporting", "raised"} : pc' = [pc EXCEPT ![q] = where]
    BY <1>3 DEF ReadCounter, WriteCounter, ReportFailure, DeliveryInv
  <2>2. \A p \in Publishers : IF p = q THEN pc'[p] \in {"adding", "reporting", "raised"}
                                       ELSE pc'[p] = pc[p]
    BY <2>1 DEF Shape
  <2>3. \A p \in Publishers, l \in Kinds : Outcome(p, l)' = Outcome(p, l)
    BY <2>1, <2>2 DEF Outcome
  <2> QED BY <1>s, <2>1, <2>3, NothingSeen
<1>4. ASSUME \/ TakeJob \/ Tick \/ UNCHANGED vars
             \/ \E j \in Jobs : PauseEnds(j)
      PROVE  [Promise!PromiseNext]_(Promise!pvars)
  <2>1. UNCHANGED <<pc, kind, delivered>>
    BY <1>4 DEF TakeJob, Tick, PauseEnds, vars, callVars
  <2>2. \A p \in Publishers, l \in Kinds : Outcome(p, l)' = Outcome(p, l)
    BY <2>1 DEF Outcome
  <2> QED BY <1>s, <2>1, <2>2, NothingSeen
<1>5. ASSUME NEW j \in Jobs, PostEnds(j)
      PROVE  [Promise!PromiseNext]_(Promise!pvars)
  BY <1>5, <1>s, PostIsSeen
<1> QED BY <1>1, <1>2, <1>3, <1>4, <1>5 DEF Next, PublisherStep

\* The publish path implements its promise, for any number of questions, workers
\* and attempts: what it reports as landed has landed, no comment is started
\* before its forecast has landed, and no POST is processed more often than it
\* may be attempted, however late an abandoned one ends.
THEOREM PublishKeepsItsPromise == Spec => ImplementsPromise
<1>1. DeliveryInv /\ DeliveryInv' /\ [Next]_vars => [Promise!PromiseNext]_(Promise!pvars)
  BY NextIsSeen
<1> QED BY <1>1, InitIsSeen, DeliveryInvHolds, PTL DEF Spec, ImplementsPromise, Promise!PromiseSpec

-----------------------------------------------------------------------------
(* What a reader of the platform sees *)

\* Whoever is at its comment has had its forecast processed.
CommentsHaveForecast == \A q \in Publishers : kind[q] = "comments" => delivered[q]["forecasts"] > 0

LEMMA NextKeepsForecast == DeliveryInv /\ CommentsHaveForecast /\ [Next]_vars => CommentsHaveForecast'
<1> SUFFICES ASSUME DeliveryInv, CommentsHaveForecast, [Next]_vars,
                    NEW q \in Publishers, kind'[q] = "comments"
             PROVE  delivered'[q]["forecasts"] > 0
  BY DEF CommentsHaveForecast
<1>t. Shape /\ "forecasts" \in Kinds /\ delivered[q]["forecasts"] \in Nat
  <2>1. Shape
    BY DEF DeliveryInv
  <2> HIDE DEF DeliveryInv
  <2>2. "forecasts" \in Kinds
    BY DEF Kinds
  <2> QED BY <2>1, <2>2 DEF Shape
<1>1. delivered'[q]["forecasts"] >= delivered[q]["forecasts"] /\ delivered'[q]["forecasts"] \in Nat
  <2>1. CASE UNCHANGED delivered
    BY <1>t, <2>1
  <2>2. ASSUME NEW j \in Jobs, PostEnds(j)
        PROVE  delivered'[q]["forecasts"] >= delivered[q]["forecasts"]
               /\ delivered'[q]["forecasts"] \in Nat
    <3> DEFINE p == j[1]
               k == j[2]
    <3>1. p \in Publishers /\ k \in Kinds
      BY JobNames
    <3>2. PICK processed \in {0, 1} : delivered' = [delivered EXCEPT ![p][k] = @ + processed]
      BY <2>2 DEF PostEnds
    <3> HIDE DEF p, k
    <3>3. delivered \in [Publishers -> [Kinds -> Nat]]
      BY <1>t DEF Shape
    <3>4. delivered'[q]["forecasts"] = IF q = p /\ k = "forecasts"
                                       THEN delivered[q]["forecasts"] + processed
                                       ELSE delivered[q]["forecasts"]
      BY <1>t, <3>1, <3>2, <3>3
    <3> QED BY <1>t, <3>4
  <2> QED BY <2>1, <2>2 DEF Next, TakeJob, Tick, PublisherStep, Gate, CallReturns, CallTimesOut,
                            ReadCounter, WriteCounter, ReportFailure, PauseEnds, vars
<1>2. CASE kind[q] = "comments"
  BY <1>1, <1>2, <1>t DEF CommentsHaveForecast
<1>3. CASE kind[q] # "comments"
  <2>1. CommentNext(q) /\ delivered' = delivered
    <3>1. \E p \in Publishers : Gate(p) \/ CallReturns(p) \/ CallTimesOut(p)
      BY <1>3 DEF Next, TakeJob, Tick, PublisherStep, ReadCounter, WriteCounter, ReportFailure,
                  PauseEnds, PostEnds, vars, callVars
    <3>2. PICK p \in Publishers : Gate(p) \/ CallReturns(p) \/ CallTimesOut(p)
      BY <3>1
    <3>3. /\ delivered' = delivered
          /\ \/ kind' = kind
             \/ kind' = [kind EXCEPT ![p] = kind[p]] \/ kind' = [kind EXCEPT ![p] = "forecasts"]
             \/ kind' = [kind EXCEPT ![p] = "comments"] /\ CommentNext(p)
      BY <3>2 DEF Gate, CallReturns, CallTimesOut, RetryOrFail, Submit, Stop
    <3> QED BY <1>3, <1>t, <3>3 DEF Shape
  <2>2. job[<<q, "forecasts", attempt[q]>>] = "ok" /\ attempt[q] \in 1..Attempts
    BY <1>t, <2>1 DEF CommentNext, Current, Shape
  <2> QED BY <1>t, <2>1, <2>2 DEF DeliveryInv, OnlyStarted
<1> QED BY <1>2, <1>3

\* The platform never holds a comment whose forecast it has not processed: not even
\* a comment attempt that its caller abandoned arrives before the forecast.
THEOREM CommentFollowsForecast ==
    Spec => [](\A q \in Publishers : delivered[q]["comments"] > 0 => delivered[q]["forecasts"] > 0)
<1> DEFINE Follows == \A q \in Publishers :
                         delivered[q]["comments"] > 0 => delivered[q]["forecasts"] > 0
<1>1. DeliveryInv /\ CommentsHaveForecast => Follows
  <2> SUFFICES ASSUME DeliveryInv, CommentsHaveForecast,
                      NEW q \in Publishers, delivered[q]["comments"] > 0
               PROVE  delivered[q]["forecasts"] > 0
    OBVIOUS
  <2> DEFINE S == Spent(q, "comments")
  <2>1. S \in SUBSET (1..Attempts) /\ delivered[q]["comments"] <= Cardinality(S)
        /\ delivered[q]["comments"] \in Nat /\ kind[q] \in Kinds
    <3>1. Shape /\ "comments" \in Kinds
      BY DEF DeliveryInv, Kinds
    <3>2. delivered[q]["comments"] <= Cardinality(Spent(q, "comments"))
      BY <3>1 DEF DeliveryInv, ProcessedWhenOver
    <3>3. Spent(q, "comments") \in SUBSET (1..Attempts)
      BY DEF Spent
    <3> QED BY <3>1, <3>2, <3>3 DEF Shape
  <2>2. Started(q, "comments") # 0
    <3> SUFFICES ASSUME Started(q, "comments") = 0 PROVE FALSE
      OBVIOUS
    <3>1. S = {}
      BY DEF Spent
    <3> HIDE DEF S
    <3> QED BY <2>1, <3>1, FS_EmptySet
  <2>3. kind[q] = "comments"
    BY <2>1, <2>2 DEF Started, Kinds
  <2> QED BY <2>3 DEF CommentsHaveForecast
<1>2. Init => CommentsHaveForecast
  BY DEF Init, CommentsHaveForecast
<1> QED BY <1>1, <1>2, NextKeepsForecast, DeliveryInvHolds, PTL DEF Spec
=============================================================================
