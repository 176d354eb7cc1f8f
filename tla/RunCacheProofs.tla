---------------------------- MODULE RunCacheProofs ----------------------------
(***************************************************************************)
(* Proofs about the two halves of run_cache, the cache of complete reads   *)
(* (ArtifactCache) and the memo of digests (DigestMemo), which share no    *)
(* state.                                                                  *)
(*                                                                         *)
(* The first part shows that the two maps of the artifact cache never come *)
(* apart, for any URLs, readers, bounds and sizes: what a URL finds is     *)
(* held, and what is held is found by each of its aliases.  Each of the    *)
(* two facts needs the other: put takes a URL from the entry the URL       *)
(* finds, which leaves no other holder of that URL only because every      *)
(* holder of a URL is found by it.  Neither depends on which entries an    *)
(* eviction picks.  On them rests the order of the entries: a hit moves an *)
(* entry that has a place in it.  On the order rest the bounds: its        *)
(* prefixes are nested, so there is a shortest one whose removal fits, and *)
(* the whole order is one of them.                                         *)
(*                                                                         *)
(* The second part shows that the memo pays for one digest at a time, for  *)
(* any callers and any number of digests and clears, and abandons none.    *)
(* What runs is what is registered, because whatever drops a registration  *)
(* cancels the task or follows its end; and a caller that still waits for  *)
(* an earlier task stands in the ready queue ahead of whoever joined the   *)
(* next one, so that the last to leave a running digest is alone.          *)
(***************************************************************************)
EXTENDS ArtifactCache, DigestMemo, FiniteSetTheorems, WellFoundedInduction, TLAPS

\* What the two facts need of the types: a new sequence number belongs to no
\* entry held, and a reader that presents has an entry of its own.
Shape ==
    /\ puts \in Nat
    /\ entries \subseteq 1..puts
    /\ entries \subseteq Ids
    /\ aliases \in [Ids -> SUBSET Urls]
    /\ DOMAIN reader = Readers
    /\ \A r \in Readers : reader[r].at = "presenting" => reader[r].url \in Urls /\ reader[r].entry \in Ids
    /\ DOMAIN cache = Urls

InStep ==
    /\ Shape
    /\ FoundIsHeld
    /\ HeldIsFound

LEMMA InStepInit == Init => InStep
  BY DEF Init, InStep, Shape, FoundIsHeld, HeldIsFound, Idle

\* put keeps the maps in step whatever the eviction drops.
LEMMA PutKeepsStep ==
    ASSUME InStep, NEW requested \in Urls, NEW landed \in Urls, Put(requested, landed)
    PROVE  InStep'
<1> DEFINE e == puts + 1
           names == {requested, landed}
           taken(f) == {u \in names : cache[u] = f}
           left == [f \in Ids |-> IF f = e THEN names ELSE aliases[f] \ taken(f)]
           orphans == {f \in entries : taken(f) # {} /\ left[f] = {}}
           held == (entries \ orphans) \cup {e}
           order == ToEnd(Dropping(older, orphans), held, e)
           out == Evicted(held, order)
<1>1. /\ e \in Ids
      /\ puts' = e
      /\ aliases' = left
      /\ entries' = held \ out
      /\ cache' = [u \in Urls |->
                      LET now == IF u \in names THEN e ELSE cache[u] IN
                      IF now \in out THEN NoEntry ELSE now]
      /\ reader' = reader
  BY DEF Put, Forgetting
<1> HIDE DEF out, order
<1>2. puts \in Nat /\ entries \subseteq 1..puts /\ e \notin entries /\ names \subseteq Urls
  BY DEF InStep, Shape
<1>3. 1..puts \subseteq Ids
  BY <1>1, <1>2, CacheAssumption DEF Ids
<1>4. Shape'
  <2>1. puts' \in Nat /\ entries' \subseteq 1..puts' /\ entries' \subseteq Ids
    <3>1. entries' \subseteq entries \cup {e}
      BY <1>1
    <3>2. e \in Nat /\ e \in 1..e /\ 1..puts \subseteq 1..e
      BY <1>2
    <3> QED
      BY <1>1, <1>2, <1>3, <3>1, <3>2
  <2>2. aliases' \in [Ids -> SUBSET Urls]
    <3>1. \A f \in Ids : left[f] \in SUBSET Urls
      BY <1>2 DEF InStep, Shape
    <3> QED
      BY <1>1, <3>1
  <2>3. DOMAIN cache' = Urls
    BY <1>1
  <2> QED
    BY <1>1, <2>1, <2>2, <2>3 DEF InStep, Shape
<1>5. FoundIsHeld'
  <2> SUFFICES ASSUME NEW u \in Urls, cache'[u] # NoEntry
               PROVE  cache'[u] \in entries' /\ u \in aliases'[cache'[u]]
    BY DEF FoundIsHeld
  <2>1. CASE u \in names
    BY <1>1, <2>1
  <2>2. CASE u \notin names
    <3>1. cache'[u] = cache[u] /\ cache[u] \notin out /\ cache[u] # NoEntry
      BY <1>1, <2>2
    <3>2. cache[u] \in entries /\ u \in aliases[cache[u]]
      BY <3>1 DEF InStep, FoundIsHeld
    <3>3. u \in left[cache[u]] /\ cache[u] # e
      BY <1>2, <1>3, <2>2, <3>2
    <3> QED
      BY <1>1, <3>1, <3>2, <3>3
  <2> QED
    BY <2>1, <2>2
<1>6. HeldIsFound'
  <2> SUFFICES ASSUME NEW f \in entries'
               PROVE  aliases'[f] # {} /\ \A u \in aliases'[f] : cache'[u] = f
    BY DEF HeldIsFound
  <2>1. f \in held /\ f \notin out
    BY <1>1
  <2>2. CASE f = e
    BY <1>1, <1>2, <2>1, <2>2
  <2>3. CASE f # e
    <3>1. f \in entries /\ f \notin orphans /\ f \in Ids
      BY <1>2, <1>3, <2>1, <2>3
    <3>2. aliases[f] # {} /\ \A u \in aliases[f] : cache[u] = f
      BY <3>1 DEF InStep, HeldIsFound
    <3>3. left[f] # {} /\ left[f] = aliases[f] \ taken(f)
      BY <2>3, <3>1, <3>2
    <3>4. ASSUME NEW u \in left[f]
          PROVE  cache'[u] = f
      <4>1. u \in Urls /\ u \in aliases[f] /\ u \notin names
        BY <3>1, <3>2, <3>3, <3>4 DEF InStep, Shape
      <4> QED
        BY <1>1, <2>1, <3>2, <4>1
    <3> QED
      BY <1>1, <3>3, <3>4
  <2> QED
    BY <2>2, <2>3
<1> QED
  BY <1>4, <1>5, <1>6 DEF InStep

\* A rejected artifact takes from the maps only the URL it was presented for, and
\* the entry it was presented from.
LEMMA RejectedKeepsStep ==
    ASSUME InStep, NEW r \in Readers, Rejected(r)
    PROVE  InStep'
<1> DEFINE u == reader[r].url
           e == reader[r].entry
           gone == IF aliases[e] \subseteq {u} THEN {e} ELSE {}
<1>1. /\ u \in Urls /\ e \in Ids
      /\ puts' = puts
      /\ reader' = [reader EXCEPT ![r] = Idle]
  BY DEF Rejected, InStep, Shape, Leave
<1>2. CASE UNCHANGED store
  BY <1>1, <1>2 DEF InStep, Shape, FoundIsHeld, HeldIsFound, store, Idle
<1>3. CASE /\ cache[u] = e
           /\ cache' = [cache EXCEPT ![u] = NoEntry]
           /\ aliases' = [aliases EXCEPT ![e] = @ \ {u}]
           /\ entries' = entries \ gone
  <2>1. Shape'
    <3>1. aliases' \in [Ids -> SUBSET Urls]
      BY <1>1, <1>3 DEF InStep, Shape
    <3>2. \A s \in Readers :
             reader'[s].at = "presenting" => reader'[s].url \in Urls /\ reader'[s].entry \in Ids
      BY <1>1 DEF InStep, Shape, Idle
    <3> QED
      BY <1>1, <1>3, <3>1, <3>2 DEF InStep, Shape
  <2>2. e # NoEntry /\ e \in entries /\ u \in aliases[e]
    BY <1>1, <1>3, CacheAssumption DEF InStep, FoundIsHeld
  <2>3. FoundIsHeld'
    BY <1>1, <1>3 DEF InStep, Shape, FoundIsHeld, HeldIsFound
  <2>4. HeldIsFound'
    <3> SUFFICES ASSUME NEW f \in entries'
                 PROVE  aliases'[f] # {} /\ \A w \in aliases'[f] : cache'[w] = f
      BY DEF HeldIsFound
    <3>1. f \in entries /\ f \notin gone
      BY <1>3
    <3>2. aliases[f] # {} /\ \A w \in aliases[f] : cache[w] = f
      BY <3>1 DEF InStep, HeldIsFound
    <3>3. f \in Ids /\ aliases[f] \subseteq Urls
      BY <1>1, <3>1, <3>2 DEF InStep, Shape
    <3>4. CASE f = e
      BY <1>1, <1>3, <3>1, <3>2, <3>3, <3>4 DEF InStep, Shape
    <3>5. CASE f # e
      <4>1. aliases'[f] = aliases[f] /\ u \notin aliases[f]
        BY <1>1, <1>3, <3>2, <3>3, <3>5 DEF InStep, Shape
      <4> QED
        BY <1>1, <1>3, <3>2, <3>3, <4>1 DEF InStep, Shape
    <3> QED
      BY <3>4, <3>5
  <2> QED
    BY <2>1, <2>3, <2>4 DEF InStep
<1> QED
  BY <1>2, <1>3 DEF Rejected, StillFound

LEMMA InStepNext == InStep /\ [Next]_vars => InStep'
<1> SUFFICES ASSUME InStep, [Next]_vars
             PROVE  InStep'
  OBVIOUS
<1>1. ASSUME NEW u \in Urls, NEW w \in Urls, Put(u, w)
      PROVE  InStep'
  BY <1>1, PutKeepsStep
<1>2. ASSUME NEW u \in Urls, Lookup(u)
      PROVE  InStep'
  BY <1>2 DEF Lookup, Touch, InStep, Shape, FoundIsHeld, HeldIsFound
<1>3. CASE Clear
  BY <1>3 DEF Clear, InStep, Shape, FoundIsHeld, HeldIsFound
<1>4. ASSUME NEW r \in Readers, NEW u \in Urls, StartPresenting(r, u)
      PROVE  InStep'
  <2>1. cache[u] \in Ids
    BY <1>4 DEF StartPresenting, InStep, Shape, FoundIsHeld
  <2>2. Shape'
    BY <1>4, <2>1 DEF StartPresenting, Presenting, InStep, Shape, store
  <2> QED
    BY <1>4, <2>2 DEF StartPresenting, InStep, FoundIsHeld, HeldIsFound, store
<1>5. ASSUME NEW r \in Readers, Rejected(r)
      PROVE  InStep'
  BY <1>5, RejectedKeepsStep
<1>6. ASSUME NEW r \in Readers, Presented(r) \/ Abandoned(r)
      PROVE  InStep'
  <2>1. /\ UNCHANGED <<cache, entries, aliases, puts>>
        /\ reader' = [reader EXCEPT ![r] = Idle]
    BY <1>6 DEF Presented, Abandoned, Leave, Touch, store
  <2>2. Shape'
    BY <2>1 DEF InStep, Shape, Idle
  <2> QED
    BY <2>1, <2>2 DEF InStep, FoundIsHeld, HeldIsFound
<1>7. CASE UNCHANGED vars
  BY <1>7 DEF vars, store, InStep, Shape, FoundIsHeld, HeldIsFound
<1> QED
  BY <1>1, <1>2, <1>3, <1>4, <1>5, <1>6, <1>7 DEF Next

LEMMA AlwaysInStep == Spec => []InStep
  BY InStepInit, InStepNext, PTL DEF Spec

\* Whatever a URL finds is still held and counted by the bounds (run_cache.put,
\* get, _evict_to_bounds, clear).
THEOREM WhatIsFoundIsHeld == Spec => []FoundIsHeld
<1>1. InStep => FoundIsHeld
  BY DEF InStep
<1> QED
  BY AlwaysInStep, <1>1, PTL

\* Whatever the bounds count is found by each of its aliases: no reader that
\* comes back late removes or hides what others put since.
THEOREM WhatIsHeldIsFound == Spec => []HeldIsFound
<1>1. InStep => HeldIsFound
  BY DEF InStep
<1> QED
  BY AlwaysInStep, <1>1, PTL

-----------------------------------------------------------------------------
(* The order of the entries *)

\* order is total on S, and on S only.
InOrder(order, S) ==
    /\ order \in [Ids -> SUBSET S]
    /\ \A e \in Ids \ S : order[e] = {}
    /\ \A e, f \in S : e \in order[f] <=> e # f /\ f \notin order[e]
    /\ \A e, f \in S : e \in order[f] => order[e] \subseteq order[f]

LEMMA DroppingKeepsOrder ==
    ASSUME NEW S \in SUBSET Ids, NEW order, InOrder(order, S), NEW D
    PROVE  InOrder(Dropping(order, D), S \ D)
  BY DEF InOrder, Dropping

LEMMA ToEndKeepsOrder ==
    ASSUME NEW S \in SUBSET Ids, NEW order, InOrder(order, S), NEW e \in Ids
    PROVE  InOrder(ToEnd(order, S \cup {e}, e), S \cup {e})
<1> DEFINE T == S \cup {e}
           moved == ToEnd(order, T, e)
<1>1. \A f \in Ids : moved[f] = IF f = e THEN T \ {e} ELSE order[f] \ {e}
  BY DEF ToEnd
<1>2. moved \in [Ids -> SUBSET T]
  BY DEF InOrder, ToEnd
<1>3. \A f \in Ids \ T : moved[f] = {}
  BY <1>1 DEF InOrder
<1>4. ASSUME NEW f \in T, NEW g \in T
      PROVE  f \in moved[g] <=> f # g /\ g \notin moved[f]
  <2> HIDE DEF moved
  <2>0. f \in Ids /\ g \in Ids
    OBVIOUS
  <2>1. CASE f = e
    BY <1>1, <2>0, <2>1
  <2>2. CASE f # e /\ g = e
    BY <1>1, <2>0, <2>2
  <2>3. CASE f # e /\ g # e
    <3>1. f \in order[g] <=> f # g /\ g \notin order[f]
      BY <2>3 DEF InOrder
    <3> QED BY <1>1, <2>0, <2>3, <3>1
  <2> QED BY <2>1, <2>2, <2>3
<1>5. ASSUME NEW f \in T, NEW g \in T, f \in moved[g]
      PROVE  moved[f] \subseteq moved[g]
  <2> HIDE DEF moved
  <2>0. f \in Ids /\ g \in Ids /\ f # g
    BY <1>4, <1>5
  <2>1. f # e
    BY <1>1, <1>5, <2>0
  <2>2. moved[f] = order[f] \ {e} /\ order[f] \subseteq S
    BY <1>1, <2>0, <2>1 DEF InOrder
  <2>3. CASE g = e
    BY <1>1, <2>0, <2>2, <2>3
  <2>4. CASE g # e
    <3>1. f \in S /\ g \in S /\ f \in order[g]
      BY <1>1, <1>5, <2>0, <2>1, <2>4
    <3>2. order[f] \subseteq order[g]
      BY <3>1 DEF InOrder
    <3> QED BY <1>1, <2>0, <2>2, <2>4, <3>2
  <2> QED BY <2>3, <2>4
<1> QED BY <1>2, <1>3, <1>4, <1>5 DEF InOrder

LEMMA TypeIsOrder ==
    TypeOK <=> /\ cache \in [Urls -> Ids \cup {NoEntry}]
               /\ entries \subseteq 1..puts
               /\ puts \in 0..MaxPuts
               /\ InOrder(older, entries)
               /\ aliases \in [Ids -> SUBSET Urls]
               /\ size \in [Ids -> Nat]
               /\ clears \in 0..MaxClears
               /\ \A r \in Readers :
                     reader[r] = Idle \/ \E u \in Urls, e \in 1..puts : reader[r] = Presenting(u, e)
  BY DEF TypeOK, InOrder

\* A hit that is held moves to the end of the order.
LEMMA TouchKeepsOrder ==
    ASSUME InStep, InOrder(older, entries), NEW e \in entries, Touch(e)
    PROVE  InOrder(older, entries)'
<1>1. entries \in SUBSET Ids /\ e \in Ids /\ entries \cup {e} = entries
  BY DEF InStep, Shape
<1>2. InOrder(ToEnd(older, entries, e), entries)
  BY <1>1, ToEndKeepsOrder
<1> QED BY <1>2 DEF Touch

LEMMA PutKeepsTypes ==
    ASSUME InStep, TypeOK, NEW requested \in Urls, NEW landed \in Urls, Put(requested, landed)
    PROVE  TypeOK'
<1> DEFINE e == puts + 1
           names == {requested, landed}
           taken(f) == {u \in names : cache[u] = f}
           left == [f \in Ids |-> IF f = e THEN names ELSE aliases[f] \ taken(f)]
           orphans == {f \in entries : taken(f) # {} /\ left[f] = {}}
           held == (entries \ orphans) \cup {e}
           order == ToEnd(Dropping(older, orphans), held, e)
           out == Evicted(held, order)
           found == [u \in Urls |-> IF u \in names THEN e ELSE cache[u]]
<1>1. /\ e \in Ids
      /\ puts' = e
      /\ aliases' = left
      /\ \E bytes \in Sizes : size' = [size EXCEPT ![e] = bytes]
      /\ entries' = held \ out
      /\ older' = Dropping(order, out)
      /\ cache' = Forgetting(found, out)
      /\ UNCHANGED <<clears, reader>>
  BY DEF Put
<1>2. puts \in Nat /\ e \in 1..MaxPuts /\ 1..puts \subseteq 1..e /\ e \in 1..e
      /\ entries \subseteq 1..puts /\ entries \in SUBSET Ids /\ 0 <= e
  BY <1>1 DEF InStep, Shape, Ids
<1>3. InOrder(older, entries)'
  <2>1. InOrder(Dropping(older, orphans), entries \ orphans)
    BY <1>2, DroppingKeepsOrder, TypeIsOrder
  <2>2. InOrder(order, held)
    <3> HIDE DEF orphans
    <3>1. entries \ orphans \in SUBSET Ids
      BY <1>2
    <3> QED BY <1>1, <2>1, <3>1, ToEndKeepsOrder
  <2>3. held \in SUBSET Ids
    BY <1>1, <1>2
  <2> HIDE DEF held, order, out
  <2>4. InOrder(Dropping(order, out), held \ out)
    BY <2>2, <2>3, DroppingKeepsOrder
  <2> QED BY <1>1, <2>4
<1>4. entries' \subseteq 1..puts'
  <2>1. held \subseteq 1..e
    BY <1>2
  <2> HIDE DEF held, out
  <2> QED BY <1>1, <2>1
<1>5. cache' \in [Urls -> Ids \cup {NoEntry}]
  <2>1. \A u \in Urls : found[u] \in Ids \cup {NoEntry}
    BY <1>1 DEF TypeOK
  <2> HIDE DEF found, out
  <2> QED BY <1>1, <2>1 DEF Forgetting
<1>6. aliases' \in [Ids -> SUBSET Urls]
  <2>1. \A f \in Ids : left[f] \in SUBSET Urls
    BY DEF TypeOK
  <2> QED BY <1>1, <2>1
<1>7. size' \in [Ids -> Nat]
  BY <1>1, CacheAssumption DEF TypeOK
<1>8. \A r \in Readers :
          reader'[r] = Idle \/ \E u \in Urls, f \in 1..puts' : reader'[r] = Presenting(u, f)
  BY <1>1, <1>2 DEF TypeOK
<1>9. puts' \in 0..MaxPuts /\ clears' \in 0..MaxClears
  <2>1. MaxPuts \in Nat
    BY CacheAssumption
  <2> QED BY <1>1, <1>2, <2>1 DEF TypeOK
<1> QED
  BY <1>3, <1>4, <1>5, <1>6, <1>7, <1>8, <1>9, TypeIsOrder DEF InOrder, TypeOK

LEMMA TypesStep == InStep /\ TypeOK /\ [Next]_vars => TypeOK'
<1> SUFFICES ASSUME InStep, TypeOK, [Next]_vars PROVE TypeOK'
  OBVIOUS
<1>0. entries \in SUBSET Ids /\ puts \in Nat /\ NoEntry \notin Ids /\ InOrder(older, entries)
  BY CacheAssumption, TypeIsOrder DEF InStep, Shape
<1>1. ASSUME NEW u \in Urls, NEW w \in Urls, Put(u, w) PROVE TypeOK'
  BY <1>1, PutKeepsTypes
<1>2. ASSUME NEW u \in Urls, Lookup(u) PROVE TypeOK'
  <2>1. cache[u] \in entries
    BY <1>2 DEF Lookup, InStep, FoundIsHeld
  <2>2. InOrder(older, entries)'
    BY <1>0, <1>2, <2>1, TouchKeepsOrder DEF Lookup
  <2> QED BY <1>2, <2>2 DEF Lookup, Touch, TypeOK, InOrder
<1>3. CASE Clear
  <2>1. clears' \in 0..MaxClears
    BY <1>3, CacheAssumption DEF Clear, TypeOK
  <2>2. InOrder(older, entries)'
    BY <1>3 DEF Clear, InOrder
  <2> QED BY <1>3, <2>1, <2>2, TypeIsOrder DEF Clear, InOrder, TypeOK
<1>4. ASSUME NEW r \in Readers, NEW u \in Urls, StartPresenting(r, u) PROVE TypeOK'
  <2>1. cache[u] \in 1..puts
    BY <1>4 DEF StartPresenting, InStep, FoundIsHeld, TypeOK
  <2>2. \A s \in Readers :
            reader'[s] = Idle \/ \E w \in Urls, e \in 1..puts : reader'[s] = Presenting(w, e)
    BY <1>4, <2>1 DEF StartPresenting, InStep, Shape, TypeOK
  <2> QED BY <1>4, <2>2 DEF StartPresenting, TypeOK, store
<1>5. ASSUME NEW r \in Readers, Leave(r), UNCHANGED <<puts, size, clears>> 
      PROVE  \A s \in Readers :
                 reader'[s] = Idle \/ \E w \in Urls, e \in 1..puts' : reader'[s] = Presenting(w, e)
  BY <1>5 DEF Leave, InStep, Shape, TypeOK
<1>6. ASSUME NEW r \in Readers, reader[r].at = "presenting"
      PROVE  reader[r].url \in Urls /\ reader[r].entry \in Ids /\ reader[r].entry # NoEntry
  BY <1>0, <1>6 DEF InStep, Shape
<1>7. ASSUME NEW r \in Readers, Rejected(r) PROVE TypeOK'
  <2> DEFINE e == reader[r].entry
             gone == IF aliases[e] \subseteq {reader[r].url} THEN {e} ELSE {}
  <2>1. CASE UNCHANGED store
    BY <1>5, <1>7, <2>1 DEF Rejected, TypeOK, store
  <2>2. CASE ~UNCHANGED store
    <3>1. /\ cache' = [cache EXCEPT ![reader[r].url] = NoEntry]
          /\ aliases' = [aliases EXCEPT ![e] = @ \ {reader[r].url}]
          /\ entries' = entries \ gone
          /\ older' = Dropping(older, gone)
          /\ UNCHANGED <<puts, size, clears>>
      BY <1>7, <2>2 DEF Rejected
    <3>2. InOrder(older, entries)'
      <4> HIDE DEF gone
      <4> QED BY <1>0, <3>1, DroppingKeepsOrder
    <3>3. /\ cache' \in [Urls -> Ids \cup {NoEntry}] /\ aliases' \in [Ids -> SUBSET Urls]
          /\ entries' \subseteq 1..puts'
      <4> HIDE DEF gone
      <4> QED BY <1>6, <1>7, <3>1 DEF Rejected, TypeOK
    <3>4. puts' \in 0..MaxPuts /\ size' \in [Ids -> Nat] /\ clears' \in 0..MaxClears
      BY <3>1 DEF TypeOK
    <3>5. \A s \in Readers :
             reader'[s] = Idle \/ \E w \in Urls, f \in 1..puts' : reader'[s] = Presenting(w, f)
      BY <1>5, <1>7, <3>1 DEF Rejected
    <3> HIDE DEF gone
    <3> QED BY <3>2, <3>3, <3>4, <3>5 DEF InOrder, TypeOK
  <2> QED BY <2>1, <2>2
<1>8. ASSUME NEW r \in Readers, Presented(r) PROVE TypeOK'
  <2>1. CASE UNCHANGED store
    BY <1>5, <1>8, <2>1 DEF Presented, TypeOK, store
  <2>2. CASE StillFound(r) /\ Touch(reader[r].entry)
    <3>1. reader[r].entry \in entries
      BY <1>6, <1>8, <2>2 DEF Presented, StillFound, InStep, FoundIsHeld
    <3>2. InOrder(older, entries)'
      BY <1>0, <2>2, <3>1, TouchKeepsOrder
    <3> QED BY <1>5, <1>8, <2>2, <3>2 DEF Presented, Touch, TypeOK, InOrder
  <2> QED BY <1>8, <2>1, <2>2 DEF Presented
<1>9. ASSUME NEW r \in Readers, Abandoned(r) PROVE TypeOK'
  BY <1>5, <1>9 DEF Abandoned, TypeOK, store
<1>10. CASE UNCHANGED vars
  BY <1>10 DEF vars, store, TypeOK
<1> QED
  BY <1>1, <1>2, <1>3, <1>4, <1>7, <1>8, <1>9, <1>10 DEF Next

\* The types of the artifact cache, and that its order is total on exactly the
\* entries held, whatever is evicted, rejected or cleared in between.
THEOREM OrderIsTotal == Spec => []TypeOK
<1>1. Init => TypeOK
  <2> SUFFICES ASSUME Init PROVE TypeOK
    OBVIOUS
  <2>1. 0 \in 0..MaxPuts /\ 0 \in 0..MaxClears
    BY CacheAssumption
  <2>2. InOrder(older, entries)
    BY DEF Init, InOrder
  <2>3. \A r \in Readers : reader[r] = Idle
    BY DEF Init
  <2> QED BY <2>1, <2>2, <2>3 DEF Init, InOrder, TypeOK
<1> QED BY <1>1, TypesStep, AlwaysInStep, PTL DEF Spec

-----------------------------------------------------------------------------
(* The bounds *)

LEMMA FiniteIds ==
    /\ IsFiniteSet(Ids)
    /\ \A S \in SUBSET Ids : IsFiniteSet(S) /\ Cardinality(S) \in Nat
    /\ \A S \in SUBSET Ids : \A T \in SUBSET S :
          /\ Cardinality(T) <= Cardinality(S)
          /\ Cardinality(S) = Cardinality(T) => S = T
<1>1. IsFiniteSet(Ids)
  BY CacheAssumption, FS_Interval DEF Ids
<1>2. \A S \in SUBSET Ids : IsFiniteSet(S) /\ Cardinality(S) \in Nat
  BY <1>1, FS_Subset, FS_CardinalityType
<1>3. ASSUME NEW S \in SUBSET Ids, NEW T \in SUBSET S
      PROVE  /\ Cardinality(T) <= Cardinality(S)
             /\ Cardinality(S) = Cardinality(T) => S = T
  BY <1>2, <1>3, FS_Subset
<1> QED BY <1>1, <1>2, <1>3

\* Fewer entries hold no more bytes.
LEMMA BytesGrow ==
    ASSUME NEW bytes \in [Ids -> Nat], NEW S \in SUBSET Ids, NEW T \in SUBSET S
    PROVE  /\ Bytes(T, bytes) <= Bytes(S, bytes)
           /\ Bytes(S, bytes) \in Nat /\ Bytes(T, bytes) \in Nat
<1> DEFINE cells(e) == {e} \X (1..bytes[e])
           all == {cells(e) : e \in S}
<1>1. IsFiniteSet(S)
  BY FiniteIds
<1>2. IsFiniteSet(all)
  <2> DEFINE f == [e \in S |-> cells(e)]
  <2>1. f \in Surjection(S, all)
    BY DEF Surjection
  <2> HIDE DEF f, all
  <2> QED BY <1>1, <2>1, FS_Surjection
<1>3. \A e \in S : IsFiniteSet(cells(e))
  <2> SUFFICES ASSUME NEW e \in S PROVE IsFiniteSet({e} \X (1..bytes[e]))
    OBVIOUS
  <2>1. IsFiniteSet({e})
    BY FS_Singleton
  <2>2. bytes[e] \in Int /\ 1 \in Int
    OBVIOUS
  <2>3. IsFiniteSet(1..bytes[e])
    BY <2>2, FS_Interval
  <2> QED BY <2>1, <2>3, FS_Product
<1>4. \A C \in all : IsFiniteSet(C)
  BY <1>3
<1>5. IsFiniteSet(UNION all)
  <2> HIDE DEF all
  <2> QED BY <1>2, <1>4, FS_UNION
<1>6. UNION {cells(e) : e \in T} \in SUBSET (UNION all)
  <2> HIDE DEF cells
  <2> QED OBVIOUS
<1>7. /\ Cardinality(UNION {cells(e) : e \in T}) <= Cardinality(UNION all)
      /\ Cardinality(UNION {cells(e) : e \in T}) \in Nat /\ Cardinality(UNION all) \in Nat
  <2> HIDE DEF all, cells
  <2> QED BY <1>5, <1>6, FS_Subset, FS_CardinalityType
<1> QED BY <1>7 DEF Bytes

\* Two prefixes of an order are nested.
LEMMA PrefixesAreNested ==
    ASSUME NEW S \in SUBSET Ids, NEW order, InOrder(order, S), NEW e \in S, NEW f \in S
    PROVE  \/ order[e] \cup {e} \subseteq order[f] \cup {f}
           \/ order[f] \cup {f} \subseteq order[e] \cup {e}
<1>1. e = f \/ e \in order[f] \/ f \in order[e]
  BY DEF InOrder
<1>2. /\ e \in order[f] => order[e] \subseteq order[f]
      /\ f \in order[e] => order[f] \subseteq order[e]
  BY DEF InOrder
<1> QED BY <1>1, <1>2

ArePrefixes(P, order, S) == P # {} /\ \A D \in P : D = {} \/ \E e \in S : D = order[e] \cup {e}

\* Of any prefixes of an order there is a shortest.
LEMMA ShortestPrefix ==
    ASSUME NEW S \in SUBSET Ids, NEW order, InOrder(order, S),
           NEW P, ArePrefixes(P, order, S)
    PROVE  \E D \in P : \A F \in P : D \subseteq F
<1>p. P # {} /\ \A D \in P : D = {} \/ \E e \in S : D = order[e] \cup {e}
  BY DEF ArePrefixes
<1>0. \A e, f \in S : \/ order[e] \cup {e} \subseteq order[f] \cup {f}
                       \/ order[f] \cup {f} \subseteq order[e] \cup {e}
  BY PrefixesAreNested
<1>1. ASSUME NEW D \in P, NEW F \in P
      PROVE  D \subseteq F \/ F \subseteq D
  <2>1. CASE D = {} \/ F = {}
    BY <2>1
  <2>2. ASSUME NEW e \in S, NEW f \in S, D = order[e] \cup {e}, F = order[f] \cup {f}
        PROVE  D \subseteq F \/ F \subseteq D
    BY <1>0, <2>2
  <2> QED BY <1>p, <2>1, <2>2
<1>2. \A D \in P : D \in SUBSET S
  BY <1>p DEF InOrder
<1>3. \A D \in P : Cardinality(D) \in Nat
  BY <1>2, FiniteIds
<1> DEFINE counts == {Cardinality(D) : D \in P}
<1>4. PICK n \in counts : \A m \in counts : ~(<<m, n>> \in OpToRel(<, Nat))
  <2>1. counts \subseteq Nat /\ counts # {}
    BY <1>p, <1>3
  <2> HIDE DEF counts
  <2> QED BY <2>1, NatLessThanWellFounded, WFMin
<1>5. PICK D \in P : Cardinality(D) = n
  OBVIOUS
<1>6. \A F \in P : ~(Cardinality(F) < n)
  BY <1>3, <1>4, <1>5 DEF OpToRel
<1>7. ASSUME NEW F \in P, F \subseteq D PROVE D \subseteq F
  <2>1. /\ D \in SUBSET Ids /\ F \in SUBSET D /\ Cardinality(F) >= Cardinality(D)
        /\ Cardinality(F) \in Nat /\ Cardinality(D) \in Nat
    BY <1>2, <1>3, <1>5, <1>6, <1>7
  <2> QED BY <2>1, FiniteIds
<1> QED BY <1>1, <1>7

\* The eviction ends: dropping everything fits, so something drops out to within bounds.
LEMMA EvictionFits ==
    ASSUME size' \in [Ids -> Nat], NEW S \in SUBSET Ids, NEW order, InOrder(order, S),
           NEW last \in S, order[last] \cup {last} = S
    PROVE  Fits(S \ Evicted(S, order))
<1> DEFINE P == Prefixes(S, order)
<1>1. Fits({})
  <2>1. Cardinality({}) = 0
    BY FS_EmptySet
  <2>2. Bytes({}, size') = 0
    BY <2>1 DEF Bytes
  <2> QED BY <2>1, <2>2, CacheAssumption DEF Fits
<1>2. /\ \A D \in P : D = {} \/ \E e \in S : D = order[e] \cup {e}
      /\ \A D \in P : Fits(S \ D)
  BY DEF Prefixes
<1>3. S \in P
  <2>1. S \ S = {}
    OBVIOUS
  <2> QED BY <1>1, <2>1 DEF Prefixes
<1> HIDE DEF P
<1>4. \E D \in P : \A F \in P : D \subseteq F
  <2>1. ArePrefixes(P, order, S)
    BY <1>2, <1>3 DEF ArePrefixes
  <2> QED BY <2>1, ShortestPrefix
<1>5. Evicted(S, order) = CHOOSE D \in P : \A F \in P : D \subseteq F
  BY DEF Evicted, P
<1>6. Evicted(S, order) \in P
  BY <1>4, <1>5
<1> QED BY <1>2, <1>6

LEMMA PutKeepsBounds ==
    ASSUME InStep, TypeOK, TypeOK', NEW requested \in Urls, NEW landed \in Urls,
           Put(requested, landed)
    PROVE  WithinBounds'
<1> DEFINE e == puts + 1
           names == {requested, landed}
           taken(f) == {u \in names : cache[u] = f}
           left == [f \in Ids |-> IF f = e THEN names ELSE aliases[f] \ taken(f)]
           orphans == {f \in entries : taken(f) # {} /\ left[f] = {}}
           kept == entries \ orphans
           held == kept \cup {e}
           order == ToEnd(Dropping(older, orphans), held, e)
<1>1. e \in Ids /\ entries' = held \ Evicted(held, order)
  BY DEF Put
<1>2. InOrder(Dropping(older, orphans), kept) /\ kept \in SUBSET Ids
  BY DroppingKeepsOrder, TypeIsOrder DEF InStep, Shape
<1>n. e \notin entries
  BY DEF InStep, Shape
<1>3. InOrder(order, held) /\ held \in SUBSET Ids /\ e \in held
  <2> HIDE DEF orphans, kept
  <2> QED BY <1>1, <1>2, ToEndKeepsOrder
<1>4. order[e] \cup {e} = held
  BY <1>1 DEF ToEnd
<1> HIDE DEF order, held
<1>5. Fits(held \ Evicted(held, order))
  BY <1>3, <1>4, EvictionFits DEF TypeOK
<1> QED BY <1>1, <1>5 DEF Fits, WithinBounds

\* Both bounds of the cache of complete reads hold after every call, for any sizes:
\* an eviction always finds a prefix to drop, if need be everything, the entry just
\* put included.
THEOREM BoundsHold == Spec => []WithinBounds
<1>1. Init => WithinBounds
  <2> SUFFICES ASSUME Init PROVE WithinBounds
    OBVIOUS
  <2>1. Cardinality({}) = 0
    BY FS_EmptySet
  <2>2. Bytes({}, size) = 0
    BY <2>1 DEF Bytes
  <2> QED BY <2>1, <2>2, CacheAssumption DEF Init, WithinBounds
<1>2. InStep /\ TypeOK /\ TypeOK' /\ WithinBounds /\ [Next]_vars => WithinBounds'
  <2> SUFFICES ASSUME InStep, TypeOK, TypeOK', WithinBounds, [Next]_vars PROVE WithinBounds'
    OBVIOUS
  <2>1. ASSUME NEW u \in Urls, NEW w \in Urls, Put(u, w) PROVE WithinBounds'
    BY <2>1, PutKeepsBounds
  <2>2. ASSUME entries' \subseteq entries, UNCHANGED size PROVE WithinBounds'
    <3>1. entries \in SUBSET Ids /\ entries' \in SUBSET entries /\ size \in [Ids -> Nat]
      BY <2>2 DEF InStep, Shape, TypeOK
    <3>2. /\ Cardinality(entries') <= Cardinality(entries)
          /\ Cardinality(entries) \in Nat /\ Cardinality(entries') \in Nat
      BY <3>1, FiniteIds
    <3>3. /\ Bytes(entries', size) <= Bytes(entries, size)
          /\ Bytes(entries, size) \in Nat /\ Bytes(entries', size) \in Nat
      BY <3>1, BytesGrow
    <3>4. Cardinality(entries') <= MaxEntries /\ Bytes(entries', size) <= MaxBytes
      BY <3>2, <3>3, CacheAssumption DEF WithinBounds
    <3> QED BY <2>2, <3>4 DEF WithinBounds
  <2>3. CASE \/ Clear \/ UNCHANGED vars \/ \E u \in Urls : Lookup(u)
             \/ \E r \in Readers : \/ \E u \in Urls : StartPresenting(r, u)
                                   \/ Rejected(r) \/ Presented(r) \/ Abandoned(r)
    <3>1. entries' \subseteq entries /\ UNCHANGED size
      BY <2>3 DEF Clear, Lookup, StartPresenting, Rejected, Presented, Abandoned, Touch, vars, store
    <3> QED BY <2>2, <3>1
  <2> QED BY <2>1, <2>3 DEF Next
<1> QED BY <1>1, <1>2, AlwaysInStep, OrderIsTotal, PTL DEF Spec

-----------------------------------------------------------------------------
(* The memo of digests *)

\* What runs is registered, what waits to be unregistered has ended, and a kept
\* digest leaves nothing registered.
RegistrationIsTrue ==
    /\ \A t \in Tasks : task[t] = "running" => registered = t
    /\ \A t \in unfinished : Done(t)
    /\ cached => registered = NoTask
    /\ \A c \in Waiting : joined[c] \in Tasks /\ task[joined[c]] # "unborn"
    /\ registered # NoTask => task[registered] # "unborn"

\* Without a clear(), whoever waits on another task than the registered one is
\* about to wake, ahead of everybody who joined the registered one.
EarlierWaitersLeaveFirst ==
    resets = 0 =>
        \A c \in Waiting : joined[c] # registered =>
            /\ Runnable(c)
            /\ \A d \in Waiting : joined[d] = registered => c \in ahead[d]

MemoInv ==
    /\ MemoTypeOK
    /\ RegistrationIsTrue
    /\ EarlierWaitersLeaveFirst
    /\ NoOrphanDigest

LEMMA WaitingIsFinite == IsFiniteSet(Waiting) /\ Cardinality(Waiting) \in Nat
<1>1. Waiting \in SUBSET Callers
  BY DEF Waiting
<1> QED BY <1>1, DigestAssumption, FS_Subset, FS_CardinalityType

LEMMA MemoInvInit == MemoInit => MemoInv
<1> SUFFICES ASSUME MemoInit PROVE MemoInv
  OBVIOUS
<1>1. Waiting = {}
  BY DEF MemoInit, Waiting
<1>2. MemoTypeOK
  <2>1. waiters = Cardinality(Waiting) /\ resets \in 0..MaxResets
    BY <1>1, FS_EmptySet, DigestAssumption DEF MemoInit
  <2>2. /\ caller \in [Callers -> {"idle", "waiting"} \cup Finished]
        /\ joined \in [Callers -> Tasks \cup {NoTask}]
        /\ ahead \in [Callers -> SUBSET Callers]
        /\ task \in [Tasks -> TaskStates]
    BY DEF MemoInit, TaskStates
  <2>3. gaveUp \subseteq Callers /\ unfinished \subseteq Tasks /\ registered = NoTask
        /\ waiters \in Nat /\ cached \in BOOLEAN
    BY DEF MemoInit
  <2> QED BY <2>1, <2>2, <2>3 DEF MemoTypeOK
<1>3. \A t \in Tasks : task[t] = "unborn"
  BY DEF MemoInit
<1> QED
  BY <1>1, <1>2, <1>3 DEF MemoInit, MemoInv, RegistrationIsTrue, EarlierWaitersLeaveFirst, NoOrphanDigest

\* A caller joins task t, which is registered in the state after and not done.
LEMMA JoinKeepsInv ==
    ASSUME MemoInv, NEW c \in Callers, caller[c] = "idle", NEW t \in Tasks, Join(c, t),
           ~cached, registered' = t, UNCHANGED <<unfinished, cached, resets>>,
           task \in [Tasks -> TaskStates], ~Done(t),
           \/ registered = t /\ task' = task
           \/ /\ registered = NoTask /\ task[t] = "unborn"
              /\ task' = [task EXCEPT ![t] = "running"]
    PROVE  MemoInv'
<1>0. c \notin Waiting
  BY DEF Waiting
<1>1. /\ \A d \in Callers : caller'[d] = IF d = c THEN "waiting" ELSE caller[d]
      /\ \A d \in Callers \ {c} : joined'[d] = joined[d] /\ ahead'[d] = ahead[d]
      /\ joined'[c] = t /\ ahead'[c] = {e \in Callers : Runnable(e)}
      /\ \A u \in Tasks \ {t} : task'[u] = task[u]
      /\ task'[t] # "unborn" /\ ~Done(t)'
  <2>1. \A d \in Callers : caller'[d] = IF d = c THEN "waiting" ELSE caller[d]
    BY DEF Join, MemoInv, MemoTypeOK
  <2>2. /\ \A d \in Callers \ {c} : joined'[d] = joined[d] /\ ahead'[d] = ahead[d]
        /\ joined'[c] = t /\ ahead'[c] = {e \in Callers : Runnable(e)}
    BY DEF Join, MemoInv, MemoTypeOK
  <2>3. \A u \in Tasks \ {t} : task'[u] = task[u]
    OBVIOUS
  <2>4. task'[t] # "unborn" /\ ~Done(t)'
    BY DigestAssumption DEF MemoInv, RegistrationIsTrue, Done, Outcomes
  <2> QED BY <2>1, <2>2, <2>3, <2>4
<1>2. /\ Waiting' = Waiting \cup {c}
      /\ Waiting \subseteq Callers
      /\ \A d \in Waiting : d # c /\ joined'[d] = joined[d] /\ ahead'[d] = ahead[d]
  BY <1>1 DEF Waiting
<1>3. MemoTypeOK'
  <2>1. waiters' \in Nat /\ waiters' = Cardinality(Waiting')
    <3>1. Cardinality(Waiting') = Cardinality(Waiting) + 1
      BY <1>0, <1>2, WaitingIsFinite, FS_AddElement
    <3> QED BY <3>1 DEF Join, MemoInv, MemoTypeOK
  <2>2. {e \in Callers : Runnable(e)} \in SUBSET Callers
    OBVIOUS
  <2>3. task' \in [Tasks -> TaskStates]
    BY DEF TaskStates
  <2> QED BY <2>1, <2>2, <2>3 DEF Join, MemoInv, MemoTypeOK
<1>4. \A u \in Tasks : u # t /\ Done(u) => Done(u)'
  BY <1>1 DEF Done
<1>5. RegistrationIsTrue'
  <2>1. \A u \in Tasks : task'[u] = "running" => u = t
    BY <1>1, DigestAssumption DEF MemoInv, RegistrationIsTrue
  <2>2. \A u \in unfinished : Done(u)'
    BY <1>4 DEF MemoInv, MemoTypeOK, RegistrationIsTrue
  <2>3. \A d \in Waiting' : joined'[d] \in Tasks /\ task'[joined'[d]] # "unborn"
    BY <1>1, <1>2 DEF MemoInv, RegistrationIsTrue
  <2> QED BY <1>1, <2>1, <2>2, <2>3 DEF RegistrationIsTrue
<1>6. EarlierWaitersLeaveFirst'
  <2> SUFFICES ASSUME resets = 0, NEW d \in Waiting', joined'[d] # t
               PROVE  /\ Runnable(d)'
                      /\ \A e \in Waiting' : joined'[e] = t => d \in ahead'[e]
    BY DEF EarlierWaitersLeaveFirst
  <2>1. d \in Waiting /\ d # c /\ d \in Callers /\ joined'[d] = joined[d] /\ joined[d] # t
    BY <1>1, <1>2
  <2>2. joined[d] \in Tasks
    BY <2>1 DEF MemoInv, RegistrationIsTrue
  <2>3. joined[d] # registered
    BY <2>1, <2>2, DigestAssumption
  <2>4. Runnable(d)
    BY <2>1, <2>3 DEF MemoInv, EarlierWaitersLeaveFirst
  <2>5. Runnable(d)'
    BY <1>4, <2>1, <2>2, <2>4 DEF Runnable
  <2>6. ASSUME NEW e \in Waiting', joined'[e] = t PROVE d \in ahead'[e]
    <3>1. CASE e = c
      BY <1>1, <2>1, <2>4, <3>1
    <3>2. CASE e # c
      <4>1. e \in Waiting /\ joined[e] = t /\ ahead'[e] = ahead[e]
        BY <1>1, <1>2, <2>6, <3>2
      <4>2. registered = t
        BY <4>1 DEF MemoInv, RegistrationIsTrue
      <4> QED BY <2>1, <2>3, <4>1, <4>2 DEF MemoInv, EarlierWaitersLeaveFirst
    <3> QED BY <3>1, <3>2
  <2> QED BY <2>5, <2>6
<1>7. NoOrphanDigest'
  <2> SUFFICES ASSUME NEW u \in Tasks, task'[u] = "running"
               PROVE  \E d \in Waiting' : joined'[d] = u
    BY DEF NoOrphanDigest
  <2>1. u = t
    BY <1>5 DEF RegistrationIsTrue
  <2> QED BY <1>1, <1>2, <2>1
<1> QED BY <1>3, <1>5, <1>6, <1>7 DEF MemoInv

\* A waiting caller leaves: its task has ended, or nobody stands ahead of it.
LEMMA LeaveKeepsInv ==
    ASSUME MemoInv, NEW c \in Waiting, LeaveCall(c), NEW out \in Finished,
           caller' = [caller EXCEPT ![c] = out],
           Done(joined[c]) \/ \A d \in ahead[c] : d \notin Waiting,
           gaveUp' \subseteq Callers, UNCHANGED <<unfinished, registered, cached, resets>>
    PROVE  MemoInv'
<1>0. c \in Callers /\ caller[c] = "waiting" /\ joined[c] \in Tasks
  BY DEF Waiting, MemoInv, RegistrationIsTrue
<1>1. /\ \A d \in Callers : caller'[d] = IF d = c THEN out ELSE caller[d]
      /\ \A d \in Callers \ {c} : joined'[d] = joined[d] /\ ahead'[d] = ahead[d]
  BY <1>0 DEF LeaveCall, MemoInv, MemoTypeOK
<1>2. out # "waiting"
  BY DEF Finished
<1>3. /\ Waiting' = Waiting \ {c}
      /\ Waiting \subseteq Callers
      /\ \A d \in Waiting \ {c} : joined'[d] = joined[d] /\ ahead'[d] = ahead[d]
  BY <1>1, <1>2 DEF Waiting
<1>4. waiters' \in Nat /\ waiters' = Cardinality(Waiting')
  <2>1. Cardinality(Waiting') = Cardinality(Waiting) - 1
    BY <1>3, WaitingIsFinite, FS_RemoveElement
  <2>2. Cardinality(Waiting) # 0
    BY WaitingIsFinite, FS_EmptySet
  <2> QED BY <2>1, <2>2, WaitingIsFinite DEF LeaveCall, MemoInv, MemoTypeOK
<1>5. /\ task' \in [Tasks -> TaskStates]
      /\ \A u \in Tasks : task'[u] = task[u] \/ (u = joined[c] /\ ~Done(u) /\ task'[u] = "cancelling")
      /\ CancelsOnLast(joined[c]) => task'[joined[c]] = "cancelling"
  BY <1>0 DEF LeaveCall, CancelsOnLast, MemoInv, MemoTypeOK, TaskStates
<1>6. MemoTypeOK'
  BY <1>1, <1>4, <1>5 DEF LeaveCall, MemoInv, MemoTypeOK, Finished
<1>7. /\ \A u \in Tasks : Done(u) => Done(u)'
      /\ \A u \in Tasks : task[u] # "unborn" => task'[u] # "unborn"
  BY <1>5 DEF Done
<1>8. RegistrationIsTrue'
  <2>1. \A u \in Tasks : task'[u] = "running" => registered' = u
    BY <1>5 DEF MemoInv, RegistrationIsTrue
  <2>2. \A u \in unfinished' : Done(u)'
    BY <1>7 DEF MemoInv, MemoTypeOK, RegistrationIsTrue
  <2>3. \A d \in Waiting' : joined'[d] \in Tasks /\ task'[joined'[d]] # "unborn"
    BY <1>3, <1>7 DEF MemoInv, RegistrationIsTrue
  <2>4. registered' # NoTask => task'[registered'] # "unborn"
    BY <1>7 DEF MemoInv, MemoTypeOK, RegistrationIsTrue
  <2> QED BY <2>1, <2>2, <2>3, <2>4 DEF MemoInv, RegistrationIsTrue
<1>9. EarlierWaitersLeaveFirst'
  <2> SUFFICES ASSUME resets = 0, NEW d \in Waiting', joined'[d] # registered
               PROVE  /\ Runnable(d)'
                      /\ \A e \in Waiting' : joined'[e] = registered => d \in ahead'[e]
    BY DEF EarlierWaitersLeaveFirst
  <2>1. d \in Waiting /\ d # c /\ d \in Callers /\ joined'[d] = joined[d] /\ joined[d] \in Tasks
    BY <1>3 DEF MemoInv, RegistrationIsTrue
  <2>2. Runnable(d) /\ \A e \in Waiting : joined[e] = registered => d \in ahead[e]
    BY <2>1 DEF MemoInv, EarlierWaitersLeaveFirst
  <2>3. Runnable(d)'
    BY <1>7, <2>1, <2>2 DEF Runnable
  <2>4. \A e \in Waiting' : e \in Waiting /\ joined'[e] = joined[e] /\ ahead'[e] = ahead[e]
    BY <1>3
  <2> QED BY <2>2, <2>3, <2>4
<1>10. NoOrphanDigest'
  <2> SUFFICES ASSUME resets = 0, NEW u \in Tasks, task'[u] = "running"
               PROVE  \E d \in Waiting' : joined'[d] = u
    BY DEF NoOrphanDigest
  <2>1. task[u] = "running" /\ registered = u
    BY <1>5 DEF MemoInv, RegistrationIsTrue
  <2>2. PICK d \in Waiting : joined[d] = u
    BY <2>1 DEF MemoInv, NoOrphanDigest
  <2>3. CASE d # c
    BY <1>3, <2>2, <2>3
  <2>4. CASE d = c
    <3>1. ~Done(u)
      BY <2>1 DEF Done, Outcomes
    <3>2. waiters # 1
      BY <1>5, <2>2, <2>4, <3>1 DEF CancelsOnLast
    <3>3. PICK e \in Waiting : e # c
      <4>1. Waiting # {c}
        BY <3>2, FS_Singleton DEF MemoInv, MemoTypeOK
      <4> QED BY <4>1
    <3>4. joined[e] = u
      <4>1. \A f \in ahead[c] : f \notin Waiting
        BY <2>2, <2>4, <3>1
      <4> QED BY <2>1, <2>2, <2>4, <4>1 DEF MemoInv, EarlierWaitersLeaveFirst
    <3> QED BY <1>3, <3>3, <3>4
  <2> QED BY <2>3, <2>4
<1> QED BY <1>6, <1>8, <1>9, <1>10 DEF MemoInv

\* A caller is answered without a wait, from the cache or by a task that is done.
LEMMA AnswerKeepsInv ==
    ASSUME MemoInv, NEW c \in Callers, caller[c] = "idle", NEW out \in Finished,
           caller' = [caller EXCEPT ![c] = out],
           UNCHANGED <<joined, ahead, gaveUp, taskVars, waiters, resets>>
    PROVE  MemoInv'
<1>1. Waiting' = Waiting
  BY DEF Waiting, Finished, MemoInv, MemoTypeOK
<1>2. MemoTypeOK'
  BY <1>1 DEF taskVars, MemoInv, MemoTypeOK
<1>3. \A d \in Callers : Runnable(d)' = Runnable(d)
  BY <1>1 DEF Runnable, Done, taskVars
<1>4. RegistrationIsTrue' /\ NoOrphanDigest'
  BY <1>1 DEF taskVars, MemoInv, RegistrationIsTrue, NoOrphanDigest, Done
<1>5. EarlierWaitersLeaveFirst'
  <2>1. Waiting \subseteq Callers
    BY DEF Waiting
  <2> QED BY <1>1, <1>3, <2>1 DEF taskVars, MemoInv, EarlierWaitersLeaveFirst
<1> QED BY <1>2, <1>4, <1>5 DEF MemoInv

\* The shared task ends, or its callback takes it off the registration.
LEMMA DigestEndsKeepsInv == \A t \in Tasks : MemoInv /\ DigestEnds(t) => MemoInv'
<1> SUFFICES ASSUME NEW t \in Tasks, MemoInv, DigestEnds(t) PROVE MemoInv'
  OBVIOUS
<1>1. UNCHANGED <<callerVars, registered, waiters, cached, resets>> /\ Waiting' = Waiting
  BY DEF DigestEnds, callerVars, Waiting
<1>2. /\ task' \in [Tasks -> TaskStates]
      /\ task[t] \notin Outcomes /\ Done(t)' /\ task[t] # "unborn"
      /\ \A u \in Tasks \ {t} : task'[u] = task[u]
  BY DEF DigestEnds, Done, Outcomes, TaskStates, MemoInv, MemoTypeOK
<1>3. unfinished' = unfinished \cup {t}
  BY DEF DigestEnds
<1>4. MemoTypeOK'
  BY <1>1, <1>2, <1>3 DEF callerVars, MemoInv, MemoTypeOK
<1>5. task'[t] # "unborn" /\ task'[t] # "running"
  BY <1>2 DEF Done, Outcomes
<1>6. RegistrationIsTrue'
  <2>1. \A u \in Tasks : task'[u] = "running" => registered' = u
    BY <1>1, <1>2, <1>5 DEF MemoInv, RegistrationIsTrue
  <2>2. \A u \in unfinished' : Done(u)'
    BY <1>2, <1>3 DEF Done, MemoInv, MemoTypeOK, RegistrationIsTrue
  <2>3. \A d \in Waiting' : joined'[d] \in Tasks /\ task'[joined'[d]] # "unborn"
    BY <1>1, <1>2, <1>5 DEF callerVars, MemoInv, RegistrationIsTrue
  <2>4. registered' # NoTask => task'[registered'] # "unborn"
    BY <1>1, <1>2, <1>5 DEF MemoInv, MemoTypeOK, RegistrationIsTrue
  <2> QED BY <1>1, <2>1, <2>2, <2>3, <2>4 DEF MemoInv, RegistrationIsTrue
<1>7. \A d \in Waiting : Runnable(d) => Runnable(d)'
  <2> SUFFICES ASSUME NEW d \in Waiting, Runnable(d) PROVE Runnable(d)'
    OBVIOUS
  <2>1. joined[d] \in Tasks /\ joined[d] # t
    BY <1>2 DEF Runnable, Done, MemoInv, RegistrationIsTrue
  <2> QED BY <1>1, <1>2, <1>3, <2>1 DEF Runnable, Done, callerVars
<1>8. EarlierWaitersLeaveFirst'
  BY <1>1, <1>7 DEF callerVars, MemoInv, EarlierWaitersLeaveFirst
<1>9. NoOrphanDigest'
  BY <1>1, <1>2, <1>5 DEF callerVars, MemoInv, NoOrphanDigest
<1> QED BY <1>4, <1>6, <1>8, <1>9 DEF MemoInv

LEMMA DoneCallbackKeepsInv == \A t \in Tasks : MemoInv /\ DoneCallback(t) => MemoInv'
<1> SUFFICES ASSUME NEW t \in Tasks, MemoInv, DoneCallback(t) PROVE MemoInv'
  OBVIOUS
<1>1. /\ UNCHANGED <<callerVars, task, waiters, resets>> /\ Waiting' = Waiting
      /\ unfinished' = unfinished \ {t}
      /\ \/ registered = t /\ registered' = NoTask /\ cached' \in BOOLEAN
         \/ registered # t /\ UNCHANGED <<registered, cached>>
  BY DEF DoneCallback, IsRegistered, callerVars, Waiting, MemoInv, MemoTypeOK
<1>2. Done(t)
  BY DEF DoneCallback, MemoInv, RegistrationIsTrue
<1>3. MemoTypeOK'
  BY <1>1 DEF callerVars, MemoInv, MemoTypeOK
<1>4. RegistrationIsTrue'
  <2>1. \A u \in Tasks : task'[u] = "running" => registered' = u
    BY <1>1, <1>2 DEF Done, Outcomes, MemoInv, RegistrationIsTrue
  <2>2. \A u \in unfinished' : Done(u)'
    BY <1>1 DEF Done, MemoInv, RegistrationIsTrue
  <2>3. cached' => registered' = NoTask
    BY <1>1 DEF MemoInv, RegistrationIsTrue
  <2> QED BY <1>1, <2>1, <2>2, <2>3 DEF callerVars, MemoInv, RegistrationIsTrue
<1>5. EarlierWaitersLeaveFirst'
  <2> SUFFICES ASSUME resets = 0, NEW d \in Waiting, joined[d] # registered'
               PROVE  /\ Runnable(d)'
                      /\ \A e \in Waiting : joined[e] = registered' => d \in ahead[e]
    BY <1>1 DEF callerVars, EarlierWaitersLeaveFirst
  <2>1. Runnable(d) => Runnable(d)'
    BY <1>1 DEF Runnable, Done, callerVars
  <2>2. CASE joined[d] = t
    <3>1. Runnable(d)'
      BY <1>1, <1>2, <2>2 DEF Runnable, Done, callerVars
    <3>2. CASE registered = t
      BY <1>1, <3>1, <3>2, DigestAssumption DEF MemoInv, RegistrationIsTrue
    <3>3. CASE registered # t
      BY <1>1, <2>2, <3>1, <3>3 DEF MemoInv, EarlierWaitersLeaveFirst
    <3> QED BY <3>2, <3>3
  <2>3. CASE joined[d] # t
    <3>1. joined[d] # registered
      BY <1>1, <2>3
    <3>2. \A e \in Waiting : joined[e] = registered' => registered' = registered
      BY <1>1, DigestAssumption DEF MemoInv, RegistrationIsTrue
    <3> QED BY <2>1, <3>1, <3>2 DEF MemoInv, EarlierWaitersLeaveFirst
  <2> QED BY <2>2, <2>3
<1>6. NoOrphanDigest'
  BY <1>1 DEF callerVars, MemoInv, NoOrphanDigest
<1> QED BY <1>3, <1>4, <1>5, <1>6 DEF MemoInv

LEMMA ClearMemoKeepsInv == MemoInv /\ ClearMemo => MemoInv'
<1> SUFFICES ASSUME MemoInv, ClearMemo PROVE MemoInv'
  OBVIOUS
<1>1. /\ UNCHANGED <<callerVars, unfinished, waiters>> /\ Waiting' = Waiting
      /\ registered' = NoTask /\ ~cached' /\ cached' \in BOOLEAN
      /\ resets' \in 0..MaxResets /\ resets' # 0
  <2>1. Waiting' = Waiting
    BY DEF ClearMemo, callerVars, Waiting
  <2>2. resets' \in 0..MaxResets /\ resets' # 0
    BY DigestAssumption DEF ClearMemo, MemoInv, MemoTypeOK
  <2> QED BY <2>1, <2>2 DEF ClearMemo
<1>2. /\ task' \in [Tasks -> TaskStates]
      /\ \A u \in Tasks :
            \/ task'[u] = task[u] /\ (u = registered => Done(u))
            \/ ~Done(u) /\ task'[u] = "cancelling"
  BY DigestAssumption DEF ClearMemo, TaskStates, Done, MemoInv, MemoTypeOK
<1>3. MemoTypeOK'
  BY <1>1, <1>2 DEF callerVars, MemoInv, MemoTypeOK
<1>4. RegistrationIsTrue'
  <2>1. \A u \in Tasks : task'[u] # "running"
    BY <1>2 DEF Done, Outcomes, MemoInv, RegistrationIsTrue
  <2>2. \A u \in unfinished' : Done(u)'
    BY <1>1, <1>2 DEF Done, MemoInv, MemoTypeOK, RegistrationIsTrue
  <2>3. \A d \in Waiting' : joined'[d] \in Tasks /\ task'[joined'[d]] # "unborn"
    BY <1>1, <1>2 DEF callerVars, MemoInv, RegistrationIsTrue
  <2> QED BY <1>1, <2>1, <2>2, <2>3 DEF RegistrationIsTrue
<1> QED
  BY <1>1, <1>3, <1>4 DEF MemoInv, EarlierWaitersLeaveFirst, NoOrphanDigest

LEMMA MemoInvStep == MemoInv /\ [MemoNext]_memoVars => MemoInv'
<1> SUFFICES ASSUME MemoInv, [MemoNext]_memoVars PROVE MemoInv'
  OBVIOUS
<1>0. \A t \in Tasks : ResultOf(t) \in Finished
  BY DEF ResultOf, Finished
<1>1. ASSUME NEW c \in Callers, CacheHit(c) PROVE MemoInv'
  BY <1>1, AnswerKeepsInv DEF CacheHit, Finished
<1>2. ASSUME NEW c \in Callers, JoinRegistered(c) PROVE MemoInv'
  <2>1. registered \in Tasks /\ caller[c] = "idle" /\ ~cached /\ UNCHANGED <<taskVars, resets>>
    BY <1>2 DEF JoinRegistered, MemoInv, MemoTypeOK
  <2>2. CASE ~Done(registered) /\ Join(c, registered)
    <3>1. UNCHANGED <<task, unfinished, registered, cached, resets>>
      BY <2>1 DEF taskVars
    <3> QED BY <2>1, <2>2, <3>1, JoinKeepsInv DEF MemoInv, MemoTypeOK
  <2>3. CASE /\ caller' = [caller EXCEPT ![c] = ResultOf(registered)]
             /\ UNCHANGED <<joined, ahead, gaveUp, waiters>>
    BY <1>0, <2>1, <2>3, AnswerKeepsInv
  <2> QED BY <1>2, <2>2, <2>3 DEF JoinRegistered
<1>3. ASSUME NEW c \in Callers, StartDigest(c) PROVE MemoInv'
  <2>1. PICK t \in Tasks : /\ task[t] = "unborn" /\ task' = [task EXCEPT ![t] = "running"]
                           /\ registered' = t /\ Join(c, t)
    BY <1>3 DEF StartDigest
  <2>2. ~Done(t)
    BY <2>1 DEF Done, Outcomes
  <2> QED BY <1>3, <2>1, <2>2, JoinKeepsInv DEF StartDigest, MemoInv, MemoTypeOK
<1>4. ASSUME NEW c \in Callers, Wake(c) PROVE MemoInv'
  <2>1. c \in Waiting /\ Done(joined[c]) /\ ResultOf(joined[c]) \in Finished
    BY <1>0, <1>4 DEF Wake, Runnable, MemoInv, RegistrationIsTrue
  <2> QED BY <1>4, <2>1, LeaveKeepsInv DEF Wake, MemoInv, MemoTypeOK
<1>5. ASSUME NEW c \in Callers, GiveUp(c) PROVE MemoInv'
  <2>1. "cancelled" \in Finished /\ gaveUp' \subseteq Callers
    BY <1>5 DEF GiveUp, Finished, MemoInv, MemoTypeOK
  <2> QED BY <1>5, <2>1, LeaveKeepsInv DEF GiveUp
<1>6. CASE Evict
  <2>1. UNCHANGED <<callerVars, task, unfinished, registered, waiters, resets>> /\ ~cached'
        /\ cached' \in BOOLEAN /\ Waiting' = Waiting
    BY <1>6 DEF Evict, callerVars, Waiting
  <2> QED BY <2>1 DEF callerVars, MemoInv, MemoTypeOK, RegistrationIsTrue,
                      EarlierWaitersLeaveFirst, NoOrphanDigest, Runnable, Done
<1>7. CASE UNCHANGED memoVars
  <2>1. Waiting' = Waiting
    BY <1>7 DEF memoVars, callerVars, Waiting
  <2> QED BY <1>7, <2>1 DEF memoVars, callerVars, taskVars, MemoInv, MemoTypeOK, RegistrationIsTrue,
                            EarlierWaitersLeaveFirst, NoOrphanDigest, Runnable, Done
<1> QED
  BY <1>1, <1>2, <1>3, <1>4, <1>5, <1>6, <1>7, DigestEndsKeepsInv, DoneCallbackKeepsInv,
     ClearMemoKeepsInv DEF MemoNext

LEMMA MemoInvHolds == MemoSpec => []MemoInv
<1> QED BY MemoInvInit, MemoInvStep, PTL DEF MemoSpec

\* The types of the memo, and that the waiter count is that of the callers that
\* wait, on whichever tasks of the key.
THEOREM WaiterCountIsTrue == MemoSpec => []MemoTypeOK
<1>1. MemoInv => MemoTypeOK
  BY DEF MemoInv
<1> QED BY <1>1, MemoInvHolds, PTL

\* The same read is not paid for twice: of the tasks of a key at most one runs,
\* the registered one, and none while a completed digest is kept.
THEOREM NeverTwoDigests == MemoSpec => []OneDigestAtATime
<1>1. MemoInv => OneDigestAtATime
  <2> SUFFICES ASSUME MemoInv PROVE OneDigestAtATime
    OBVIOUS
  <2> DEFINE running == {t \in Tasks : task[t] = "running"}
  <2>1. running \subseteq {registered}
    BY DEF MemoInv, RegistrationIsTrue
  <2>2. cached => running = {}
    BY DigestAssumption DEF MemoInv, RegistrationIsTrue
  <2>3. running = {} \/ running = {registered}
    BY <2>1
  <2>4. Cardinality(running) <= 1
    <3>1. Cardinality({}) = 0 /\ Cardinality({registered}) = 1
      BY FS_EmptySet, FS_Singleton
    <3> HIDE DEF running
    <3> QED BY <2>3, <3>1
  <2> QED BY <2>2, <2>4 DEF OneDigestAtATime
<1> QED BY <1>1, MemoInvHolds, PTL

\* No digest runs on for nobody: without a clear(), somebody waits on the digest
\* that runs, whoever times out and in whatever order the waiters wake.
THEOREM EveryDigestHasAWaiter == MemoSpec => []NoOrphanDigest
<1>1. MemoInv => NoOrphanDigest
  BY DEF MemoInv
<1> QED BY <1>1, MemoInvHolds, PTL
=============================================================================
