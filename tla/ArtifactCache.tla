---------------------------- MODULE ArtifactCache ----------------------------
(***************************************************************************)
(* run_cache: the bounded cache of complete reads.  Two ordered maps are   *)
(* kept in step: _CACHE finds an entry by any URL that names it, and       *)
(* _ENTRIES holds each entry once, least recently used first, and is what  *)
(* the bounds count.  A reader presents an entry off the loop and comes    *)
(* back after an await, when other readers and writers may have replaced,  *)
(* evicted or cleared what it found.                                       *)
(*                                                                         *)
(* The order of _ENTRIES is kept as, for each entry, the entries used less *)
(* recently.  The order of _CACHE decides nothing.                         *)
(***************************************************************************)
EXTENDS Naturals, FiniteSets

CONSTANTS
    Urls,        \* the URLs asked for or landed on
    Readers,     \* concurrent calls of get()
    MaxPuts,     \* bound: entries ever created, the sequence numbers
    MaxClears,   \* bound: calls of clear()
    MaxEntries,  \* _MAX_ENTRIES
    MaxBytes,    \* LOCAL_SOURCE_CACHE_MAX_BYTES
    Sizes,       \* the retained_bytes an artifact may have
    NoEntry

Ids == 1..MaxPuts

ASSUME CacheAssumption ==
    /\ MaxPuts \in Nat
    /\ MaxClears \in Nat
    /\ MaxEntries \in Nat
    /\ MaxBytes \in Nat
    /\ Sizes \subseteq Nat
    /\ NoEntry \notin Ids

VARIABLES
    cache,     \* url -> the entry _CACHE finds, or NoEntry
    entries,   \* the entries in _ENTRIES
    older,     \* entry -> the entries of _ENTRIES before it
    aliases,   \* entry -> its aliases
    size,      \* entry -> retained_bytes of its artifact
    puts,      \* sequence numbers drawn
    clears,    \* how often clear() ran
    reader     \* reader -> where its get() stands: the url and the entry it presents

store == <<cache, entries, older, aliases>>
vars == <<store, size, puts, clears, reader>>

Idle == [at |-> "idle"]
Presenting(u, e) == [at |-> "presenting", url |-> u, entry |-> e]

Init ==
    /\ cache = [u \in Urls |-> NoEntry]
    /\ entries = {}
    /\ older = [e \in Ids |-> {}]
    /\ aliases = [e \in Ids |-> {}]
    /\ size = [e \in Ids |-> 0]
    /\ puts = 0
    /\ clears = 0
    /\ reader = [r \in Readers |-> Idle]

-----------------------------------------------------------------------------
(* The two maps *)

\* The sum of the sizes of the entries of S, each byte of each entry counted once.
Bytes(S, bytes) == Cardinality(UNION {{e} \X (1..bytes[e]) : e \in S})
Fits(S) == Cardinality(S) <= MaxEntries /\ Bytes(S, size') <= MaxBytes

\* A broken bound: entries are counted, bytes are not.
CountOnly(S, order) ==
    {D \in {{}} \cup {order[e] \cup {e} : e \in S} : Cardinality(S \ D) <= MaxEntries}
\* The prefixes of the order whose removal leaves the rest within both bounds.
Prefixes(S, order) ==
    {D \in {{}} \cup {order[e] \cup {e} : e \in S} : Fits(S \ D)}

\* _evict_to_bounds: drop from the front until what is left fits.
Evicted(S, order) ==
    CHOOSE D \in Prefixes(S, order) : \A F \in Prefixes(S, order) : D \subseteq F

\* The order once the entries of D are gone, and once e moved to its end.
Dropping(order, D) == [e \in Ids |-> IF e \in D THEN {} ELSE order[e] \ D]
ToEnd(order, S, e) == [f \in Ids |-> IF f = e THEN S \ {e} ELSE order[f] \ {e}]

\* A broken eviction: the URLs go on finding what was evicted.
StillFinding(found, out) == found
\* Each URL that finds an evicted entry forgets it.
Forgetting(found, out) == [u \in Urls |-> IF found[u] \in out THEN NoEntry ELSE found[u]]

\* put: the new entry takes the requested URL and the landing URL from whatever
\* held them; an entry left without an alias is dropped.
Put(requested, landed) ==
    LET e == puts + 1
        names == {requested, landed}
        taken(f) == {u \in names : cache[u] = f}
        left == [f \in Ids |-> IF f = e THEN names ELSE aliases[f] \ taken(f)]
        orphans == {f \in entries : taken(f) # {} /\ left[f] = {}}
        held == (entries \ orphans) \cup {e}
        order == ToEnd(Dropping(older, orphans), held, e)
        out == Evicted(held, order)
    IN
    /\ e \in Ids
    /\ puts' = e
    /\ \E bytes \in Sizes : size' = [size EXCEPT ![e] = bytes]
    /\ aliases' = left
    /\ entries' = held \ out
    /\ older' = Dropping(order, out)
    /\ cache' = Forgetting([u \in Urls |-> IF u \in names THEN e ELSE cache[u]], out)
    /\ UNCHANGED <<clears, reader>>

\* A hit moves its entry to the end of the order.
Touch(e) ==
    /\ older' = ToEnd(older, entries, e)
    /\ UNCHANGED <<cache, entries, aliases>>

\* local_source_for, image_source_for: a synchronous lookup of an entry.
Lookup(u) ==
    /\ cache[u] # NoEntry
    /\ Touch(cache[u])
    /\ UNCHANGED <<size, puts, clears, reader>>

Clear ==
    /\ clears < MaxClears
    /\ clears' = clears + 1
    /\ cache' = [u \in Urls |-> NoEntry]
    /\ entries' = {}
    /\ older' = [e \in Ids |-> {}]
    /\ UNCHANGED <<aliases, size, puts, reader>>

-----------------------------------------------------------------------------
(* A reader *)

\* get: a hit is presented under the reader's remaining budget.
StartPresenting(r, u) ==
    /\ reader[r] = Idle
    /\ cache[u] # NoEntry
    /\ reader' = [reader EXCEPT ![r] = Presenting(u, cache[u])]
    /\ UNCHANGED <<store, size, puts, clears>>

\* A broken recheck: whatever the URL finds now is taken for what was presented.
FoundSomething(r) == cache[reader[r].url] # NoEntry
\* The entry found before the await is still the one the URL finds.
StillFound(r) == cache[reader[r].url] = reader[r].entry

Leave(r) == reader' = [reader EXCEPT ![r] = Idle]

\* The policy rejects the artifact: the URL forgets it, and the entry goes with
\* its last alias.
Rejected(r) ==
    LET u == reader[r].url
        e == reader[r].entry
        gone == IF aliases[e] \subseteq {u} THEN {e} ELSE {}
    IN
    /\ reader[r].at = "presenting"
    /\ \/ /\ StillFound(r)
          /\ cache' = [cache EXCEPT ![u] = NoEntry]
          /\ aliases' = [aliases EXCEPT ![e] = @ \ {u}]
          /\ entries' = entries \ gone
          /\ older' = Dropping(older, gone)
       \/ /\ ~StillFound(r)
          /\ UNCHANGED store
    /\ Leave(r)
    /\ UNCHANGED <<size, puts, clears>>

Presented(r) ==
    /\ reader[r].at = "presenting"
    /\ \/ StillFound(r) /\ Touch(reader[r].entry)
       \/ ~StillFound(r) /\ UNCHANGED store
    /\ Leave(r)
    /\ UNCHANGED <<size, puts, clears>>

\* The budget ran out, the reader was cancelled, or the presentation raised.
Abandoned(r) ==
    /\ reader[r].at = "presenting"
    /\ Leave(r)
    /\ UNCHANGED <<store, size, puts, clears>>

Next ==
    \/ \E u, w \in Urls : Put(u, w)
    \/ \E u \in Urls : Lookup(u)
    \/ Clear
    \/ \E r \in Readers :
          \/ \E u \in Urls : StartPresenting(r, u)
          \/ Rejected(r) \/ Presented(r) \/ Abandoned(r)

Spec == Init /\ [][Next]_vars

-----------------------------------------------------------------------------
(* Properties *)

\* The types, and the order: exactly the entries held have a place in it, and it
\* is total, so that moving a hit to its end and evicting from its front both
\* have an entry to act on (move_to_end raises for a key that is gone).
TypeOK ==
    /\ cache \in [Urls -> Ids \cup {NoEntry}]
    /\ entries \subseteq 1..puts
    /\ puts \in 0..MaxPuts
    /\ older \in [Ids -> SUBSET entries]
    /\ \A e \in Ids \ entries : older[e] = {}
    /\ \A e, f \in entries : e \in older[f] <=> e # f /\ f \notin older[e]
    /\ \A e, f \in entries : e \in older[f] => older[e] \subseteq older[f]
    /\ aliases \in [Ids -> SUBSET Urls]
    /\ size \in [Ids -> Nat]
    /\ clears \in 0..MaxClears
    /\ \A r \in Readers :
          reader[r] = Idle \/ \E u \in Urls, e \in 1..puts : reader[r] = Presenting(u, e)

\* Whatever a URL finds is in _ENTRIES and names the URL among its aliases, so
\* that moving it to the end of the order never fails and eviction finds every
\* URL it must forget.
FoundIsHeld ==
    \A u \in Urls : cache[u] # NoEntry => cache[u] \in entries /\ u \in aliases[cache[u]]

\* Whatever is in _ENTRIES is found by every one of its aliases, and has one: no
\* entry holds bytes that no reader can reach.
HeldIsFound ==
    \A e \in entries : aliases[e] # {} /\ \A u \in aliases[e] : cache[u] = e

\* Both bounds hold whenever a call returns.
WithinBounds ==
    /\ Cardinality(entries) <= MaxEntries
    /\ Bytes(entries, size) <= MaxBytes
=============================================================================
