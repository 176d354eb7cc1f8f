SPECIFICATION StoresSpec
CONSTANTS
\* Three URLs, so that entries share and lose aliases; a read of size 3 alone breaks the byte bound.
    Urls = {u1, u2, u3}
    Readers = {r1, r2}
    MaxPuts = 3
    MaxClears = 1
    MaxEntries = 2
    MaxBytes = 2
    Sizes = {1, 2, 3}
    NoEntry = NoEntry
\* Three callers and a clear: a task can be dropped, replaced and outlived.
    Callers = {c1, c2, c3}
    MaxDigests = 3
    MaxResets = 2
    NoTask = NoTask
\* Three contents, and calls of up to three proposals.
    Contents = {A, B, C}
    MaxCalls = 3
    MaxProposals = 3
SYMMETRY Symmetry
INVARIANTS
    TypeOK
    FoundIsHeld
    HeldIsFound
    WithinBounds
    MemoTypeOK
    OneDigestAtATime
    NoOrphanDigest
    BankIsExact
    AnswerIsTrue
\* Puts and digests are bounded, callers call once, and a loop that has concluded is over.
CHECK_DEADLOCK FALSE
