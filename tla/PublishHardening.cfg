\* Two workers: an abandoned POST and its own retry can hold both while the other question queues.
SPECIFICATION FairSpec
CONSTANTS
    Publishers = {p1, p2}
    Workers = 2
    Attempts = 2
    Cap = 2
    SocketTimeout = 2
    Pause = 1
INVARIANTS
    TypeOK
    ExhaustedCallsCounted
PROPERTIES
    RepeatedOnlyWithoutVerdict
    ImplementsPromise
    EveryPublishReturns
CHECK_DEADLOCK FALSE
