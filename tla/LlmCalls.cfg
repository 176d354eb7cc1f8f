\* A forecaster's call and a stacker's; a wall beyond the fast limit, a probe that may be given up before the wall.
SPECIFICATION Spec
CONSTANTS
    forecaster = forecaster
    stacker = stacker
    Callers <- MCCallers
    Broad <- MCBroad
    Attempts <- MCAttempts
    WallTimeout = 2
    MaxElapsed = 1
    Backoff = 1
    ProbeTimeout = 1
    Horizon = 2
INVARIANTS
    KeyProbedOnce
    SlowAttemptsAreRare
    GreenIsHonest
PROPERTIES
    EveryCallEnds
