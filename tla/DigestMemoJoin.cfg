\* Two callers suffice: one joins while the other's cancellation unwinds.
SPECIFICATION MemoSpec
CONSTANTS
    Callers = {c1, c2}
    MaxDigests = 2
    MaxResets = 0
    NoTask = NoTask
INVARIANT
    CancelledOnlyByItself
CHECK_DEADLOCK FALSE
