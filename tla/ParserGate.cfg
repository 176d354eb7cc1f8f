\* Two slots for two PDFs, two local sources and a digest, each of which comes back for more.
SPECIFICATION Spec
CONSTANTS
    p1 = p1
    p2 = p2
    s1 = s1
    s2 = s2
    d1 = d1
    Readers = {p1, p2, s1, s2, d1}
    Kind <- KindOf
    Slots = 2
INVARIANTS
    TypeOK
    SlotsConserved
    OnlyAbandonedExceed
PROPERTIES
    WaitersAreServed
