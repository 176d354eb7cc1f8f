\* A PDF whose reader leaves; another PDF and a source take the slots that are then free.
SPECIFICATION Spec
CONSTANTS
    p1 = p1
    p2 = p2
    s1 = s1
    s2 = s2
    d1 = d1
    Readers = {p1, p2, s1}
    Kind <- KindOf
    Slots = 2
INVARIANT
    ParsesBounded
