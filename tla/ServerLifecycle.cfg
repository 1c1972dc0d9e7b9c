SPECIFICATION Spec
CONSTANTS
    Servers = {s1, s2}
    Old = old
    NoOne = none
    s1 = s1
    s2 = s2
    old = old
    none = none
INVARIANTS RefusalJustified ServingOwnsName
CHECK_DEADLOCK FALSE
