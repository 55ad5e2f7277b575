CONSTANTS
    a1 = a1
    absent = absent
    Addrs = {a1}
    Caps = {1, 2}
    MaxEpoch = 2
    Absent <- absent

SPECIFICATION Spec
INVARIANT ReplayMatchesState
\* The extraction of a finite chain ends once every height is done.
CHECK_DEADLOCK FALSE
