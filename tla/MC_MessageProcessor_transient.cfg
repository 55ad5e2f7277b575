CONSTANTS
    w1 = w1
    w2 = w2
    none = none
    NoWorker = none
    Workers <- MCWorkers
    Heights = {0, 1, 2, 3}
    MaxHeight = 3
    MinHeight = 1
    LeaseLength = 2
    BatchSize = 2
    MaxTime = 1
    MaxCrashes = 1

SYMMETRY MCSymmetry
SPECIFICATION Spec
INVARIANT TransientFailureNotCompleted
