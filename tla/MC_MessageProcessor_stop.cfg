CONSTANTS
    w1 = w1
    w2 = w2
    none = none
    NoWorker = none
    Workers <- MCOneWorker
    Heights = {0, 1, 2}
    MaxHeight = 2
    MinHeight = 1
    LeaseLength = 2
    BatchSize = 2
    MaxTime = 1
    MaxCrashes = 1

SPECIFICATION LiveSpec
PROPERTY EventuallyAllCompleted
