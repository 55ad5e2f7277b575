CONSTANTS
    b1 = b1
    b2 = b2
    m1 = m1
    m2 = m2
    Blocks = {b1, b2}
    Msgs = {m1, m2}
    GasLimits = {1, 2}
    BaseFees = {8}
    BlockGasTarget = 2
    MinimumBaseFee = 1
    MaxChangeDenom = 2

SPECIFICATION Spec
INVARIANT RecordsComplete
\* One tipset's extraction ends, done or failed.
CHECK_DEADLOCK FALSE
