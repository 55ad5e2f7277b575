CONSTANTS
    messages = messages
    blocks = blocks
    f1 = f1
    f2 = f2
    MaxEpoch = 3
    NullRounds = {1}
    Tasks = {messages}
    Fillers = {f1}

SPECIFICATION Spec
INVARIANT FailedGapStaysOpen
