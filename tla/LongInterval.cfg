CONSTANTS
    w1 = w1  w2 = w2
    Worker = {w1}
    Intervals = {2, 26}
    MinInterval = 2
    Second = 10
    Wrap = 256
    Patience = 1
    MaxChanges = 2
    MaxRestarts = 0
SPECIFICATION Spec
CHECK_DEADLOCK FALSE
INVARIANTS TickerIsCurrent
