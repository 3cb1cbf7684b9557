CONSTANTS
    w1 = w1  w2 = w2
    Worker = {w1, w2}
    Intervals = {1, 2, 3}
    MinInterval = 2
    Second = 10
    Wrap = 256
    Patience = 1
    MaxChanges = 2
    MaxRestarts = 1
SPECIFICATION FairSpec
INVARIANTS TypeOK NoChangeLost NoPressLost TickerIsCurrent
PROPERTIES TicksApart PressNotDropped ChangesArePublished PressesAreTaken FollowsChanges
