SPECIFICATION FairSpec
CONSTANTS
    i1 = i1
    i2 = i2
    t1 = t1
    t2 = t2
    Items = {i1, i2}
    Destroyable = {i2}
    Watchers = {}
    TouchIds = {t1, t2}
    Under <- Overlapping
    NoItem = NoItem
    NoTouch = NoTouch
    MaxSlots = 2
PROPERTIES ImplementsOwnership EveryCandidateAnswered
\* With the pool bounded to two slots no more touches land once null candidates hold both.
CHECK_DEADLOCK FALSE
