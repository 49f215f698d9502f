SPECIFICATION Spec
CONSTANTS
    i1 = i1
    i2 = i2
    t1 = t1
    t2 = t2
    Items = {i1, i2}
    Destroyable = {i2}
    Watchers = {i1}
    TouchIds = {t1, t2}
    Under <- Overlapping
    NoItem = NoItem
    NoTouch = NoTouch
    MaxSlots = 3
VIEW WithoutEvents
INVARIANTS TypeOK ExclusiveOwnership NoCandidateForgotten OutcomeKnown PoolTight
PROPERTIES ArrivalOrder
