SPECIFICATION Spec
CONSTANTS
    TouchIds = {t1, t2, t3}
    NoTouch = NoTouch
SYMMETRY Symmetry
CHECK_DEADLOCK FALSE
INVARIANTS DragIsEntitled EndIsHeard
