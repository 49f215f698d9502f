SPECIFICATION FairSpec
CONSTANTS
    TouchIds = {t1, t2, t3}
    NoTouch = NoTouch
    MaxStored = 2
INVARIANT HeldBackRightly
PROPERTIES StreamWellFormed TouchForgotten
