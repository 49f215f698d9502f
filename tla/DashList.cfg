SPECIFICATION ListSpec
CONSTANTS
    chess = chess
    cards = cards
    dice = dice
    editor = editor
    Rows = {chess, cards, dice, editor}
    Section <- MCSection
    InitialRows <- MCInitialRows
    NoSection = NoSection
    ItemHeight = 1
    HeaderHeights = {1, 2}
    Expandable = {editor}
    ViewHeight = 2
    CacheBuffer = 1
    Steps <- MCSteps
    InsertCounts = {1, 2}
    MaxY = 2
    MaxMinY = 1
    MaxEvents = 1
CHECK_DEADLOCK FALSE
SYMMETRY Symmetry
CONSTRAINTS StillInOrder FewAtOnce
INVARIANTS RequestIsRunning
PROPERTIES OrderIsKept ViewportStaysFilled InsertKeepsViewport
