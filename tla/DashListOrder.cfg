SPECIFICATION ListSpec
CONSTANTS
    chess = chess
    cards = cards
    dice = dice
    editor = editor
    Rows = {chess, cards, editor}
    Section <- MCSection
    InitialRows <- MCInitialRows
    NoSection = NoSection
    ItemHeight = 1
    HeaderHeights = {1}
    Expandable = {editor}
    ViewHeight = 2
    CacheBuffer = 1
    Steps <- MCSteps
    InsertCounts = {1}
    MaxY = 2
    MaxMinY = 2
    MaxEvents = 1
CHECK_DEADLOCK FALSE
SYMMETRY Symmetry
INVARIANT RowsInOrder
