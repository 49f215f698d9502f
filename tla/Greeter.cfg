SPECIFICATION FairSpec
CONSTANTS
    Users = {alice, bob}
    Handles = {h1, h2}
    NoHandle = NoHandle
    NoUser = NoUser
    MaxPrompts = 2
    MaxNesting = 1
INVARIANT ConversationIsOne
PROPERTIES HandleOutlivesThread InputReturns CancelledThreadEnds
