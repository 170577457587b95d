SPECIFICATION FairSpec
CONSTANTS
    a = a
    b = b
    c = c
    KeyOrder <- MCOrder
    Layouts <- MCLayouts
    Cap = 8
    MaxDelay = 1
    MaxLag = 3
    MaxPresses = 3
INVARIANTS
    AnsweredOnce
    OutcomeFollowsTheHands
    NothingLeftHeld
    OwnOutputComesFirst
PROPERTIES
    ComesToRest
