SPECIFICATION ComboSpec
CONSTANTS
    k1 = k1
    k2 = k2
    k3 = k3
    k4 = k4
    MemberKeys = {k1, k2, k3, k4}
    Combos = {1, 2}
    Chord <- TwoChords
    CacheSize = 4
    Presses = 4
    FireTerm = 0
    Wait = 1
    Term = 1
    Holds = FALSE
    Nothing = Nothing
INVARIANTS PressMeetsItsChord ReleaseEndsItsChord NothingSticks
