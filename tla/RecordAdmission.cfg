SPECIFICATION FairSpec
CONSTANTS
    Keys = {d1, d2, m, o}
    Dual = {d1, d2}
    Mods = {m}
    Outputs = {o}
    Capacity = 2
    EdgesPerPass = 2
    None = None
INVARIANTS EveryPressEndsOnce PressMeetsWhatWasDown
PROPERTIES QueueKeepsMoving
