SPECIFICATION FairSpec
CONSTANTS
    long = long
    short = short
    bad = bad
    Profiles = {long, short}
    Malformed <- MCMalformed
    Len <- MCLen
    MaxLen = 2
    MaxGen = 2
    Bits = {abort, prepared, any}
    PreparedBits = {abort, prepared}
    CommitBits = {abort}
    BitTearing = FALSE
    SectorPages = 5
    Erased = Erased
    Junk = Junk
    NoRecord = NoRecord
    IoError = IoError
INVARIANTS
    SlotsNeverConflict
    SavedIsAuthority
PROPERTIES
    SavedSlotUntouched
    ImplementsSavedProfile
    SaveSettles
CHECK_DEADLOCK FALSE
