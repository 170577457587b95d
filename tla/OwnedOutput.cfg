SPECIFICATION Spec
CONSTANTS
    ctrl = ctrl
    shift = shift
    a = a
    k1 = k1
    k2 = k2
    Mods = {ctrl, shift}
    Usages = {a}
    Keys = {k1, k2}
    Keycodes <- AllKeycodes
    KeycodeOf <- NativeMixed
    ComboKeys = {}
    ModeMods <- CtrlMode
    MaxCount = 5
    MaxWaiting = 2
    None = None
INVARIANTS
    NoOwnerClearsAnother
    NothingOutlivesItsOwners
    CountsMatchOwners
