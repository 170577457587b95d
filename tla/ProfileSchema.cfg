SPECIFICATION Spec
CONSTANTS
    Kinds <- KindsMC
    Longest <- LongestMC
    BehaviorTables <- TablesMC
    ComboLists <- CombosMC
    SettingsBuilds <- BuildsMC
    SlotTables <- SlotTablesMC
    LightTables <- LightTablesMC
    DomainLists <- DomainListsMC
    Declarations <- DeclarationsMC
    Targets = {1, 2, 3}
    Misplaced = {3}
    MaxBehaviorRows = 2
    MaxSteps = 2
    TapSteps = 2
    Native <- NativeMC
    MaxCombos = 2
    MinInputs = 2
    MaxInputs = 3
    InputsPerStep = 2
    Layers = 2
    Positions = 2
    KeyKinds <- KeyKindsMC
    KeyCount = 2
    NameCount = 2
    NameMax = 2
    SlotCount = 2
    LinkLayers = {1}
    MacroSlots = 2
    BankMax = 5
    StepRead = 3
    Alphabet = {0, 1, 4, 5, 48, 194, 160}
    Compiled = {"layer", "mode", "key"}
    Modes = {0, 2}
    TapColors = 1
    MaxGroups = 2
    MaxStageRows = 2
    Bitmaps = {1, 2}
    Ids = {1, 2, 3}
    Behaviors = 2
    Allowed = {1, 2}
    Required = {1}
    MaxBlob = 6
    ChunkMax = 2
    KeysPerStep = 3
    ToggleKeys = {2}
    ToggleTaps = 2
    HandledKeys = {2}
    ProgramMax = 32
    Scripts <- ScriptsMC
    ProgramBytes <- ProgramBytesMC
    TapKeys = 3
    IrMax = 14
    SpanMax = 13
    TextMax = 3
    DelayMax = 50
INVARIANTS AcceptsExactlyWhatIsWritten ServedAsWritten
CHECK_DEADLOCK FALSE
