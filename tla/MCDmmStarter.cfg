SPECIFICATION Spec
CONSTANTS
    ConfigFiles <- MCConfigFiles
    Modules <- MCModules
    PathMax = 4096
    TypeNameSize = 32
    AllocFail = TRUE
    OpFail = TRUE
    MaxTT = 24
    Garbage = Garbage
    NumStates = 2
    NetIfs = 2
    MaxCores = 2
    MaxHotplug = 2
    MaxLost = 1
    InReads = 2
CHECK_DEADLOCK FALSE
INVARIANTS TypeOK ArgsFresh PipelineBuilt StarterMemorySafe
PROPERTY StarterQuiesces
