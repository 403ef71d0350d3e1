SPECIFICATION Spec
CONSTANTS
    ConfigFiles <- MCPipelineConfig
    Modules <- MCModules
    PathMax = 4096
    TypeNameSize = 32
    AllocFail = FALSE
    OpFail = FALSE
    MaxTT = 6
    Garbage = Garbage
    NumStates = 2
    NetIfs = 2
    MaxCores = 3
    MaxHotplug = 2
    MaxLost = 0
    InReads = 3
CHECK_DEADLOCK FALSE
INVARIANT PrevValInBounds
