\* A TIMER_TRIGGER handler re-arms its own timer.
SPECIFICATION Spec
CONSTANTS
    n1 = n1
    n2 = n2
    none = none
    Nodes <- MCNodes
    Starter <- n1
    NoNode <- none
    MaxTimers = 2
    MaxOps = 3
    SetNext <- MCSetNext
    AbsNext = {}
    SetIntervals <- MCIntervals
    SetFlags = {{}}
    Lag = 1
    MaxWait = 2
    MinDue <- MCMinDue
    StartupOps <- MCStartupOps
    SockOps <- MCSockOps
    TriggerOps = {"set"}
    TriggerTimers = "own"
    TriggerNodes = "self"
    StaleIds = FALSE
INVARIANT SetHonoured
