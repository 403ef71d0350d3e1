\* A TIMER_TRIGGER handler unsubscribes any node from, or removes, any timer.
SPECIFICATION Spec
CONSTANTS
    n1 = n1
    n2 = n2
    none = none
    Nodes <- MCNodes
    Starter <- n1
    NoNode <- none
    MaxTimers = 2
    MaxOps = 3
    SetNext <- MCSetNext
    AbsNext = {}
    SetIntervals <- MCIntervals
    SetFlags = {{}}
    Lag = 1
    MaxWait = 2
    MinDue <- MCMinDue
    StartupOps <- MCStartupOps
    SockOps <- MCSockOps
    TriggerOps = {"unsubscribe", "remove"}
    TriggerTimers = "any"
    TriggerNodes = "any"
    StaleIds = FALSE
INVARIANT TriggerWalksSafe
