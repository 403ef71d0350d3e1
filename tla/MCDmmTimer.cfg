\* Timers under handlers that touch other timers and themselves, and remove
\* nodes (their own from trigger handlers, any from socket handlers).
SPECIFICATION Spec
CONSTANTS
    n1 = n1
    n2 = n2
    none = none
    Nodes <- MCNodes
    Starter <- n1
    NoNode <- none
    MaxTimers = 2
    MaxOps = 3
    SetNext <- MCSetNext
    AbsNext = {}
    SetIntervals <- MCIntervals
    SetFlags = {{}}
    Lag = 1
    MaxWait = 2
    MinDue <- MCMinDue
    StartupOps <- MCStartupOps
    SockOps <- MCSockOpsRm
    TriggerOps <- MCTriggerOpsRm
    TriggerTimers = "others"
    TriggerNodes = "self"
    StaleIds = FALSE
INVARIANT TypeOK
INVARIANT RefsMatchHolders
INVARIANT SetHonoured
PROPERTY PassTerminates
\* With every node removed and no timer armed, epoll_wait(-1) blocks for good.
CHECK_DEADLOCK FALSE
