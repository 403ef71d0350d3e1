\* Socket events with careful modules (close only unsubscribed
\* descriptors), allocation failures while subscribing, and trigger
\* handlers that unsubscribe or remove themselves.  The daemon may wait in
\* epoll_wait forever once the bounds are used up, so deadlock is not an error.
SPECIFICATION Spec
CONSTANTS
    Fds <- MCFds
    Nodes <- MCNodes
    SeIds <- MCSeIds
    Masks <- MCMasks
    a = a
    b = b
    s1 = s1
    s2 = s2
    s3 = s3
    NoSe = NoSe
    NoNode = NoNode
    MaxGen = 2
    CloseAny = FALSE
    AllocFailSub = TRUE
    AllocFailTrig = FALSE
    RcvOps = {"unsub", "rm"}
SYMMETRY MCSymmetry
CHECK_DEADLOCK FALSE
INVARIANTS TypeOK SeRefsMatch EpollMatchesObjects
PROPERTY TriggerReachesAll ImplementsService
