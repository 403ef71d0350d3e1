\* A SOCKEVENTTRIGGER whose message cannot be allocated (ENOMEM in
\* dmm_sockevent_trigger): the object loses a reference it never took.
SPECIFICATION Spec
CONSTANTS
    Fds <- MCFds
    Nodes <- MCNodes
    SeIds <- MCSeIds
    Masks <- MCMasks
    a = a
    b = b
    s1 = s1
    s2 = s2
    s3 = s3
    NoSe = NoSe
    NoNode = NoNode
    MaxGen = 2
    CloseAny = FALSE
    AllocFailSub = TRUE
    AllocFailTrig = TRUE
    RcvOps = {"unsub", "rm"}
SYMMETRY MCSymmetry
CHECK_DEADLOCK FALSE
INVARIANT SeRefsMatch
