\* Receiving handlers that remove their own node, or disconnect themselves
\* from the sender, mid-send; the middle node is a wavebuf.
SPECIFICATION Spec
CONSTANTS
    n1 = n1
    n2 = n2
    n3 = n3
    Nodes = {n1, n2, n3}
    NodeType <- MCTypesWavebuf
    Names <- MCNames
    NoHook = NoHook
    AllocFail = FALSE
    RcvOps <- MCRcvOpsRmSelf
INVARIANT SendWalkSafe
