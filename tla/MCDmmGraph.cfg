\* Graph messages at top level and from receiving handlers (connect,
\* disconnect and remove other nodes), peer-record allocation failures.
SPECIFICATION Spec
CONSTANTS
    n1 = n1
    n2 = n2
    n3 = n3
    Nodes = {n1, n2, n3}
    NodeType <- MCTypes
    Names <- MCNames
    NoHook = NoHook
    AllocFail = TRUE
    RcvOps <- MCRcvOpsSafe
INVARIANTS TypeOK RefsMatch GraphWellFormed HookPeered PvtOutAccurate
PROPERTY SendReachesPeers
