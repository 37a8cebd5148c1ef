SPECIFICATION Spec
CONSTANTS
    n1 = n1
    n2 = n2
    n3 = n3
    c1 = c1
    c2 = c2
    c3 = c3
    c4 = c4
    Nodes = {n1, n2, n3}
    Founders <- ThreeFounders
    Refs = {c1, c2, c3}
    NoRef = NoRef
    Genesis = Genesis
    NoState = NoState
    Hash <- MCHashUpto3
    MaxEpoch = 2
    MaxCrashes = 0
    Fenced = FALSE
    OrderingFails = TRUE
    Competing = FALSE
INVARIANTS DecidedChain
CHECK_DEADLOCK FALSE
