SPECIFICATION Spec
CONSTANTS
    n1 = n1
    n2 = n2
    n3 = n3
    c1 = c1
    c2 = c2
    c3 = c3
    c4 = c4
    Nodes = {n1, n2}
    Founders <- TwoFounders
    Refs = {c1, c2, c3, c4}
    NoRef = NoRef
    Genesis = Genesis
    NoState = NoState
    Hash <- MCHashUpto3
    MaxEpoch = 3
    MaxCrashes = 0
    Fenced = TRUE
    OrderingFails = TRUE
    Competing = TRUE
CONSTRAINT FourthAlone
VIEW WithoutAnswers
INVARIANTS SACanonical
PROPERTIES SABackOnlyIntoGap
CHECK_DEADLOCK FALSE
