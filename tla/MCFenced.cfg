SPECIFICATION FairSpec
CONSTANTS
    Owners = {rr1, rr2}
    NoOwner = NoOwner
    Standby = rr2
    Epochs = {1, 2}
    Refs = {x, y}
    NoRef = NoRef
    x = x
    y = y
    Submissions <- MCSubmissions
    TTL = 1
    MaxSkew = 1
    MaxToken = 3
    MaxRestarts = 1
CONSTRAINT OneRefused
ACTION_CONSTRAINTS SubmittedInOrder LastTokenForStandby
INVARIANTS ExclusiveBelief
PROPERTIES ImplementsLeasedOrdering FencingOrder StandbyTakesOver
CHECK_DEADLOCK TRUE
