CONSTANTS
  a = a
  b = b
  c = c
  d = d
  e = e
  z1 = z1
  z2 = z2
  z3 = z3
  z4 = z4
  z5 = z5
  z6 = z6
  Nodes <- MCNodes
  Founder = a
  Encrypting = {a}
  PSKHolders = {b, c, d, e}
  Absent <- MCAbsent
  Plans <- MCPlans
  MaxEpoch = 3
  MaxLeaves = 9
  MaxLag = 0
  MaxProposals = 2
  ProposalEpochs = {1}
  ProposalSizes = {2}
  ExternalSizes = {1, 2, 3}
SPECIFICATION Spec
INVARIANTS EvictedStays ViewsAgree KeysMatch HoldersBelow EvictionNoticed FollowsUnless JoinersAdmitted
CHECK_DEADLOCK FALSE
SYMMETRY Symmetry
