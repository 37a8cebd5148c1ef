CONSTANTS
  c0 = c0
  c1 = c1
  c2 = c2
  Founder = c0
  Scenarios <- TwoRekeys
SPECIFICATION Spec
INVARIANT ZeroKeyLoss
CHECK_DEADLOCK FALSE
