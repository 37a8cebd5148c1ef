CONSTANTS
  c0 = c0
  c1 = c1
  c2 = c2
  Founder = c0
  Scenarios <- MCScenarios
SPECIFICATION FairSpec
INVARIANTS OnlyLateSendersLose WelcomeCurrent LogComplete
PROPERTIES GhostsPruned Converges LagEnds
CHECK_DEADLOCK FALSE
