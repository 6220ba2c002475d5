CONSTANTS
  ada = ada
  tobi = tobi
  c1 = c1
  c2 = c2
  Users <- AdaAndTobi
  Calls <- TwoCalls
  MaxRemovals = 1
  MaxActs = 8
SPECIFICATION Spec
INVARIANTS TypeOK ConsentOnBothSides BlockedAfterTwoRefusals MutualLikesMatch
PROPERTY MatchIsWelcome
CHECK_DEADLOCK FALSE
