CONSTANTS
  left = left
  right = right
  a1 = a1
  a2 = a2
  b = b
  None = None
  Tabs <- TwoTabs
  Accounts <- ThreeAccounts
  Elsewhere <- Other
  MaxAttempts = 2
  Cards = {TRUE, FALSE}
  Erasures = {TRUE}
SPECIFICATION Spec
CONSTRAINT InUse
SYMMETRY Symmetric
INVARIANTS KeysAreKept NoSignupIsStranded OneAccountPerDevice
CHECK_DEADLOCK FALSE
