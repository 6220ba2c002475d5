CONSTANTS
  left = left
  right = right
  Tabs <- TwoTabs
  Lease <- Leases
  Policies = {"always", "twoHours"}
  MaxNow = 3
  MaxChanges = 2
  Choosers = {left}
  Kinds = {"pin", "device"}
SPECIFICATION FairSpec
INVARIANTS KeysFollowTheScreen LeaseIsNotRenewed
PROPERTIES LeaseEnds
