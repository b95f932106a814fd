CONSTANTS
  p1 = p1
  p2 = p2
  Images = {"pg16", "pg17"}
  Kinds = {"managed"}
  Policies = {"Retain", "Delete"}
  Passwords = {p1}
  MaxUid = 1
  MaxGeneration = 2
  MaxFaults = 1
SPECIFICATION FairSpecFromOneImage
PROPERTIES ProvisioningConverges ImageFollowsProfile DeletionCompletes
CHECK_DEADLOCK FALSE
