CONSTANTS
  p1 = p1
  p2 = p2
  Images = {"pg16"}
  Kinds = {"managed", "invalid"}
  Policies = {"Delete"}
  Passwords = {p1, p2}
  MaxUid = 1
  MaxGeneration = 2
  MaxFaults = 0
SPECIFICATION FairSpec
PROPERTIES DeletionCompletes
CHECK_DEADLOCK FALSE
