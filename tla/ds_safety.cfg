CONSTANTS
  p1 = p1
  p2 = p2
  Images = {"pg16"}
  Kinds = {"managed", "external", "invalid"}
  Policies = {"Retain", "Delete"}
  Passwords = {p1, p2}
  MaxUid = 2
  MaxGeneration = 2
  MaxFaults = 1
SPECIFICATION Spec
SYMMETRY PasswordSymmetry
INVARIANTS Inv DataKeepsItsSecret ReadyMeansBootstrapped
PROPERTIES DeletionRespectsPolicy
CHECK_DEADLOCK FALSE
