CONSTANTS
  t1 = t1
  t2 = t2
  b1 = b1
  b2 = b2
  acme = acme
  umbrella = umbrella
  eu = eu
  us = us
  web = web
  pii = pii
  TargetIds = {t1, t2}
  BindingIds = {b1, b2}
  Orgs = {acme, umbrella}
  Regions = {eu, us}
  Domains = {web}
  Categories = {pii}
  Unset = Unset
  TopClass = 1
  Statuses = {"Ready", "Migrating"}
  Priorities = {0, 1}
  MaxTime = 2
  Contexts <- MCContexts
  Stores <- MCStores
  Selectors <- MCSelectors
  Windows <- MCWindows
SPECIFICATION Spec
SYMMETRY RegistrySymmetry
INVARIANTS TypeOK ResolutionFollowsPolicy
PROPERTIES NoSilentReroute
