SPECIFICATION ProvisioningSpec
CONSTANTS
  Requests = {r1, r2, r3}
  Users = {u1, u2}
  Roles = {admin, viewer}
  Admin = admin
  Tokens = {t1, t2}
  Keys = {k1}
  None = None
  Mortal = {r1, r2, r3}
  Seeds = 2
  MortalSeeds = {1}
  DemoUser = u1
  Projects = 1
  Names = {n1}
  Policies = 2
  DemoWorkers = 2
SYMMETRY ProvisioningSymmetry
INVARIANTS SessionsAccounted AuditAccounts PoliciesAccounted 
CHECK_DEADLOCK FALSE
