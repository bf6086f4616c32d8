CONSTANTS
  auth = auth  store = store  stripe = stripe
  Files <- MCFiles
  Admins = {a1, a2}
  Clients = {u1}
  Providers = {auth, stripe}
  Required = {auth}
  Dependencies <- MCDependencies
  DevHeaders = FALSE
  MaxOps = 3
  Nobody = Nobody
SPECIFICATION LSpec
SYMMETRY MCSymmetry
INVARIANTS RegistryAgreesWithFlags BoundOnce DrainedPoolsAreUnused
