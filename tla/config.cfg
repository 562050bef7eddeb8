SPECIFICATION Spec
CONSTANTS
  Handlers = {h1, h2}
  Credentials = {c1, c2}
  MasterKeys = {m1, m2}
  Env <- LiveWithoutAccount
  Unknown = Unknown
  MaxPosts = 2
  MaxFailures = 1
  MaxRestarts = 1
SYMMETRY Interchangeable
INVARIANTS TypeOK StartUsesSettled CredentialsBelongTogether
PROPERTY ConfiguredStays
CHECK_DEADLOCK FALSE
