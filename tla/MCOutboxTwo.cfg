CONSTANTS
  k1 = k1  k2 = k2  p1 = p1  r1 = r1  r2 = r2
  Keys = {k1}
  Relays = {r1, r2}
  Principals = {p1}
  PrincipalOf <- MCPrincipalOf
  MaxIntents = 1
  MaxAttempts = 2
  Batch = 2
  MaxRearms = 1
  Overrun = FALSE
  NoKey = NoKey
SPECIFICATION Spec
SYMMETRY MCSymmetryBoth
INVARIANTS TypeOK HeldByOne
PROPERTIES RowsKeepTheirAccount KeepsPromise
