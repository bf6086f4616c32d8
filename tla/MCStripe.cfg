CONSTANTS
  k1 = k1  p1 = p1  r1 = r1  h1 = h1  h2 = h2
  Keys = {k1}
  Relays = {r1}
  Principals = {p1}
  PrincipalOf <- MCPrincipalOf
  Hooks = {h1, h2}
  MaxQueue = 1
  MaxIntents = 1
  MaxAttempts = 1
  Batch = 1
  MaxRearms = 0
  Overrun = FALSE
  NoKey = NoKey
SPECIFICATION SSpec
SYMMETRY MCSymmetry
INVARIANT PaymentsAreAccounted
