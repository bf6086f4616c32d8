CONSTANTS
  k1 = k1  k2 = k2  p1 = p1  r1 = r1  r2 = r2
  Keys = {k1, k2}
  Relays = {r1}
  Principals = {p1}
  PrincipalOf <- MCPrincipalOf
  MaxIntents = 2
  MaxAttempts = 2
  Batch = 1
  MaxRearms = 0
  Overrun = FALSE
  NoKey = NoKey
SPECIFICATION FairSpec
INVARIANT BookedWasOwed
PROPERTY EveryIntentSettles
