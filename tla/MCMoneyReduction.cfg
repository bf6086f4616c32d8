CONSTANTS
  h1 = h1  h2 = h2  f = f  g = g
  Hands = {h1, h2}
  Clients = {h1, h2}
  Callers = {h1, h2}
  Clerks = {h1, h2}
  MaxAsks = 6
  Funds = {f, g}
  Refs = {"x"}
  Amounts = {1, 2}
  Opening = 1
  MaxCalls = 1
  NoRef = NoRef
  Tiers = {"patron", "standard", "supported", "hardship"}
  Bps <- MCBps
  Bases = {2}
  ConfiguredBase = 2
  Legacy <- MCLegacy
  MaxDuesCalls = 1
  NoRow = NoRow
  Codes = {"general"}
  DuesCode = "general"
  Keys = {"k"}
  MaxEntries = 2
  MaxReceipts = 3
  Sessions = {"cs1"}
  Orders = {"o1"}
  ShopTiers = {"patron", "standard", "supported", "hardship"}
  ShopBps <- MCBps
  Prices = {0, 2}
  MaxTillAsks = 5
  MaxSessions = 2
  MaxShopCalls = 6
  NoOrder = NoOrder
SPECIFICATION MoneySpec
INVARIANT PaidReductionIsCompleted
CHECK_DEADLOCK FALSE
