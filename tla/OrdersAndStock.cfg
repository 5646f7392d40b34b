SPECIFICATION CashSpec
CONSTANTS
  a = a
  b = b
  c = c
  ab = ab
  ba = ba
  service = service
  o1 = o1
  o2 = o2
  s1 = s1
  s2 = s2
  Orders = {o1, o2}
  Sessions = {s1, s2}
  Variants = {a, b}
  Tracked = {a, b}
  Carts = {ab, ba}
  Prices = {1}
  Amounts = {}
  Totals = {}
  Adjustments = {1}
  Keys = {}
  AutoInvoice = {FALSE}
  MaxInvoices = 0
  MaxPayments = 0
  MaxAdjustments = 1
  Free = Free
  NoKey = NoKey
  NoOrder = NoOrder
  Lines <- MCLines
  Demand <- MCDemand
  Kind <- MCKind
  CartTotal <- MCCartTotal
  Opening <- MCOpening
SYMMETRY Symmetric
INVARIANTS
  CashTypeOK
  StockFollowsOrders
  LedgerChained
PROPERTIES
  Serializable
CHECK_DEADLOCK FALSE
