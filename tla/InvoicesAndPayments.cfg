SPECIFICATION CashSpec
CONSTANTS
  a = a
  b = b
  c = c
  ab = ab
  ba = ba
  service = service
  o1 = o1
  k1 = k1
  s1 = s1
  s2 = s2
  Orders = {o1}
  Sessions = {s1, s2}
  Variants = {a, b, c}
  Tracked = {a, b}
  Carts = {ab, service}
  Prices = {1, 2}
  Amounts = {2}
  Totals = {2}
  Adjustments = {}
  Keys = {k1}
  AutoInvoice = {TRUE, FALSE}
  MaxInvoices = 2
  MaxPayments = 2
  MaxAdjustments = 0
  Free = Free
  NoKey = NoKey
  NoOrder = NoOrder
  Lines <- MCLines
  Demand <- MCDemand
  Kind <- MCKind
  CartTotal <- MCCartTotal
  Opening <- MCOpening
SYMMETRY Symmetric
INVARIANTS
  InvoiceFollowsOrder
  PaidMatchesStatus
  OnePaymentPerKey
  NumbersGapless
PROPERTIES
  Serializable
  PaymentsStand
CHECK_DEADLOCK FALSE
