SPECIFICATION SubSpec
CONSTANTS
  basic = basic
  pro = pro
  p1 = p1
  p2 = p2
  Plans = {basic, pro}
  Payments = {p1, p2}
  MaxCheckouts = 1
  Period = 2
  TrialEnd = 2
  Slack = 1
  Grace = 1
  MaxTime = 3
  MaxActs = 3
INVARIANTS
  SubTypeOK
  OneWayToPay
  PaidTimeIsGiven
CHECK_DEADLOCK FALSE
SYMMETRY Symmetric
