SPECIFICATION FairOpSpec
CONSTANTS
  asked = asked
  alert = alert
  w1 = w1
  w2 = w2
  Ops = {asked, alert}
  RuleOps = {alert}
  NoOp = NoOp
  Workers = {w1}
  MaxAttempts = 2
  Threshold = 1
  MaxStaff = 1
INVARIANTS
  OpTypeOK
  NoBlindResend
  CancelledUnsent
PROPERTIES
  DeliveryEnds
CHECK_DEADLOCK FALSE
