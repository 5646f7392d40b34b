SPECIFICATION FairOutboxSpec
CONSTANTS
  e1 = e1
  e2 = e2
  s1 = s1
  s2 = s2
  w1 = w1
  w2 = w2
  Events = {e1, e2}
  Subs = {s1}
  Workers = {w1, w2}
  Wants <- MCWants
  MaxAttempts = 2
  MaxRetries = 1
INVARIANTS
  OutboxTypeOK
  OneSender
  WithinBudget
  NothingForgotten
PROPERTIES
  FinalStays
  EveryEventDispatched
  EveryDeliveryEnds
CHECK_DEADLOCK FALSE
