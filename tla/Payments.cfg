SPECIFICATION PaySpec
CONSTANTS
  card1 = card1
  card2 = card2
  bank1 = bank1
  bank2 = bank2
  w1 = w1
  w2 = w2
  Requests = {card1, bank1}
  Cards = {card1}
  Delayed = {card1}
  NoRequest = NoRequest
  Workers = {w1, w2}
  Total = 2
  MaxAttempts = 1
  MaxStaff = 1
INVARIANTS
  PayTypeOK
  BookedOnce
  ShownPaidIsBooked
CHECK_DEADLOCK FALSE
SYMMETRY Symmetric
