SPECIFICATION PiSpec
CONSTANTS
  m1 = m1
  m2 = m2
  w1 = w1
  w2 = w2
  Messages = {m1, m2}
  NoMessage = NoMessage
  Workers = {w1, w2}
  MaxAttempts = 1
  MaxOutages = 0
  MaxStaff = 0
INVARIANTS
  NewerAnswersThemAll
CHECK_DEADLOCK FALSE
