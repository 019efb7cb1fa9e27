\* A user with two requests, two moderators.
CONSTANTS
  a1 = a1  a2 = a2  m1 = m1  m2 = m2  x = x  y = y
  Author = {a1, a2}
  Moderator = {m1, m2}
  Text = {x, y}
  NoText = NoText
  MaxDecisions = 2
SPECIFICATION Spec
INVARIANTS TypeOK RejectionSticks ContentIsLatest
CHECK_DEADLOCK FALSE
