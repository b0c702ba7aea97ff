SPECIFICATION RowsSpec
CONSTANTS
  Request = {q1, q2}
  Event = {e1}
  Room = {r1}
  Booth = {b1, b2}
  Lang = {l1, l2}
  None = None
PROPERTY KeepsLiveBooths
CHECK_DEADLOCK FALSE
