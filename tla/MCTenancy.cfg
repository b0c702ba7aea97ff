SPECIFICATION TenancySpec
CONSTANTS
  Request = {q1, q2}
  Event = {e1, e2}
  Room = {r1, r2}
  Booth = {b1, b2}
  Lang = {l1}
  None = None
  Language = {k1, k2}
  Elsewhere = other
SYMMETRY MCSymmetry
INVARIANTS RowsInv SetupInv
PROPERTY DeletedIsOver
\* All ids used and all events deleted: nothing is left to do.
CHECK_DEADLOCK FALSE
