SPECIFICATION HostingSpec
CONSTANTS
  Handler = {h1, h2}
  Account = {p1, p2}
  Invite = {i1, i2, i3}
  Ask = {r1, r2}
  Nobody = Nobody
  MaxRequests = 6
INVARIANT KeepsAnAdmin
CHECK_DEADLOCK FALSE
