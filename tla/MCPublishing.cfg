SPECIFICATION PublishingSpec
CONSTANTS
  Participant = {p1, p2}
  NoOne = NoOne
  NoRole = NoRole
  Role <- MCRole
  GoLiveRole <- MCGoLiveRole
  SetActiveRole <- MCSetActiveRole
  Ttl = 1
  MaxTickets = 2
  MaxIssued = 3
  Room = {r1, r2}
  Session = {s1, s2}
  None = None
  MaxRooms = 1
  MaxPortalRestarts = 1
  Relayed = {1, 2}
  Dest = {d1}
  Id = {i1, i2}
  Handler = {k1, k2}
  Absent = Absent
  MaxRelays = 1
  MaxBreaks = 1
SYMMETRY MCSymmetry
INVARIANTS TicketsInv FloorInv RelayInv
PROPERTIES TicketsOpenRightly FreshFeedKept
