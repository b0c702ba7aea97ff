SPECIFICATION FloorsSpec
CONSTANTS
  Room = {r1}
  Session = {s1}
  None = None
  NoUrl = NoUrl
  MaxRooms = 1
  MaxPortalRestarts = 1
  Url = {u1, u2}
  MaxRestarts = 1
  MaxFaults = 2
INVARIANT AgentInv
PROPERTIES AgentSettles FloorSettles
CHECK_DEADLOCK FALSE
