SPECIFICATION MCSpec
CONSTANTS
  Sockets = {s1, s2}
  Second = s2
  TTL = 1
  MaxTime = 1
  MaxRequests = 2
  Participant = {p1, p2, p3}
  NoOne = NoOne
  NoRole = NoRole
  Role <- MCRole
  GoLiveRole <- MCGoLiveRole
  SetActiveRole <- MCSetActiveRole
INVARIANTS RevocationInv BoothInv
PROPERTIES OutdatedGoes ConsentKept ImplementsOnAir
\* Every socket has gone and the requests and the clock have reached their bounds.
CHECK_DEADLOCK FALSE
