SPECIFICATION SocketsSpec
CONSTANTS
  Participant = {p1, p2}
  Socket = {s1, s2}
  NoOne = NoOne
  NoRole = NoRole
  Nowhere = Nowhere
  Role <- MCRole
  GoLiveRole <- MCGoLiveRole
  SetActiveRole <- MCSetActiveRole
  Rank <- MCRank
  Listener = {l1, l2}
  Update = {u1, u2}
  Status = {locked, live}
  FreshStatus = locked
  NoStatus = NoStatus
  MaxVersion = 3
SYMMETRY MCSymmetry
INVARIANT SocketsInv
PROPERTIES VoiceNeedsSession NeverBackwards
