SPECIFICATION FairSessionsSpec
CONSTANTS
  Participant = {p1, p2}
  Socket = {s1, s2}
  NoOne = NoOne
  NoRole = NoRole
  Nowhere = Nowhere
  Role <- MCOneRole
  GoLiveRole <- MCOneRole
  SetActiveRole <- MCOneRole
  Rank <- MCOneRank
PROPERTIES GoneMeansLeft
