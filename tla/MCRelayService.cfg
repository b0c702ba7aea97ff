SPECIFICATION RelayStoredSpec
CONSTANTS
  Relayed = {1}
  Dest = {d1, d2}
  Id = {i1, i2}
  Handler = {k1, k2}
  Absent = Absent
  MaxRelays = 1
  MaxBreaks = 2
INVARIANT RelayInv
PROPERTIES RelaySettles
