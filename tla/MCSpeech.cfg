SPECIFICATION SpeechSpec
CONSTANTS
  Booth = {b1, b2}
  Session = {s1, s2, s3}
  Caller = {c1, c2}
  NoSession = NoSession
  NoBooth = NoBooth
  MaxTotalWorkers = 1
  MaxPieces = 5
  OverloadAfter = 1
  MaxErrors = 3
  MaxSegment = 3
  MaxQueued = 2
  MaxStored = 2
INVARIANTS WorkersSafe StreamInv SpeechInv
PROPERTIES StopReturns CaptionsEnd StoredIsPlayed
