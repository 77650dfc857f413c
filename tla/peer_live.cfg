SPECIFICATION FairSpec
CONSTANTS
  d1 = d1
  t1 = t1
  DataIds = {d1}
  TrackIds = {t1}
  Copies = {1}
  MaxArrivals = 0
  WaitsForOwn = FALSE
  Omissions = {}
  NoWrapper = NoWrapper
  NoHandle = NoHandle
  Overlap = TRUE
  Revisits = FALSE
PROPERTY  PeerIsFreed TruthArrives
CHECK_DEADLOCK FALSE
