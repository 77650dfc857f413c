SPECIFICATION Spec
CONSTANTS
  d1 = d1
  t1 = t1
  DataIds = {d1}
  TrackIds = {t1}
  Copies = {1, 2}
  MaxArrivals = 1
  WaitsForOwn = FALSE
  Omissions = {"stream"}
  NoWrapper = NoWrapper
  NoHandle = NoHandle
  Overlap = FALSE
  Revisits = TRUE
INVARIANTS SetupNeverTraps
CHECK_DEADLOCK FALSE
