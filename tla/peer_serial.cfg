SPECIFICATION FairSpec
CONSTANTS
  d1 = d1
  t1 = t1
  DataIds = {d1}
  TrackIds = {t1}
  Copies = {1, 2}
  MaxArrivals = 0
  WaitsForOwn = FALSE
  Omissions = {}
  NoWrapper = NoWrapper
  NoHandle = NoHandle
  Overlap = FALSE
  Revisits = TRUE
INVARIANTS TypeOK PointerSafe OneWrapper Mirror RegistryAgrees ListedUntilClosed SetupNeverTraps
PROPERTY DeletedOnlyClosed SetsAreDirectories ShutIsFreed
CHECK_DEADLOCK FALSE
