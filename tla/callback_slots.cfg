SPECIFICATION Spec
CONSTANTS
  Emitters = {l1, l2}
  App = app
  Nobody = nobody
  MaxErrors = 2
INVARIANTS SlotsInv FreedIsUntouched SettledShowsTruth
PROPERTY FollowsTruth DeinitEnds CloseArrives
CHECK_DEADLOCK FALSE
