SPECIFICATION Spec
CONSTANT MaxPublished = 3
INVARIANT DecisionIsSound
PROPERTY KeepsPromise Ends
CHECK_DEADLOCK FALSE
