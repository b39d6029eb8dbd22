SPECIFICATION FairControllerSpec
CONSTANTS
  FirstHop = {1}
  Proton = {3}
  MaxRevision = 3
INVARIANTS
  RevisionIdentifiesStatus
PROPERTIES
  ScreenCatchesUp
  ControlsComeBack
CHECK_DEADLOCK FALSE
