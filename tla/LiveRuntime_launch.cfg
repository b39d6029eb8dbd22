SPECIFICATION Spec
CONSTANTS
  MaxFaults = 1
  MaxRevision = 1
INVARIANTS
  LaunchFailureKeepsNothing
