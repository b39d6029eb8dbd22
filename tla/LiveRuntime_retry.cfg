SPECIFICATION Spec
CONSTANTS
  MaxFaults = 0
  MaxRevision = 1
INVARIANTS
  RetryCanStart
