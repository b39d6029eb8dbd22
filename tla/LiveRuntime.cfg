SPECIFICATION FairSpec
CONSTANTS
  MaxFaults = 2
  MaxRevision = 3
INVARIANTS
  RuntimeInvariant
  SessionInvariant
  CoreRunsCurrentRevision
  ViewMatchesCore
  SecretsLeaveWithSession
  FailedConnectLeavesNothing
PROPERTIES
  OnlyTunHangs
  CoreLossIsNoticed
  ImplementsService
