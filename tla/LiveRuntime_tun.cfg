SPECIFICATION FairSpec
CONSTANTS
  MaxFaults = 0
  MaxRevision = 1
PROPERTIES
  CommandsReturn
