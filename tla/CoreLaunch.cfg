SPECIFICATION Spec
CONSTANTS
  MaxFaults = 1
  MaxDocument = 2
  Sound <- MCSound
  MaxChanges = 3
INVARIANTS
  CoreRunsWhatWasChecked
  FilesOutliveProcesses
CHECK_DEADLOCK FALSE
