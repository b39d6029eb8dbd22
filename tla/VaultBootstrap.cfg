SPECIFICATION FairSpec
CONSTANTS
  Client = {c1, c2}
  Id = {i1, i2, i3, i4}
  MaxAborts = 2
  MaxFaults = 1
  Free = Free
  Absent = Absent
  Torn = Torn
INVARIANTS
  OneKey
PROPERTIES
  KeyNeverDiscarded
  EventuallyOpens
