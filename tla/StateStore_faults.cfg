SPECIFICATION Spec
CONSTANTS
  Client = {c1, c2}
  Caretaker = {c1}
  s1 = s1
  s2 = s2
  v1 = v1
  v2 = v2
  Secret = {s1, s2}
  Value = {v1, v2}
  Content = {"A", "B", "C"}
  Candidate <- FewCandidates
  MaxU64 = 3
  MaxFaults = 1
  Free = Free
  Empty = Empty
  Damaged = Damaged
  Unreadable = Unreadable
INVARIANTS
  StoreInvariant
  HeadsOrdered
  OneFaultIsSurvived
  UndamagedStore
  FallbackIsParent
  LastKnownGoodIsAncestor
PROPERTIES
  HeadExtendsHead
CHECK_DEADLOCK FALSE
