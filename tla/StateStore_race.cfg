SPECIFICATION Spec
CONSTANTS
  Client = {c1, c2}
  Caretaker = {}
  s1 = s1
  s2 = s2
  v1 = v1
  v2 = v2
  Secret = {s1, s2}
  Value = {v1, v2}
  Content = {"A", "B", "C"}
  Candidate <- MCCandidate
  MaxU64 = 4
  MaxFaults = 1
  Free = Free
  Empty = Empty
  Damaged = Damaged
  Unreadable = Unreadable
SYMMETRY Symmetric
INVARIANTS
  RetryIsAccepted
  SecretsAsSupplied
PROPERTIES
  GenerationsAreImmutable
  ImplementsDocument
CHECK_DEADLOCK FALSE
