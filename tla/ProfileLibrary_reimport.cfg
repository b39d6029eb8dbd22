SPECIFICATION LibrarySpec
CONSTANTS
  FirstHop = {1, 2}
  Proton = {3, 4, 5}
  MaxRevision = 4
  Width = 3
  Domain = {1}
  Answers = {0, 3, 8}
  Lan <- MCLan
  Local <- MCLocal
  Contents <- MCContents
  Others <- MCOthers
PROPERTY
  CandidatesResolveEndpoints
CHECK_DEADLOCK FALSE
