CONSTANTS
  NameOrder <- Names
  Given <- GivenNames
  NewProfile <- P
  NewFolder <- F
  Parents <- Groups
  MaxProfiles = 2
  MaxNodes = 4
  MaxDepth = 3
  MaxOpens = 1
SPECIFICATION Spec
INVARIANT
  PathsAgree
CONSTRAINTS Careful DeepBound
CHECK_DEADLOCK FALSE
