CONSTANTS
  NameOrder <- Names
  Given <- GivenNames
  NewProfile <- P
  NewFolder <- F
  Parents <- Groups
  MaxProfiles = 2
  MaxNodes = 3
  MaxDepth = 2
  MaxOpens = 1
SPECIFICATION Spec
PROPERTY MenuConnectsShown
CHECK_DEADLOCK FALSE
