CONSTANTS
  upper = upper
  lower = lower
  dir = dir
  inner = inner
  link = link
  Root = Root
  Complete = Complete
  Invalid = Invalid
  Entries <- MCEntries
  Parent <- MCParent
  Kind <- MCKind
  LocalName <- MCLocalName
  MaxDepth = 2
  Disks <- MCDisks
SPECIFICATION FairSpec
INVARIANTS
  DownloadsAreSafe
  SummaryAccounts
PROPERTIES
  DownloadIsReported
CHECK_DEADLOCK FALSE
