CONSTANTS
  Profiles = {p1, p2}
  Hosts = {h1, h2}
  Ports = {"21", "22"}
  DefaultPort = "21"
  Files <- FileList
  Externals <- ExternalList
  Templates <- TemplateList
  GlobalTemplates <- GlobalList
  DefaultTemplate <- Cache
  InvalidPieces = {":"}
  MaxMaps = 2
  MaxEdits = 5
  MaxFiles = 1
SYMMETRY Symmetry
SPECIFICATION Spec
INVARIANTS
  RoundTrip
  NamedMapsKeepServers
CHECK_DEADLOCK FALSE
