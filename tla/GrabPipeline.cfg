CONSTANTS
  Titles = {1, 2}
  Items = {{1, 2}}
  Torrents = {11, 12, 13, 14}
  Private = {13}
  Unsupported = {14}
  Lists <- MCLists
  Settings <- MCSettings
  Cap = 1
  MaxUpsets = 1
SPECIFICATION FairSpec
INVARIANTS
  NothingHidden
PROPERTIES
  ClaimsLast
  NoSilentTitle
  PipelineSettles
