CONSTANTS
  SchemaVersion = 2
  OrphanLog = FALSE
  MaxWrites = 3
  MaxKills = 3
  Arrs = {sonarr}
  Sonarr = sonarr
  Torrents = {t1}
  CategoryArrs = {sonarr}
  MoveUntracks = {FALSE}
  MaxGrabs = 3
  Titles = {m1, m2}
  Lookback = 1
  Overlap = 0
  MaxEvents = 2
  MaxDay = 0
  MaxEdits = 0
  MaxMisses = 1
  MaxRunKills = 1
SPECIFICATION SceneSpec
INVARIANTS
  SavedIsStored
PROPERTIES
  ImplementsAtomicStore
  EveryRecordLeaves
  EveryChangeReached
