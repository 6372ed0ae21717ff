CONSTANTS
  Arrs = {sonarr, radarr}
  Sonarr = sonarr
  Torrents = {t1}
  CategoryArrs = {sonarr, radarr}
  MoveUntracks = {TRUE, FALSE}
  MaxGrabs = 3
  MaxKills = 1
SPECIFICATION Spec
INVARIANTS
  EffectsOnce
  SettledOnceAllRetired
