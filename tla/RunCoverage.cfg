CONSTANTS
  Titles = {t1, t2}
  Lookback = 1
  Overlap = 0
  MaxEvents = 2
  MaxDay = 2
  MaxEdits = 1
  MaxMisses = 1
  MaxKills = 1
SPECIFICATION Spec
SYMMETRY Symmetry
INVARIANTS
  NothingWrittenOff
