CONSTANTS
  Titles = {t1, t2}
  Lookback = 1
  Overlap = 0
  MaxEvents = 2
  MaxDay = 0
  MaxEdits = 1
  MaxMisses = 1
  MaxKills = 0
SPECIFICATION Spec
SYMMETRY Symmetry
INVARIANTS
  HeldTitlesRetried
