CONSTANTS
  f1 = f1
  f2 = f2
  e1 = e1
  e2 = e2
  Files = {f1, f2}
  Records <- MCRecords
  SampleFiles = {}
  Eps = {e1, e2}
  MaxUpsets = 1
  MaxCommands = 5
SPECIFICATION Spec
INVARIANTS
  OneImportOfOurs
PROPERTIES
  PollsAreSound
  RefusedIsImported
