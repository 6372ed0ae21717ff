CONSTANTS
  f1 = f1
  f2 = f2
  e1 = e1
  e2 = e2
  Files = {f1, f2}
  Records <- MCRecords
  SampleFiles = {f1}
  Eps = {e1, e2}
  MaxUpsets = 0
  MaxCommands = 3
SPECIFICATION Spec
PROPERTIES
  ImportedIsTrue
