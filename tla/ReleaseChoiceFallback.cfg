CONSTANTS
  Sizes <- MCSizes
  Eps <- MCEps
  Groups = {"A", "B", "X"}
  Blank = "untagged"
  TitleInput <- FallbackInput
  MaxRuns = 1
SPECIFICATION ChoiceSpec
PROPERTY
  FallbackNeverReplaces
CHECK_DEADLOCK FALSE
