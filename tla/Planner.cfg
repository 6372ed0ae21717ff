CONSTANTS
  Sizes <- MCSizes
  Eps <- MCEps
  Groups = {"A", "B", "X"}
  Blank = "untagged"
  TitleInput <- MCTitles
  MaxRuns = 3
  Episodes <- MCEpisodes
  KeyOf <- MCKeyOf
  AbsOf <- MCAbsOf
  Entries <- MCEntries
  NoPrefix = "none"
  Input <- MCTorrents
  MaxGrabs = 3
SPECIFICATION Spec
INVARIANTS
  NoEpisodeDropped
  OnePerCoverage
  DoneMeansOwned
  NeverAskedTwice
  NoEpisodeTwice
  TitleNeverContradicted
  NoFileLeftOut
  SomeoneTakesIt
CHECK_DEADLOCK FALSE
