CONSTANTS
  p1 = p1
  p2 = p2
  Procs <- TwoProcs
  Jobs <- Commands
  MaxVersion = 2
  MaxEdits = 2
  MaxKills = 2
  MaxStarts <- Starts
  MaxCommits = 1
  EditInRewrite = FALSE
  KillInRemove = FALSE
  Ids = {1, 2, 3}
  ChunkSize = 2
  MediaIds = {1, 2, 3}
  BatchSize = 2
  MaxLegs = 2
  Series = {"s1", "s2"}
  Orders = {"dvd"}
  MaxPrefetches = 2
  Categories = {"tv", "anime"}
  MaxClientEdits = 2
  t1 = t1
  t2 = t2
  Threads <- TwoThreads
  Warnings = {"parse", "queue"}
  Details = {"500", "refused"}
  MaxCalls = 4
  Graphs <- TwoEntries
  KometaFiles <- SomeKometa
  AnidbFiles <- SomeAnidb
  Lookups <- ThreeLookups
  Show = 7
  Episodes <- FiveEpisodes
  Ignored <- OneIgnored
  Shows = {"s1", "s2"}
  Fetchers <- TwoThreads
  MaxChanges = 2
  MaxRuns = 2
SPECIFICATION Spec
SYMMETRY Symmetry
CHECK_DEADLOCK FALSE
INVARIANTS OneAtATime IndexServesSource LogIsItsOwn
  EntryNeverDenied RecordsAreWhole CategoriesSettle FailuresAccounted
  StoredAnswersAlike NoSharedSpecial EpisodesAsMapped ServedWasLibrary
PROPERTIES RewriteKeepsSettings OutageKeepsMeta
