----------------------------- MODULE MCRunBoot -----------------------------
(* Two processes at one data directory, and what one leg of a run has to do  *)
(* with each service it asks.  A leg's gateways share no state with one      *)
(* another nor with the boot, so a behaviour follows one of them and leaves  *)
(* the others where they started; the run explores them side by side instead *)
(* of their product.                                                         *)
EXTENDS RunBoot, SeadexGateway, AnilistGateway, SkyhookGateway, ArrCategories, ArrStreaks,
        SampleMappings, SeriesEpisodes, TLC

CONSTANTS p1, p2, t1, t2

TwoProcs == {p1, p2}
TwoThreads == {t1, t2}
Symmetry == Permutations(TwoProcs) \cup Permutations(TwoThreads)
Commands == {"run", "dry", "migrate", "backup", "restore", "remove"}
Starts == (TRUE :> 3) @@ (FALSE :> 2)

VARIABLE scene

serviceVars == <<sdVars, alVars, skyVars, catVars, streakVars, mappingVars, episodeVars>>

\* The one initial state of a part no step is taken of, written before the part's
\* own Init so that TLC does not enumerate the rest.
AtBoot == lockable = TRUE /\ config = [schema |-> "new", edit |-> 1] /\ db = NoRows
SeadexUnused == listed = {}
AnilistUnused == known = {} /\ meta = [i \in MediaIds |-> "none"]
CategoriesUnused == configured = Blanks /\ client = Blanks /\ reachable = FALSE
MappingsUnused == graph = <<>> /\ kometa = <<>> /\ anidb = <<>>

Init ==
  /\ scene \in {"boot", "seadex", "anilist", "skyhook", "categories", "streaks", "mappings", "episodes"}
  /\ scene = "boot" \/ (scene # "boot" /\ AtBoot)
  /\ scene = "seadex" \/ (scene # "seadex" /\ SeadexUnused)
  /\ scene = "anilist" \/ (scene # "anilist" /\ AnilistUnused)
  /\ scene = "categories" \/ (scene # "categories" /\ CategoriesUnused)
  /\ scene = "mappings" \/ (scene # "mappings" /\ MappingsUnused)
  /\ BootInit /\ SeadexInit /\ AnilistInit /\ SkyhookInit /\ CategoriesInit /\ StreaksInit
  /\ MappingsInit /\ EpisodesInit

Next ==
  /\ UNCHANGED scene
  /\ \/ scene = "boot" /\ BootNext /\ UNCHANGED serviceVars
     \/ scene = "seadex" /\ SeadexNext
        /\ UNCHANGED <<bootVars, alVars, skyVars, catVars, streakVars, mappingVars, episodeVars>>
     \/ scene = "anilist" /\ AnilistNext
        /\ UNCHANGED <<bootVars, sdVars, skyVars, catVars, streakVars, mappingVars, episodeVars>>
     \/ scene = "skyhook" /\ SkyhookNext
        /\ UNCHANGED <<bootVars, sdVars, alVars, catVars, streakVars, mappingVars, episodeVars>>
     \/ scene = "categories" /\ CategoriesNext
        /\ UNCHANGED <<bootVars, sdVars, alVars, skyVars, streakVars, mappingVars, episodeVars>>
     \/ scene = "streaks" /\ StreaksNext
        /\ UNCHANGED <<bootVars, sdVars, alVars, skyVars, catVars, mappingVars, episodeVars>>
     \/ scene = "mappings" /\ MappingsNext
        /\ UNCHANGED <<bootVars, sdVars, alVars, skyVars, catVars, streakVars, episodeVars>>
     \/ scene = "episodes" /\ EpisodesNext
        /\ UNCHANGED <<bootVars, sdVars, alVars, skyVars, catVars, streakVars, mappingVars>>

Spec == Init /\ [][Next]_<<scene, bootVars, serviceVars>>
=============================================================================
