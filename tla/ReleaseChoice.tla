---------------------------- MODULE ReleaseChoice ----------------------------
(***************************************************************************)
(* What a run chooses to grab for one title (DownloadPlanner of planner.py *)
(* on the dict SeadexFilter builds), and the library its imports leave for *)
(* the next run to choose from.                                            *)
(*                                                                         *)
(* A plan is pure, so it is one step; the interleaving is over runs: what  *)
(* one imports is what the next one matches.                               *)
(***************************************************************************)
EXTENDS SeadexFilter

CONSTANTS
  TitleInput(_),  \* which records of Titles are planned
  MaxRuns    \* bound on the runs over a title

\* hasEps: Sonarr, whose episode list is known; a movie has none, so nothing is placed
\* or refused there.  byHash: use_torrent_hash_to_filter.  A url is listed once, the files
\* placed are its own, and a refused pack places none.
EpisodeFiles  == [group : Groups \cup {Blank}, size : Sizes \cup {0}]
NoFile == [group |-> Blank, size |-> -1]
Titles == {t \in [listing : Seq({u \in Listings : ~u.fallback}), sel : Selections,
                  disk : [Eps -> EpisodeFiles \cup {NoFile}],
                  hasEps : BOOLEAN, byHash : BOOLEAN, interactive : BOOLEAN] :
             /\ t.hasEps \/ \A u \in In(t.listing) : u.placed = {} /\ ~u.hand
             /\ \A u, v \in In(t.listing) : u.id = v.id => u = v
             /\ \A u \in In(t.listing) : {p[2] : p \in u.placed} \subseteq SizesOf(u.files)
             /\ \A u \in In(t.listing) : u.hand => u.placed = {}}

ASSUME ReleaseChoiceAssumption == MaxRuns \in Nat

VARIABLES
  title,     \* the input: its listing and settings
  disk,      \* the episode file of each episode of the window
  urls,      \* the seadex_dict, flattened
  plan,      \* the last plan: its flags and its private-only skips
  toImport,  \* the urls of the plan still to import
  cached,    \* the hashes stored with the title
  phase, runs,
  before,    \* the library the plan read
  landed     \* history: (url, episode) pairs some run imported

choiceVars == <<title, disk, urls, plan, toImport, cached, phase, runs, before, landed>>

-----------------------------------------------------------------------------
(* The library as the picks see it.                                          *)

Idx == DOMAIN urls
Keys(i) == {p[1] : p \in urls[i].placed}
GroupsOf(is) == {urls[i].group : i \in is} \ {Blank}
OnDisk == {e \in Eps : disk[e] # NoFile}
Untagged == {e \in OnDisk : disk[e].group = Blank}
Tagged(g) == {e \in OnDisk : g # Blank /\ disk[e].group = g}

\* episode_coverage: a url that placed nothing covers everything.
Blanket     == GroupsOf({i \in Idx : urls[i].placed = {}})
Covering(e) == GroupsOf({i \in Idx : e \in Keys(i)})

\* The first pick listing an untagged file's exact size names it; a refused pack
\* names a file of its sizes wherever it is.
NamedBySize(e) ==
  LET z == disk[e].size
      claims == {i \in Idx : /\ urls[i].group # Blank
                             /\ IF urls[i].hand THEN z \in SizesOf(urls[i].files)
                                                ELSE <<e, z>> \in urls[i].placed}
  IN IF claims = {} THEN Blank
     ELSE urls[CHOOSE i \in claims : \A j \in claims : i <= j].group

HeldBySize(e) == title.hasEps /\ e \in Untagged /\ disk[e].size > 0 /\ NamedBySize(e) # Blank

\* The effective group of an episode's file, Blank for none.
Holder(e) == IF e \notin OnDisk THEN Blank
             ELSE IF HeldBySize(e) THEN NamedBySize(e) ELSE disk[e].group

UntaggedBag == [z \in Sizes |-> Cardinality({e \in Untagged : disk[e].size = z})]

\* A failed (zero-byte) copy disqualifies the whole multiset.
OwnsUntagged(i) ==
  /\ Untagged # {} /\ \A e \in Untagged : disk[e].size > 0
  /\ Contained(UntaggedBag, urls[i].files)

\* Some pick's release is already on disk.
Overlapping == \E i \in Idx : Tagged(urls[i].group) # {} \/ OwnsUntagged(i)

-----------------------------------------------------------------------------
(* Flagging one url: "no", "grab" or "upgrade".                              *)

SizesHeld(g) == {disk[e].size : e \in Tagged(g)}

MatchNoEpisodes(i) ==
  LET listed == SizesOf(urls[i].files)
      mine   == Tagged(urls[i].group)
  IN IF mine # {}
       THEN IF listed # {} /\ listed \cap SizesHeld(urls[i].group) = {} THEN "upgrade" ELSE "no"
     ELSE IF OwnsUntagged(i) \/ Overlapping THEN "no" ELSE "grab"

\* Mutant: as Doubled, held as often as placed counts as doubled.
DoubledAtOnce(i) ==
  LET g == urls[i].group
      once == {p \in urls[i].placed : \A q \in urls[i].placed : q[1] = p[1] => q = p}
      held(z) == {p \in once : g # Blank /\ Holder(p[1]) = g /\ disk[p[1]].size = z}
  IN \E z \in SizesOf(urls[i].files) :
       Cardinality({p \in once : p[2] = z}) <= Cardinality(held(z))

\* A size our group holds on more episodes than the listing places it on; an
\* episode placed at two sizes counts on neither side.
Doubled(i) ==
  LET g == urls[i].group
      once == {p \in urls[i].placed : \A q \in urls[i].placed : q[1] = p[1] => q = p}
      held(z) == {p \in once : g # Blank /\ Holder(p[1]) = g /\ disk[p[1]].size = z}
  IN \E z \in SizesOf(urls[i].files) :
       Cardinality({p \in once : p[2] = z}) < Cardinality(held(z))

\* Mutant: coverage by any pick of the title stands in for the episode's own.
MatchEpisodesAnywhere(i) ==
  IF \E e \in Keys(i) : Holder(e) \notin GroupsOf(Idx) THEN "grab" ELSE "no"

MatchEpisodes(i) ==
  LET g == urls[i].group
      ours(e)    == Holder(e) = g \/ Holder(e) \in Blanket
      matched    == {p \in urls[i].placed : ours(p[1]) /\ ~HeldBySize(p[1])}
      foreign(e) == ~ours(e) /\ Holder(e) \notin Covering(e)
  IN IF (matched # {} /\ \A p \in matched : disk[p[1]].size # p[2]) \/ Doubled(i) THEN "upgrade"
     ELSE IF \E e \in Keys(i) : foreign(e) THEN "grab" ELSE "no"

\* Every episode holds the group's file at a listed size, or on an episode another
\* of its urls placed, or a covering pick's.
WindowInPlace(i) ==
  LET g == urls[i].group
  IN \A e \in Eps : /\ Holder(e) # Blank
                    /\ IF Holder(e) = g
                         THEN disk[e].size \in SizesOf(urls[i].files) \/ g \in Covering(e)
                         ELSE Holder(e) \in Blanket \cup Covering(e)

MatchRefused(i) ==
  IF WindowInPlace(i) THEN "no"
  ELSE IF Tagged(urls[i].group) # {} THEN "upgrade" ELSE "grab"

MatchUrl(i) ==
  CASE urls[i].hand /\ title.hasEps -> MatchRefused(i)
    [] urls[i].hand /\ ~title.hasEps -> "no"
    [] ~urls[i].hand /\ urls[i].placed = {} -> MatchNoEpisodes(i)
    [] OTHER -> MatchEpisodes(i)

-----------------------------------------------------------------------------
(* Reducing what covers the same files to one release.                       *)

GroupNames == {urls[i].group : i \in Idx}
Of(g) == {i \in Idx : urls[i].group = g}
GroupKeys(g) == UNION {Keys(i) : i \in Of(g)}
Public(is) == {i \in is : urls[i].public}
FirstOf(gs) == urls[CHOOSE i \in Idx : /\ urls[i].group \in gs
                                       /\ \A j \in Idx : urls[j].group \in gs => i <= j].group

\* Mutant: every group is reduced on its own.
SameFilesAlone(g) == {g}

\* get_same_files_groups: equal coverage; a group nothing of which placed is on its
\* own, and all groups of a movie are one.
SameFiles(g) ==
  IF ~title.hasEps THEN GroupNames
  ELSE IF GroupKeys(g) = {} THEN {g}
  ELSE {h \in GroupNames : GroupKeys(h) = GroupKeys(g)}

Left(down) == [down |-> down, skipped |-> FALSE, stale |-> FALSE, covered |-> FALSE]

\* What one set comes to, from the flags `down` and `up`: the urls left flagged, and
\* the skip.  Fallbacks are never promoted.
ReduceCoverage(set, down, up) ==
  LET flagged    == {g \in set : Of(g) \cap down # {}}
      public     == {g \in flagged : Public(Of(g)) # {}}
      addable    == {g \in public : Of(g) \cap down \subseteq Public(Of(g))}
      isFallback(g) == \E i \in Of(g) : urls[i].fallback
      candidates == {g \in set \ flagged : Public(Of(g)) # {} /\ ~isFallback(g)}
      whole      == {g \in candidates : Public(Of(g)) = Of(g)}
      rides      == \E g \in set : isFallback(g)
      \* an upgrade means the arr holds the release wrong, so what is unflagged is not owned
      upgrade    == \E g \in set : Of(g) \cap up # {}
  IN IF flagged = {} THEN Left({})
     ELSE IF upgrade /\ addable = {} /\ candidates # {}
       THEN Left(Public(Of(FirstOf(IF whole # {} THEN whole ELSE candidates))))
     ELSE IF public = {}
       THEN [down |-> {}, skipped |-> upgrade \/ ~rides, stale |-> upgrade /\ rides,
             covered |-> rides /\ ~upgrade]
     ELSE IF addable # {} THEN Left(Of(FirstOf(addable)) \cap down)
     ELSE [Left(Of(FirstOf(public)) \cap down) EXCEPT
             !.stale = upgrade /\ \E g \in set \ flagged : isFallback(g)]

\* Mutant: what was dropped stays dropped.
RescueNothing(kept, dropped) == kept

\* _rescue_dropped_coverage: a public url just dropped comes back when it carries an
\* episode nothing left of its set does, one after another.
Rescue(kept, dropped) ==
  LET carried(is) == UNION {Keys(i) : i \in Public(is)}
      after[n \in 0..Len(urls)] ==
        IF n = 0 THEN kept
        ELSE IF n \in Public(dropped) /\ ~(Keys(n) \subseteq carried(after[n-1]))
          THEN after[n-1] \cup {n} ELSE after[n-1]
  IN after[Len(urls)]

\* Flagged urls of one group with the same bytes are one release cross-seeded.
Duplicate(i, down) ==
  /\ urls[i].files # NoFiles
  /\ \E j \in down : /\ j < i /\ urls[j].group = urls[i].group
                     /\ urls[j].files = urls[i].files

\* reduce_overlapping_downloads.
Reduce(down, up) ==
  LET sets  == {SameFiles(g) : g \in GroupNames}
      all(set) == UNION {Of(g) : g \in set}
      part  == [set \in sets |-> ReduceCoverage(set, down, up)]
      flags == UNION {Rescue(part[set].down, (all(set) \cap down) \ part[set].down) :
                        set \in sets}
  IN IF title.interactive THEN Left(down)
     ELSE [down    |-> {i \in flags : ~Duplicate(i, flags)},
           skipped |-> \E set \in sets : part[set].skipped,
           stale   |-> \E set \in sets : part[set].stale,
           covered |-> \E set \in sets : part[set].covered]

-----------------------------------------------------------------------------
(* The evidence the import inherits (_group_verdicts).                       *)

Listed(g) == UNION {SizesOf(urls[i].files) \cup {p[2] : p \in urls[i].placed} : i \in Of(g)}
HeldBy(g) == IF title.hasEps THEN {disk[e].size : e \in {e \in OnDisk : g # Blank /\ Holder(e) = g}}
             ELSE SizesHeld(g)
Current == {g \in GroupNames : HeldBy(g) = {} \/ (Listed(g) # {} /\ HeldBy(g) \subseteq Listed(g))}
Stale   == {g \in GroupNames : Listed(g) # {} /\ ~(HeldBy(g) \subseteq Listed(g))}

NoGuards == [current |-> {}, stale |-> {}, owned |-> {}]
Guards == [current |-> Current \ {Blank}, stale |-> Stale \ {Blank},
           owned |-> {<<e, disk[e].size>> : e \in {e \in Eps : HeldBySize(e)}}]

\* What a file at e is worth to the import of i: ours at a listed size, a current
\* pick's, or a sibling's not judged stale; never another file of our own torrent.
Protected(i, e, size) ==
  LET f == disk[e]
      own == {j \in toImport : urls[j].group = urls[i].group}
      sizes == UNION {SizesOf(urls[j].files) : j \in own}
      trusted == plan.guards.current \cup (GroupsOf(toImport) \ plan.guards.stale)
      misplaced == f.size \in SizesOf(urls[i].files) /\ f.size # size
  IN /\ f # NoFile /\ ~misplaced
     /\ IF f.group = Blank THEN <<e, f.size>> \in plan.guards.owned
        ELSE IF f.group = urls[i].group THEN sizes = {} \/ f.size \in sizes
        ELSE f.group \in trusted

-----------------------------------------------------------------------------
Hash(i) == IF urls[i].public THEN urls[i].id ELSE 0   \* a private torrent carries none

ChoiceInit ==
  /\ TitleInput(title) /\ title \in Titles /\ disk = title.disk /\ urls = <<>>
  /\ plan = [flagged |-> {}, guards |-> NoGuards, result |-> Left({})]
  /\ toImport = {} /\ cached = {} /\ phase = "idle" /\ runs = 0
  /\ before = disk /\ landed = {}

Build ==
  /\ phase = "idle" /\ runs < MaxRuns
  /\ urls' = BuildDict(title.sel, title.listing)
  /\ phase' = IF title.interactive /\ Cardinality({t.group : t \in In(urls')}) > 1
                THEN "pick" ELSE "plan"
  /\ runs' = runs + 1
  /\ UNCHANGED <<title, disk, plan, toImport, cached, before, landed>>

\* interactive_pick: what the user answers; nothing but invalid numbers is nothing.
Pick ==
  /\ phase = "pick"
  /\ \E picked \in SUBSET GroupNames :
       urls' = Those(urls, {t \in In(urls) : t.group \in picked})
  /\ phase' = "plan"
  /\ UNCHANGED <<title, disk, plan, toImport, cached, runs, before, landed>>

\* The adds of grab_and_cache: the private urls and the held packs are refused there.
Grabs(result) == {i \in Public(result.down) : ~urls[i].hand}

MakePlan ==
  /\ phase = "plan"
  /\ LET match   == [i \in Idx |-> MatchUrl(i)]
         up      == IF title.byHash THEN {} ELSE {i \in Idx : match[i] = "upgrade"}
         flagged == IF title.byHash THEN {i \in Idx : Hash(i) \notin cached}
                                    ELSE {i \in Idx : match[i] # "no"}
         result  == Reduce(flagged, up)
     IN /\ plan' = [flagged |-> flagged, result |-> result,
                    guards |-> IF title.byHash THEN NoGuards ELSE Guards]
        /\ toImport' = Grabs(result)
  /\ before' = disk /\ phase' = "grab"
  /\ UNCHANGED <<title, disk, urls, cached, runs, landed>>

Slot == CHOOSE e \in Eps : TRUE   \* where a movie's file is

\* The import of one grab, in any order: Sonarr takes a placed file unless what the
\* episode holds is protected; a movie's file replaces the movie's.
Import(i) ==
  /\ phase = "grab" /\ i \in toImport
  /\ LET land(e) == IF title.hasEps
                      THEN {p[2] : p \in {p \in urls[i].placed : p[1] = e /\ ~Protected(i, e, p[2])}}
                      ELSE IF e = Slot THEN SizesOf(urls[i].files) ELSE {}
         lands == [e \in Eps |-> land(e)]
         file(e) == [group |-> urls[i].group,
                     size |-> CHOOSE z \in lands[e] : \A y \in lands[e] : y <= z]
     IN /\ disk' = [e \in Eps |-> IF lands[e] # {} THEN file(e)
                                   ELSE IF title.hasEps THEN disk[e] ELSE NoFile]
        /\ landed' = landed \cup ({urls[i].id} \X {e \in Eps : lands[e] # {}})
  /\ toImport' = toImport \ {i}
  /\ UNCHANGED <<title, urls, plan, cached, phase, runs, before>>

\* The title is settled: its hashes are stored unless something is left to do.
Settle ==
  /\ phase = "grab" /\ toImport = {} /\ phase' = "idle"
  /\ LET down == plan.result.down
         done == ~plan.result.skipped /\ \A i \in down : urls[i].public /\ ~urls[i].hand
     IN cached' = IF ~done THEN cached
                  ELSE cached \cup {Hash(i) : i \in IF title.byHash THEN Idx ELSE Public(down)}
  /\ UNCHANGED <<title, disk, urls, plan, toImport, runs, before, landed>>

ChoiceNext == Build \/ Pick \/ MakePlan \/ (\E i \in toImport : Import(i)) \/ Settle
ChoiceSpec == ChoiceInit /\ [][ChoiceNext]_choiceVars

-----------------------------------------------------------------------------
\* A plan of which nothing is imported yet.
Planned == phase = "grab" /\ toImport = Grabs(plan.result)
Matched == Planned /\ ~title.byHash /\ ~title.interactive
AnyKeys(is) == UNION {Keys(i) : i \in is}

\* Reducing what covers the same files to one release loses no episode: what a grabbable
\* url was flagged for, some url left flagged carries (or its cross-seeded twin does).
\* reduce_overlapping_downloads of planner.py, whose group-atomic drops the rescue mends.
NoEpisodeDropped ==
  Matched =>
    LET twins(i) == {j \in Idx : urls[j].group = urls[i].group /\ urls[j].files = urls[i].files}
    IN AnyKeys(Public(plan.flagged)) \subseteq
         AnyKeys(UNION {{i} \cup twins(i) : i \in Public(plan.result.down)})

\* Two groups whose placed files cover the same episodes are never both grabbed for the
\* same ones: the user downloads one release of a fileset (reduce_overlapping_downloads).
OnePerCoverage ==
  (Matched /\ title.hasEps) => \A i, j \in Public(plan.result.down) :
    (urls[j].group # urls[i].group /\ Keys(i) # {}
       /\ GroupKeys(urls[i].group) = GroupKeys(urls[j].group)) => Keys(i) # Keys(j)

\* A plan that grabs nothing and holds nothing, which is cached as done, is right: every
\* episode a pick was placed on holds a file of a pick that covers it, and a movie with
\* picks has a file that is one of theirs.  A pick with no group name is outside this: a
\* missing file has its name.
DoneMeansOwned ==
  (Matched /\ plan.result.down = {} /\ ~plan.result.skipped /\ Blank \notin GroupNames) =>
    /\ title.hasEps => \A e \in AnyKeys(Idx) :
         e \in OnDisk /\ Holder(e) \in Covering(e) \cup Blanket
    /\ ~title.hasEps /\ Idx # {} => Overlapping

\* A group that lists a placed url beside one nothing of which placed.
Mixed == \E i, j \in Idx : /\ urls[i].group = urls[j].group
                           /\ urls[i].placed = {} /\ urls[j].placed # {}

\* A file of a pick's group, at a size it lists, on an episode no url of the group was
\* placed on, or whose own url of the group does not list it.
Strayed == \E e \in OnDisk, i \in Idx :
  /\ disk[e].group = urls[i].group /\ disk[e].size \in SizesOf(urls[i].files)
  /\ \/ e \notin GroupKeys(urls[i].group)
     \/ \E j \in Of(urls[i].group) : e \in Keys(j) /\ disk[e].size \notin SizesOf(urls[j].files)

\* Two files of one group placed on one episode: two releases of it.
Rivals == \E i, j \in Idx : /\ urls[i].group = urls[j].group
                            /\ \E p \in urls[i].placed, q \in urls[j].placed : p[1] = q[1] /\ p[2] # q[2]

\* The matcher reaches a fixpoint: it never asks for a url an earlier run imported, however
\* the other picks' imports went over it since.  A promoted url may be one.  Where one group
\* lists two releases of an episode they take turns, as each other's upgrade; a file that
\* strayed keeps its episode from a pick placed there, which is asked for again; and a group
\* without a name never knows its files.
NeverAskedTwice ==
  (Matched /\ title.hasEps /\ Blank \notin GroupNames /\ ~Mixed /\ ~Rivals /\ ~Strayed) =>
    \A i \in Public(plan.flagged), e \in Eps : <<urls[i].id, e>> \notin landed

\* "A fallback substitute never replaces a private copy you already own."
\* (docs/configuration.md:121): the episode held a file of a private pick placed there.
FallbackNeverReplaces ==
  [][\A i \in toImport, e \in Eps :
       (Import(i) /\ urls[i].fallback /\ disk'[e] # disk[e]) =>
          ~\E j \in Idx : /\ Of(urls[j].group) \cap Public(Idx) = {} /\ e \in Keys(j)
                           /\ before[e].group = urls[j].group]_choiceVars

=============================================================================
