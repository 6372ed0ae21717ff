---------------------------- MODULE EntryMappings ----------------------------
(* From an Arr title's ids to AniList entries, and from an entry to the      *)
(* episodes of the series that are its own (mappings.py, sonarr_episodes.py, *)
(* anime_filter.py).  AniBridge is asked first and Kometa's Anime-IDs fill   *)
(* in; AniDB's list may renumber what the offsets would have cut.            *)
EXTENDS AniBridgeIndex

CONSTANTS
  KometaFiles,  \* the Anime-IDs files: sequences of records
  AnidbFiles,   \* the AniDB lists: sequences of <anime> elements
  Lookups,      \* the ids the titles of the library carry
  Show,         \* the TVDB id of the series whose episodes are picked
  Episodes,     \* its episodes in Sonarr's order, <<season, number>>
  Ignored       \* the AniList ids the user ignores

KometaRows == [al : Nat, tvdb : Nat, season : Int, offset : Int, tmdb : Nat, imdb : Nat, anidb : Nat]

AnidbElements == [id : Nat, maps : Seq([season : Int, eps : SUBSET Nat, readable : BOOLEAN])]

ASSUME EntryMappingsAssumption ==
  /\ \A file \in KometaFiles : file \in Seq(KometaRows)
  /\ \A list \in AnidbFiles : list \in Seq(AnidbElements)
  /\ Show \in Nat \ {NoId}
  /\ Episodes \in Seq(Nat \X Nat)

VARIABLES
  kometa, anidb,  \* the two other sources, as read
  populated,      \* the tables of all three are written
  memo,           \* what each lookup answered this run
  window          \* the last entry picked for, and its episodes

mappingVars == <<graph, records, rows, kometa, anidb, populated, memo, window>>

NoTitle == [tvdb |-> NoId, tmdb |-> NoId, imdb |-> NoId]
NotPicked == [ids |-> NoTitle, al |-> NoId, format |-> "none", count |-> NoId, eps |-> {}, fails |-> FALSE]
First(S) == CHOOSE i \in S : \A j \in S : i <= j
Latest(S) == CHOOSE i \in S : \A j \in S : j <= i
Nullable(value, default) == IF value = NoSeason THEN default ELSE value

----------------------------------------------------------------------------
\* Kometa's rows, in file order.  A missing or null season is the whole series, -1,
\* which is also how NoSeason is written; a null offset is none.

AnimeIdsRows(file) == [i \in DOMAIN file |-> [file[i] EXCEPT !.offset = Nullable(@, 0)]]

AnimeIdsLookup(column, value) ==
  {i \in DOMAIN kometa : AnimeIdsRows(kometa)[i][column] = value /\ AnimeIdsRows(kometa)[i].al # NoId}

KometaIds(column) == {kometa[i][column] : i \in DOMAIN kometa} \ {NoId}

EntryFromRow(r) ==
  [source |-> "anime_ids", season |-> r.season, offset |-> r.offset, anidb |-> r.anidb, tvdb |-> {}]

EntryFromRaw(e) ==
  [source |-> "anibridge", season |-> -1, offset |-> 0, anidb |-> e.anidb, tvdb |-> e.tvdb]

\* The entry came with ranges of its own, be they empty.
ByRanges(entry) == entry.tvdb # {}
Seasons(entry) == (CHOOSE m \in entry.tvdb : TRUE).seasons

----------------------------------------------------------------------------
\* AniDB's rows.  An id of two elements is ambiguous and keeps no row; of two
\* mappings of a season the last readable one is kept.

AnidbAmbiguous(id) == Cardinality({i \in DOMAIN anidb : anidb[i].id = id}) > 1

AnidbRows(id, season) ==
  LET own == {i \in DOMAIN anidb : anidb[i].id = id}
      maps == anidb[First(own)].maps
      readable == {k \in DOMAIN maps : maps[k].readable /\ maps[k].season = season}
  IN IF Cardinality(own) # 1 THEN {} ELSE IF readable = {} THEN {} ELSE maps[Latest(readable)].eps

----------------------------------------------------------------------------
\* The resolver.  The ids are tried in order, and what an earlier one found stands.

\* What f has, and what g adds to it.
Filled(f, g) == [x \in DOMAIN f \cup DOMAIN g |-> IF x \in DOMAIN f THEN f[x] ELSE g[x]]

AskAniBridge(axis, id) ==
  LET found == SqlLookup(axis, id)
  IN IF id = NoId THEN <<>> ELSE [a \in DOMAIN found |-> EntryFromRaw(found[a])]

FromAniBridge(ids) ==
  IF AnyEntry
  THEN Filled(Filled(AskAniBridge("tvdb", ids.tvdb), AskAniBridge("tmdb_movie", ids.tmdb)),
              AskAniBridge("imdb", ids.imdb))
  ELSE <<>>

\* The first row of each entry.
AskKometa(column, id) ==
  LET hits == AnimeIdsLookup(column, id)
  IN IF id = NoId THEN <<>>
     ELSE [a \in {kometa[i].al : i \in hits} |->
             EntryFromRow(AnimeIdsRows(kometa)[First({i \in hits : kometa[i].al = a})])]

FromKometa(ids) ==
  Filled(Filled(AskKometa("tvdb", ids.tvdb), AskKometa("tmdb", ids.tmdb)), AskKometa("imdb", ids.imdb))

IsDegraded(entry) == entry.source = "anibridge" /\ ~ByRanges(entry)

\* Mutant of Overrides: Kometa only fills in what AniBridge does not know at all.
OverridesNothing(ids, bridge, a) == a \notin DOMAIN bridge

Overrides(ids, bridge, a) == a \notin DOMAIN bridge \/ (ids.tvdb # NoId /\ IsDegraded(bridge[a]))

\* Kometa's entries where they count, AniBridge's elsewhere.
Resolved(ids) ==
  LET bridge == FromAniBridge(ids)
      kometas == FromKometa(ids)
  IN Filled([a \in {x \in DOMAIN kometas : Overrides(ids, bridge, x)} |-> kometas[a]], bridge)

GetAnilistIds(ids) ==
  [mappings |-> [a \in DOMAIN Resolved(ids) \ Ignored |-> Resolved(ids)[a]],
   ignored  |-> [a \in DOMAIN Resolved(ids) \cap Ignored |-> Resolved(ids)[a]]]

EveryEntry(resolved) == Filled(resolved.mappings, resolved.ignored)

\* The library is filtered by the ids either source carries, before any is resolved.
Collected(ids) ==
  \/ ids.tvdb \in (StoredIds("tvdb") \cup KometaIds("tvdb")) \ {NoId}
  \/ ids.tmdb \in (StoredIds("tmdb_movie") \cup KometaIds("tmdb")) \ {NoId}
  \/ ids.imdb \in (StoredIds("imdb") \cup KometaIds("imdb")) \ {NoId}

----------------------------------------------------------------------------
\* The episodes of an entry.

ByAnimeIds(e, season) == IF season = -1 THEN e[1] # 0 ELSE e[1] = season
ByAniBridge(e, seasons) == e[1] \in DOMAIN seasons /\ SeasonHolds(seasons[e[1]], e[2])

\* Picked episodes are named by their places in Sonarr's order.
Rank(i, picked) == Cardinality({j \in picked : j <= i})

Offsets(picked, entry, count) ==
  LET n == IF count = NoId THEN Cardinality(picked) - entry.offset ELSE count
      place(i) == (IF entry.season # -1 THEN Episodes[i][2] ELSE Rank(i, picked)) - entry.offset
  IN {i \in picked : 1 <= place(i) /\ place(i) <= n}

SelectedBy(entry) ==
  {i \in DOMAIN Episodes :
     IF ByRanges(entry) THEN ByAniBridge(Episodes[i], Seasons(entry)) ELSE ByAnimeIds(Episodes[i], entry.season)}

\* An AniBridge entry no TVDB lookup found, and one with no range for the show, pick nothing.
Resolvable(entry) == IF ByRanges(entry) THEN DOMAIN Seasons(entry) # {} ELSE ~IsDegraded(entry)

Renumbers(entry, format) == entry.anidb # NoId /\ (format # "TV" \/ entry.season = 0)

AnidbMapOf(entry, format) == IF Renumbers(entry, format) THEN AnidbRows(entry.anidb, entry.season) ELSE {}

GetEpList(entry, format, count) ==
  LET picked == SelectedBy(entry)
      map == AnidbMapOf(entry, format)
  IN IF ~Resolvable(entry) THEN {}
     ELSE IF map # {} THEN {i \in picked : Episodes[i][1] = entry.season /\ Episodes[i][2] \in map}
     ELSE IF ByRanges(entry) THEN picked
     ELSE Offsets(picked, entry, count)

\* The ambiguous id is an error, and the title's with it.
PickFails(entry, format) == Resolvable(entry) /\ Renumbers(entry, format) /\ AnidbAmbiguous(entry.anidb)

----------------------------------------------------------------------------
MappingsInit ==
  /\ graph \in Graphs /\ kometa \in KometaFiles /\ anidb \in AnidbFiles
  /\ records = <<>> /\ rows = EmptyTables /\ populated = FALSE
  /\ memo = <<>> /\ window = NotPicked

ParseGraph ==
  /\ ~populated /\ records = <<>> /\ DOMAIN graph # {}
  /\ records' = Parse(graph)
  /\ UNCHANGED <<graph, rows, kometa, anidb, populated, memo, window>>

Populate ==
  /\ ~populated /\ DOMAIN records = DOMAIN graph
  /\ rows' = ToRows(records) /\ populated' = TRUE
  /\ UNCHANGED <<graph, records, kometa, anidb, memo, window>>

Resolve(ids) ==
  /\ populated /\ ids \notin DOMAIN memo
  /\ memo' = Filled(memo, [new \in {ids} |-> GetAnilistIds(new)])
  /\ UNCHANGED <<graph, records, rows, kometa, anidb, populated, window>>

PickEpisodes(ids, a, format, count) ==
  LET entry == EveryEntry(memo[ids])[a] IN
  /\ window' = [ids |-> ids, al |-> a, format |-> format, count |-> count,
                eps |-> IF PickFails(entry, format) THEN {} ELSE GetEpList(entry, format, count),
                fails |-> PickFails(entry, format)]
  /\ UNCHANGED <<graph, records, rows, kometa, anidb, populated, memo>>

Formats == {"TV", "OVA"}
Counts  == {NoId, 1} \* AniList's episode count; NoId: it gives none

MappingsNext ==
  \/ ParseGraph \/ Populate
  \/ \E ids \in Lookups : Resolve(ids)
  \/ /\ window = NotPicked \* one pick a behaviour
     /\ \E ids \in DOMAIN memo : \E a \in DOMAIN EveryEntry(memo[ids]), f \in Formats, n \in Counts :
          ids.tvdb = Show /\ PickEpisodes(ids, a, f, n)

MappingsSpec == MappingsInit /\ [][MappingsNext]_mappingVars

----------------------------------------------------------------------------
\* The rows answer every lookup as the parsed graph does (anibridge.py:585,
\* "Reproduces `_consumer_entry` exactly"), and a title any entry answers for was let
\* through by the library filter.
StoredAnswersAlike ==
  /\ populated => \A axis \in Axes : \A ext \in AxisIds(records, axis) :
       SqlLookup(axis, ext) = GraphLookup(records, axis, ext)
  /\ \A ids \in DOMAIN memo : DOMAIN EveryEntry(memo[ids]) # {} => Collected(ids)

\* A specials number of TMDB's is never read as a TVDB special that another entry of
\* the show maps, whichever of the two the file lists first (anibridge.py:402-406).
MapsSpecial(a, number) ==
  LET own == {t \in OnShow(graph[a], Show) : t.season = 0}
  IN own # {} /\ SeasonHolds(UNION {TargetRanges(t) : t \in own}, number)

NoSharedSpecial ==
  \A ids \in DOMAIN memo : ids.tvdb = Show =>
    \A a \in DOMAIN memo[ids].mappings : \A m \in memo[ids].mappings[a].tvdb : \A al \in m.aliasing :
      \A n \in DOMAIN al.aliases : \A b \in DOMAIN graph \ {a} : ~MapsSpecial(b, al.aliases[n])

\* An entry's episodes are what the better source says of this series: AniBridge's
\* ranges wherever its graph names the series for the entry (unless the AniDB list has
\* a season -1, the one such an entry asks for), the season of a Kometa record of the
\* title and the entry otherwise, and none when neither knows the two together.  Nothing
\* widens them; only an AniDB list, an offset or an episode count narrows Kometa's.
NamedTargets(a) == IF a \in DOMAIN graph THEN OnShow(graph[a], Show) ELSE {}

BridgeSays(a, e) ==
  LET own == {t \in NamedTargets(a) : t.season = e[1]}
  IN own # {} /\ SeasonHolds(UNION {TargetRanges(t) : t \in own}, e[2])

OfTitle(row, ids) ==
  \/ row.tvdb = ids.tvdb /\ ids.tvdb # NoId
  \/ row.tmdb = ids.tmdb /\ ids.tmdb # NoId
  \/ row.imdb = ids.imdb /\ ids.imdb # NoId

KometaSays(a, e) ==
  \E i \in DOMAIN kometa : /\ kometa[i].al = a /\ a # NoId /\ OfTitle(kometa[i], window.ids)
                           /\ kometa[i].season = e[1] \/ (kometa[i].season = -1 /\ e[1] # 0)

\* Nothing to narrow with: one record without an offset, no AniDB list, no count, and
\* the episodes of each season counted from 1.
Whole ==
  /\ Len(kometa) = 1 /\ kometa[1].offset \in {-1, 0} /\ anidb = <<>> /\ window.count = NoId
  /\ \A i \in DOMAIN Episodes :
       Episodes[i][2] \in 1 .. Cardinality({j \in DOMAIN Episodes : Episodes[j][1] = Episodes[i][1]})

AnidbSeasonsNumbered == \A i \in DOMAIN anidb : \A m \in Range(anidb[i].maps) : m.season # NoSeason

EpisodesAsMapped ==
  window # NotPicked /\ ~window.fails =>
    IF NamedTargets(window.al) # {}
    THEN AnidbSeasonsNumbered => window.eps = {i \in DOMAIN Episodes : BridgeSays(window.al, Episodes[i])}
    ELSE /\ \A i \in window.eps : KometaSays(window.al, Episodes[i])
         /\ Whole => window.eps = {i \in DOMAIN Episodes : KometaSays(window.al, Episodes[i])}

=============================================================================
