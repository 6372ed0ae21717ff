--------------------------- MODULE AniBridgeIndex ---------------------------
(* The AniBridge mappings (anibridge.py): the graph of one source file is    *)
(* parsed once into a record per AniList id, flattened into the rows of      *)
(* mappings.db, and from then on answered from the rows alone.  A text of    *)
(* ranges is the sequence of its comma pieces, already split; a target's     *)
(* descriptor is the record of its parts.                                    *)
EXTENDS Integers, Sequences, FiniteSets, SequencesExt, TLC

CONSTANT Graphs \* the files AniBridge may have published: AniList id -> the targets of its entry, in file order

VARIABLES
  graph,    \* the file on disk
  records,  \* the view parsed from it, while it is being stored
  rows      \* the anibridge tables

NoId     == 0    \* a descriptor part that is missing or not a number
NoSeason == -1   \* a scope that is not s<digits>
Open     == -1   \* the end of `a-`
Junk     == <<-1, -1>>

Firsts(s) == IF s = <<>> THEN NoId ELSE s[1]

\* A piece as read: where it starts, and where it ends or Open.
Pieces == (Nat \X Int) \cup {Junk}

ASSUME AniBridgeAssumption ==
  \A g \in Graphs : \A a \in DOMAIN g : \A t \in Range(g[a]) : \A i \in DOMAIN t.map :
    Range(t.map[i].to.pieces) \subseteq Pieces

----------------------------------------------------------------------------
\* Range texts.  Nothing reads the order of a season's ranges: they are a set.

ParseRanges(text) == Range(text.pieces) \ {Junk}

\* Every piece is n or a-b, nothing follows, and the numbers can be counted off.
PlainRanges(text) ==
  ~text.ratio /\ \A i \in DOMAIN text.pieces :
    LET p == text.pieces[i] IN p # Junk /\ p[2] # Open /\ p[1] <= p[2]

NumbersOf(text) ==
  FlattenSeq([i \in DOMAIN text.pieces |->
    [k \in 1 .. (text.pieces[i][2] - text.pieces[i][1] + 1) |-> text.pieces[i][1] + k - 1]])

SeasonHolds(ranges, number) ==
  ranges = {} \/ \E p \in ranges : p[1] <= number /\ (p[2] = Open \/ number <= p[2])

----------------------------------------------------------------------------
\* One entry's record.

TargetRanges(t) == UNION {ParseRanges(t.map[i].to) : i \in DOMAIN t.map}

\* The ids of one provider, in file order; a descriptor without one is skipped.
IdsOf(targets, provider) ==
  LET own == SelectSeq(targets, LAMBDA t : t.provider = provider /\ t.id # NoId)
  IN [i \in DOMAIN own |-> own[i].id]

ShowIds(targets) == {t.id : t \in {u \in Range(targets) : u.provider = "tvdb_show"}} \ {NoId}
OnShow(targets, show) == {t \in Range(targets) : t.provider = "tvdb_show" /\ t.id = show}

\* A show is known by its id even when its scope says no season.
SeasonMaps(targets, show) ==
  [season \in {t.season : t \in OnShow(targets, show)} \ {NoSeason} |->
     UNION {TargetRanges(t) : t \in {u \in OnShow(targets, show) : u.season = season}}]

SpecialsOn(targets, provider) == SelectSeq(targets, LAMBDA t : t.provider = provider /\ t.season = 0)

\* The numbers one source range pairs, <<TMDB, TVDB>> by position.
RangePairs(source, tvdb, tmdb) ==
  IF PlainRanges(source) /\ PlainRanges(tvdb) /\ PlainRanges(tmdb)
     /\ Len(NumbersOf(source)) = Len(NumbersOf(tvdb)) /\ Len(NumbersOf(tvdb)) = Len(NumbersOf(tmdb))
  THEN {<<NumbersOf(tmdb)[i], NumbersOf(tvdb)[i]>> : i \in DOMAIN NumbersOf(tvdb)}
  ELSE {}

Unambiguous(pairs) ==
  LET keys == {p[1] : p \in {x \in pairs : \A y \in pairs : y[1] = x[1] => y = x}}
  IN [k \in keys |-> (CHOOSE p \in pairs : p[1] = k)[2]]

SpecialAliasing(targets) ==
  LET tvdb == SpecialsOn(targets, "tvdb_show")
      tmdb == SpecialsOn(targets, "tmdb_show")
      shared(text) == {j \in DOMAIN tmdb[1].map : tmdb[1].map[j].from = text}
      pairs == UNION {UNION {RangePairs(source.from, source.to, tmdb[1].map[j].to) : j \in shared(source.from)} :
                        source \in Range(tvdb[1].map)}
  IN IF Len(tvdb) # 1 \/ Len(tmdb) # 1 THEN <<>>
     ELSE IF tvdb[1].id = NoId \/ tmdb[1].id = NoId \/ DOMAIN Unambiguous(pairs) = {} THEN <<>>
     ELSE tvdb[1].id :> [tmdb |-> tmdb[1].id, aliases |-> Unambiguous(pairs)]

RecordOf(targets) ==
  [anidb    |-> Firsts(IdsOf(targets, "anidb")),
   shows    |-> [show \in ShowIds(targets) |-> SeasonMaps(targets, show)],
   movies   |-> IdsOf(targets, "tmdb_movie"),
   imdbs    |-> IdsOf(targets, "imdb"),
   aliasing |-> SpecialAliasing(targets)]

----------------------------------------------------------------------------
\* The view: its indexes are read off its records, which hold one key per id.

Axes == {"tvdb", "tmdb_movie", "imdb"}

KeysOf(record, axis) ==
  CASE axis = "tvdb"       -> DOMAIN record.shows
    [] axis = "tmdb_movie" -> Range(record.movies)
    [] axis = "imdb"       -> Range(record.imdbs)

IndexOf(recs, axis, ext) == {a \in DOMAIN recs : ext \in KeysOf(recs[a], axis)}
AxisIds(recs, axis) == UNION {KeysOf(recs[a], axis) : a \in DOMAIN recs}

\* What the other entries of a show map as its specials.
ClaimedBy(recs, others, show) ==
  {recs[b].shows[show][0] : b \in {x \in others : show \in DOMAIN recs[x].shows /\ 0 \in DOMAIN recs[x].shows[show]}}

\* Less every alias onto a TVDB special another entry of the show maps.
KeptAliases(recs, a, show) ==
  LET aliases == recs[a].aliasing[show].aliases IN
  {n \in DOMAIN aliases : \A r \in ClaimedBy(recs, DOMAIN recs \ {a}, show) : ~SeasonHolds(r, aliases[n])}

UnsharedAliasing(recs, a) ==
  [show \in {s \in DOMAIN recs[a].aliasing : KeptAliases(recs, a, s) # {}} |->
     [tmdb |-> recs[a].aliasing[show].tmdb,
      aliases |-> [n \in KeptAliases(recs, a, show) |-> recs[a].aliasing[show].aliases[n]]]]

RecordsOf(g) == [a \in DOMAIN g |-> RecordOf(g[a])]

\* Mutant of Parse: each entry's aliases are filtered as it is read, against the entries read before it.
ParseFilteringEarly(g) ==
  LET soFar(a) == [b \in {x \in DOMAIN g : x <= a} |-> RecordOf(g[b])]
  IN [a \in DOMAIN g |-> [RecordOf(g[a]) EXCEPT !.aliasing = UnsharedAliasing(soFar(a), a)]]

\* Every record is in before any is filtered.
Parse(g) == [a \in DOMAIN g |-> [RecordOf(g[a]) EXCEPT !.aliasing = UnsharedAliasing(RecordsOf(g), a)]]

----------------------------------------------------------------------------
\* The tables.

NoNumber == -1 \* a NULL start_ep: the season is there, with no range of its own

\* Mutant of RangeRows: a season without ranges leaves no row.
RangeRowsUnmarked(a, show, season, ranges) ==
  {[al |-> a, show |-> show, season |-> season, start |-> p[1], end |-> p[2]] : p \in ranges}

RangeRows(a, show, season, ranges) ==
  {[al |-> a, show |-> show, season |-> season, start |-> p[1], end |-> p[2]] :
     p \in IF ranges = {} THEN {<<NoNumber, NoNumber>>} ELSE ranges}

EntryRows(recs) == {[al |-> a, anidb |-> recs[a].anidb, imdb |-> Firsts(recs[a].imdbs),
                     movie |-> Firsts(recs[a].movies)] : a \in DOMAIN recs}

XrefRows(recs) ==
  UNION {UNION {{[axis |-> axis, ext |-> ext, al |-> a] : ext \in KeysOf(recs[a], axis)} :
                  axis \in Axes} : a \in DOMAIN recs}

ShowRows(a, shows) ==
  UNION {UNION {RangeRows(a, show, season, shows[show][season]) : season \in DOMAIN shows[show]} :
           show \in DOMAIN shows}

AliasRows(a, aliasing) ==
  UNION {{[al |-> a, show |-> show, tmdb |-> aliasing[show].tmdb, tmdbNumber |-> n,
           tvdbNumber |-> aliasing[show].aliases[n]] : n \in DOMAIN aliasing[show].aliases} :
           show \in DOMAIN aliasing}

ToRows(recs) ==
  [entries |-> EntryRows(recs),
   xrefs   |-> XrefRows(recs),
   ranges  |-> UNION {ShowRows(a, recs[a].shows) : a \in DOMAIN recs},
   aliases |-> UNION {AliasRows(a, recs[a].aliasing) : a \in DOMAIN recs}]

EmptyTables == [entries |-> {}, xrefs |-> {}, ranges |-> {}, aliases |-> {}]

----------------------------------------------------------------------------
\* The two backings of one lookup.  An entry's `tvdb` holds its maps for the show
\* asked about, or nothing.

EntryDict(anidb, imdb, movie, tvdb) == [anidb |-> anidb, imdb |-> imdb, movie |-> movie, tvdb |-> tvdb]

ConsumerEntry(recs, a, show) ==
  EntryDict(recs[a].anidb, Firsts(recs[a].imdbs), Firsts(recs[a].movies),
    IF show \in DOMAIN recs[a].shows
    THEN {[seasons |-> recs[a].shows[show],
           aliasing |-> IF show \in DOMAIN recs[a].aliasing THEN {recs[a].aliasing[show]} ELSE {}]}
    ELSE {})

\* Only a lookup by TVDB id is about one show.
ShowAsked(axis, ext) == IF axis = "tvdb" THEN ext ELSE NoId

GraphLookup(recs, axis, ext) ==
  [a \in IndexOf(recs, axis, ext) |-> ConsumerEntry(recs, a, ShowAsked(axis, ext))]

XrefsOf(axis, ext) == {x.al : x \in {y \in rows.xrefs : y.axis = axis /\ y.ext = ext}}

RangesToMappings(hits) ==
  [season \in {h.season : h \in hits} |->
     {<<h.start, h.end>> : h \in {x \in hits : x.season = season /\ x.start # NoNumber}}]

AliasingOf(hits) ==
  IF hits = {} THEN {}
  ELSE {[tmdb |-> (CHOOSE h \in hits : TRUE).tmdb,
         aliases |-> [n \in {h.tmdbNumber : h \in hits} |-> (CHOOSE h \in hits : h.tmdbNumber = n).tvdbNumber]]}

RangesFor(a, show) == {r \in rows.ranges : r.al = a /\ r.show = show}
AliasesFor(a, show) == {r \in rows.aliases : r.al = a /\ r.show = show}

SqlEntry(e, show) ==
  EntryDict(e.anidb, e.imdb, e.movie,
    IF show = NoId THEN {}
    ELSE {[seasons  |-> RangesToMappings(RangesFor(e.al, show)),
           aliasing |-> AliasingOf(AliasesFor(e.al, show))]})

SqlLookup(axis, ext) ==
  [a \in {e.al : e \in {x \in rows.entries : x.al \in XrefsOf(axis, ext)}} |->
     SqlEntry(CHOOSE x \in rows.entries : x.al = a, ShowAsked(axis, ext))]

StoredIds(axis) == {x.ext : x \in {y \in rows.xrefs : y.axis = axis}}
AnyEntry == rows.entries # {}

=============================================================================
