------------------------------- MODULE Placer -------------------------------
(***************************************************************************)
(* assign_episode_ids of placer/: a torrent's files placed onto one        *)
(* window's episodes by passes that run in a fixed order, each onto the    *)
(* ids the earlier ones left open.  A pass is an operator on the state.    *)
(***************************************************************************)
EXTENDS PlacerState

-----------------------------------------------------------------------------
(* Passes 1 to 4: what no pass may place by its reading.                     *)

Extras(st) == SetAside(st, Remaining(st) \cap st.extra, "EXTRA")

\* A title refutes its file's reading and its run's; an unconfirmed count is a dispute.
RefuseRefuted(st) ==
  LET reads(i) == st.rd[i].resolved
      titled == {i \in Counted(st) : reads(i) # {} /\ Contradicts(st, i, reads(i))}
      unconfirmed == {i \in Counted(st) : reads(i) # {} /\ CountedByTitle(st, i)}
      mates == UNION {r.whole : r \in {r \in Runs(st, Counted(st)) : r.whole \cap titled # {}}}
      refuted == titled \cup {i \in mates : st.rd[i].inside # {} /\ ~Confirms(st, i, reads(i))}
  IN [Bar(Veto(st, refuted \cup unconfirmed), refuted \cup unconfirmed # {}) EXCEPT
        !.runRefuted = refuted \ titled, !.disputed = unconfirmed]

\* _disputes: the episodes a name's two counts spread it over, {} when they agree.
Disputes(st, i) ==
  LET f == st.file[i]
      r == st.rd[i]
      counts == IF r.borrowed \/ f.eps = {} \/ f.season < 0
                  THEN IF r.resolved = {} THEN {} ELSE f.tagged
                ELSE IF f.explicit THEN f.tagged
                ELSE IF r.resolved # {} /\ ~r.corroborated THEN f.bare
                ELSE GluedCounts(f) \cap f.bare
      others == (UNION {AtAbsolute(n) : n \in counts}) \ r.resolved
  IN IF ~f.known \/ others = {} THEN {} ELSE r.resolved \cup others

\* _positions_disputed: a keyed run numbered past the end of a season whose absolute
\* numbers interleave specials counted them, or it appended extras.
PositionsDisputed(st, r) ==
  LET f(i) == st.file[i]
      season == f(Only(r.members)).season
      count == SeasonCount(season)
      absolutes == {AbsOf[e] : e \in InSeason(season)} \ {0}
      first == Min(absolutes)
      inner == {e \in InSeason(0) : AbsOf[e] \in first..Max(absolutes)}
      position == Min({AbsOf[e] : e \in inner}) - first + 1
      spread == {e \in InSeason(season) : KeyOf[e][2] >= position}
                  \cup {e \in inner : AbsOf[e] - first + 1 \in Set(Numbers(st, r))}
      keyed == /\ \A i \in r.members : /\ f(i).known /\ f(i).season = season /\ f(i).explicit
                                       /\ f(i).eps # {} /\ Min(f(i).eps) = f(i).num
               /\ season > 0 /\ count > 0 /\ \E i \in r.members : f(i).num > count
               /\ Cardinality(absolutes) = count /\ inner # {}
  IN IF keyed THEN {i \in r.members : f(i).num >= position} \X spread ELSE {}

PositionSpreads(st) == UNION {PositionsDisputed(st, r) : r \in Runs(st, Counted(st))}
Spreads(st, byShape) == byShape \cup UNION {{i} \X Disputes(st, i) : i \in Counted(st)}
SpreadFiles(spreads) == {p[1] : p \in spreads}

\* The disputed files that this window could hold; those of another bar it only.
DisputeHere(st, byShape, here, elsewhere) ==
  LET copies == (UNION {r.superseded : r \in Runs(st, Counted(st))}) \cap here
      winners == ExactPicks(st) \cap here
      loses(i, others) == (UNION {ExactIds(st.rd[j]) : j \in others \ {i}}) \cap ExactIds(st.rd[i])
  IN [Bar(SetAside(Veto(st, here), copies \cap Remaining(st), "DUPLICATE"), here \cup elsewhere # {}) EXCEPT
        !.lost = [i \in Files(st) |-> IF i \in Remaining(st) THEN loses(i, winners) ELSE {}],
        !.disputed = @ \cup (here \ copies),
        !.byPosition = here \cap SpreadFiles(byShape),
        !.elsewhere = elsewhere]

RefuseDisputed(st) ==
  LET here(spreads) == {i \in Files(st) : \E e \in st.window : <<i, e>> \in spreads}
      elsewhere(spreads) == SpreadFiles(spreads) \ here(spreads)
      ofShape(byShape) == {DisputeHere(st, byShape, here(spreads), elsewhere(spreads)) :
                             spreads \in {Spreads(st, byShape)}}
  IN Only(UNION {ofShape(byShape) : byShape \in {PositionSpreads(st)}})

RefuseOverlaps(st) ==
  LET standing == {i \in Counted(st) : ~st.rd[i].vetoed}
      ids(i) == st.rd[i].resolved
  IN Veto(st, {i \in Remaining(st) : /\ Cardinality(ids(i)) > 1
                                     /\ \E e \in ids(i) : Cardinality({ids(j) : j \in {j \in standing : e \in ids(j)}}) > 1})

-----------------------------------------------------------------------------
(* Pass 5: a run matched into one season of its width, a few members shifted *)
(* onto specials, is that season's; a tie when the specials fit as well.     *)

SeasonFit(st, r) ==
  LET width == Cardinality(r.members)
      reads(i) == st.rd[i].resolved
      into(s) == {i \in r.members : reads(i) \cap InSeason(s) # {}}
      seasons == {SeasonOf(e) : e \in UNION {reads(i) : i \in r.members}} \ {0}
      season == Only(seasons)
      fits == /\ FromOne(st, r, width)
              /\ \A i \in r.members : /\ st.file[i].known /\ st.file[i].eps = {}
                                      /\ Cardinality(reads(i)) <= 1
              /\ Cardinality(seasons) = 1 /\ SeasonCount(season) = width
              /\ into(0) # {} /\ Cardinality(into(season)) >= Cardinality(into(0))
  IN IF ~fits THEN [fit |-> "none", season |-> 0]
     ELSE [fit |-> IF Cardinality(into(season)) = Cardinality(into(0)) /\ SeasonCount(0) = width
                     THEN "tied" ELSE "season",
           season |-> season]

Reread(st, season, i) ==
  LET ids == IdAt(season, st.file[i].num)
  IN IF ids = {} THEN st.rd[i]
     ELSE [NoReading EXCEPT !.resolved = ids, !.inside = ids \cap st.window, !.complete = TRUE,
             !.borrowed = TRUE, !.corroborated = TRUE, !.vetoed = Contradicts(st, i, ids)]

Tie(st, season, i) ==
  [st.rd[i] EXCEPT !.vetoed = TRUE, !.isTied = TRUE,
     !.tied = IdAt(season, st.file[i].num) \cup IdAt(0, st.file[i].num)]

RereadSeasonRuns(st) ==
  LET runs == Runs(st, Remaining(st))
      mine(i) == {r \in runs : i \in r.whole}
      read(i) == LET fit == SeasonFit(st, Only(mine(i)))
                 IN CASE mine(i) = {} \/ fit.fit = "none" -> st.rd[i]
                      [] mine(i) # {} /\ fit.fit = "tied" -> Tie(st, fit.season, i)
                      [] mine(i) # {} /\ fit.fit = "season" -> Reread(st, fit.season, i)
  IN [st EXCEPT !.rd = [i \in Files(st) |-> read(i)]]

-----------------------------------------------------------------------------
(* Pass 6: a specials pack whose numbers are not the listing's goes where    *)
(* the listing's aliases put it, or to a hand import whole.                  *)

SpecialsListing(st) ==
  IF st.window \subseteq st.batch.listed /\ AllSpecials(st.batch.listed) THEN st.batch.listed ELSE {}

\* _sole_specials_run: the batch as one run of as many S00Exx names as are listed.
IsSolePack(st, r, width) ==
  /\ AllKnown(st) /\ ~st.barred /\ OnlyExtrasJudged(st) /\ r.whole = Counted(st)
  /\ Cardinality(r.members) = width /\ Cardinality(Set(Numbers(st, r))) = width
  /\ \A i \in r.whole : /\ SingleParse(st.file[i], st.window)
                        /\ st.file[i].season = 0 /\ st.file[i].eps = {st.file[i].num}
  /\ \E i \in r.whole : ~Confirms(st, i, st.rd[i].resolved)

MisnumberedPacks(st) ==
  LET listed == SpecialsListing(st)
      onListing(n) == IdAt(0, n) # {} /\ IdAt(0, n) \subseteq listed
  IN {r \in Runs(st, Counted(st)) : /\ listed # {} /\ IsSolePack(st, r, Cardinality(listed))
                                    /\ \E n \in Set(Numbers(st, r)) : ~onListing(n)}

AliasedSpecial(st, i) ==
  UNION {IdAt(0, a[2]) : a \in {a \in st.batch.alias : a[1] = st.file[i].num}}
Aliases(st, r) ==
  /\ \A i \in r.whole : LET ids == AliasedSpecial(st, i) IN
       /\ ids # {} /\ ~Contradicts(st, i, ids)
       /\ st.batch.ident[i] \in {0} \cup ids /\ st.batch.seed[i] \in {{}, ids}
  /\ UNION {AliasedSpecial(st, i) : i \in r.members} = SpecialsListing(st)

AliasOne(st, i) ==
  LET ids == AliasedSpecial(st, i)
  IN IF ids \subseteq st.window THEN PutOrSkip(st, i, Only(ids), "ALTERNATE")
     ELSE Put(st, i, {}, "ALIASED_ELSEWHERE")

-----------------------------------------------------------------------------
(* Pass 7: a file of the size of an episode's single-file release is it.     *)

\* _numbers_another: the name has a number, and none of its numbers is the episode's.
NumbersAnother(st, i, e) ==
  LET f == st.file[i]
      keys == IF f.season < 0 \/ MissesTheSeries(f) THEN {} ELSE {<<f.season, n>> : n \in f.eps}
      number == KeyOf[e][2]
  IN /\ e \notin st.rd[i].resolved
     /\ st.rd[i].resolved # {} \/ keys # {} \/ f.abs # {} \/ f.prefix # NoPrefix
     /\ KeyOf[e] \notin keys /\ (AbsOf[e] = 0 \/ AbsOf[e] \notin f.abs)
     /\ keys # {} \/ f.prefix = NoPrefix \/ f.num \notin {number} \cup ({AbsOf[e]} \ {0})

IdentifyOne(st, i) ==
  LET e == st.batch.ident[i]
      another == NumbersAnother(st, i, e)
      marked == [Bar(st, another) EXCEPT
                   !.sizeRefuted = @ \cup IF another THEN {st.file[i].prefix} \ {NoPrefix} ELSE {}]
  IN IF e = 0 THEN st
     ELSE IF (Trusted(st.rd[i]) /\ st.rd[i].resolved = {e}) \/ Contradicts(st, i, {e}) THEN st
     ELSE IF e \notin st.window THEN Put(st, i, {}, "FOREIGN")
     ELSE PutOrSkip(marked, i, e, IF another THEN "OVERRIDDEN" ELSE "IDENTIFIED")

\* A run's lone title loses to a mate that reads its episode, the run's count standing.
Outnumbered(st, i, e) ==
  \E r \in Runs(st, Counted(st)) :
    /\ i \in r.whole
    /\ Cardinality({j \in r.whole : Contradicts(st, j, st.rd[j].resolved)}) < MinTitleHits
    /\ \E j \in r.whole \ {i} : e \in st.rd[j].resolved

TitleOne(st, i) ==
  LET e == st.file[i].title
      takes == /\ e # 0 /\ e \in Open(st) /\ SingleParse(st.file[i], st.window)
               /\ ~RunnerUp(st, i, {e}) /\ ~Outnumbered(st, i, e)
               /\ st.rd[i].isTied => e \in st.rd[i].tied
  IN IF takes THEN Bar(Put(st, i, {e}, "EPISODE_TITLE"), TRUE) ELSE st

-----------------------------------------------------------------------------
(* Passes 6, 7 and 10 take the files one by one, each onto what is still open. *)

Turn(n, st, i) ==
  CASE n = 6 -> AliasOne(st, i)
    [] n = 7 -> IdentifyOne(st, i)
    [] n = 10 -> TitleOne(st, i)
OneByOne(n, st, files) ==
  LET after[k \in 0..Len(files)] ==
        IF k = 0 THEN st ELSE Only({Turn(n, s, files[k]) : s \in {after[k - 1]}})
  IN after[Len(files)]

MisnumberedPack(st) ==
  LET pack == Only(MisnumberedPacks(st))
  IN IF MisnumberedPacks(st) = {} THEN st
     ELSE IF Aliases(st, pack)
       THEN SetAside(OneByOne(6, st, InOrder(st, pack.members \cap Remaining(st))),
                     pack.superseded \cap Remaining(st), "DUPLICATE")
     ELSE IF Untouched(st) THEN SetAside(st, pack.whole \cap Remaining(st), "MISNUMBERED")
     ELSE st
Identity(st) == OneByOne(7, st, Ascending(Remaining(st)))
EpisodeTitle(st) ==
  OneByOne(10, st, Sorted(Remaining(st), LAMBDA i, j : Lower(st, j, i)
                                \/ (st.file[i].ver = st.file[j].ver /\ i < j)))

-----------------------------------------------------------------------------
(* Pass 8: one numbered run's own numbers place it onto the run window.      *)

\* _Tier: how well a run fits the window, 1 the best, 0 not at all.
Tier(st, w, r) ==
  LET numbers == Numbers(st, r)
      width == Len(w.ids)
      from1(n) == numbers = [k \in 1..n |-> k]
  IN IF from1(width) THEN 1
     ELSE IF numbers = w.numbers THEN 2
     ELSE IF /\ w.season >= 0 /\ SeasonCount(w.season) > width
             /\ from1(SeasonCount(w.season)) THEN 3
     ELSE IF /\ st.used = {} /\ Cardinality(r.members) = width /\ IsConsecutive(numbers)
             /\ \A i \in r.members : ~st.rd[i].complete THEN 4
     ELSE 0

\* TitleEvidence: the members whose tail starts with only window titles, only others.
Inside(st, w, r)  == Cardinality({i \in r.members : LET l == st.file[i].leads IN l # {} /\ l \subseteq Set(w.ids)})
OutsideTitled(st, w, r) == Cardinality({i \in r.members : LET l == st.file[i].leads IN l # {} /\ l \cap Set(w.ids) = {}})
Selects(st, w, r) == Inside(st, w, r) >= MinTitleHits /\ Inside(st, w, r) > OutsideTitled(st, w, r)
Vetoes(st, w, r)  == OutsideTitled(st, w, r) >= MinTitleHits /\ Inside(st, w, r) = 0

SeasonsRead(st, r) == {SeasonOf(e) : e \in UNION {st.rd[i].resolved : i \in r.members}}
SettledElsewhere(st, r) ==
  IF \A i \in r.members : st.rd[i].isTied
    THEN \A i \in r.members : st.rd[i].tied \cap st.window = {}
  ELSE /\ \A i \in r.members : /\ Outside(st.rd[i]) /\ st.rd[i].corroborated
                               /\ Cardinality(st.rd[i].resolved) = 1
       /\ \A i, j \in r.members : st.rd[i].resolved = st.rd[j].resolved => i = j
NamedRun(st, r) == \E i \in r.whole : st.al \in st.file[i].names

\* _RunFit.refused: the batch shows the run cannot own the whole window.
RunRefused(st, w, r) ==
  \/ \E i \in r.members :
       \/ ~st.file[i].known \/ ClaimsSeveral(st.file[i])
       \/ /\ w.season # 0 /\ ~st.rd[i].borrowed /\ st.rd[i].complete
          /\ st.rd[i].resolved \cap Set(w.ids) = {}
  \/ \E i \in Remaining(st) \ r.whole :
       \/ st.rd[i].tied \cap Set(w.ids) # {}
       \/ /\ Trusted(st.rd[i]) /\ ~RunnerUp(st, i, st.rd[i].resolved)
          /\ st.rd[i].resolved # {} /\ st.rd[i].resolved \subseteq Set(w.ids)

CoveringRefused(w) ==
  w.season <= 0 \/ \E n \in 1..SeasonCount(w.season) : IdAt(w.season, n) = {}

\* _sole_candidate: each tie-break applies only while several are left.
OpenFirst(S, open) == IF Cardinality(S) > 1 /\ S \cap open # {} THEN S \cap open ELSE S
Sole(S, T) == IF Cardinality(S) > 1 /\ Cardinality(T) = 1 THEN T ELSE S
ByTitles(st, w, S) == Sole(S, {r \in S : Selects(st, w, r)})
ByName(st, S) == Sole(S, {r \in S : NamedRun(st, r)})
BestTier(S, tier) == IF Cardinality(S) > 1 THEN {r \in S : \A q \in S : tier[r] <= tier[q]} ELSE S
Lone(S) == IF Cardinality(S) = 1 THEN S ELSE {}
SoleCandidate(st, w, tier, candidates, open) ==
  Lone(BestTier(ByName(st, ByTitles(st, w, OpenFirst(candidates, open))), tier))

\* The pick of pass_release_run placed, left to the exact pass, or refused.
PlaceRun(st, w, r, covers, disputed, open) ==
  LET slice == {i \in r.members : ~covers \/ st.file[i].num \in Set(w.numbers)}
      files == InOrder(st, slice)
      exact(i) == ExactIds(st.rd[i])
      refused == \/ RunRefused(st, w, r) \/ (covers /\ CoveringRefused(w)) \/ r \in disputed
                 \/ r.members \cap st.byPosition # {} \/ Vetoes(st, w, r)
                 \/ ~NamedRun(st, r) /\ \E q \in open : NamedRun(st, q)
      reads == /\ \A i \in slice : Cardinality(exact(i)) = 1 /\ exact(i) \subseteq Set(w.ids)
               /\ \A i, j \in slice : exact(i) = exact(j) => i = j
  IN IF r.prefix \in st.sizeRefuted THEN st
     ELSE IF ~AllKnown(st) THEN SetAside(st, r.whole, "HELD")
     ELSE IF refused THEN Bar(st, TRUE)
     ELSE IF reads THEN st
     ELSE IF ~Zips(st, files, w.ids) THEN Bar(st, TRUE)
     ELSE SetAside(SetAside(PlaceZip(st, files, w.ids, "RELEASE_RUN"), r.members \ slice, "FOREIGN"),
                   r.superseded, "DUPLICATE")

\* A run of a disputed tier keeps its readings only when it settled elsewhere.
Disputed(st, w, tier) == {r \in DOMAIN tier : tier[r] = 3 /\ SeasonsRead(st, r) \ {w.season} # {}}
Unsettled(st, r) == ~(SettledElsewhere(st, r) /\ Cardinality(SeasonsRead(st, r)) = 1)
VetoUnsettled(st, disputed) == Veto(st, UNION {r.whole : r \in {r \in disputed : Unsettled(st, r)}})

PlacePick(st, w, tier, pick, disputed, open) ==
  IF pick = {} THEN st ELSE PlaceRun(st, w, Only(pick), tier[Only(pick)] = 3, disputed, open)
JudgeRuns(st, w, tier, candidates, disputed, open) ==
  PlacePick(Bar(st, Cardinality(candidates) > 1), w, tier,
            SoleCandidate(st, w, tier, candidates, open), disputed, open)
OnVetoed(st, w, tier, disputed) ==
  JudgeRuns(st, w, tier, {r \in DOMAIN tier : tier[r] > 0}, disputed,
            {r \in DOMAIN tier : ~SettledElsewhere(st, r)})
OntoWindow(st, w, tier) == OnVetoed(VetoUnsettled(st, Disputed(st, w, tier)), w, tier, Disputed(st, w, tier))

ReleaseRun(st) ==
  LET w == RunWindow(st)
  IN IF w.ids = <<>> THEN st
     ELSE OntoWindow(st, w, [r \in Runs(st, Remaining(st)) |-> Tier(st, w, r)])

-----------------------------------------------------------------------------
(* Passes 9 and 10: by the reading, by the episode title.                    *)

Exact(st) == PutEach(st, [i \in ExactPicks(st) |-> ExactIds(st.rd[i])], "EXACT")

-----------------------------------------------------------------------------
(* Passes 11 to 14: by position.                                             *)

\* _reads_no_number.
ReadsNoNumber(st, i) ==
  /\ i \notin st.disputed \cup st.elsewhere /\ SingleParse(st.file[i], st.window)
  /\ NoNumber(st.file[i]) \/ MissesTheSeries(st.file[i])
  /\ ~st.rd[i].isTied /\ st.file[i].title = 0

\* _absolute_order, when the absolute zip applies.
AbsolutesPair(st, open) ==
  LET f(i) == st.file[i] IN
  /\ ~st.barred /\ AllKnown(st) /\ Cardinality(open) = Cardinality(Open(st))
  /\ \A i \in open : Cardinality(f(i).abs) = 1 /\ ~CountedByTitle(st, i)
  /\ \A i, j \in Counted(st) : f(i).abs \cap f(j).abs # {} => i = j

\* _place_single: the only open file, else the numberless one an AniList title names.
Single(st, open, e) ==
  LET unnumbered == {i \in open : ReadsNoNumber(st, i)}
      named == {i \in unnumbered : st.al \in st.file[i].names}
      alone == Cardinality(open) = 1 /\ unnumbered # {}
      pick == IF alone THEN unnumbered ELSE IF AllKnown(st) THEN named ELSE {}
  IN IF Cardinality(pick) # 1 \/ RunnerUp(st, Only(pick), {e}) THEN st
     ELSE Put(st, Only(pick), {e}, IF alone THEN "SINGLE" ELSE "TITLED")

\* _natural_order: nothing else of the torrent was placed, held or seeded.
Pristine(st, open) ==
  /\ ~st.barred /\ Cardinality(open) = Cardinality(Open(st)) /\ Untouched(st)
  /\ open = Counted(st)
  /\ \A i \in open : SingleParse(st.file[i], st.window) /\ NoNumber(st.file[i])

Positional(st) ==
  LET open == {i \in Remaining(st) : ~Outside(st.rd[i])}
      ids == Ascending(Open(st))
      byAbsolute == By([i \in open |-> Min(st.file[i].abs)], open)
  IN IF open = {} \/ ids = <<>> THEN st
     ELSE IF AbsolutesPair(st, open) THEN PlaceZip(st, byAbsolute, ids, "ABSOLUTE")
     ELSE IF Len(ids) = 1 THEN Single(st, open, ids[1])
     ELSE IF Pristine(st, open) THEN PlaceZip(st, Ascending(open), ids, "ORDERED")
     ELSE st

NumberedRun(st) ==
  LET w == RunWindow(st)
      blind == {i \in Remaining(st) : /\ st.rd[i].resolved = {} /\ st.file[i].eps = {}
                                      /\ SingleParse(st.file[i], st.window)}
      fits == {r \in Runs(st, blind) : FromOne(st, r, Len(w.ids))}
      r == Only(fits)
  IN IF ~AllKnown(st) \/ st.barred \/ w.ids = <<>> \/ Cardinality(fits) # 1 THEN st
     ELSE IF ~Zips(st, InOrder(st, r.members), w.ids) THEN Bar(st, TRUE)
     ELSE SetAside(PlaceZip(st, InOrder(st, r.members), w.ids, "NUMBERED_RUN"), r.superseded, "DUPLICATE")

-----------------------------------------------------------------------------
(* Pass 15: what no pass placed.                                             *)

\* The ids a file of this torrent provably holds; one placed by size proves nothing.
Proven(st) ==
  LET by(verdicts) == UNION {st.place[i].ids : i \in {i \in Files(st) : st.place[i].verdict \in verdicts}}
      seeded == Files(st) \ ToPlace(st)
  IN (st.used \ (st.before \cup by(BySize)))
       \cup UNION {st.rd[i].resolved \cup ({st.file[i].title} \ {0}) : i \in seeded}
HeldByVersions(st, i) ==
  LET versions == {j \in Files(st) : st.file[j].same = st.file[i].same}
  IN (UNION {st.place[j].ids : j \in versions})
       \cup ({st.file[j].title : j \in versions \ ToPlace(st)} \ {0})

\* _titled_outside: a title alone never excludes a file the entry may still need.
TitledOutside(st, i) ==
  LET r == st.rd[i] IN
  /\ st.file[i].title # 0 /\ st.file[i].title \notin st.window
  /\ \/ r.complete /\ r.inside = {}
     \/ r.vetoed /\ r.resolved # {} /\ r.resolved \subseteq st.used
     \/ Open(st) = {}

Classified(st, i) ==
  LET ids == ExactIds(st.rd[i])
      title == st.file[i].title
      orSkip(cond) == IF cond THEN "DUPLICATE" ELSE "SKIPPED"
  IN IF i \in st.disputed THEN "MISNUMBERED"
     ELSE IF ids # {} THEN orSkip(ids \subseteq st.used \cap Proven(st))
     ELSE IF title \in st.used THEN orSkip(title \in HeldByVersions(st, i))
     ELSE IF Outside(st.rd[i]) \/ TitledOutside(st, i) THEN "FOREIGN"
     ELSE IF i \in st.runRefuted THEN "TITLE_REFUTED"
     ELSE "SKIPPED"

Classify(st) ==
  [st EXCEPT !.place = [i \in Files(st) |-> IF i \in Remaining(st)
                          THEN [ids |-> {}, verdict |-> Classified(st, i)] ELSE @[i]]]

\* assign_episode_ids: the passes, in order.
Pass(n, st) ==
  CASE n = 1 -> Extras(st)
    [] n = 2 -> RefuseRefuted(st)
    [] n = 3 -> RefuseDisputed(st)
    [] n = 4 -> RefuseOverlaps(st)
    [] n = 5 -> RereadSeasonRuns(st)
    [] n = 6 -> MisnumberedPack(st)
    [] n = 7 -> Identity(st)
    [] n = 8 -> ReleaseRun(st)
    [] n = 9 -> Exact(st)
    [] n = 10 -> EpisodeTitle(st)
    [] n = 11 -> Positional(st)
    [] n = 12 -> NumberedRun(st)
    [] n = 13 -> Classify(st)
Assign(batch, al, window, used) ==
  LET after[n \in 0..13] == IF n = 0 THEN Start(batch, al, window, used)
                            ELSE Only({Pass(n, st) : st \in {after[n - 1]}})
  IN after[13].place
=============================================================================
