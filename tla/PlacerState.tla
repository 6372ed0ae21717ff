---------------------------- MODULE PlacerState ----------------------------
(***************************************************************************)
(* The state one assign_episode_ids call runs its passes over              *)
(* (placer/_state.py): what each name and parse of a torrent says, each    *)
(* file's verdict, the ids used so far, and the views two passes read.     *)
(***************************************************************************)
EXTENDS ParseReading, FiniteSetsExt

Unjudged == "unjudged"
BySize == {"IDENTIFIED", "OVERRIDDEN"}
Placing == {"EXACT", "RELEASE_RUN", "ABSOLUTE", "SINGLE", "ORDERED", "NUMBERED_RUN", "TITLED",
            "EPISODE_TITLE", "ALTERNATE"} \cup BySize
Excluding == {"FOREIGN", "LISTED_ELSEWHERE", "DUPLICATE", "EXTRA"}
HandImport == {"MISNUMBERED", "TITLE_REFUTED"}
Refusing == {"HELD", "MISNUMBERED"}

MinTitleHits == 2   \* MIN_TITLE_HITS

Sorted(S, Less(_, _)) ==
  [n \in 1..Cardinality(S) |-> CHOOSE x \in S : Cardinality({y \in S : Less(y, x)}) = n - 1]
Ascending(S) == Sorted(S, LAMBDA x, y : x < y)
By(f, S) == Sorted(S, LAMBDA x, y : f[x] < f[y])
Along(seq, f) == [n \in DOMAIN seq |-> f[seq[n]]]
Set(seq) == {seq[n] : n \in DOMAIN seq}
Only(S) == CHOOSE x \in S : TRUE

-----------------------------------------------------------------------------
(* The state of one call, and the views of it two or more passes read.       *)

\* The ids of the window already used; HeldByOthers forgets the record's own map.
HeldByOthers(batch, window, used0) == used0 \cap window
HeldIn(batch, window, used0) ==
  (used0 \cup UNION {batch.seed[i] : i \in DOMAIN batch.files}) \cap window

\* batch: files, seed (file -> ids, {} for none) and what the listings say of the
\* torrent: listed ids, alias (a special's number -> its alias, 0 for none), ident (file
\* -> the episode its size matched, 0 for none).
Start(batch, al, window, used0) ==
  LET held == HeldIn(batch, window, used0)
      wide == [i \in DOMAIN batch.files |-> Widened(batch.files[i])]
  IN [batch |-> batch, file |-> wide, al |-> al, window |-> window, before |-> held,
      used |-> held, rd |-> [i \in DOMAIN wide |-> ReadParse(wide[i], window)],
      place |-> [i \in DOMAIN wide |-> [ids |-> {}, verdict |-> Unjudged]],
      barred |-> FALSE, disputed |-> {}, byPosition |-> {}, elsewhere |-> {}, runRefuted |-> {},
      lost |-> [i \in DOMAIN wide |-> {}], sizeRefuted |-> {},
      extra |-> {i \in DOMAIN wide : wide[i].extraWord /\ ~Keyed(ReadParse(wide[i], window))}]

Files(st) == DOMAIN st.file
ToPlace(st) == {i \in Files(st) : st.batch.seed[i] = {}}
Judged(st) == {i \in Files(st) : st.place[i].verdict # Unjudged}
Remaining(st) == ToPlace(st) \ Judged(st)
Open(st) == st.window \ st.used
AllKnown(st) == \A i \in Files(st) : st.file[i].known
Counted(st) == Files(st) \ st.extra
OnlyExtrasJudged(st) == Judged(st) \subseteq st.extra
Untouched(st) == OnlyExtrasJudged(st) /\ st.before = {}

Contradicts(st, i, ids) == st.file[i].title # 0 /\ st.file[i].title \notin ids
Confirms(st, i, ids) == st.file[i].title # 0 /\ st.file[i].title \in ids
RunnerUp(st, i, ids) == st.lost[i] \cap ids # {}
Lower(st, i, j) == st.file[i].ver < st.file[j].ver

Vetoed(r) == [r EXCEPT !.vetoed = TRUE]
Veto(st, S) ==
  [st EXCEPT !.rd = [i \in Files(st) |-> IF i \in S THEN Vetoed(st.rd[i]) ELSE st.rd[i]]]
Bar(st, cond) == [st EXCEPT !.barred = @ \/ cond]
PutEach(st, ids, verdict) ==
  [st EXCEPT !.place = [i \in Files(st) |->
                          IF i \in DOMAIN ids THEN [ids |-> ids[i], verdict |-> verdict] ELSE @[i]],
             !.used = @ \cup UNION {ids[i] : i \in DOMAIN ids}]
Put(st, i, ids, verdict) == PutEach(st, [f \in {i} |-> ids], verdict)
PutOrSkip(st, i, e, verdict) ==
  IF e \in st.used THEN Put(st, i, {}, "SKIPPED") ELSE Put(st, i, {e}, verdict)
SetAside(st, S, verdict) ==
  [st EXCEPT !.place = [i \in Files(st) |->
     IF i \in S THEN [ids |-> {}, verdict |-> verdict] ELSE @[i]]]

\* As Zips, whatever the files are titled.
ZipsAnyTitle(st, files, ids) == TRUE

\* place_zip: a file titled as an episode other than its pair refuses the whole zip.
Zips(st, files, ids) == \A n \in DOMAIN files : ~Contradicts(st, files[n], {ids[n]})
Paired(files, ids) == [i \in Set(files) |-> {ids[n] : n \in {n \in DOMAIN files : files[n] = i}}]
PlaceZip(st, files, ids, verdict) ==
  IF Zips(st, files, ids) THEN PutEach(st, Paired(files, ids), verdict) ELSE Bar(st, TRUE)

\* A numbered run: the files of one prefix, a lower version of a number superseded.
Run(st, S, prefix) ==
  LET mine == {i \in S : st.file[i].prefix = prefix /\ ~AbsoluteDisagrees(st.file[i])}
      lower == {i \in mine : \E j \in mine : st.file[j].num = st.file[i].num /\ Lower(st, i, j)}
  IN [prefix |-> prefix, whole |-> mine, superseded |-> lower, members |-> mine \ lower]
Runs(st, S) ==
  {r \in {Run(st, S, st.file[i].prefix) : i \in {i \in S : st.file[i].prefix # NoPrefix}} : r.whole # {}}
InOrder(st, S) ==
  Sorted(S, LAMBDA i, j : st.file[i].num < st.file[j].num
                            \/ (st.file[i].num = st.file[j].num /\ i < j))
Numbers(st, r) == LET files == InOrder(st, r.members) IN [n \in DOMAIN files |-> st.file[files[n]].num]
IsConsecutive(seq) == \A n \in DOMAIN seq : seq[n] = seq[1] + n - 1
FromOne(st, r, width) == Numbers(st, r) = [n \in 1..width |-> n]

\* run_window: the open ids as consecutive episodes of one season, else all consecutive
\* by absolute number; season -1 when they span seasons, no ids when neither.
NoWindow == [season |-> -1, ids |-> <<>>, numbers |-> <<>>]
RunWindow(st) ==
  LET open == Open(st)
      number == [e \in open |-> KeyOf[e][2]]
      keyed == By(number, open)
      aired == By(AbsOf, open)
      one == Cardinality({SeasonOf(e) : e \in open}) = 1
      absolutes == {AbsOf[e] : e \in open}
  IN IF Cardinality(open) < 2 THEN NoWindow
     ELSE IF one /\ IsConsecutive(Along(keyed, number))
       THEN [season |-> SeasonOf(keyed[1]), ids |-> keyed, numbers |-> Along(keyed, number)]
     ELSE IF /\ 0 \notin absolutes /\ Cardinality(absolutes) = Cardinality(open)
             /\ IsConsecutive(Along(aired, AbsOf))
       THEN [season |-> -1, ids |-> aired, numbers |-> Along(aired, AbsOf)]
     ELSE NoWindow

\* counted_by_title: Sonarr counted the file by the number its own title opens with, and
\* nothing confirms that count.
CountedByTitle(st, i) ==
  LET f == st.file[i] IN
  /\ f.count # 0 /\ f.known /\ ~f.explicit /\ f.spells /\ f.title = 0
  /\ f.abs \cup GluedCounts(f) = {f.count}
  /\ IF st.rd[i].resolved # {} THEN st.rd[i].resolved # {f.near} ELSE AtAbsolute(f.count) = {}

\* The order of the exact pass: an own key Sonarr matched, a borrowed pair, an own key it
\* did not match; then the higher version, then the batch's order.
Before(st, i, j) ==
  LET rank(k) == (IF st.rd[k].corroborated THEN 0 ELSE 2) + (IF st.rd[k].borrowed THEN 1 ELSE 0)
  IN \/ rank(i) < rank(j)
     \/ rank(i) = rank(j) /\ (Lower(st, j, i) \/ (st.file[i].ver = st.file[j].ver /\ i < j))

\* exact_picks: in that order, each file onto ids no earlier one took.
PickOne(st, picks, i) ==
  LET ids(j) == ExactIds(st.rd[j])
      free == ids(i) \cap (st.used \cup UNION {ids(j) : j \in picks}) = {}
  IN IF ids(i) # {} /\ free /\ ~RunnerUp(st, i, ids(i)) THEN picks \cup {i} ELSE picks

ExactOrder(st) == Sorted(Remaining(st), LAMBDA i, j : Before(st, i, j))
PicksOf(st, order) ==
  LET after[n \in 0..Len(order)] ==
        IF n = 0 THEN {} ELSE Only({PickOne(st, picks, order[n]) : picks \in {after[n - 1]}})
  IN after[Len(order)]
ExactPicks(st) == PicksOf(st, ExactOrder(st))
=============================================================================
