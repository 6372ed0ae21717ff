------------------------------ MODULE Placement ------------------------------
(***************************************************************************)
(* One torrent that several entries of a series may list, placed at each   *)
(* grab under all their windows (window_placement.py, place_release of     *)
(* grab_placement.py), and the pending record the grabs accrete.           *)
(***************************************************************************)
EXTENDS Placer

CONSTANTS
  Input(_),  \* the torrents placed
  MaxGrabs   \* bound on the grabs of a torrent

ASSUME PlacementAssumption == MaxGrabs \in Nat

\* window: the episodes of each entry, {} for one of another series; lists: the entries
\* listing the torrent; ignored: the ones in ignore_anilist_ids; alias: a special's number
\* and the one it stands for; ident: the episode of the file's size, 0 for none.
Torrents ==
  [files : Seq(FileReads), window : [Entries -> SUBSET Episodes], lists : SUBSET Entries,
   ignored : SUBSET Entries, alias : {A \in SUBSET (Nat \X Nat) : \A a, b \in A : a[1] = b[1] => a = b},
   ident : Seq(Episodes \cup {0})]

NoRecord == [stored |-> FALSE, map |-> <<>>, excluded |-> {}, hand |-> {}, claims |-> {}]

VARIABLES
  torrent,   \* the input
  record,    \* the pending record of the torrent
  hold,      \* why the last grab of each entry was not made, "none" when it was
  settled,   \* history: the entries that grabbed with every read served
  grabs

placementVars == <<torrent, record, hold, settled, grabs>>

Names == DOMAIN torrent.files
Unmapped == [i \in Names |-> {}]
Mapped(map) == {i \in DOMAIN map : map[i] # {}}

-----------------------------------------------------------------------------
(* Windows.                                                                  *)

Window(al) == torrent.window[al]

\* The entries that would grab the torrent.
Takers == {al \in torrent.lists \ torrent.ignored : Window(al) # {}}

\* The listing entries whose window has ids: the others are left out of the order.
Listing == {al \in torrent.lists : Window(al) # {}}
\* Instead of the order of ordered_windows, the grabbing entry's own window last.
OwnWindowLast(claims, own) ==
  Sorted(Listing \cup claims \cup {own}, LAMBDA a, b : (b = own /\ a # own) \/ (a < b /\ a # own))

\* ordered_windows: season windows before specials, kept titles before ignored ones, then
\* by AniList id.
InWindowOrder(chosen) ==
  LET class(al) == (IF AllSpecials(Window(al)) THEN 2 ELSE 0)
                     + (IF al \in torrent.ignored \cap torrent.lists THEN 1 ELSE 0)
  IN Sorted(chosen, LAMBDA a, b : class(a) < class(b) \/ (class(a) = class(b) /\ a < b))
OrderedWindows(claims, own) == InWindowOrder(Listing \cup claims \cup {own})

Decides(verdict) == verdict \in Placing \cup Refusing
ByAlias == {"ALTERNATE", "ALIASED_ELSEWHERE"}
Party(verdict) == Decides(verdict) \/ verdict \in ByAlias \cup {"TITLE_REFUTED"}

ClaimRank == <<"EXTRA", "FOREIGN", "ALIASED_ELSEWHERE", "SKIPPED", "DUPLICATE", "TITLE_REFUTED">>

\* place_across_windows: every window places every file; the first to place or refuse one
\* decides it, and its ids are used under the later ones.
Decided(s, al, place) ==
  LET news == {i \in DOMAIN place : s.by[i] = 0 /\ Decides(place[i].verdict)}
  IN [used |-> s.used \cup UNION {place[i].ids : i \in news},
      by   |-> [i \in DOMAIN s.by |-> IF i \in news THEN al ELSE s.by[i]],
      each |-> [s.each EXCEPT ![al] = place]]
UnderWindow(batch, s, al) ==
  Only({Decided(s, al, place) : place \in {Assign(batch, al, Window(al), s.used)}})
AcrossWindows(batch, order) ==
  LET none == [used |-> {}, by |-> [i \in DOMAIN batch.files |-> 0], each |-> [al \in Set(order) |-> <<>>]]
      after[n \in 0..Len(order)] == IF n = 0 THEN none
                                    ELSE Only({UnderWindow(batch, s, order[n]) : s \in {after[n - 1]}})
  IN after[Len(order)]

\* _merged: one file's verdict over every window.
MergedFile(across, i) ==
  LET judged == {across.each[al][i] : al \in DOMAIN across.each}
      aliased == {p.ids : p \in {p \in judged : p.verdict \in ByAlias}}
      numbered == {p.ids : p \in {p \in judged : p.verdict \in Placing \ ByAlias}}
      ranks == {n \in DOMAIN ClaimRank : \E p \in judged : p.verdict = ClaimRank[n]}
  IN IF aliased # {} /\ ~(numbered \subseteq aliased) THEN [ids |-> {}, verdict |-> "MISNUMBERED"]
     ELSE IF across.by[i] # 0 THEN across.each[across.by[i]][i]
     ELSE [ids |-> {}, verdict |-> ClaimRank[Max(ranks)]]

\* A file is another title's when a window outside `imports` placed it, or when it is
\* left for a hand import no window of `imports` was party to.
ListedElsewhere(across, i, imports) ==
  LET merged == MergedFile(across, i) IN
  \/ merged.verdict \in Placing /\ across.by[i] \notin imports
  \/ merged.verdict \in HandImport /\ \A al \in imports : ~Party(across.each[al][i].verdict)

-----------------------------------------------------------------------------
(* place_release.                                                            *)

\* reads: "all" served, or the one that failed; miss: the file whose parse is unknown.
Batch(map, reads, miss) ==
  LET identities == IF reads = "identities" THEN [i \in Names |-> 0] ELSE torrent.ident
  IN [files |-> [i \in Names |-> [torrent.files[i] EXCEPT !.known = @ /\ i # miss]],
      seed |-> map, ident |-> identities, alias |-> torrent.alias,
      listed |-> UNION {Window(al) : al \in Listing}]

\* for_record, over the files the record has not mapped.
ForRecord(across, seed, imports) ==
  [i \in Names |->
     IF seed[i] # {} THEN [ids |-> {}, verdict |-> Unjudged]
     ELSE IF ListedElsewhere(across, i, imports) THEN [ids |-> {}, verdict |-> "LISTED_ELSEWHERE"]
     ELSE MergedFile(across, i)]

\* joined_map: what the record maps stays.
Joined(base, place) ==
  [i \in Names |-> IF base[i] # {} THEN base[i]
                   ELSE IF place[i].verdict \in Placing THEN place[i].ids ELSE {}]

HoldOf(across, own, order, map, batch, reads) ==
  LET fresh == {i \in Names : batch.seed[i] = {}}
      verdict(i) == MergedFile(across, i).verdict
      ownVerdict(i) == across.each[own][i].verdict
      misnumbered == \E i \in fresh : verdict(i) = "MISNUMBERED" /\ Party(ownVerdict(i))
      unread == reads = "identities" \/ (fresh # {} /\ \E i \in Names : ~batch.files[i].known)
      refuted == \E i \in fresh : verdict(i) = "TITLE_REFUTED" /\ ownVerdict(i) = "TITLE_REFUTED"
      claimed == (UNION {map[i] : i \in Names}) \cap Window(own)
      others == UNION {Window(al) : al \in Set(order) \ {own}}
      elsewhere == {i \in fresh : ListedElsewhere(across, i, {own})} \cup {i \in Names : map[i] \cap others # {}}
  IN CASE misnumbered -> "MISNUMBERED"
       [] ~misnumbered /\ unread -> "INPUT_UNREAD"
       [] OTHER -> IF claimed # {} THEN "none"
                   ELSE IF refuted THEN "TITLE_REFUTED"
                   ELSE IF elsewhere # {} THEN "PLACED_ELSEWHERE" ELSE "none"

-----------------------------------------------------------------------------
(* The record.                                                               *)

\* As Accreted, a stored record joined by the claim alone, without the new placements.
AccretedClaimOnly(r, place, map, own) ==
  IF r.stored THEN [r EXCEPT !.claims = @ \cup {own}]
  ELSE [stored |-> TRUE, map |-> map, hand |-> {}, excluded |-> {}, claims |-> {own}]

\* record_at: the map wins, then a hand import, then an exclusion.
Accreted(r, place, map, own) ==
  LET with(verdicts, base) == base \cup {i \in Names : place[i].verdict \in verdicts}
      hand == with(HandImport, r.hand) \ Mapped(map)
  IN [stored |-> TRUE, map |-> map, hand |-> hand,
      excluded |-> with(Excluding, r.excluded) \ (Mapped(map) \cup hand),
      claims |-> r.claims \cup {own}]

SeedOf(r) == IF r.stored THEN r.map ELSE Unmapped

PlacementInit ==
  /\ Input(torrent) /\ torrent \in Torrents /\ record = NoRecord
  /\ hold = [al \in Entries |-> "none"] /\ settled = {} /\ grabs = 0

\* A title grabs the torrent; one whose url is held, or whose listing was not read, is
\* checked again by the next run.
Grab(own, reads, miss) ==
  /\ grabs < MaxGrabs /\ own \in Takers
  /\ \E order \in {OrderedWindows(record.claims, own)}, batch \in {Batch(SeedOf(record), reads, miss)} :
     \E across \in {AcrossWindows(batch, order)} :
     LET place == ForRecord(across, batch.seed, record.claims \cup {own})
         map == Joined(batch.seed, place)
         why == IF reads = "listing" THEN "INPUT_UNREAD" ELSE HoldOf(across, own, order, map, batch, reads)
     IN /\ hold' = [hold EXCEPT ![own] = why]
        /\ record' = IF why # "none" THEN record ELSE Accreted(record, place, map, own)
        /\ settled' = IF reads = "all" /\ miss = 0 THEN settled \cup {own} ELSE settled
  /\ grabs' = grabs + 1
  /\ UNCHANGED torrent

\* The import moved every mapped file, and the record is dropped.
Retire ==
  /\ record.stored /\ record.hand = {} /\ record' = NoRecord
  /\ UNCHANGED <<torrent, hold, settled, grabs>>

Reads == {"all", "listing", "identities"}

PlacementNext ==
  \/ \E own \in Entries, reads \in Reads, miss \in Names \cup {0} :
       (miss = 0 \/ reads = "all") /\ Grab(own, reads, miss)
  \/ Retire
PlacementSpec == PlacementInit /\ [][PlacementNext]_placementVars

-----------------------------------------------------------------------------
(* Properties.                                                               *)

\* What one grab of everything at once, with no record before it, would map for `imports`.
FromScratch(imports) ==
  LET order == OrderedWindows(imports, Min(imports))
  IN Only({Joined(Unmapped, ForRecord(across, Unmapped, imports)) :
           across \in {AcrossWindows(Batch(Unmapped, "all", 0), order)}})

\* However the grabs of a torrent's entries interleave and fail, no two files of it are
\* mapped to one episode: each grab places onto what the record's map leaves
\* (Placer.start, placer/_state.py:243, PlacementBatch.seeded).
NoEpisodeTwice ==
  record.stored => \A i, j \in Names : i # j => record.map[i] \cap record.map[j] = {}

\* No pass, under any entry's window, maps a file to episodes other than the one its name
\* is titled as: a title refutes a number, a zip, an alias and a size
\* (placer/_passes.py:183, Placer.place_zip of placer/_state.py:403).
TitleNeverContradicted ==
  record.stored => \A i \in Mapped(record.map) :
    torrent.files[i].title \in {0} \cup record.map[i]

\* Once every entry listing the torrent has grabbed it, in whatever order, nothing that
\* placing it afresh would map is left out: what one entry set aside as another's is
\* mapped by that other's grab (WindowedAssignment.for_record, window_placement.py:129).
NoFileLeftOut ==
  record.stored /\ Takers \subseteq record.claims =>
    Mapped(FromScratch(record.claims)) \subseteq Mapped(record.map)

\* The entries never hold the torrent for one another: whatever the order of their grabs,
\* not all of them are held because its files are another title's (_hold_of,
\* grab_placement.py:355), unless the title they leave it to is an ignored one.
SomeoneTakesIt ==
  torrent.ignored = {} /\ Takers # {} => \E al \in Takers : hold[al] # "PLACED_ELSEWHERE"

\* "a torrent places the same whichever entry sees it first and whether or not a record
\* exists" (window_placement.py:3), which the code only comes close to: see README.md.
SameWhoeverGrabs ==
  record.stored => record.map = FromScratch(record.claims)
=============================================================================
