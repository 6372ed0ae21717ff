----------------------------- MODULE MCPlacement -----------------------------
(* Placement for TLC: a series of two specials, a season of three and one of   *)
(* two, split over three entries in several ways.                              *)
EXTENDS Placement

MCEpisodes == 1..7
MCKeyOf == <<<<0, 1>>, <<0, 2>>, <<1, 1>>, <<1, 2>>, <<1, 3>>, <<2, 1>>, <<2, 2>>>>
MCAbsOf == <<0, 0, 1, 2, 3, 4, 5>>
MCEntries == 1..3

SplitSeason == <<{3}, {4, 5}, {1}>>
Seasons     == <<{3, 4, 5}, {6, 7}, {1, 2}>>
LoneSpecials == <<{1}, {2}, {3, 4, 5}>>

\* "Show - S01E02": a key of its own, matched by Sonarr onto ids; "Show - 02": a count.
Match(ids) == {<<KeyOf[e][1], KeyOf[e][2], e>> : e \in ids}
Key(s, n, ids) == [Named EXCEPT !.prefix = <<"S00E", "S01E", "S02E">>[s + 1], !.num = n, !.same = 10 * s + n,
                                !.explicit = TRUE, !.season = s, !.eps = {n}, !.matched = Match(ids)]
Count(p, n, ids) == [Named EXCEPT !.prefix = p, !.num = n, !.same = IF p = "Show" THEN 30 + n ELSE 40 + n,
                                  !.abs = {n}, !.matched = Match(ids)]
Plain(k) == [Named EXCEPT !.same = 50 + k]
V2(f) == [f EXCEPT !.ver = 2]
Titled(f, e) == [f EXCEPT !.title = e, !.leads = {e}]
NamedFor(f, al) == [f EXCEPT !.names = {al}]
Sized(f) == [f EXCEPT !.size = 1]

Pool == <<Key(0, 1, {1}), Key(1, 2, {4}), Key(1, 1, {6}), Key(2, 1, {6}), Count("Show", 1, {}), Count("Show", 2, {}),
         Titled(Count("Show", 2, {}), 6), Plain(1), NamedFor(Plain(2), 2), Titled(Plain(3), 4), Sized(Plain(4))>>

Packs ==
  {<<Count("Show", 1, {}), Count("Show", 2, {}), Count("Show", 3, {})>>,
   <<Count("Show", 1, {3}), Count("Show", 2, {1}), Count("Show", 3, {5})>>,
   <<Count("Show", 1, {}), V2(Count("Show", 1, {})), Titled(Count("Show", 2, {}), 3)>>,
   <<Count("Show", 1, {}), Count("Show", 2, {}), Sized(Count("Other", 2, {}))>>,
   <<[Count("Show", 1, {}) EXCEPT !.count = 1], Key(1, 2, {}), Plain(1)>>,
   <<Plain(1), Plain(2), [Plain(3) EXCEPT !.extraWord = TRUE]>>,
   <<[Key(1, 1, {3}) EXCEPT !.tagged = {4}], Key(1, 2, {4}), Key(1, 3, {5})>>,
   <<[Key(1, 1, {3}) EXCEPT !.last = 2], Key(2, 1, {6}), Key(2, 2, {7})>>,
   <<Titled(Key(1, 1, {3}), 4), Key(1, 3, {5}), Plain(1)>>,
   <<Key(1, 4, {}), Key(1, 5, {}), Key(0, 1, {1})>>}
SpecialsPacks == {<<Key(0, 3, {}), Key(0, 4, {})>>, <<Key(0, 3, {}), Titled(Key(0, 4, {}), 1)>>}

TorrentOf(files, w, lists, ignored, alias) ==
  [files |-> files, window |-> w, lists |-> lists, ignored |-> ignored, alias |-> alias,
   ident |-> [i \in DOMAIN files |-> IF files[i].size = 1 THEN 3 ELSE 0]]

MCTorrents(t) ==
  \/ \E f, g \in DOMAIN Pool, w \in {SplitSeason, Seasons, LoneSpecials} :
       /\ f < g /\ (w = LoneSpecials => f = 1) \* the windows of two specials ask for one
       /\ t = TorrentOf(<<Pool[f], Pool[g]>>, w, {1, 2}, {}, {})
  \/ \E files \in Packs, w \in {SplitSeason, Seasons}, ig \in {{}, {1}} :
       /\ ig # {} => w = SplitSeason /\ \E i \in DOMAIN files : files[i].title # 0 \* who else may take it
       /\ t = TorrentOf(files, w, Entries, ig, {})
  \/ \E files \in SpecialsPacks, alias \in {{}, {<<3, 1>>, <<4, 2>>}, {<<3, 2>>, <<4, 1>>}} :
       t = TorrentOf(files, <<{1}, {2}, {}>>, Entries, {}, alias)
=============================================================================
