--------------------------- MODULE SampleMappings ---------------------------
(* Small sources for EntryMappings: two entries around one series, 7, which  *)
(* has two specials and three episodes.                                      *)
EXTENDS EntryMappings

Plain(pieces) == [pieces |-> pieces, ratio |-> FALSE]
Ratio(pieces) == [pieces |-> pieces, ratio |-> TRUE]
To(texts) == [i \in DOMAIN texts |-> [from |-> Plain(<<<<i, i>>>>), to |-> texts[i]]]
Both(text) == <<[from |-> Plain(<<<<1, 2>>>>), to |-> text]>>
Target(provider, id, season, map) == <<[provider |-> provider, id |-> id, season |-> season, map |-> map]>>
Season(n, map) == Target("tvdb_show", 7, n, map)
Imdb  == Target("imdb", 9, NoSeason, <<>>)
Movie == Target("tmdb_movie", 4, NoSeason, <<>>)
Anidb == Target("anidb", 3, NoSeason, <<>>)
Tmdb(map) == Target("tmdb_show", 5, 0, map)

\* What a file may say of the series for an entry: nothing, a range, several, an
\* open one, a whole season, a piece that is no range, a scope that is no season.
Shown == {<<>>, Season(1, To(<<Plain(<<<<1, 2>>>>)>>)), Season(1, To(<<Plain(<<<<2, Open>>, Junk>>)>>)),
          Season(1, To(<<Plain(<<<<1, 1>>>>), Ratio(<<<<3, 3>>>>)>>)), Season(1, <<>>), Season(NoSeason, <<>>),
          Target("tvdb_show", 8, 1, <<>>), Target("tvdb_show", NoId, 1, <<>>)}
\* Its specials, and how TMDB numbers them: alike, crossed, short, not countable.
Specials == {Season(0, Both(Plain(<<<<1, 2>>>>))) \o Tmdb(Both(tmdb)) :
               tmdb \in {Plain(<<<<1, 2>>>>), Plain(<<<<2, 2>>, <<1, 1>>>>), Plain(<<<<1, 1>>>>),
                         Plain(<<<<1, Open>>>>), Ratio(<<<<1, 2>>>>)}}
Found == {<<>>, Imdb, Imdb \o Anidb, Movie}
Others == {<<>>, Season(0, To(<<Plain(<<<<2, 2>>>>)>>)), Season(0, <<>>),
           Season(0, Both(Plain(<<<<1, 2>>>>))) \o Tmdb(Both(Plain(<<<<1, 2>>>>))), Season(1, To(<<Plain(<<<<3, 3>>>>)>>)) \o Imdb}

TwoEntries == {1 :> (shown \o found) @@ 2 :> other : shown \in Shown, found \in Found, other \in Others}
              \cup {1 :> specials @@ 2 :> other : specials \in Specials, other \in Others}
              \cup {2 :> specials @@ 1 :> other : specials \in Specials, other \in Others}
              \cup {<<>>}

Row(al, tvdb, season, offset, anidbId) ==
  [al |-> al, tvdb |-> tvdb, season |-> season, offset |-> offset, tmdb |-> NoId, imdb |-> 9, anidb |-> anidbId]
SomeKometa == {<<>>, <<Row(1, 7, 1, 0, NoId)>>, <<Row(1, NoId, -1, -1, 3)>>, <<Row(1, 7, 1, 1, 3)>>,
               <<Row(1, 7, 0, 0, 3), Row(NoId, 7, 1, 0, NoId)>>,
               <<Row(1, NoId, 1, 0, NoId), Row(1, 7, -1, 1, NoId), Row(2, 7, 1, 0, NoId)>>}

Element(maps) == [id |-> 3, maps |-> maps]
Mapped(season, eps, readable) == [season |-> season, eps |-> eps, readable |-> readable]
SomeAnidb == {<<>>,
              <<Element(<<Mapped(1, {1}, TRUE), Mapped(1, {2}, TRUE), Mapped(1, {3}, FALSE), Mapped(0, {1}, TRUE)>>)>>,
              <<Element(<<Mapped(1, {1}, TRUE)>>), Element(<<>>)>>}

ThreeLookups == {[tvdb |-> 7, tmdb |-> NoId, imdb |-> NoId], [tvdb |-> 7, tmdb |-> NoId, imdb |-> 9],
                 [tvdb |-> NoId, tmdb |-> 4, imdb |-> 9]}
FiveEpisodes == <<<<0, 1>>, <<0, 2>>, <<1, 1>>, <<1, 2>>, <<1, 3>>>>
OneIgnored == {2}

=============================================================================
