---------------------------- MODULE ParseReading ----------------------------
(***************************************************************************)
(* What a file's name and Sonarr's parse of it say about the episodes it   *)
(* holds (parse_reading.py, and NameRead of release_names.py).             *)
(*                                                                         *)
(* A file is a record of what its name was read as; how the words of a     *)
(* name are read is left out, so a title, a title match or a run's prefix  *)
(* is a value of its own.                                                  *)
(***************************************************************************)
EXTENDS Integers, Sequences, FiniteSets

CONSTANTS
  Episodes,   \* the series' episodes, numbered in season order
  KeyOf,      \* episode -> <<season, number>>
  AbsOf,      \* episode -> absolute number, 0 for none
  Entries,    \* the AniList ids of the series' entries
  NoPrefix    \* a name that carries no release number

ASSUME ParseReadingAssumption ==
  /\ Episodes \subseteq Nat \ {0} /\ IsFiniteSet(Episodes)
  /\ Entries \subseteq Nat \ {0} /\ IsFiniteSet(Entries)
  /\ KeyOf \in [Episodes -> Nat \X Nat] /\ AbsOf \in [Episodes -> Nat]
  /\ \A d, e \in Episodes : KeyOf[d] = KeyOf[e] => d = e

IdAt(season, number) == {e \in Episodes : KeyOf[e] = <<season, number>>}
SeasonOf(e) == KeyOf[e][1]
InSeason(s) == {e \in Episodes : SeasonOf(e) = s}
SeasonCount(s) == Cardinality(InSeason(s))
AtAbsolute(n) == {e \in Episodes : AbsOf[e] = n /\ n > 0}
AllSpecials(ids) == \A e \in ids : SeasonOf(e) = 0

\* The name: prefix, num, ver and titleNums of its run membership (NoPrefix for none),
\* same: what it is a version of; extraWord; title: the episode it is titled as, 0 for
\* none; leads: the titles its tail starts with; explicit, tagged, bare, count: its own
\* keys and counts; spells: its words could be a title; near: the episode they nearly
\* name; names: the entries whose AniList title it names.
\* The parse: known, season (-1 for none), eps, abs, matched <<season, number, Sonarr's
\* id>>, full; last: the end of a range key read short, 0 for none.
Named == [prefix |-> NoPrefix, num |-> 0, ver |-> 1, titleNums |-> {}, same |-> 0,
          extraWord |-> FALSE, title |-> 0, leads |-> {}, explicit |-> FALSE, tagged |-> {},
          bare |-> {}, count |-> 0, spells |-> TRUE, near |-> 0, names |-> {},
          known |-> TRUE, season |-> -1, eps |-> {}, abs |-> {}, matched |-> {},
          full |-> FALSE, last |-> 0, size |-> 0]

\* What a file of a torrent may be read as.
FileReads ==
  [prefix : STRING, num : Nat, ver : Nat, titleNums : SUBSET Nat, same : Nat, extraWord : BOOLEAN,
   title : Episodes \cup {0}, leads : SUBSET Episodes, explicit : BOOLEAN, tagged : SUBSET Nat,
   bare : SUBSET Nat, count : Nat, spells : BOOLEAN, near : Episodes \cup {0}, names : SUBSET Entries,
   known : BOOLEAN, season : Int, eps : SUBSET Nat, abs : SUBSET Nat,
   matched : SUBSET (Nat \X Nat \X Nat), full : BOOLEAN, last : Nat, size : Nat]

SpanCap == 3   \* _MATCHED_SPAN_CAP

Pairs(claims) == {<<c[1], c[2]>> : c \in claims}

\* widen_range_key: "S01E05-06" that Sonarr read as E05 alone.
FirstKey(p) == CHOOSE n \in p.eps : TRUE
KeyRange(p) == FirstKey(p)..p.last
MatchedFirst(p) == {m \in p.matched : m[2] = FirstKey(p)}

\* It is no range, or no season it could be of holds one of that length.
ReadWhole(p) ==
  LET shifts  == {m[1] : m \in MatchedFirst(p)}
      seasons == {p.season} \cup (IF Cardinality(shifts) = 1 /\ 0 \notin shifts THEN shifts ELSE {})
      fits(s) == (\A n \in KeyRange(p) : IdAt(s, n) # {}) /\ Cardinality(KeyRange(p)) < SeasonCount(s)
  IN \/ p.last = 0 \/ Cardinality(p.eps) # 1 \/ Cardinality(KeyRange(p)) \notin 2..SpanCap
     \/ \E e \in IdAt(p.season, FirstKey(p)) : AbsOf[e] = p.last
     \/ \A s \in seasons : ~fits(s)

\* Sonarr's pairs for the episodes it left out.
Unmatched(p) ==
  {m \in {<<m[1], n, 0>> : m \in MatchedFirst(p), n \in KeyRange(p)} : <<m[1], m[2]>> \notin Pairs(p.matched)}

Widened(p) ==
  IF ReadWhole(p) THEN p
  ELSE [p EXCEPT !.eps = KeyRange(p), !.abs = IF @ = {p.last} THEN {} ELSE @, !.matched = @ \cup Unmatched(p)]

\* A borrowed pair resolves only where Sonarr's own id agrees with the series map's.
Resolve(claim) == {e \in IdAt(claim[1], claim[2]) : claim[3] \in {0, e}}

AliasShift(own, matched) ==
  \E s \in {c[1] : c \in matched} : /\ s # 0 /\ {c[1] : c \in matched} = {s}
                                             /\ {c[2] : c \in own} = {c[2] : c \in matched}

\* The name's own keys, which give way to Sonarr's alias match for a sequel numbered as
\* its own season 1; a name with none borrows Sonarr's pairs.
ClaimsOf(p, window) ==
  LET own == {<<p.season, n, 0>> : n \in p.eps}
      allInside(claims) == \A c \in claims : Resolve(c) \cap window # {}
  IN IF own = {} THEN [claims |-> IF p.full THEN {} ELSE p.matched, borrowed |-> ~p.full]
     ELSE IF AliasShift(own, p.matched) /\ ~allInside(own) /\ allInside(p.matched)
       THEN [claims |-> p.matched, borrowed |-> TRUE]
     ELSE [claims |-> own, borrowed |-> FALSE]

NoReading == [resolved |-> {}, inside |-> {}, complete |-> FALSE, borrowed |-> FALSE,
              vetoed |-> FALSE, corroborated |-> FALSE, isTied |-> FALSE, tied |-> {}]

ReadParse(p, window) ==
  LET basis == ClaimsOf(p, window)
      pairs == Pairs(basis.claims)
      ids   == UNION {Resolve(c) : c \in basis.claims}
  IN IF ~p.known \/ basis.claims = {} THEN NoReading
     ELSE [resolved |-> ids, inside |-> ids \cap window,
           complete |-> \A c \in basis.claims : Resolve(c) # {},
           borrowed |-> basis.borrowed,
           vetoed   |-> p.full \/ (basis.borrowed /\
                          (Cardinality(pairs) > SpanCap
                             \/ (p.abs # {} /\ Cardinality(pairs) # Cardinality(p.abs)))),
           corroborated |-> basis.borrowed \/ pairs \subseteq Pairs(p.matched),
           isTied |-> FALSE, tied |-> {}]

\* The properties of a Reading.
Keyed(r)    == r.resolved # {} /\ ~r.borrowed /\ r.corroborated
Trusted(r)  == r.complete /\ ~r.vetoed
Outside(r)  == Trusted(r) /\ r.inside = {}
ExactIds(r) == IF Trusted(r) /\ r.inside = r.resolved THEN r.inside ELSE {}

NoNumber(p) == ~p.known \/ (p.eps = {} /\ p.abs = {})
MissesTheSeries(p) == p.eps # {} /\ p.abs = {} /\ \A n \in p.eps : IdAt(p.season, n) = {}
GluedCounts(p) == IF p.season < 0 THEN {} ELSE {p.season * 100 + n : n \in p.eps}
ClaimsSeveral(p) == Cardinality(p.eps) > 1 \/ Cardinality(p.abs) > 1
SpansMultiple(p, window) ==
  \/ ClaimsSeveral(p)
  \/ /\ Cardinality(Pairs(p.matched)) > 1
     /\ p.full => \E m \in p.matched : IdAt(m[1], m[2]) \cap window # {}
SingleParse(p, window) == p.known /\ ~SpansMultiple(p, window)

\* One absolute, neither the release number nor a number of the entry's title.
AbsoluteDisagrees(p) ==
  p.known /\ Cardinality(p.abs) = 1 /\ p.abs \cap ({p.num} \cup p.titleNums) = {}
=============================================================================
