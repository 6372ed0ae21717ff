--------------------------- MODULE MCReleaseChoice ---------------------------
(* ReleaseChoice for TLC.  A size says whose file it is and of which episode:   *)
(* 11 and 12 are A's, 21 and 22 B's, 31 is on no listing.                       *)
EXTENDS ReleaseChoice

MCSizes == {11, 12, 21, 22, 31}
MCEps   == {1, 2}

SizeFor(g, e) == (IF g = "A" THEN 10 ELSE 20) + e
BagOf(g, es) == [z \in MCSizes |-> IF \E e \in es : z = SizeFor(g, e) THEN 1 ELSE 0]

Torrent(n, g, kind, es, placed) ==
  [id |-> n, group |-> g, public |-> kind # "private", dual |-> TRUE,
   best |-> kind # "other", allowed |-> TRUE, files |-> BagOf(g, es),
   placed |-> IF placed THEN {<<e, SizeFor(g, e)>> : e \in es} ELSE {},
   hand |-> FALSE, fallback |-> FALSE]

Kinds  == {"best", "private", "other"}
Shapes == {<<{1}, TRUE>>, <<{2}, TRUE>>, <<{1, 2}, TRUE>>, <<{1, 2}, FALSE>>}
Options(n, gs) == {Torrent(n, g, k, s[1], s[2]) : g \in gs, k \in Kinds, s \in Shapes}

OwnFile(g, e) == [group |-> g, size |-> SizeFor(g, e)]
StaleA  == [group |-> "A", size |-> 31]
RenamedA == [group |-> Blank, size |-> 11]
Foreign == [group |-> "X", size |-> 31]
Disk(f1, f2) == [e \in MCEps |-> IF e = 1 THEN f1 ELSE f2]
Disks == {Disk(f1, f2) : f1 \in {NoFile, OwnFile("A", 1), OwnFile("B", 1), StaleA, RenamedA, Foreign},
                         f2 \in {NoFile, OwnFile("A", 2), OwnFile("B", 2)}}
\* A file may sit on the episode it is not of.
Swapped == {Disk(f1, f2) : f1 \in {NoFile, OwnFile("A", 1), OwnFile("A", 2), OwnFile("B", 2)},
                           f2 \in {NoFile, OwnFile("A", 1), OwnFile("B", 1)}}

Title(listing, disk0, fallbackMode) ==
  [listing |-> listing, disk |-> disk0, hasEps |-> TRUE, byHash |-> FALSE, interactive |-> FALSE,
   sel |-> [preferDual |-> TRUE, wantBest |-> TRUE, fallback |-> fallbackMode]]

\* Two torrents over every library; a fallback only substitutes for a private one.
Pair(t) == \E a \in Options(1, {"A"}), b \in Options(2, {"A", "B"}), d \in Disks, fb \in BOOLEAN :
             /\ fb => ~a.public \/ ~b.public
             /\ t = Title(<<a, b>>, d, fb)
StrayPair(t) == \E a \in Options(1, {"A"}), b \in Options(2, {"A", "B"}), d \in Swapped :
                  t = Title(<<a, b>>, d, TRUE)
\* Three, over the libraries that set the groups against each other.
Triple(t) == \E a \in Options(1, {"A"}), b \in Options(2, {"A", "B"}), c \in Options(3, {"B"}),
               d \in {Disk(StaleA, NoFile), Disk(OwnFile("B", 1), NoFile)} :
               t = Title(<<a, b, c>>, d, TRUE)
\* Two mixed groups that cover the same: dropping one drops its public url.
MixedPair(t) ==
  \E k, l \in {"best", "private"}, d \in Disks :
    t = Title(<<Torrent(1, "A", k, {1}, TRUE), Torrent(2, "A", l, {2}, TRUE),
                Torrent(3, "B", k, {2}, TRUE), Torrent(4, "B", l, {1}, TRUE)>>, d, TRUE)
\* A refused pack; audio and tracker choices; movies; hash filtering; hand picking.
Movie(u) == [u EXCEPT !.hasEps = FALSE,
                      !.listing = [i \in DOMAIN u.listing |-> [u.listing[i] EXCEPT !.placed = {}]]]
Special(t) ==
  \E a \in Options(1, {"A"}), b \in Options(2, {"A", "B"}), d \in Disks :
    LET u == Title(<<a, b>>, d, TRUE)
    IN /\ d[2] = NoFile
       /\ \/ t = [u EXCEPT !.listing[1].hand = TRUE, !.listing[1].placed = {}]
          \/ t = [u EXCEPT !.listing[1].dual = FALSE]
          \/ t = [u EXCEPT !.listing[2].allowed = FALSE]
          \/ t = [u EXCEPT !.byHash = TRUE]
          \/ t = [u EXCEPT !.interactive = TRUE]
          \/ t = Movie(u)

MCTitles(t) == Pair(t) \/ StrayPair(t) \/ Triple(t) \/ MixedPair(t) \/ Special(t)

\* A private pick of both episodes beside a public one that is not preferred.
FallbackInput(t) ==
  \E d \in Disks :
    t = Title(<<Torrent(1, "A", "private", {1, 2}, TRUE), Torrent(2, "B", "other", {1, 2}, TRUE)>>, d, TRUE)
=============================================================================
