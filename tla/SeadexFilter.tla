---------------------------- MODULE SeadexFilter ----------------------------
(***************************************************************************)
(* Which torrents of a SeaDex entry a title may choose from                *)
(* (SeadexReleaseFilter.build of seadex_filter.py): the audio and best     *)
(* cascade, the public alternatives offered for uncovered private picks,   *)
(* and the private copies a group's public ones make redundant.            *)
(*                                                                         *)
(* A torrent is a record.  Its file sizes are a bag, a function from Sizes *)
(* to counts; the empty bag is a listing whose files are unknown.          *)
(***************************************************************************)
EXTENDS Integers, Sequences, FiniteSets

CONSTANTS
  Sizes,    \* the positive file sizes
  Groups,   \* the release groups' names
  Eps,      \* the episodes of the title's window; for a movie, its file
  Blank     \* stands for no name: an untagged file, or a group named nothing

ASSUME SeadexFilterAssumption ==
  /\ Sizes \subseteq Nat \ {0} /\ IsFiniteSet(Sizes) /\ IsFiniteSet(Eps)
  /\ Blank \notin Groups

Bags == [Sizes -> Nat]
NoFiles == [z \in Sizes |-> 0]
Contained(a, b) == \A z \in Sizes : a[z] <= b[z]
SizesOf(bag) == {z \in Sizes : bag[z] > 0}

\* allowed: on a selected tracker and without an ignored tag.  placed: the (episode,
\* size) pairs the placement gives it; hand: the placement refused the pack.
Listings == [id : Nat, group : Groups \cup {Blank}, public : BOOLEAN, dual : BOOLEAN,
             best : BOOLEAN, allowed : BOOLEAN, files : Bags,
             placed : SUBSET (Eps \X Sizes), hand : BOOLEAN, fallback : BOOLEAN]

\* preferDual, wantBest and fallback are the settings of the selection.
Selections == [preferDual : BOOLEAN, wantBest : BOOLEAN, fallback : BOOLEAN]

In(seq) == {seq[i] : i \in DOMAIN seq}

\* The torrents of a sequence that are of S, in its order.
Those(seq, S) ==
  LET kept == {i \in DOMAIN seq : seq[i] \in S}
  IN [n \in 1..Cardinality(kept) |->
        seq[CHOOSE i \in kept : Cardinality({j \in kept : j < i}) = n - 1]]

\* Covering n files of one size takes one listing that carries n of them.
SizeCover(torrents) ==
  [z \in Sizes |->
     LET counts == {t.files[z] : t \in torrents} \cup {0}
     IN CHOOSE n \in counts : \A m \in counts : m <= n]

\* Each cut applies only when it leaves a torrent; audio cuts first.
NarrowCandidates(sel, pool) ==
  LET audio == Those(pool, {t \in In(pool) : t.dual = sel.preferDual})
      heard == IF audio = <<>> THEN pool ELSE audio
      best  == Those(heard, {t \in In(heard) : t.best})
  IN IF sel.wantBest /\ best # <<>> THEN best ELSE heard

\* An unknown fileset, the private one's or a public one's, counts by group.
NeedsFallback(t, candidates) ==
  LET public == {c \in candidates : c.public}
      mates  == {c \in public : c.group = t.group}
  IN /\ ~t.public
     /\ IF t.files = NoFiles THEN mates = {}
        ELSE /\ NoFiles \notin {c.files : c \in mates}
             /\ ~Contained(t.files, SizeCover(public))

WithPublicFallbacks(sel, pool, candidates) ==
  IF ~sel.fallback \/ \A t \in In(candidates) : ~NeedsFallback(t, In(candidates))
    THEN candidates
    ELSE LET rest == Those(pool, {t \in In(pool) \ In(candidates) : t.public})
             offered == NarrowCandidates(sel, rest)
         IN candidates \o [i \in DOMAIN offered |-> [offered[i] EXCEPT !.fallback = TRUE]]

\* A private url goes when the public urls of its own group cover its files.
Redundant(t, urls) ==
  LET mates == {u \in urls : u.public /\ u.group = t.group}
  IN ~t.public /\ mates # {} /\ Contained(t.files, SizeCover(mates))

\* The urls as a dict of groups lists them: groups in first-seen order.
ByGroup(urls) ==
  LET first(i) == CHOOSE j \in DOMAIN urls :
                    /\ urls[j].group = urls[i].group
                    /\ \A k \in DOMAIN urls : urls[k].group = urls[i].group => j <= k
      before(j, i) == first(j) < first(i) \/ (first(j) = first(i) /\ j < i)
      place(i) == Cardinality({j \in DOMAIN urls : before(j, i)}) + 1
  IN [n \in DOMAIN urls |-> urls[CHOOSE i \in DOMAIN urls : place(i) = n]]

\* The seadex_dict of an entry, flattened.
BuildDict(sel, listing) ==
  LET pool == Those(listing, {t \in In(listing) : t.allowed})
      urls == ByGroup(WithPublicFallbacks(sel, pool, NarrowCandidates(sel, pool)))
  IN Those(urls, {t \in In(urls) : ~Redundant(t, In(urls))})
=============================================================================
