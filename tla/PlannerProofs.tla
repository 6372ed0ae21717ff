--------------------------- MODULE PlannerProofs ---------------------------
(***************************************************************************)
(* Planning a grab.                                                        *)
(*                                                                         *)
(* What a title grabs, for listings of any length over any sizes, groups   *)
(* and episodes, and any number of runs: no episode is dropped, one        *)
(* release of a fileset is taken, nothing left to grab means it is held,   *)
(* and what was grabbed is not asked for again.                            *)
(*                                                                         *)
(* Where the files of a torrent go, for any torrent, names and parses,     *)
(* windows and order of grabs: no two files onto one episode, none where   *)
(* its own title contradicts, and the entries that list a torrent never    *)
(* all leave it to one another.                                            *)
(***************************************************************************)
EXTENDS ReleaseChoice, Placement, FiniteSetTheorems, WellFoundedInduction, TLAPS

-----------------------------------------------------------------------------
(* Least numbers, greatest ones and ranks.                                   *)

\* A set of numbers has a least one.
LEMMA LeastOf ==
  ASSUME NEW S, S \subseteq Nat, S # {}
  PROVE  \E n \in S : \A m \in S : n <= m
<1>1. PICK n \in S : \A m \in S : <<m, n>> \notin OpToRel(<, Nat)
  BY NatLessThanWellFounded, WFMin
<1>2. \A m \in S : ~(m < n)
  BY <1>1 DEF OpToRel
<1> QED
  BY <1>2

\* What holds at the start of an interval and is passed on holds all over it.
LEMMA UpTo ==
  ASSUME NEW m \in Nat, NEW n \in Nat, NEW S, m \in S,
         \A k \in m..n : k \in S /\ k < n => k + 1 \in S
  PROVE  m..n \subseteq S
<1> SUFFICES ASSUME ~(m..n \subseteq S) PROVE FALSE
  OBVIOUS
<1> DEFINE out == {k \in m..n : k \notin S}
<1>1. PICK k \in out : \A j \in out : k <= j
  <2>1. out \subseteq Nat /\ out # {}
    OBVIOUS
  <2> HIDE DEF out
  <2> QED
    BY <2>1, LeastOf
<1>2. k \in Nat /\ k - 1 \in m..n /\ k - 1 \in S /\ k - 1 < n
  BY <1>1
<1>3. (k - 1) + 1 \in S
  BY <1>2
<1> QED
  BY <1>1, <1>2, <1>3

\* A finite set of numbers has a greatest one.
LEMMA HasMax ==
  ASSUME NEW S, S \subseteq Nat, IsFiniteSet(S), S # {}
  PROVE  \E n \in S : \A m \in S : m <= n
<1> DEFINE Bad == {U \in FiniteSubsetsOf(S) : U # {} /\ ~\E n \in U : \A m \in U : m <= n}
<1> SUFFICES ASSUME Bad # {} PROVE FALSE
  BY FS_Subset DEF FiniteSubsetsOf
<1>1. PICK U \in Bad : \A V \in Bad : <<V, U>> \notin StrictSubsetOrdering(S)
  <2>1. Bad \subseteq FiniteSubsetsOf(S)
    OBVIOUS
  <2>2. IsWellFoundedOn(StrictSubsetOrdering(S), FiniteSubsetsOf(S))
    BY FS_StrictSubsetOrderingWellFounded
  <2> HIDE DEF Bad
  <2> QED
    BY <2>1, <2>2, WFMin
<1>2. PICK x : x \in U
  BY <1>1
<1>3. /\ U \subseteq S /\ IsFiniteSet(U)
      /\ IsFiniteSet(U \ {x})
  BY <1>1, FS_RemoveElement DEF FiniteSubsetsOf
<1>4. U \ {x} \notin Bad
  BY <1>1, <1>2, <1>3 DEF StrictSubsetOrdering, FiniteSubsetsOf
<1>5. CASE U \ {x} = {}
  BY <1>1, <1>2, <1>3, <1>5
<1>6. CASE U \ {x} # {}
  <2>1. PICK n \in U \ {x} : \A m \in U \ {x} : m <= n
    BY <1>3, <1>4, <1>6 DEF FiniteSubsetsOf
  <2>2. CASE x <= n
    BY <1>1, <1>2, <2>1, <2>2
  <2>3. CASE ~(x <= n)
    <3>1. n \in Nat /\ x \in Nat /\ U \subseteq Nat
      BY <1>2, <1>3, <2>1
    <3>2. \A m \in U : m <= x
      BY <3>1, <2>1, <2>3
    <3> QED
      BY <1>1, <1>2, <3>2
  <2> QED
    BY <2>2, <2>3
<1> QED
  BY <1>5, <1>6

-----------------------------------------------------------------------------
\* Of a finite set in a strict order, one element is the n-th.
StrictOrder(R, S) ==
  /\ \A i \in S : <<i, i>> \notin R
  /\ \A i, j \in S : i # j => <<i, j>> \in R \/ <<j, i>> \in R
  /\ \A i, j, k \in S : <<i, j>> \in R /\ <<j, k>> \in R => <<i, k>> \in R

Rank(S, R, i) == Cardinality({j \in S : <<j, i>> \in R})

\* The ranks of a finite set are the numbers below its size, each taken once.
LEMMA EachRankIsTaken ==
  ASSUME NEW S, IsFiniteSet(S), NEW R, StrictOrder(R, S)
  PROVE  /\ \A i \in S : Rank(S, R, i) \in 0..(Cardinality(S) - 1)
         /\ \A i, j \in S : Rank(S, R, i) = Rank(S, R, j) => i = j
         /\ \A n \in 1..Cardinality(S) : \E i \in S : Rank(S, R, i) = n - 1
<1>1. PICK c \in Nat : c = Cardinality(S)
  BY FS_CardinalityType
<1> DEFINE below(i) == {j \in S : <<j, i>> \in R}
           rank == [i \in S |-> Rank(S, R, i)]
           T == 0..(c - 1)
<1>2. IsFiniteSet(T) /\ Cardinality(T) = c
  <2>1. 0 \in Int /\ c - 1 \in Int /\ (0 > c - 1 => c = 0) /\ (c - 1) - 0 + 1 = c
    OBVIOUS
  <2> QED
    BY <2>1, FS_Interval
<1>3. \A i \in S : /\ IsFiniteSet(below(i)) /\ Rank(S, R, i) = Cardinality(below(i))
                   /\ Rank(S, R, i) \in Nat /\ Rank(S, R, i) < c
  <2> TAKE i \in S
  <2>1. below(i) \in SUBSET S /\ i \notin below(i)
    BY DEF StrictOrder
  <2>2. below(i) # S
    BY <2>1
  <2>3. Rank(S, R, i) = Cardinality(below(i))
    BY DEF Rank
  <2> HIDE DEF below
  <2>4. /\ IsFiniteSet(below(i))
        /\ Cardinality(below(i)) <= Cardinality(S)
        /\ Cardinality(S) = Cardinality(below(i)) => S = below(i)
    BY <2>1, FS_Subset
  <2>5. Cardinality(below(i)) \in Nat
    BY <2>4, FS_CardinalityType
  <2>6. Cardinality(below(i)) < c
    BY <1>1, <2>2, <2>4, <2>5
  <2> QED
    BY <2>3, <2>4, <2>5, <2>6
<1>4. \A i \in S : Rank(S, R, i) \in T
  <2> HIDE DEF below
  <2> QED
    BY <1>1, <1>3
<1>5. \A i, j \in S : <<i, j>> \in R => Rank(S, R, i) < Rank(S, R, j)
  <2> TAKE i, j \in S
  <2> HAVE <<i, j>> \in R
  <2>1. below(i) \in SUBSET below(j) /\ i \in below(j) /\ i \notin below(i)
    BY DEF StrictOrder
  <2>2. below(i) # below(j)
    BY <2>1
  <2> HIDE DEF below
  <2>3. IsFiniteSet(below(j)) /\ Cardinality(below(i)) \in Nat /\ Cardinality(below(j)) \in Nat
    BY <1>3
  <2>4. /\ Cardinality(below(i)) <= Cardinality(below(j))
        /\ Cardinality(below(j)) = Cardinality(below(i)) => below(j) = below(i)
    BY <2>1, <2>3, FS_Subset
  <2>5. Cardinality(below(i)) < Cardinality(below(j))
    BY <2>2, <2>3, <2>4
  <2> QED
    BY <1>3, <2>5
<1>6. \A i, j \in S : Rank(S, R, i) = Rank(S, R, j) => i = j
  <2> TAKE i, j \in S
  <2> HAVE Rank(S, R, i) = Rank(S, R, j)
  <2>1. Rank(S, R, i) \in Nat
    BY <1>4
  <2>2. ~(Rank(S, R, i) < Rank(S, R, j)) /\ ~(Rank(S, R, j) < Rank(S, R, i))
    BY <2>1
  <2>3. i # j => <<i, j>> \in R \/ <<j, i>> \in R
    BY DEF StrictOrder
  <2> QED
    BY <1>5, <2>2, <2>3
<1>7. rank \in Surjection(S, T)
  <2>1. rank \in [S -> T] /\ \A i, j \in S : rank[i] = rank[j] => i = j
    <3> HIDE DEF T
    <3> QED
      BY <1>4, <1>6
  <2> HIDE DEF rank, T
  <2>2. rank \in Injection(S, T)
    BY <2>1 DEF Injection, IsInjective
  <2> QED
    BY <1>1, <1>2, <2>2, FS_Injection
<1>8. \A n \in 1..c : \E i \in S : Rank(S, R, i) = n - 1
  <2> TAKE n \in 1..c
  <2>1. n - 1 \in T
    OBVIOUS
  <2>2. \E i \in S : rank[i] = n - 1
    <3> HIDE DEF rank, T
    <3> QED
      BY <1>7, <2>1 DEF Surjection
  <2> QED
    BY <2>2
<1> QED
  BY <1>1, <1>4, <1>6, <1>8

\* What is sorted by a strict order holds each element once.
Lists(seq, S) ==
  /\ seq \in [1..Cardinality(S) -> S] /\ Cardinality(S) \in Nat /\ Len(seq) = Cardinality(S)
  /\ \A m, n \in 1..Cardinality(S) : seq[m] = seq[n] => m = n

LEMMA RanksList ==
  ASSUME NEW S, IsFiniteSet(S), NEW R, StrictOrder(R, S), NEW seq,
         DOMAIN seq = 1..Cardinality(S), seq = [n \in 1..Cardinality(S) |-> seq[n]],
         \A n \in 1..Cardinality(S) :
           (\E x \in S : Rank(S, R, x) = n - 1) => seq[n] \in S /\ Rank(S, R, seq[n]) = n - 1
  PROVE  Lists(seq, S)
<1>1. Cardinality(S) \in Nat
  BY FS_CardinalityType
<1>2. \A n \in 1..Cardinality(S) : seq[n] \in S /\ Rank(S, R, seq[n]) = n - 1
  BY EachRankIsTaken
<1>3. seq \in [1..Cardinality(S) -> S]
  BY <1>2
<1>4. Len(seq) = Cardinality(S)
  BY <1>1, <1>3
<1>5. \A m, n \in 1..Cardinality(S) : seq[m] = seq[n] => m = n
  BY <1>1, <1>2
<1> QED
  BY <1>1, <1>3, <1>4, <1>5 DEF Lists

LEMMA AscendingLists ==
  ASSUME NEW S \in SUBSET Nat, IsFiniteSet(S)
  PROVE  Lists(Ascending(S), S)
<1> DEFINE R == {p \in S \X S : p[1] < p[2]}
           seq == Ascending(S)
           at(n) == CHOOSE x \in S : Cardinality({y \in S : y < x}) = n - 1
<1>1. StrictOrder(R, S)
  BY DEF StrictOrder
<1>2. \A x \in S : Rank(S, R, x) = Cardinality({y \in S : y < x})
  <2>1. \A x \in S : {y \in S : <<y, x>> \in R} = {y \in S : y < x}
    OBVIOUS
  <2> QED
    BY <2>1 DEF Rank
<1>3. seq = [n \in 1..Cardinality(S) |-> at(n)]
  BY DEF Ascending, Sorted
<1>4. \A n : (\E x \in S : Cardinality({y \in S : y < x}) = n - 1) =>
               at(n) \in S /\ Cardinality({y \in S : y < at(n)}) = n - 1
  OBVIOUS
<1> HIDE DEF R, seq, at
<1>5. \A n \in 1..Cardinality(S) :
        (\E x \in S : Rank(S, R, x) = n - 1) => seq[n] \in S /\ Rank(S, R, seq[n]) = n - 1
  BY <1>2, <1>3, <1>4
<1>6. DOMAIN seq = 1..Cardinality(S) /\ seq = [n \in 1..Cardinality(S) |-> seq[n]]
  BY <1>3
<1>7. Lists(seq, S)
  BY <1>1, <1>5, <1>6, RanksList
<1> QED
  BY <1>7 DEF seq

-----------------------------------------------------------------------------
(* What a title grabs.                                                       *)

\* Those keeps what is of the set, all of it and nothing else.
LEMMA ThoseAreOf ==
  ASSUME NEW T, NEW seq \in Seq(T), NEW S
  PROVE  /\ Those(seq, S) \in Seq(T \cap S)
         /\ In(Those(seq, S)) = In(seq) \cap S
<1> DEFINE kept == {i \in DOMAIN seq : seq[i] \in S}
           nth(n) == CHOOSE i \in kept : Cardinality({j \in kept : j < i}) = n - 1
<1>1. kept \subseteq Nat /\ IsFiniteSet(kept)
  <2>1. DOMAIN seq = 1..Len(seq) /\ Len(seq) \in Nat
    OBVIOUS
  <2>2. IsFiniteSet(1..Len(seq))
    BY <2>1, FS_Interval
  <2>3. kept \in SUBSET (1..Len(seq))
    BY <2>1
  <2> QED
    BY <2>2, <2>3, FS_Subset
<1>2. Cardinality(kept) \in Nat
  BY <1>1, FS_CardinalityType
<1> DEFINE R == {p \in Nat \X Nat : p[1] < p[2]}
           rank(i) == Rank(kept, R, i)
<1>3. /\ \A i \in kept : rank(i) \in 0..(Cardinality(kept) - 1)
      /\ \A i, j \in kept : rank(i) = rank(j) => i = j
      /\ \A n \in 1..Cardinality(kept) : \E i \in kept : rank(i) = n - 1
  <2> HIDE DEF kept
  <2>1. StrictOrder(R, kept)
    BY <1>1 DEF StrictOrder
  <2> HIDE DEF R
  <2>2. IsFiniteSet(kept)
    BY <1>1
  <2>3. \A i \in kept : Rank(kept, R, i) \in 0..(Cardinality(kept) - 1)
    BY <2>1, <2>2, EachRankIsTaken
  <2>4. \A i, j \in kept : Rank(kept, R, i) = Rank(kept, R, j) => i = j
    BY <2>1, <2>2, EachRankIsTaken
  <2>5. \A n \in 1..Cardinality(kept) : \E i \in kept : Rank(kept, R, i) = n - 1
    BY <2>1, <2>2, EachRankIsTaken
  <2> QED
    BY <2>3, <2>4, <2>5
<1>4. \A n : nth(n) = CHOOSE i \in kept : rank(i) = n - 1
  <2>1. \A i \in kept : {j \in kept : <<j, i>> \in R} = {j \in kept : j < i}
    <3> HIDE DEF kept
    <3> QED
      BY <1>1
  <2> HIDE DEF kept, R
  <2>2. \A i \in kept : rank(i) = Cardinality({j \in kept : j < i})
    BY <2>1 DEF Rank
  <2> QED
    BY <2>2
<1>5. \A n \in 1..Cardinality(kept) : nth(n) \in kept
  <2> HIDE DEF kept, rank, nth
  <2> QED
    BY <1>3, <1>4
<1>6. \A i \in kept : rank(i) + 1 \in 1..Cardinality(kept) /\ nth(rank(i) + 1) = i
  <2> TAKE i \in kept
  <2> HIDE DEF kept, rank, nth
  <2>1. rank(i) + 1 \in 1..Cardinality(kept) /\ (rank(i) + 1) - 1 = rank(i)
    BY <1>2, <1>3
  <2> QED
    BY <1>3, <1>4, <2>1
<1>7. Those(seq, S) = [n \in 1..Cardinality(kept) |-> seq[nth(n)]]
  BY DEF Those
<1>8. \A n \in 1..Cardinality(kept) : seq[nth(n)] \in In(seq) \cap S /\ seq[nth(n)] \in T
  <2> HIDE DEF nth
  <2> QED
    BY <1>5 DEF In
<1>9. In(seq) \cap S \subseteq In(Those(seq, S))
  <2> SUFFICES ASSUME NEW i \in kept PROVE seq[i] \in In(Those(seq, S))
    BY DEF In
  <2> HIDE DEF kept, nth, rank
  <2>1. Those(seq, S)[rank(i) + 1] = seq[i] /\ rank(i) + 1 \in DOMAIN Those(seq, S)
    BY <1>6, <1>7
  <2> QED
    BY <2>1 DEF In
<1> HIDE DEF kept, nth, rank
<1>10. Those(seq, S) \in Seq(T \cap S) /\ In(Those(seq, S)) \subseteq In(seq) \cap S
  BY <1>2, <1>7, <1>8 DEF In
<1> QED
  BY <1>9, <1>10
-----------------------------------------------------------------------------
(* The dict.                                                                 *)

\* A url is a torrent of the listing, a public one perhaps offered as a fallback.
Offered(listing) ==
  {u \in Listings : \E t \in In(listing) : u = t \/ (t.public /\ u = [t EXCEPT !.fallback = TRUE])}

\* Cutting a sequence leaves its elements what they are.
LEMMA ThoseStay ==
  ASSUME NEW T, NEW seq \in Seq(T), NEW S
  PROVE  Those(seq, S) \in Seq(T) /\ Those(seq, S) \in Seq(T \cap S)
<1>1. Those(seq, S) \in Seq(T \cap S)
  BY ThoseAreOf
<1>2. Seq(T \cap S) \subseteq Seq(T)
  OBVIOUS
<1> QED
  BY <1>1, <1>2

\* So does narrowing the candidates.
LEMMA NarrowedStay ==
  ASSUME NEW T, NEW pool \in Seq(T), NEW sel
  PROVE  NarrowCandidates(sel, pool) \in Seq(T)
<1> DEFINE audio == Those(pool, {t \in In(pool) : t.dual = sel.preferDual})
           heard == IF audio = <<>> THEN pool ELSE audio
           best  == Those(heard, {t \in In(heard) : t.best})
<1>1. audio \in Seq(T)
  BY ThoseStay
<1>2. heard \in Seq(T)
  BY <1>1
<1>3. best \in Seq(T)
  <2> HIDE DEF heard
  <2> QED
    BY <1>2, ThoseStay
<1>4. NarrowCandidates(sel, pool) = IF sel.wantBest /\ best # <<>> THEN best ELSE heard
  BY DEF NarrowCandidates
<1> HIDE DEF heard, best
<1> QED
  BY <1>2, <1>3, <1>4

\* Ordering by group reorders.
LEMMA GroupedStay ==
  ASSUME NEW T, NEW seq \in Seq(T)
  PROVE  ByGroup(seq) \in Seq(T)
<1> DEFINE D == DOMAIN seq
           first(i) == CHOOSE j \in D : /\ seq[j].group = seq[i].group
                                        /\ \A k \in D : seq[k].group = seq[i].group => j <= k
           ahead(j, i) == first(j) < first(i) \/ (first(j) = first(i) /\ j < i)
           place(i) == Cardinality({j \in D : ahead(j, i)}) + 1
           R == {p \in D \X D : ahead(p[1], p[2])}
           nth(n) == CHOOSE i \in D : place(i) = n
<1>1. /\ Len(seq) \in Nat /\ D = 1..Len(seq) /\ D \subseteq Nat
      /\ IsFiniteSet(D) /\ Cardinality(D) = Len(seq)
  <2>1. PICK l \in Nat : l = Len(seq)
    OBVIOUS
  <2>2. D = 1..l
    BY <2>1
  <2>3. IsFiniteSet(1..l) /\ Cardinality(1..l) = l
    <3>1. 1 \in Int /\ l \in Int /\ (1 > l => l = 0) /\ l - 1 + 1 = l
      OBVIOUS
    <3> QED
      BY <3>1, FS_Interval
  <2> HIDE DEF D
  <2> QED
    BY <2>1, <2>2, <2>3
<1>2. \A i \in D : first(i) \in Nat
  <2> TAKE i \in D
  <2> DEFINE S == {j \in D : seq[j].group = seq[i].group}
  <2>1. S \subseteq Nat /\ i \in S
    BY <1>1
  <2>2. PICK j \in S : \A k \in S : j <= k
    <3> HIDE DEF S
    <3> QED
      BY <2>1, LeastOf
  <2>3. \E j2 \in D : /\ seq[j2].group = seq[i].group
                      /\ \A k \in D : seq[k].group = seq[i].group => j2 <= k
    BY <2>2
  <2>4. first(i) \in D
    <3> HIDE DEF D
    <3> QED
      BY <2>3
  <2> QED
    BY <1>1, <2>4
<1>3. StrictOrder(R, D)
  <2>1. \A i, j \in D : <<i, j>> \in R <=> (first(i) < first(j) \/ (first(i) = first(j) /\ i < j))
    <3> HIDE DEF D, first
    <3> QED
      OBVIOUS
  <2> HIDE DEF R, D, first
  <2> QED
    BY <1>1, <1>2, <2>1 DEF StrictOrder
<1>4. \A n \in D : nth(n) \in D
  <2> TAKE n \in D
  <2>1. \A i \in D : place(i) = Rank(D, R, i) + 1
    <3> TAKE i \in D
    <3>1. {j \in D : <<j, i>> \in R} = {j \in D : ahead(j, i)}
      <4> HIDE DEF D, ahead
      <4> QED
        OBVIOUS
    <3> HIDE DEF ahead, R, D
    <3> QED
      BY <3>1 DEF Rank
  <2>2. \E i \in D : place(i) = n
    <3> HIDE DEF R, D, place
    <3>1. n \in 1..Cardinality(D)
      BY <1>1
    <3>2. PICK i \in D : Rank(D, R, i) = n - 1
      BY <1>1, <1>3, <3>1, EachRankIsTaken
    <3> QED
      BY <1>1, <2>1, <3>2
  <2> HIDE DEF place, D
  <2> QED
    BY <2>2
<1>5. ByGroup(seq) = [n \in D |-> seq[nth(n)]]
  BY DEF ByGroup
<1>6. \A n \in D : seq[nth(n)] \in T
  <2> HIDE DEF nth
  <2> QED
    BY <1>4
<1> HIDE DEF nth, D
<1> QED
  BY <1>1, <1>5, <1>6

\* The candidates with what is offered for them are offered of the listing.
LEMMA FallbacksStay ==
  ASSUME NEW listing \in Seq(Listings), NEW pool \in Seq(In(listing) \cap Listings), NEW sel
  PROVE  WithPublicFallbacks(sel, pool, NarrowCandidates(sel, pool)) \in Seq(Offered(listing))
<1> DEFINE T == In(listing) \cap Listings
           candidates == NarrowCandidates(sel, pool)
           public == {t \in In(pool) \ In(candidates) : t.public}
           rest == Those(pool, public)
           offered == NarrowCandidates(sel, rest)
           added == [i \in DOMAIN offered |-> [offered[i] EXCEPT !.fallback = TRUE]]
<1>1. T \subseteq Offered(listing)
  BY DEF Offered
<1>2. candidates \in Seq(T) /\ candidates \in Seq(Offered(listing))
  <2>1. candidates \in Seq(T)
    BY NarrowedStay
  <2> HIDE DEF candidates, T
  <2> QED
    BY <1>1, <2>1
<1>3. offered \in Seq(T \cap public)
  <2>1. rest \in Seq(T \cap public)
    <3> HIDE DEF public
    <3> QED
      BY ThoseStay
  <2> HIDE DEF rest, public, T
  <2> QED
    BY <2>1, NarrowedStay
<1>4. added \in Seq(Offered(listing))
  <2>1. \A i \in DOMAIN offered : offered[i] \in In(listing) /\ offered[i] \in Listings /\ offered[i].public
    <3> HIDE DEF offered
    <3> QED
      BY <1>3
  <2>2. \A t \in Listings : [t EXCEPT !.fallback = TRUE] \in Listings
    BY DEF Listings
  <2>3. \A i \in DOMAIN offered : added[i] \in Offered(listing)
    <3> HIDE DEF offered
    <3> QED
      BY <2>1, <2>2 DEF Offered
  <2>4. DOMAIN offered = 1..Len(offered) /\ Len(offered) \in Nat
    <3> HIDE DEF offered
    <3> QED
      BY <1>3
  <2> HIDE DEF offered
  <2> QED
    BY <2>3, <2>4
<1>5. candidates \o added \in Seq(Offered(listing))
  <2> HIDE DEF candidates, added
  <2> QED
    BY <1>2, <1>4
<1>6. \/ WithPublicFallbacks(sel, pool, candidates) = candidates
      \/ WithPublicFallbacks(sel, pool, candidates) = candidates \o added
  BY DEF WithPublicFallbacks
<1>7. WithPublicFallbacks(sel, pool, candidates) \in Seq(Offered(listing))
  <2> HIDE DEF candidates, added
  <2> QED
    BY <1>2, <1>5, <1>6
<1> QED
  BY <1>7

\* The dict lists what the listing offers, and nothing redundant.
LEMMA DictIsPruned ==
  ASSUME NEW listing \in Seq(Listings), NEW sel
  PROVE  LET dict == BuildDict(sel, listing) IN
         /\ dict \in Seq(Offered(listing))
         /\ \A i \in DOMAIN dict : ~Redundant(dict[i], In(dict))
<1> DEFINE pool == Those(listing, {t \in In(listing) : t.allowed})
           all == ByGroup(WithPublicFallbacks(sel, pool, NarrowCandidates(sel, pool)))
           left == {t \in In(all) : ~Redundant(t, In(all))}
           dict == BuildDict(sel, listing)
<1>1. pool \in Seq(In(listing) \cap Listings)
  <2> DEFINE S == {t \in In(listing) : t.allowed}
  <2>1. pool \in Seq(Listings \cap S)
    <3>1. pool = Those(listing, S)
      OBVIOUS
    <3> HIDE DEF S, pool
    <3> QED
      BY <3>1, ThoseStay
  <2>2. Listings \cap S \subseteq In(listing) \cap Listings
    OBVIOUS
  <2> HIDE DEF pool, S
  <2> QED
    BY <2>1, <2>2
<1>2. all \in Seq(Offered(listing))
  <2>1. WithPublicFallbacks(sel, pool, NarrowCandidates(sel, pool)) \in Seq(Offered(listing))
    <3> HIDE DEF pool
    <3> QED
      BY <1>1, FallbacksStay
  <2> QED
    BY <2>1, GroupedStay
<1>3. dict = Those(all, left)
  BY DEF BuildDict
<1>4. dict \in Seq(Offered(listing)) /\ In(dict) = In(all) \cap left
  <2> HIDE DEF all, left, dict
  <2> QED
    BY <1>2, <1>3, ThoseStay, ThoseAreOf
<1>5. \A t \in In(dict) : ~Redundant(t, In(dict))
  <2> SUFFICES ASSUME NEW t \in In(dict), Redundant(t, In(dict)) PROVE FALSE
    OBVIOUS
  <2> DEFINE mates(us) == {u \in us : u.public /\ u.group = t.group}
  <2>1. t \in In(all) /\ ~Redundant(t, In(all))
    <3> HIDE DEF dict, all
    <3> QED
      BY <1>4
  <2>2. \A u \in In(all) : u.public => u \in In(dict)
    <3> TAKE u \in In(all)
    <3> HAVE u.public
    <3>1. u \in left
      BY DEF Redundant
    <3> HIDE DEF all, left, dict
    <3> QED
      BY <1>4, <3>1
  <2>3. mates(In(dict)) = mates(In(all))
    <3> HIDE DEF dict, all
    <3> QED
      BY <1>4, <2>2
  <2> HIDE DEF dict, all
  <2> QED
    BY <2>1, <2>3 DEF Redundant
<1>6. \A i \in DOMAIN dict : dict[i] \in In(dict)
  BY DEF In
<1> HIDE DEF all, left, dict
<1> QED
  BY <1>4, <1>5, <1>6 DEF dict

-----------------------------------------------------------------------------
(* Rescue, url after url.                                                    *)

Carried(is) == UNION {Keys(i) : i \in Public(is)}
RescueOne(dropped, left, n) ==
  IF n \in Public(dropped) /\ ~(Keys(n) \subseteq Carried(left)) THEN left \cup {n} ELSE left
RescueTo(kept, dropped, f, m) ==
  f = [n \in 0..m |-> IF n = 0 THEN kept ELSE RescueOne(dropped, f[n-1], n)]

\* The recursion of Rescue is met by a function.
LEMMA RescueRuns ==
  ASSUME NEW kept, NEW dropped, Len(urls) \in Nat
  PROVE  \E f : RescueTo(kept, dropped, f, Len(urls)) /\ Rescue(kept, dropped) = f[Len(urls)]
<1> DEFINE L == Len(urls)
           S == {m \in 0..L : \E f : RescueTo(kept, dropped, f, m)}
<1>1. 0 \in S
  <2> DEFINE f == [n \in 0..0 |-> kept]
  <2>1. RescueTo(kept, dropped, f, 0)
    BY DEF RescueTo
  <2> QED
    BY <2>1
<1>2. \A m \in 0..L : m \in S /\ m < L => m + 1 \in S
  <2> TAKE m \in 0..L
  <2> HAVE m \in S /\ m < L
  <2>1. PICK f : RescueTo(kept, dropped, f, m)
    OBVIOUS
  <2> DEFINE g == [n \in 0..(m + 1) |-> IF n = m + 1 THEN RescueOne(dropped, f[m], n) ELSE f[n]]
  <2>2. \A n \in 0..(m + 1) : g[n] = IF n = 0 THEN kept ELSE RescueOne(dropped, g[n-1], n)
    <3> TAKE n \in 0..(m + 1)
    <3>1. CASE n = m + 1
      BY <3>1
    <3>2. CASE n # m + 1
      <4>1. n \in 0..m /\ n - 1 # m + 1 /\ g[n] = f[n]
        BY <3>2
      <4>2. n # 0 => g[n - 1] = f[n - 1]
        BY <4>1
      <4> QED
        BY <2>1, <4>1, <4>2 DEF RescueTo
    <3> QED
      BY <3>1, <3>2
  <2>3. RescueTo(kept, dropped, g, m + 1)
    BY <2>2 DEF RescueTo
  <2> QED
    BY <2>3
<1>3. L \in S
  <2> HIDE DEF S
  <2>1. 0..L \subseteq S
    BY <1>1, <1>2, UpTo
  <2> QED
    BY <2>1
<1>4. PICK f : RescueTo(kept, dropped, f, L)
  BY <1>3
<1> DEFINE after == CHOOSE g : RescueTo(kept, dropped, g, L)
<1>5. RescueTo(kept, dropped, after, L)
  BY <1>4
<1>6. Rescue(kept, dropped) = after[L]
  BY DEF Rescue, RescueTo, RescueOne, Carried
<1> QED
  BY <1>5, <1>6

\* What is kept stays, what is dropped is carried, and what comes back carries
\* an episode that was not.
LEMMA RescueDoes ==
  ASSUME NEW kept, NEW dropped, Len(urls) \in Nat, Idx = 1..Len(urls), dropped \subseteq Idx
  PROVE  /\ kept \subseteq Rescue(kept, dropped)
         /\ Rescue(kept, dropped) \subseteq kept \cup Public(dropped)
         /\ \A n \in Public(dropped) : Keys(n) \subseteq Carried(Rescue(kept, dropped))
         /\ \A n \in Rescue(kept, dropped) \ kept :
              ~(Keys(n) \subseteq Carried(kept \cup {i \in Rescue(kept, dropped) : i < n}))
<1> DEFINE L == Len(urls)
<1>1. PICK f : RescueTo(kept, dropped, f, L) /\ Rescue(kept, dropped) = f[L]
  BY RescueRuns
<1>2. /\ f[0] = kept
      /\ \A n \in 1..L : f[n] = RescueOne(dropped, f[n-1], n)
  BY <1>1 DEF RescueTo
<1>3. \A n \in 1..L : f[n-1] \subseteq f[n] /\ f[n] \subseteq f[n-1] \cup {n}
  BY <1>2 DEF RescueOne
<1>4. \A i \in 0..L : \A m \in i..L : f[i] \subseteq f[m]
  <2> TAKE i \in 0..L
  <2> DEFINE S == {m \in i..L : f[i] \subseteq f[m]}
  <2>1. i \in S
    OBVIOUS
  <2>2. \A m \in i..L : m \in S /\ m < L => m + 1 \in S
    <3> TAKE m \in i..L
    <3> HAVE m \in S /\ m < L
    <3>1. m + 1 \in 1..L /\ (m + 1) - 1 = m /\ m + 1 \in i..L
      OBVIOUS
    <3>2. f[m] \subseteq f[m + 1]
      BY <1>3, <3>1
    <3> QED
      BY <3>1, <3>2
  <2>3. i \in Nat /\ L \in Nat
    OBVIOUS
  <2> HIDE DEF S, L
  <2>4. i..L \subseteq S
    BY <2>1, <2>2, <2>3, UpTo
  <2> QED
    BY <2>4 DEF S
<1>5. \A i \in 0..L : \A m \in i..L : f[m] \subseteq f[i] \cup (i + 1)..m
  <2> TAKE i \in 0..L
  <2> DEFINE S == {m \in i..L : f[m] \subseteq f[i] \cup (i + 1)..m}
  <2>1. i \in S
    OBVIOUS
  <2>2. \A m \in i..L : m \in S /\ m < L => m + 1 \in S
    <3> TAKE m \in i..L
    <3> HAVE m \in S /\ m < L
    <3>1. m + 1 \in 1..L /\ (m + 1) - 1 = m /\ m + 1 \in i..L
      OBVIOUS
    <3>2. f[m + 1] \subseteq f[m] \cup {m + 1}
      BY <1>3, <3>1
    <3> QED
      BY <3>1, <3>2
  <2>3. i \in Nat /\ L \in Nat
    OBVIOUS
  <2> HIDE DEF S, L
  <2>4. i..L \subseteq S
    BY <2>1, <2>2, <2>3, UpTo
  <2> QED
    BY <2>4 DEF S
<1>6. Public(dropped) \subseteq 1..L
  BY DEF Public
<1>7. kept \subseteq f[L]
  <2>1. 0 \in 0..L /\ L \in 0..L
    OBVIOUS
  <2> QED
    BY <1>2, <1>4, <2>1
<1>8. \A n \in Public(dropped) : Keys(n) \subseteq Carried(f[L])
  <2> TAKE n \in Public(dropped)
  <2>1. n \in 1..L /\ n - 1 \in 0..L /\ L \in (n-1)..L /\ L \in n..L /\ n \in 0..L
    BY <1>6
  <2>2. f[n-1] \subseteq f[L] /\ f[n] \subseteq f[L]
    BY <1>4, <2>1
  <2>3. Keys(n) \subseteq Carried(f[n-1]) \/ n \in f[n]
    BY <1>2, <2>1 DEF RescueOne
  <2>4. CASE Keys(n) \subseteq Carried(f[n-1])
    BY <2>2, <2>4 DEF Carried, Public
  <2>5. CASE n \in f[n]
    BY <2>2, <2>5 DEF Carried, Public
  <2> QED
    BY <2>3, <2>4, <2>5
<1>9. \A n \in f[L] \ kept : /\ n \in Public(dropped)
                            /\ ~(Keys(n) \subseteq Carried(f[n-1]))
                            /\ kept \cup {i \in f[L] : i < n} \subseteq f[n-1]
  <2> TAKE n \in f[L] \ kept
  <2>1. n \in 1..L
    <3>1. f[L] \subseteq f[0] \cup (0 + 1)..L
      BY <1>5
    <3> QED
      BY <1>2, <3>1
  <2>2. n \notin f[n-1]
    <3>1. n - 1 \in 0..L /\ n - 1 \in 0..L
      BY <2>1
    <3>2. f[n-1] \subseteq f[0] \cup (0 + 1)..(n - 1)
      BY <1>5, <3>1
    <3> QED
      BY <1>2, <2>1, <3>2
  <2>3. n \in f[n]
    <3>1. L \in n..L /\ n \in 0..L
      BY <2>1
    <3>2. f[L] \subseteq f[n] \cup (n + 1)..L
      BY <1>5, <3>1
    <3> QED
      BY <2>1, <3>2
  <2>4. n \in Public(dropped) /\ ~(Keys(n) \subseteq Carried(f[n-1]))
    BY <1>2, <2>1, <2>2, <2>3 DEF RescueOne
  <2>5. n - 1 \in 0..L /\ L \in (n-1)..L
    BY <2>1
  <2>6. kept \subseteq f[n-1]
    <3>1. f[0] \subseteq f[n-1]
      BY <1>4, <2>5
    <3> QED
      BY <1>2, <3>1
  <2>7. f[L] \subseteq f[n-1] \cup ((n-1) + 1)..L
    BY <1>5, <2>5
  <2>8. \A i \in f[L] : i < n => i \in f[n-1]
    BY <2>1, <2>7
  <2> QED
    BY <2>4, <2>6, <2>8
<1>10. \A n \in f[L] \ kept : ~(Keys(n) \subseteq Carried(kept \cup {i \in f[L] : i < n}))
  <2> TAKE n \in f[L] \ kept
  <2>1. Carried(kept \cup {i \in f[L] : i < n}) \subseteq Carried(f[n-1])
    BY <1>9 DEF Carried, Public
  <2> QED
    BY <1>9, <2>1
<1>11. f[L] \subseteq kept \cup Public(dropped)
  BY <1>9
<1> QED
  BY <1>1, <1>7, <1>8, <1>10, <1>11
-----------------------------------------------------------------------------
(* The reduction.                                                            *)

All(set) == UNION {Of(g) : g \in set}
SameFileSets == {SameFiles(g) : g \in GroupNames}
Part(set, down, up) == ReduceCoverage(set, down, up)
Dropped(set, down, up) == (All(set) \cap down) \ Part(set, down, up).down
Rescued(set, down, up) == Rescue(Part(set, down, up).down, Dropped(set, down, up))
Flags(down, up) == UNION {Rescued(set, down, up) : set \in SameFileSets}

UrlsListed == urls \in Seq(Listings)

\* The indices of the urls.
LEMMA IdxRange ==
  ASSUME UrlsListed
  PROVE  Len(urls) \in Nat /\ Idx = 1..Len(urls) /\ Idx \subseteq Nat
  BY DEF UrlsListed, Idx

\* The reduction in the terms used here.
LEMMA ReduceIs ==
  ASSUME ~title.interactive, NEW down, NEW up
  PROVE  LET r == Reduce(down, up) IN
         /\ r.down = {i \in Flags(down, up) : ~Duplicate(i, Flags(down, up))}
         /\ r.skipped = \E set \in SameFileSets : Part(set, down, up).skipped
  BY DEF Reduce, Flags, Rescued, Dropped, Part, All, SameFileSets

\* The groups are partitioned by what they cover.
LEMMA SetsPartition ==
  /\ \A g \in GroupNames : g \in SameFiles(g) /\ SameFiles(g) \subseteq GroupNames
  /\ \A g \in GroupNames : \A h \in SameFiles(g) : SameFiles(h) = SameFiles(g)
  BY DEF SameFiles

\* A url of a set is of a group of it, whose set it is.
LEMMA InAll ==
  ASSUME NEW set \in SameFileSets, NEW i \in All(set)
  PROVE  i \in Idx /\ urls[i].group \in GroupNames /\ set = SameFiles(urls[i].group)
<1>1. PICK g \in GroupNames : set = SameFiles(g)
  BY DEF SameFileSets
<1>2. i \in Idx /\ urls[i].group \in set
  BY DEF All, Of
<1>3. urls[i].group \in GroupNames
  BY <1>2 DEF GroupNames
<1> QED
  BY <1>1, <1>2, <1>3, SetsPartition

\* A url is in its group's set.
LEMMA InItsSet ==
  ASSUME NEW i \in Idx
  PROVE  /\ SameFiles(urls[i].group) \in SameFileSets
         /\ i \in All(SameFiles(urls[i].group))
<1>1. urls[i].group \in GroupNames /\ i \in Of(urls[i].group)
  BY DEF GroupNames, Of
<1> QED
  BY <1>1, SetsPartition DEF All, SameFileSets

\* The first group of some is one of them.
LEMMA FirstIsOneOf ==
  ASSUME UrlsListed, NEW gs, gs \subseteq GroupNames, gs # {}
  PROVE  FirstOf(gs) \in gs
<1> DEFINE S == {i \in Idx : urls[i].group \in gs}
<1>1. S \subseteq Nat /\ S # {}
  BY IdxRange DEF GroupNames
<1>2. PICK i \in S : \A j \in S : i <= j
  BY <1>1, LeastOf
<1>3. \E k \in Idx : urls[k].group \in gs /\ \A j \in Idx : urls[j].group \in gs => k <= j
  BY <1>2
<1> QED
  BY <1>3 DEF FirstOf

\* What a set comes to is of one group; and it comes to nothing only when nothing of it was
\* flagged, or nothing that could be added.
NoneToAdd(set, down, skipped) ==
  \/ \A g \in set : Of(g) \cap down = {}
  \/ /\ \A g \in set : Of(g) \cap down # {} => Public(Of(g)) = {}
     /\ skipped \/ \E g \in set : \E i \in Of(g) : urls[i].fallback

LEMMA OneGroupIsLeft ==
  ASSUME UrlsListed, NEW set, set \subseteq GroupNames, NEW down, NEW up
  PROVE  LET p == Part(set, down, up) IN
         /\ p.down = {} \/ \E g \in set : p.down \subseteq Of(g) /\ p.down # {}
         /\ p.down = {} => NoneToAdd(set, down, p.skipped)
<1> DEFINE flagged == {g \in set : Of(g) \cap down # {}}
           public == {g \in flagged : Public(Of(g)) # {}}
           addable == {g \in public : Of(g) \cap down \subseteq Public(Of(g))}
           isFallback(g) == \E i \in Of(g) : urls[i].fallback
           candidates == {g \in set \ flagged : Public(Of(g)) # {} /\ ~isFallback(g)}
           whole == {g \in candidates : Public(Of(g)) = Of(g)}
           rides == \E g \in set : isFallback(g)
           upgrade == \E g \in set : Of(g) \cap up # {}
           p == Part(set, down, up)
           promoted == IF whole # {} THEN whole ELSE candidates
<1>1. p = IF flagged = {} THEN Left({})
          ELSE IF upgrade /\ addable = {} /\ candidates # {} THEN Left(Public(Of(FirstOf(promoted))))
          ELSE IF public = {}
            THEN [down |-> {}, skipped |-> upgrade \/ ~rides, stale |-> upgrade /\ rides,
                  covered |-> rides /\ ~upgrade]
          ELSE IF addable # {} THEN Left(Of(FirstOf(addable)) \cap down)
          ELSE [Left(Of(FirstOf(public)) \cap down) EXCEPT
                  !.stale = upgrade /\ \E g \in set \ flagged : isFallback(g)]
  BY DEF Part, ReduceCoverage
<1>2. CASE flagged = {}
  <2>1. p.down = {}
    BY <1>1, <1>2 DEF Left
  <2>2. \A g \in set : Of(g) \cap down = {}
    BY <1>2
  <2> QED
    BY <2>1, <2>2 DEF NoneToAdd
<1>3. CASE flagged # {} /\ upgrade /\ addable = {} /\ candidates # {}
  <2>1. promoted # {} /\ promoted \subseteq candidates /\ promoted \subseteq GroupNames
    BY <1>3
  <2> DEFINE g == FirstOf(promoted)
  <2>2. p.down = Public(Of(g))
    <3> HIDE DEF flagged, upgrade, addable, candidates, promoted, rides, isFallback, public, p, g
    <3> QED
      BY <1>1, <1>3 DEF Left, g
  <2>3. g \in promoted
    <3> HIDE DEF promoted
    <3> QED
      BY <2>1, FirstIsOneOf
  <2>4. g \in set /\ Public(Of(g)) # {} /\ Public(Of(g)) \subseteq Of(g)
    <3> HIDE DEF promoted, g
    <3> QED
      BY <2>1, <2>3 DEF Public
  <2> QED
    BY <2>2, <2>4
<1>4. CASE flagged # {} /\ ~(upgrade /\ addable = {} /\ candidates # {}) /\ public = {}
  <2>1. p.down = {} /\ p.skipped = (upgrade \/ ~rides)
    <3> HIDE DEF flagged, upgrade, addable, candidates, promoted, rides, public, p
    <3> QED
      BY <1>1, <1>4
  <2>2. \A g \in set : Of(g) \cap down # {} => Public(Of(g)) = {}
    BY <1>4
  <2>3. p.skipped \/ rides
    <3> HIDE DEF rides, upgrade, p
    <3> QED
      BY <2>1
  <2> QED
    BY <2>1, <2>2, <2>3 DEF NoneToAdd
<1>5. CASE flagged # {} /\ ~(upgrade /\ addable = {} /\ candidates # {}) /\ addable # {}
  <2> DEFINE g == FirstOf(addable)
  <2>1. addable \subseteq GroupNames
    OBVIOUS
  <2>2. g \in addable
    <3> HIDE DEF addable
    <3> QED
      BY <1>5, <2>1, FirstIsOneOf
  <2>3. public # {}
    BY <2>2
  <2>4. p.down = Of(g) \cap down
    <3> HIDE DEF flagged, upgrade, addable, candidates, promoted, rides, isFallback, public, p, g
    <3> QED
      BY <1>1, <1>5, <2>3 DEF Left, g
  <2>5. g \in set /\ Of(g) \cap down # {}
    <3> HIDE DEF g
    <3> QED
      BY <2>2
  <2> QED
    BY <2>4, <2>5
<1>6. CASE flagged # {} /\ ~(upgrade /\ addable = {} /\ candidates # {}) /\ addable = {} /\ public # {}
  <2> DEFINE g == FirstOf(public)
  <2>1. public \subseteq GroupNames
    OBVIOUS
  <2>2. g \in public
    <3> HIDE DEF public
    <3> QED
      BY <1>6, <2>1, FirstIsOneOf
  <2>3. p.down = Of(g) \cap down
    <3> HIDE DEF flagged, upgrade, addable, candidates, promoted, rides, isFallback, public, p, g
    <3> QED
      BY <1>1, <1>6 DEF Left, g
  <2>4. g \in set /\ Of(g) \cap down # {}
    <3> HIDE DEF g
    <3> QED
      BY <2>2
  <2> QED
    BY <2>3, <2>4
<1> HIDE DEF flagged, upgrade, addable, candidates, promoted, rides, isFallback, public, p
<1> QED
  BY <1>2, <1>3, <1>4, <1>5, <1>6

\* Of what a set rescues.
LEMMA RescuedDoes ==
  ASSUME UrlsListed, NEW set \in SameFileSets, NEW down, NEW up
  PROVE  LET R == Rescued(set, down, up)
             kept == Part(set, down, up).down
         IN  /\ R \subseteq All(set)
             /\ kept \subseteq R
             /\ \A n \in Public(All(set) \cap down) : Keys(n) \subseteq Carried(R)
             /\ \A n \in R \ kept : ~(Keys(n) \subseteq Carried(kept \cup {i \in R : i < n}))
<1> DEFINE kept == Part(set, down, up).down
           dropped == Dropped(set, down, up)
           R == Rescued(set, down, up)
<1>1. set \subseteq GroupNames
  BY SetsPartition DEF SameFileSets
<1>2. kept \subseteq All(set)
  <2>1. kept = {} \/ \E g \in set : kept \subseteq Of(g)
    BY <1>1, OneGroupIsLeft
  <2> HIDE DEF kept
  <2> QED
    BY <2>1 DEF All
<1>3. All(set) \subseteq Idx
  BY DEF All, Of
<1>4. dropped \subseteq All(set) /\ dropped \subseteq Idx /\ Public(dropped) \subseteq All(set)
  BY <1>3 DEF Dropped, Public
<1>5. R = Rescue(kept, dropped)
  BY DEF Rescued
<1>6. /\ kept \subseteq R
      /\ R \subseteq kept \cup Public(dropped)
      /\ \A n \in Public(dropped) : Keys(n) \subseteq Carried(R)
      /\ \A n \in R \ kept : ~(Keys(n) \subseteq Carried(kept \cup {i \in R : i < n}))
  <2> HIDE DEF kept, dropped, R
  <2> QED
    BY <1>4, <1>5, IdxRange, RescueDoes
<1>7. \A n \in Public(All(set) \cap down) : Keys(n) \subseteq Carried(R)
  <2> TAKE n \in Public(All(set) \cap down)
  <2>1. n \in kept \/ n \in Public(dropped)
    BY DEF Public, Dropped
  <2>2. CASE n \in kept
    <3>1. n \in Public(R)
      BY <1>6, <2>2 DEF Public
    <3> HIDE DEF R
    <3> QED
      BY <3>1 DEF Carried
  <2> HIDE DEF kept, dropped, R
  <2> QED
    BY <1>6, <2>1, <2>2
<1> HIDE DEF kept, dropped, R
<1> QED
  BY <1>2, <1>4, <1>6, <1>7 DEF kept, R

Twin(j, n) ==
  urls[n].files # NoFiles /\ urls[j].group = urls[n].group /\ urls[j].files = urls[n].files

\* Of twins, the first is left.
LEMMA FirstTwinIsLeft ==
  ASSUME UrlsListed, NEW down, down \subseteq Idx, NEW n \in down
  PROVE  \E j \in down : ~Duplicate(j, down) /\ (j = n \/ Twin(j, n))
<1>1. CASE ~Duplicate(n, down)
  BY <1>1
<1>2. CASE Duplicate(n, down)
  <2> DEFINE S == {j \in down : urls[j].group = urls[n].group /\ urls[j].files = urls[n].files}
  <2>1. S \subseteq Nat /\ n \in S
    BY IdxRange
  <2>2. PICK j \in S : \A k \in S : j <= k
    <3> HIDE DEF S
    <3> QED
      BY <2>1, LeastOf
  <2>3. ~Duplicate(j, down)
    <3> SUFFICES ASSUME NEW k \in down, k < j, urls[k].group = urls[j].group, urls[k].files = urls[j].files
                 PROVE  FALSE
      BY DEF Duplicate
    <3>1. k \in S
      OBVIOUS
    <3>2. j <= k /\ j \in Nat /\ k \in Nat
      BY <2>1, <2>2, <3>1
    <3> QED
      BY <3>2
  <2> QED
    BY <1>2, <2>2, <2>3 DEF Duplicate, Twin
<1> QED
  BY <1>1, <1>2

\* What is flagged are urls.
LEMMA FlagsInIdx ==
  ASSUME UrlsListed, NEW down, NEW up
  PROVE  Flags(down, up) \subseteq Idx
<1> SUFFICES ASSUME NEW set \in SameFileSets, NEW i \in Rescued(set, down, up)
             PROVE  i \in Idx
  BY DEF Flags
<1> QED
  BY RescuedDoes, InAll

-----------------------------------------------------------------------------
(* No episode is dropped.                                                    *)

\* A cover has as many files of a size as any of its torrents.
LEMMA SizesCovered ==
  ASSUME NEW S, IsFiniteSet(S), \A t \in S : t.files \in Bags, NEW t \in S, NEW z \in Sizes
  PROVE  t.files[z] <= SizeCover(S)[z]
<1> DEFINE listed == {u.files[z] : u \in S}
           counts == listed \cup {0}
<1>1. counts \subseteq Nat
  BY DEF Bags
<1>2. IsFiniteSet(listed)
  <2> DEFINE f == [u \in S |-> u.files[z]]
  <2>1. f \in Surjection(S, listed)
    BY DEF Surjection
  <2> QED
    BY <2>1, FS_Surjection
<1>3. IsFiniteSet(counts)
  BY <1>2, FS_AddElement
<1>4. \E n \in counts : \A m \in counts : m <= n
  <2>1. counts # {}
    OBVIOUS
  <2> HIDE DEF counts
  <2> QED
    BY <1>1, <1>3, <2>1, HasMax
<1>5. SizeCover(S)[z] = CHOOSE n \in counts : \A m \in counts : m <= n
  BY DEF SizeCover
<1>6. t.files[z] \in counts
  OBVIOUS
<1> HIDE DEF counts
<1> QED
  BY <1>4, <1>5, <1>6

\* The urls are finitely many torrents.
LEMMA UrlsAreFinite ==
  ASSUME UrlsListed
  PROVE  IsFiniteSet(In(urls)) /\ In(urls) \subseteq Listings
<1>1. urls \in Surjection(Idx, In(urls))
  BY IdxRange DEF UrlsListed, Surjection, In, Idx
<1>2. IsFiniteSet(Idx)
  BY IdxRange, FS_Interval
<1> QED
  BY <1>1, <1>2, FS_Surjection DEF UrlsListed, In

Pruned == \A i \in Idx : ~Redundant(urls[i], In(urls))

\* A private torrent with the files of a public one of its group is pruned.
LEMMA TwinsArePublic ==
  ASSUME UrlsListed, Pruned, NEW n \in Idx, NEW j \in Idx, urls[n].public,
         urls[j].group = urls[n].group, urls[j].files = urls[n].files
  PROVE  urls[j].public
<1> DEFINE mates == {u \in In(urls) : u.public /\ u.group = urls[j].group}
<1>1. urls[n] \in mates
  BY DEF In, Idx
<1>2. mates \in SUBSET In(urls) /\ IsFiniteSet(mates)
  BY UrlsAreFinite, FS_Subset
<1>3. \A t \in mates : t.files \in Bags
  BY <1>2, UrlsAreFinite DEF Listings
<1>4. \A z \in Sizes : urls[n].files[z] <= SizeCover(mates)[z]
  <2> HIDE DEF mates
  <2> QED
    BY <1>1, <1>2, <1>3, SizesCovered
<1>5. Contained(urls[j].files, SizeCover(mates))
  BY <1>4 DEF Contained
<1> QED
  BY <1>1, <1>5 DEF Pruned, Redundant

NoneDropped(flagged, down) ==
  LET twins(i) == {j \in Idx : urls[j].group = urls[i].group /\ urls[j].files = urls[i].files}
  IN AnyKeys(Public(flagged)) \subseteq AnyKeys(UNION {{i} \cup twins(i) : i \in Public(down)})

\* What was flagged for an episode is left, or its twin is, or what carries the episode too.
LEMMA ReductionDropsNone ==
  ASSUME UrlsListed, Pruned, ~title.interactive, NEW down, down \subseteq Idx, NEW up
  PROVE  NoneDropped(down, Reduce(down, up).down)
<1> DEFINE F == Flags(down, up)
           left == Reduce(down, up).down
           twins(i) == {j \in Idx : urls[j].group = urls[i].group /\ urls[j].files = urls[i].files}
<1> SUFFICES ASSUME NEW k \in Public(down), NEW e \in Keys(k)
             PROVE  \E j \in Public(left) : \E m \in {j} \cup twins(j) : e \in Keys(m)
  BY DEF NoneDropped, AnyKeys
<1>1. k \in Idx /\ k \in down /\ urls[k].public
  BY DEF Public
<1> DEFINE set == SameFiles(urls[k].group)
<1>2. set \in SameFileSets /\ k \in All(set)
  BY <1>1, InItsSet
<1>3. k \in Public(All(set) \cap down)
  BY <1>1, <1>2 DEF Public
<1>4. Keys(k) \subseteq Carried(Rescued(set, down, up))
  <2> HIDE DEF set
  <2> QED
    BY <1>2, <1>3, RescuedDoes
<1>5. PICK n \in Public(Rescued(set, down, up)) : e \in Keys(n)
  BY <1>4 DEF Carried
<1>6. n \in F /\ F \subseteq Idx /\ urls[n].public
  <2>1. n \in Rescued(set, down, up) /\ urls[n].public
    BY DEF Public
  <2>2. F \subseteq Idx
    BY FlagsInIdx
  <2> HIDE DEF set
  <2> QED
    BY <1>2, <2>1, <2>2 DEF Flags
<1>7. PICK j \in F : ~Duplicate(j, F) /\ (j = n \/ Twin(j, n))
  <2> HIDE DEF F
  <2> QED
    BY <1>6, FirstTwinIsLeft
<1>8. j \in left
  BY <1>7, ReduceIs
<1>9. urls[j].public /\ n \in {j} \cup twins(j)
  <2>1. j \in Idx /\ n \in Idx
    BY <1>6
  <2> HIDE DEF F
  <2> QED
    BY <1>6, <1>7, <2>1, TwinsArePublic DEF Twin
<1> HIDE DEF left
<1> QED
  BY <1>5, <1>8, <1>9 DEF Public

-----------------------------------------------------------------------------
(* One release of a fileset.                                                 *)

\* Two urls left of one set never carry the same episodes: a rescued one carries
\* an episode the others do not.
LEMMA RescuedIsNews ==
  ASSUME NEW R, NEW kept, NEW i \in Public(R), NEW j \in Public(R),
         \A n \in R \ kept : ~(Keys(n) \subseteq Carried(kept \cup {k \in R : k < n})),
         i \notin kept, j \in kept \/ j < i
  PROVE  Keys(i) # Keys(j)
<1>1. j \in Public(kept \cup {k \in R : k < i})
  BY DEF Public
<1>2. Keys(j) \subseteq Carried(kept \cup {k \in R : k < i})
  BY <1>1 DEF Carried
<1>3. i \in R \ kept
  BY DEF Public
<1> QED
  BY <1>2, <1>3

\* Two groups of one fileset do not both keep a url for the same episodes.
LEMMA OneReleaseOfAFileset ==
  ASSUME UrlsListed, ~title.interactive, title.hasEps, NEW down, NEW up,
         NEW i \in Public(Reduce(down, up).down), NEW j \in Public(Reduce(down, up).down),
         urls[j].group # urls[i].group, Keys(i) # {},
         GroupKeys(urls[i].group) = GroupKeys(urls[j].group)
  PROVE  Keys(i) # Keys(j)
<1>1. /\ i \in Flags(down, up) /\ urls[i].public
      /\ j \in Flags(down, up) /\ urls[j].public
  BY ReduceIs DEF Public
<1>2. PICK S \in SameFileSets : i \in Rescued(S, down, up)
  BY <1>1 DEF Flags
<1>3. PICK T \in SameFileSets : j \in Rescued(T, down, up)
  BY <1>1 DEF Flags
<1> DEFINE R == Rescued(S, down, up)
           kept == Part(S, down, up).down
<1>4. /\ i \in Idx /\ urls[i].group \in GroupNames /\ S = SameFiles(urls[i].group)
      /\ j \in Idx /\ urls[j].group \in GroupNames /\ T = SameFiles(urls[j].group)
  <2>1. i \in All(S)
    BY <1>2, RescuedDoes
  <2>2. j \in All(T)
    BY <1>3, RescuedDoes
  <2> QED
    BY <2>1, <2>2, InAll
<1>5. S = T
  <2>1. Keys(i) \subseteq GroupKeys(urls[i].group)
    BY <1>4 DEF GroupKeys, Of
  <2>2. GroupKeys(urls[i].group) # {} /\ GroupKeys(urls[j].group) # {}
    BY <2>1
  <2> QED
    BY <1>4, <2>2 DEF SameFiles
<1>6. \A n \in R \ kept : ~(Keys(n) \subseteq Carried(kept \cup {k \in R : k < n}))
  <2>1. S \in SameFileSets
    OBVIOUS
  <2> HIDE DEF R, kept
  <2> QED
    BY RescuedDoes, <2>1 DEF R, kept
<1>7. i \in Public(R) /\ j \in Public(R)
  BY <1>1, <1>2, <1>3, <1>5 DEF Public
<1>8. i \in Nat /\ j \in Nat /\ i # j
  BY <1>4, IdxRange
<1>9. CASE i \in kept /\ j \in kept
  <2>1. S \subseteq GroupNames
    BY <1>4, SetsPartition
  <2>2. kept = {} \/ \E g \in S : kept \subseteq Of(g)
    BY <2>1, OneGroupIsLeft
  <2> HIDE DEF kept
  <2>3. PICK g \in S : i \in Of(g) /\ j \in Of(g)
    BY <1>9, <2>2
  <2> QED
    BY <2>3 DEF Of
<1>10. CASE ~(i \in kept /\ j \in kept)
  <2>1. \/ i \notin kept /\ (j \in kept \/ j < i)
        \/ j \notin kept /\ (i \in kept \/ i < j)
    <3> HIDE DEF kept
    <3> QED
      BY <1>8, <1>10
  <2> HIDE DEF R, kept
  <2> QED
    BY <1>6, <1>7, <2>1, RescuedIsNews
<1> QED
  BY <1>9, <1>10

-----------------------------------------------------------------------------
(* Nothing left to grab.                                                     *)

FallbacksArePublic == \A i \in Idx : urls[i].fallback => urls[i].public

\* When nothing is left and nothing is skipped, every set has a group nothing of
\* which was flagged.
LEMMA SomeGroupIsUnflagged ==
  ASSUME UrlsListed, FallbacksArePublic, ~title.interactive, NEW down, down \subseteq Idx, NEW up,
         Reduce(down, up).down = {}, ~Reduce(down, up).skipped, NEW g \in GroupNames
  PROVE  \E h \in SameFiles(g) : Of(h) # {} /\ Of(h) \cap down = {}
<1> DEFINE F == Flags(down, up)
           S == SameFiles(g)
<1>1. F = {}
  <2> SUFFICES ASSUME NEW n \in F PROVE FALSE
    OBVIOUS
  <2>1. F \subseteq Idx
    BY FlagsInIdx
  <2>2. PICK j \in F : ~Duplicate(j, F)
    <3> HIDE DEF F
    <3> QED
      BY <2>1, FirstTwinIsLeft
  <2> QED
    BY <2>2, ReduceIs
<1>2. S \in SameFileSets /\ S \subseteq GroupNames /\ g \in S
  BY SetsPartition DEF SameFileSets
<1>3. Part(S, down, up).down = {}
  <2>1. Part(S, down, up).down \subseteq Rescued(S, down, up)
    <3> HIDE DEF S
    <3> QED
      BY <1>2, RescuedDoes
  <2>2. Rescued(S, down, up) \subseteq F
    BY <1>2 DEF Flags
  <2> QED
    BY <1>1, <2>1, <2>2
<1>4. ~Part(S, down, up).skipped
  BY <1>2, ReduceIs
<1>5. \A h \in GroupNames : Of(h) # {}
  BY DEF GroupNames, Of
<1>6. \/ \A h \in S : Of(h) \cap down = {}
      \/ /\ \A h \in S : Of(h) \cap down # {} => Public(Of(h)) = {}
         /\ \E h \in S : \E i \in Of(h) : urls[i].fallback
  <2> HIDE DEF S
  <2>1. NoneToAdd(S, down, Part(S, down, up).skipped)
    BY <1>2, <1>3, OneGroupIsLeft
  <2> QED
    BY <1>4, <2>1 DEF NoneToAdd
<1>7. CASE \A h \in S : Of(h) \cap down = {}
  BY <1>2, <1>5, <1>7
<1>8. CASE /\ \A h \in S : Of(h) \cap down # {} => Public(Of(h)) = {}
           /\ \E h \in S : \E i \in Of(h) : urls[i].fallback
  <2> HIDE DEF S
  <2>1. PICK h \in S : \E i \in Of(h) : urls[i].fallback
    BY <1>8
  <2>2. PICK i \in Of(h) : urls[i].fallback
    BY <2>1
  <2>3. i \in Public(Of(h))
    BY <2>2 DEF Public, FallbacksArePublic, Of
  <2>4. Of(h) # {} /\ Of(h) \cap down = {}
    BY <1>8, <2>3
  <2> QED
    BY <2>4 DEF S
<1> QED
  BY <1>6, <1>7, <1>8

\* A url that is not flagged has its episodes held.
LEMMA UnflaggedIsHeld ==
  ASSUME UrlsListed, title.hasEps, Blank \notin GroupNames,
         NEW i \in Idx, MatchUrl(i) = "no", NEW e \in Keys(i)
  PROVE  e \in OnDisk /\ Holder(e) \in Covering(e) \cup Blanket
<1>1. urls[i].group \in GroupNames /\ urls[i].group # Blank
  BY DEF GroupNames
<1>2. urls[i].placed # {} /\ e \in Eps
  <2>1. urls[i] \in Listings
    BY DEF UrlsListed, Idx
  <2>2. urls[i].placed \subseteq Eps \X Sizes
    BY <2>1 DEF Listings
  <2> QED
    BY <2>2 DEF Keys
<1>3. urls[i].group \in Covering(e)
  BY <1>1 DEF Covering, GroupsOf
<1>4. Holder(e) \in Covering(e) \cup Blanket
  <2>1. CASE urls[i].hand
    <3>1. MatchRefused(i) = "no"
      BY <2>1 DEF MatchUrl
    <3>2. WindowInPlace(i)
      BY <3>1 DEF MatchRefused
    <3> QED
      BY <1>2, <1>3, <3>2 DEF WindowInPlace
  <2>2. CASE ~urls[i].hand
    <3>1. MatchEpisodes(i) = "no"
      BY <1>2, <2>2 DEF MatchUrl
    <3>2. \/ Holder(e) = urls[i].group
          \/ Holder(e) \in Blanket
          \/ Holder(e) \in Covering(e)
      BY <3>1 DEF MatchEpisodes
    <3> QED
      BY <1>3, <3>2
  <2> QED
    BY <2>1, <2>2
<1>5. Holder(e) # Blank
  BY <1>4 DEF Covering, Blanket, GroupsOf
<1> QED
  BY <1>4, <1>5 DEF Holder

\* A movie url that is not flagged is held, or another pick is.
LEMMA UnflaggedMovieIsHeld ==
  ASSUME NEW i \in Idx, MatchUrl(i) = "no", urls[i].placed = {}, ~urls[i].hand
  PROVE  Overlapping
<1>1. MatchNoEpisodes(i) = "no"
  BY DEF MatchUrl
<1>2. Tagged(urls[i].group) # {} \/ OwnsUntagged(i) \/ Overlapping
  BY <1>1 DEF MatchNoEpisodes
<1> QED
  BY <1>2 DEF Overlapping

MoviesPlaceNothing ==
  title.hasEps \/ \A i \in Idx : urls[i].placed = {} /\ ~urls[i].hand

\* A plan that leaves nothing, with nothing skipped, finds all of it held.
LEMMA DoneIsOwned ==
  ASSUME UrlsListed, FallbacksArePublic, MoviesPlaceNothing, ~title.interactive,
         Blank \notin GroupNames, NEW down, down = {i \in Idx : MatchUrl(i) # "no"}, NEW up,
         Reduce(down, up).down = {}, ~Reduce(down, up).skipped
  PROVE  /\ title.hasEps => \A e \in AnyKeys(Idx) :
              e \in OnDisk /\ Holder(e) \in Covering(e) \cup Blanket
         /\ ~title.hasEps /\ Idx # {} => Overlapping
<1>1. \A g \in GroupNames : \E h \in SameFiles(g) : Of(h) # {} /\ Of(h) \cap down = {}
  BY SomeGroupIsUnflagged
<1>2. \A h \in GroupNames : Of(h) \cap down = {} => \A i \in Of(h) : i \in Idx /\ MatchUrl(i) = "no"
  BY DEF Of
<1>3. ASSUME title.hasEps, NEW n \in Idx, NEW e \in Keys(n)
      PROVE  e \in OnDisk /\ Holder(e) \in Covering(e) \cup Blanket
  <2>1. urls[n].group \in GroupNames /\ e \in GroupKeys(urls[n].group)
    BY <1>3 DEF GroupNames, GroupKeys, Of
  <2>2. PICK h \in SameFiles(urls[n].group) : Of(h) \cap down = {}
    BY <1>1, <2>1
  <2>3. h \in GroupNames /\ GroupKeys(h) = GroupKeys(urls[n].group)
    BY <1>3, <2>1, <2>2 DEF SameFiles
  <2>4. PICK i \in Of(h) : e \in Keys(i)
    BY <2>1, <2>3 DEF GroupKeys
  <2>5. i \in Idx /\ MatchUrl(i) = "no"
    BY <1>2, <2>2, <2>3
  <2> QED
    BY <1>3, <2>4, <2>5, UnflaggedIsHeld
<1>4. ASSUME ~title.hasEps, NEW n \in Idx PROVE Overlapping
  <2>1. urls[n].group \in GroupNames
    BY DEF GroupNames
  <2>2. PICK h \in SameFiles(urls[n].group) : Of(h) # {} /\ Of(h) \cap down = {}
    BY <1>1, <2>1
  <2>3. h \in GroupNames
    BY <1>4, <2>2 DEF SameFiles
  <2>4. PICK i \in Of(h) : i \in Idx /\ MatchUrl(i) = "no"
    BY <1>2, <2>2, <2>3
  <2> QED
    BY <1>4, <2>4, UnflaggedMovieIsHeld DEF MoviesPlaceNothing
<1> QED
  BY <1>3, <1>4 DEF AnyKeys

-----------------------------------------------------------------------------
(* The runs over a title.                                                    *)

OneOfAFileset(down) ==
  title.hasEps => \A i, j \in Public(down) :
    (urls[j].group # urls[i].group /\ Keys(i) # {}
       /\ GroupKeys(urls[i].group) = GroupKeys(urls[j].group)) => Keys(i) # Keys(j)

Owned ==
  /\ title.hasEps => \A e \in AnyKeys(Idx) :
       e \in OnDisk /\ Holder(e) \in Covering(e) \cup Blanket
  /\ ~title.hasEps /\ Idx # {} => Overlapping

UrlsInv ==
  /\ title \in Titles
  /\ urls \in Seq(Offered(title.listing))
  /\ phase = "pick" => title.interactive
  /\ ~title.interactive => Pruned

PlanInv ==
  /\ toImport \subseteq plan.result.down
  /\ ~title.byHash /\ ~title.interactive =>
       /\ NoneDropped(plan.flagged, plan.result.down)
       /\ OneOfAFileset(plan.result.down)
       /\ plan.result.down = {} /\ ~plan.result.skipped /\ Blank \notin GroupNames => Owned

ChoiceInv == UrlsInv /\ (phase = "grab" => PlanInv)

\* The urls are as a real title lists them.
LEMMA UrlsAsListed ==
  ASSUME UrlsInv
  PROVE  UrlsListed /\ FallbacksArePublic /\ MoviesPlaceNothing /\ title.listing \in Seq(Listings)
<1>1. /\ title.listing \in Seq({u \in Listings : ~u.fallback})
      /\ title.hasEps \/ \A u \in In(title.listing) : u.placed = {} /\ ~u.hand
  BY DEF UrlsInv, Titles
<1>2. \A t \in In(title.listing) : t \in Listings /\ ~t.fallback
  BY <1>1 DEF In
<1>3. Offered(title.listing) \subseteq Listings
  BY DEF Offered
<1>4. urls \in Seq(Listings) /\ \A i \in Idx : urls[i] \in Offered(title.listing)
  BY <1>3 DEF UrlsInv, Idx
<1>5. \A u \in Offered(title.listing) : \E t \in In(title.listing) :
        u.placed = t.placed /\ u.hand = t.hand /\ (u.fallback => u.public)
  <2> TAKE u \in Offered(title.listing)
  <2>1. PICK t \in In(title.listing) : u = t \/ (t.public /\ u = [t EXCEPT !.fallback = TRUE])
    BY DEF Offered
  <2>2. t \in Listings /\ ~t.fallback
    BY <1>2
  <2> QED
    BY <2>1, <2>2 DEF Listings
<1>6. FallbacksArePublic
  BY <1>4, <1>5 DEF FallbacksArePublic
<1>7. MoviesPlaceNothing
  BY <1>1, <1>4, <1>5 DEF MoviesPlaceNothing
<1>8. title.listing \in Seq(Listings)
  BY <1>1
<1> QED
  BY <1>4, <1>6, <1>7, <1>8 DEF UrlsListed

\* What is said of the urls and the library stays true while they stay.
LEMMA SaidOfTheUrls ==
  ASSUME title' = title, urls' = urls, NEW flagged, NEW down
  PROVE  /\ NoneDropped(flagged, down) => NoneDropped(flagged, down)'
         /\ OneOfAFileset(down) => OneOfAFileset(down)'
         /\ GroupNames' = GroupNames /\ Pruned' = Pruned
<1>1. Idx' = Idx /\ GroupNames' = GroupNames
  BY DEF Idx, GroupNames
<1>2. \A i : Keys(i)' = Keys(i)
  BY DEF Keys
<1>3. \A g : GroupKeys(g)' = GroupKeys(g)
  BY <1>1, <1>2 DEF GroupKeys, Of
<1>4. \A is : Public(is)' = Public(is)
  BY DEF Public
<1>5. NoneDropped(flagged, down) => NoneDropped(flagged, down)'
  BY <1>1, <1>2, <1>4 DEF NoneDropped, AnyKeys
<1>6. OneOfAFileset(down) => OneOfAFileset(down)'
  BY <1>2, <1>3, <1>4 DEF OneOfAFileset
<1>7. Pruned' = Pruned
  BY <1>1 DEF Pruned
<1> QED
  BY <1>1, <1>5, <1>6, <1>7

\* And of the library while it stays too.
LEMMA SaidOfTheLibrary ==
  ASSUME title' = title, urls' = urls, disk' = disk, Owned
  PROVE  Owned'
<1>1. /\ Idx' = Idx /\ OnDisk' = OnDisk /\ Untagged' = Untagged /\ Blanket' = Blanket
      /\ UntaggedBag' = UntaggedBag
  BY DEF Idx, OnDisk, Untagged, Blanket, GroupsOf, UntaggedBag
<1>2. \A e : Keys(e)' = Keys(e) /\ Covering(e)' = Covering(e) /\ Tagged(e)' = Tagged(e)
  BY DEF Keys, Covering, GroupsOf, Idx, Tagged, OnDisk
<1>3. \A e : NamedBySize(e)' = NamedBySize(e)
  BY DEF NamedBySize, Idx
<1>4. \A e : HeldBySize(e)' = HeldBySize(e)
  BY <1>1, <1>3 DEF HeldBySize
<1>5. \A e : Holder(e)' = Holder(e)
  BY <1>1, <1>3, <1>4 DEF Holder
<1>6. \A i : OwnsUntagged(i)' = OwnsUntagged(i)
  BY <1>1 DEF OwnsUntagged
<1>7. Overlapping' = Overlapping
  BY <1>1, <1>2, <1>6 DEF Overlapping
<1> QED
  BY <1>1, <1>2, <1>5, <1>7 DEF Owned, AnyKeys

\* The invariant at the start.
LEMMA ChoiceInvInit == ChoiceInit => ChoiceInv
<1> SUFFICES ASSUME ChoiceInit PROVE ChoiceInv
  OBVIOUS
<1>1. urls = <<>> /\ title \in Titles /\ phase = "idle"
  BY DEF ChoiceInit
<1>2. Pruned
  BY <1>1 DEF Pruned, Idx
<1> QED
  BY <1>1, <1>2 DEF ChoiceInv, UrlsInv

\* And at every step: Build makes the dict, MakePlan the plan, the rest keeps both.
LEMMA ChoiceInvStep == ChoiceInv /\ [ChoiceNext]_choiceVars => ChoiceInv'
<1> SUFFICES ASSUME ChoiceInv, [ChoiceNext]_choiceVars PROVE ChoiceInv'
  OBVIOUS
<1>1. UrlsListed /\ FallbacksArePublic /\ MoviesPlaceNothing /\ title.listing \in Seq(Listings)
  BY UrlsAsListed DEF ChoiceInv
<1>2. CASE Build
  <2>1. /\ title' = title /\ urls' = BuildDict(title.sel, title.listing)
        /\ phase' = "plan" \/ (phase' = "pick" /\ title.interactive)
    BY <1>2 DEF Build
  <2>2. /\ urls' \in Seq(Offered(title.listing))
        /\ \A i \in DOMAIN urls' : ~Redundant(urls'[i], In(urls'))
    BY <1>1, <2>1, DictIsPruned
  <2>3. Pruned'
    BY <2>2 DEF Pruned, Idx
  <2> QED
    BY <2>1, <2>2, <2>3 DEF ChoiceInv, UrlsInv
<1>3. CASE Pick
  <2>1. PICK S : urls' = Those(urls, S)
    BY <1>3 DEF Pick
  <2>2. title' = title /\ phase' = "plan" /\ title.interactive
    BY <1>3 DEF Pick, ChoiceInv, UrlsInv
  <2>3. urls' \in Seq(Offered(title.listing))
    BY <2>1, ThoseStay DEF ChoiceInv, UrlsInv
  <2> QED
    BY <2>2, <2>3 DEF ChoiceInv, UrlsInv
<1>4. CASE MakePlan
  <2> DEFINE match == [i \in Idx |-> MatchUrl(i)]
             f0 == {i \in Idx : match[i] # "no"}
             u0 == {i \in Idx : match[i] = "upgrade"}
  <2>1. title' = title /\ urls' = urls /\ disk' = disk /\ phase' = "grab"
    BY <1>4 DEF MakePlan
  <2>2. UrlsInv'
    BY <2>1, SaidOfTheUrls DEF ChoiceInv, UrlsInv
  <2>3. toImport' \subseteq plan'.result.down
    <3>1. PICK r : toImport' = Grabs(r) /\ plan'.result = r
      BY <1>4 DEF MakePlan
    <3> QED
      BY <3>1 DEF Grabs, Public
  <2>4. ASSUME ~title.byHash, ~title.interactive
        PROVE  /\ NoneDropped(plan.flagged, plan.result.down)'
               /\ OneOfAFileset(plan.result.down)'
               /\ (plan.result.down = {} /\ ~plan.result.skipped /\ Blank \notin GroupNames => Owned)'
    <3>1. PICK f : f = {i \in Idx : MatchUrl(i) # "no"}
      OBVIOUS
    <3>2. PICK u : u = u0
      OBVIOUS
    <3>3. PICK r : r = Reduce(f, u)
      OBVIOUS
    <3>4. f0 = f /\ f \subseteq Idx
      BY <3>1
    <3>5. plan'.flagged = f /\ plan'.result = r
      BY <1>4, <2>4, <3>2, <3>3, <3>4 DEF MakePlan
    <3>6. Pruned
      BY <2>4 DEF ChoiceInv, UrlsInv
    <3>7. NoneDropped(f, r.down)
      BY <1>1, <2>4, <3>3, <3>4, <3>6, ReductionDropsNone
    <3>8. OneOfAFileset(r.down)
      BY <1>1, <2>4, <3>3, OneReleaseOfAFileset DEF OneOfAFileset
    <3>9. r.down = {} /\ ~r.skipped /\ Blank \notin GroupNames => Owned
      BY <1>1, <2>4, <3>1, <3>3, DoneIsOwned DEF Owned
    <3>10. PICK d : d = r.down
      OBVIOUS
    <3>11. NoneDropped(f, d)' /\ OneOfAFileset(d)' /\ GroupNames' = GroupNames
      BY <2>1, <3>7, <3>8, <3>10, SaidOfTheUrls
    <3>12. r.down = {} /\ ~r.skipped /\ Blank \notin GroupNames' => Owned'
      BY <2>1, <3>9, <3>11, SaidOfTheLibrary
    <3>13. NoneDropped(plan.flagged, plan.result.down)'
      BY <3>5, <3>10, <3>11 DEF NoneDropped
    <3>14. OneOfAFileset(plan.result.down)'
      BY <3>5, <3>10, <3>11 DEF OneOfAFileset
    <3> QED
      BY <3>5, <3>12, <3>13, <3>14
  <2> QED
    BY <2>1, <2>2, <2>3, <2>4 DEF ChoiceInv, PlanInv
<1>5. CASE (\E i \in toImport : Import(i)) \/ UNCHANGED choiceVars
  <2>1. /\ title' = title /\ urls' = urls /\ plan' = plan /\ phase' = phase
        /\ toImport' \subseteq toImport
        /\ disk' = disk \/ (phase = "grab" /\ toImport # {})
    BY <1>5 DEF Import, choiceVars
  <2>2. UrlsInv'
    BY <2>1, SaidOfTheUrls DEF ChoiceInv, UrlsInv
  <2>3. ASSUME phase = "grab" PROVE PlanInv'
    <3>1. PlanInv
      BY <2>3 DEF ChoiceInv
    <3>2. PICK f, d : f = plan.flagged /\ d = plan.result.down
      OBVIOUS
    <3>3. toImport' \subseteq plan'.result.down
      BY <2>1, <3>1 DEF PlanInv
    <3>4. ASSUME ~title.byHash, ~title.interactive
          PROVE  /\ NoneDropped(plan.flagged, plan.result.down)'
                 /\ OneOfAFileset(plan.result.down)'
                 /\ (plan.result.down = {} /\ ~plan.result.skipped /\ Blank \notin GroupNames => Owned)'
      <4>1. NoneDropped(f, d) /\ OneOfAFileset(d)
        BY <3>1, <3>2, <3>4 DEF PlanInv
      <4>2. NoneDropped(f, d)' /\ OneOfAFileset(d)' /\ GroupNames' = GroupNames
        BY <2>1, <4>1, SaidOfTheUrls
      <4>3. NoneDropped(plan.flagged, plan.result.down)'
        BY <2>1, <3>2, <4>2 DEF NoneDropped
      <4>4. OneOfAFileset(plan.result.down)'
        BY <2>1, <3>2, <4>2 DEF OneOfAFileset
      <4>5. ASSUME plan.result.down = {}, ~plan.result.skipped, Blank \notin GroupNames PROVE Owned'
        <5>1. Owned /\ disk' = disk
          BY <2>1, <3>1, <3>4, <4>5 DEF PlanInv
        <5> QED
          BY <2>1, <5>1, SaidOfTheLibrary
      <4> QED
        BY <2>1, <4>2, <4>3, <4>4, <4>5
    <3> QED
      BY <2>1, <3>3, <3>4 DEF PlanInv
  <2> QED
    BY <2>1, <2>2, <2>3 DEF ChoiceInv
<1>6. CASE Settle
  <2>1. title' = title /\ urls' = urls /\ phase' = "idle"
    BY <1>6 DEF Settle
  <2> QED
    BY <2>1, SaidOfTheUrls DEF ChoiceInv, UrlsInv
<1> QED
  BY <1>2, <1>3, <1>4, <1>5, <1>6 DEF ChoiceNext

\* So it holds.
LEMMA ChoiceInvariant == ChoiceSpec => []ChoiceInv
<1> QED
  BY ChoiceInvInit, ChoiceInvStep, PTL DEF ChoiceSpec

\* Reducing the flagged urls of a title to one release a fileset loses no episode, for
\* any listing: what a grabbable url was flagged for is carried by a url left flagged or by
\* its twin (reduce_overlapping_downloads and _rescue_dropped_coverage of planner.py).
THEOREM NoEpisodeIsDropped == ChoiceSpec => []NoEpisodeDropped
<1>1. ChoiceInv => NoEpisodeDropped
  BY DEF ChoiceInv, PlanInv, NoEpisodeDropped, NoneDropped, Matched, Planned
<1> QED
  BY <1>1, ChoiceInvariant, PTL

\* Groups of one fileset are never grabbed side by side for the same episodes, whatever was
\* rescued (reduce_overlapping_downloads of planner.py).
THEOREM OneReleasePerFileset == ChoiceSpec => []OnePerCoverage
<1>1. ChoiceInv => OnePerCoverage
  BY DEF ChoiceInv, PlanInv, OnePerCoverage, OneOfAFileset, Matched, Planned
<1> QED
  BY <1>1, ChoiceInvariant, PTL

\* A plan that grabs nothing and skips nothing, which caches the title as done, was right:
\* each episode a pick was placed on holds a file of a covering pick, and a movie one of
\* its picks (filter_by_release_group of planner.py).
THEOREM NothingLeftMeansOwned == ChoiceSpec => []DoneMeansOwned
<1>1. ChoiceInv => DoneMeansOwned
  BY DEF ChoiceInv, PlanInv, DoneMeansOwned, Owned, Matched, Planned
<1> QED
  BY <1>1, ChoiceInvariant, PTL

-----------------------------------------------------------------------------
(* Nothing is asked for twice: the episodes of what landed stay held.        *)

\* The pick a size names an untagged file of an episode by.
NameFor(e, z) ==
  LET claims == {i \in Idx : /\ urls[i].group # Blank
                             /\ IF urls[i].hand THEN z \in SizesOf(urls[i].files)
                                                ELSE <<e, z>> \in urls[i].placed}
  IN IF claims = {} THEN Blank
     ELSE urls[CHOOSE i \in claims : \A j \in claims : i <= j].group

\* What a file is to the picks: named by its size, listed by its group, placed by it.
NamedFile(e, f) == f # NoFile /\ f.group = Blank /\ f.size > 0 /\ NameFor(e, f.size) # Blank
ListedFile(f) == f # NoFile /\ \E j \in Of(f.group) : f.size \in SizesOf(urls[j].files)
PlacedFile(e, f) == f # NoFile /\ \E j \in Of(f.group) : <<e, f.size>> \in urls[j].placed

\* A file that i has no claim against: a pick's, and no file of i's put elsewhere.
Satisfies(i, e, f) ==
  \/ NamedFile(e, f)
  \/ /\ ListedFile(f)
     /\ f.group = urls[i].group /\ f.size \in SizesOf(urls[i].files) => PlacedFile(e, f)

\* Picks are matched by release, over the episodes Sonarr knows.
ByRelease == title.hasEps /\ ~title.byHash /\ ~title.interactive
Dict == BuildDict(title.sel, title.listing)

\* The urls of a plan are the dict of the title, the same every run.
DictInv == ByRelease => (landed # {} \/ phase \in {"plan", "grab"} => urls = Dict)

\* What landed left its url nothing to ask for.
LandedInv == ByRelease =>
  \A x \in landed : \A i \in Idx : urls[i].id = x[1] =>
    /\ ~urls[i].hand /\ urls[i].placed # {}
    /\ \A e \in Keys(i) : Satisfies(i, e, disk[e])

\* While a plan is imported: what it trusts is listed, and what is new was placed.
ImportInv == ByRelease /\ phase = "grab" =>
  /\ toImport \subseteq Grabs(plan.result) /\ toImport \subseteq Idx
  /\ \A e \in Eps : disk[e] = before[e] \/ PlacedFile(e, disk[e])
  /\ \A p \in plan.guards.owned : p[2] > 0 /\ NameFor(p[1], p[2]) # Blank
  /\ \A e \in Eps : before[e] # NoFile /\ before[e].group \in plan.guards.current \cup (GroupsOf(toImport) \ plan.guards.stale)
       => ListedFile(before[e])

-----------------------------------------------------------------------------
\* The urls are a listing's: one id names one release, whose files are its own.
Sourced ==
  /\ \A i \in Idx : /\ urls[i].placed \in SUBSET (Eps \X Sizes)
                    /\ \A p \in urls[i].placed : p[2] \in SizesOf(urls[i].files)
                    /\ urls[i].hand => urls[i].placed = {}
  /\ \A i, j \in Idx : urls[i].id = urls[j].id =>
       /\ urls[i].group = urls[j].group /\ urls[i].hand = urls[j].hand
       /\ urls[i].files = urls[j].files /\ urls[i].placed = urls[j].placed

LEMMA UrlsAreSourced == UrlsInv => Sourced
<1> SUFFICES ASSUME UrlsInv PROVE Sourced
  OBVIOUS
<1>1. /\ \A u, v \in In(title.listing) : u.id = v.id => u = v
      /\ \A u \in In(title.listing) : /\ {p[2] : p \in u.placed} \subseteq SizesOf(u.files)
                                      /\ u.hand => u.placed = {}
  <2>1. title \in Titles
    BY DEF UrlsInv
  <2>2. \A u, v \in In(title.listing) : u.id = v.id => u = v
    BY <2>1 DEF Titles
  <2>3. \A u \in In(title.listing) : {p[2] : p \in u.placed} \subseteq SizesOf(u.files)
    BY <2>1 DEF Titles
  <2>4. \A u \in In(title.listing) : u.hand => u.placed = {}
    BY <2>1 DEF Titles
  <2> QED
    BY <2>2, <2>3, <2>4
<1>2. \A i \in Idx : urls[i] \in Offered(title.listing)
  BY DEF UrlsInv, Idx
<1>3. \A i \in Idx : \E t \in In(title.listing) :
        /\ urls[i].id = t.id /\ urls[i].group = t.group /\ urls[i].hand = t.hand
        /\ urls[i].files = t.files /\ urls[i].placed = t.placed /\ t.placed \in SUBSET (Eps \X Sizes)
  <2> TAKE i \in Idx
  <2>1. urls[i] \in Listings
    BY <1>2 DEF Offered
  <2>2. PICK t \in In(title.listing) : urls[i] = t \/ urls[i] = [t EXCEPT !.fallback = TRUE]
    BY <1>2 DEF Offered
  <2>3. t \in Listings
    <3>1. title.listing \in Seq({u \in Listings : ~u.fallback})
      BY DEF UrlsInv, Titles
    <3> QED
      BY <3>1 DEF In
  <2> QED
    BY <2>2, <2>3 DEF Listings
<1>4. ASSUME NEW i \in Idx
      PROVE  /\ urls[i].placed \in SUBSET (Eps \X Sizes)
             /\ \A p \in urls[i].placed : p[2] \in SizesOf(urls[i].files)
             /\ urls[i].hand => urls[i].placed = {}
  BY <1>1, <1>3
<1>5. ASSUME NEW i \in Idx, NEW j \in Idx, urls[i].id = urls[j].id
      PROVE  /\ urls[i].group = urls[j].group /\ urls[i].hand = urls[j].hand
             /\ urls[i].files = urls[j].files /\ urls[i].placed = urls[j].placed
  <2>1. PICK t \in In(title.listing) :
          /\ urls[i].id = t.id /\ urls[i].group = t.group /\ urls[i].hand = t.hand
          /\ urls[i].files = t.files /\ urls[i].placed = t.placed
    BY <1>3
  <2>2. PICK u \in In(title.listing) :
          /\ urls[j].id = u.id /\ urls[j].group = u.group /\ urls[j].hand = u.hand
          /\ urls[j].files = u.files /\ urls[j].placed = u.placed
    BY <1>3
  <2>3. t = u
    BY <1>1, <1>5, <2>1, <2>2
  <2> QED
    BY <2>1, <2>2, <2>3
<1> QED
  BY <1>4, <1>5 DEF Sourced

\* A file by its name and its size is held by size.
LEMMA NamedIsHeld ==
  ASSUME title.hasEps, NEW e \in Eps
  PROVE  /\ HeldBySize(e) <=> NamedFile(e, disk[e])
         /\ NamedBySize(e) = NameFor(e, disk[e].size)
<1>1. NamedBySize(e) = NameFor(e, disk[e].size)
  BY DEF NamedBySize, NameFor
<1> QED
  BY <1>1 DEF HeldBySize, NamedFile, Untagged, OnDisk

\* The name is that of a pick that claims the file.
LEMMA NamedByAClaim ==
  ASSUME UrlsListed, NEW e, NEW z, NameFor(e, z) # Blank
  PROVE  \E i \in Idx : /\ urls[i].group = NameFor(e, z) /\ urls[i].group # Blank
                        /\ urls[i].hand \/ <<e, z>> \in urls[i].placed
<1> DEFINE claims == {i \in Idx : /\ urls[i].group # Blank
                                  /\ IF urls[i].hand THEN z \in SizesOf(urls[i].files)
                                                     ELSE <<e, z>> \in urls[i].placed}
<1>1. claims # {} /\ NameFor(e, z) = urls[CHOOSE i \in claims : \A j \in claims : i <= j].group
  BY DEF NameFor
<1>2. \E i \in claims : \A j \in claims : i <= j
  <2>1. claims \subseteq Nat
    BY IdxRange
  <2> HIDE DEF claims
  <2> QED
    BY <1>1, <2>1, LeastOf
<1>3. PICK c \in claims : NameFor(e, z) = urls[c].group
  <2> HIDE DEF claims
  <2> QED
    BY <1>1, <1>2
<1> QED
  BY <1>3

\* What was placed is listed, and keeps its episode from any url.
LEMMA PlacedSatisfies ==
  ASSUME Sourced, NEW e, NEW f, PlacedFile(e, f), NEW i
  PROVE  ListedFile(f) /\ Satisfies(i, e, f)
<1>1. PICK j \in Of(f.group) : <<e, f.size>> \in urls[j].placed
  BY DEF PlacedFile
<1>2. j \in Idx
  BY <1>1 DEF Of
<1>3. f.size \in SizesOf(urls[j].files)
  BY <1>1, <1>2 DEF Sourced
<1>4. ListedFile(f)
  BY <1>1, <1>3 DEF PlacedFile, ListedFile
<1> QED
  BY <1>4 DEF Satisfies

-----------------------------------------------------------------------------
\* What an import leaves alone was kept by a file of a pick.
LEMMA ProtectedIsKept ==
  ASSUME Sourced, ByRelease, phase = "grab", ImportInv, NEW i \in toImport,
         NEW e \in Eps, NEW z, <<e, z>> \in urls[i].placed, Protected(i, e, z)
  PROVE  Satisfies(i, e, disk[e])
<1> DEFINE f == disk[e]
           own == {j \in toImport : urls[j].group = urls[i].group}
           sizes == UNION {SizesOf(urls[j].files) : j \in own}
           trusted == plan.guards.current \cup (GroupsOf(toImport) \ plan.guards.stale)
<1>1. /\ f # NoFile /\ (f.size \in SizesOf(urls[i].files) => f.size = z)
      /\ IF f.group = Blank THEN <<e, f.size>> \in plan.guards.owned
         ELSE IF f.group = urls[i].group THEN sizes = {} \/ f.size \in sizes
         ELSE f.group \in trusted
  BY DEF Protected
<1>2. toImport \subseteq Idx /\ i \in Idx
  BY DEF ImportInv
<1>3. CASE f.group = Blank
  <2>1. f.size > 0 /\ NameFor(e, f.size) # Blank
    BY <1>1, <1>3 DEF ImportInv
  <2> QED
    BY <1>1, <1>3, <2>1 DEF Satisfies, NamedFile
<1>4. CASE f.group # Blank /\ f.group = urls[i].group
  <2>1. z \in SizesOf(urls[i].files)
    BY <1>2 DEF Sourced
  <2>2. f.size \in sizes
    BY <1>1, <1>4, <2>1
  <2>3. PICK j \in own : f.size \in SizesOf(urls[j].files)
    BY <2>2
  <2>4. j \in Of(f.group)
    BY <1>2, <1>4, <2>3 DEF Of
  <2>5. ListedFile(f)
    BY <1>1, <2>3, <2>4 DEF ListedFile
  <2>6. f.size \in SizesOf(urls[i].files) => PlacedFile(e, f)
    BY <1>1, <1>2, <1>4 DEF PlacedFile, Of
  <2> QED
    BY <2>5, <2>6 DEF Satisfies
<1>5. CASE f.group # Blank /\ f.group # urls[i].group
  <2>1. f.group \in trusted
    BY <1>1, <1>5
  <2>2. CASE f = before[e]
    BY <1>1, <1>5, <2>1, <2>2 DEF ImportInv, Satisfies
  <2>3. CASE f # before[e]
    <3>1. PlacedFile(e, f)
      BY <2>3 DEF ImportInv
    <3> QED
      BY <3>1, PlacedSatisfies
  <2> QED
    BY <2>2, <2>3
<1> QED
  BY <1>3, <1>4, <1>5

\* An import puts a file of the url on an episode, or was kept from it.
LEMMA LandsOrIsKept ==
  ASSUME Sourced, title.hasEps, NEW i \in Idx, Import(i), NEW e \in Eps
  PROVE  \/ disk'[e] = disk[e] /\ \A z : <<e, z>> \in urls[i].placed => Protected(i, e, z)
         \/ PlacedFile(e, disk'[e])
<1> DEFINE lands == [d \in Eps |-> {p[2] : p \in {p \in urls[i].placed : p[1] = d /\ ~Protected(i, d, p[2])}}]
           file(d) == [group |-> urls[i].group, size |-> CHOOSE z \in lands[d] : \A y \in lands[d] : y <= z]
<1>1. disk' = [d \in Eps |-> IF lands[d] # {} THEN file(d) ELSE disk[d]]
  BY DEF Import
<1>2. disk'[e] = IF lands[e] # {} THEN file(e) ELSE disk[e]
  BY <1>1
<1>3. lands[e] = {p[2] : p \in {p \in urls[i].placed : p[1] = e /\ ~Protected(i, e, p[2])}}
  OBVIOUS
<1>4. urls[i].placed \subseteq Eps \X Sizes
  BY DEF Sourced
<1>5. \A z \in lands[e] : z \in Sizes /\ <<e, z>> \in urls[i].placed
  BY <1>3, <1>4
<1>6. CASE lands[e] = {}
  <2>1. \A z : <<e, z>> \in urls[i].placed => Protected(i, e, z)
    BY <1>3, <1>6
  <2> HIDE DEF lands, file
  <2> QED
    BY <1>2, <1>6, <2>1
<1>7. CASE lands[e] # {}
  <2>1. PICK L : L = lands[e]
    OBVIOUS
  <2>2. L \subseteq Nat /\ IsFiniteSet(L) /\ L # {}
    <3>1. L \subseteq Sizes /\ L # {}
      BY <1>5, <1>7, <2>1
    <3> QED
      BY <3>1, SeadexFilterAssumption, FS_Subset
  <2>3. \E z \in L : \A y \in L : y <= z
    BY <2>2, HasMax
  <2>4. PICK z : z = CHOOSE x \in L : \A y \in L : y <= x
    OBVIOUS
  <2>5. z \in L
    BY <2>3, <2>4
  <2>6. disk'[e] = [group |-> urls[i].group, size |-> z]
    BY <1>2, <1>7, <2>1, <2>4
  <2>7. z \in Nat /\ <<e, z>> \in urls[i].placed
    BY <1>5, <2>1, <2>2, <2>5
  <2> QED
    BY <2>6, <2>7 DEF PlacedFile, NoFile, Of
<1> QED
  BY <1>6, <1>7

\* Of what an import tells of the urls.
LEMMA ImportLands ==
  ASSUME Sourced, title.hasEps, NEW i \in Idx, Import(i), NEW x \in landed'
  PROVE  x \in landed \/ (x[1] = urls[i].id /\ urls[i].placed # {})
<1> DEFINE lands == [d \in Eps |-> {p[2] : p \in {p \in urls[i].placed : p[1] = d /\ ~Protected(i, d, p[2])}}]
<1>1. landed' = landed \cup ({urls[i].id} \X {e \in Eps : lands[e] # {}})
  BY DEF Import
<1>2. ASSUME NEW e \in Eps, lands[e] # {} PROVE urls[i].placed # {}
  BY <1>2
<1> HIDE DEF lands
<1> QED
  BY <1>1, <1>2

-----------------------------------------------------------------------------
\* A kept episode is held by a pick that covers it, and by the url's own group only at the
\* size the url puts there.
LEMMA KeptIsHeld ==
  ASSUME UrlsListed, Sourced, ByRelease, Blank \notin GroupNames, ~Mixed, ~Rivals, ~Strayed,
         NEW i \in Idx, NEW e \in Keys(i), e \in Eps, Satisfies(i, e, disk[e])
  PROVE  /\ Holder(e) \in Blanket \cup Covering(e)
         /\ Holder(e) \in Blanket => HeldBySize(e)
         /\ Holder(e) = urls[i].group => \A z : <<e, z>> \in urls[i].placed => disk[e].size = z
<1> DEFINE f == disk[e]
<1>1. \A j, h \in Idx : \A z, y : urls[j].group = urls[h].group /\ <<e, z>> \in urls[j].placed /\ <<e, y>> \in urls[h].placed => z = y
  BY DEF Rivals
<1>2. \A j \in Idx : urls[j].group = urls[i].group => urls[j].placed # {}
  BY DEF Mixed, Keys
<1>3. title.hasEps
  BY DEF ByRelease
<1>4. CASE NamedFile(e, f)
  <2>1. HeldBySize(e) /\ NamedBySize(e) = NameFor(e, f.size) /\ e \in OnDisk /\ NameFor(e, f.size) # Blank
    BY <1>3, <1>4, NamedIsHeld DEF NamedFile, OnDisk
  <2>2. Holder(e) = NameFor(e, f.size)
    BY <2>1 DEF Holder
  <2>3. PICK c \in Idx : /\ urls[c].group = NameFor(e, f.size) /\ urls[c].group # Blank
                         /\ urls[c].hand \/ <<e, f.size>> \in urls[c].placed
    BY <2>1, NamedByAClaim
  <2>4. urls[c].placed = {} \/ <<e, f.size>> \in urls[c].placed
    BY <2>3 DEF Sourced
  <2>5. Holder(e) \in Blanket \cup Covering(e)
    BY <2>2, <2>3, <2>4 DEF Blanket, Covering, GroupsOf, Keys
  <2>6. Holder(e) = urls[i].group => <<e, f.size>> \in urls[c].placed
    BY <1>2, <2>2, <2>3, <2>4
  <2> QED
    BY <1>1, <2>1, <2>2, <2>3, <2>5, <2>6
<1>5. CASE ListedFile(f) /\ (f.group = urls[i].group /\ f.size \in SizesOf(urls[i].files) => PlacedFile(e, f))
  <2>1. PICK j \in Of(f.group) : f.size \in SizesOf(urls[j].files)
    BY <1>5 DEF ListedFile
  <2>2. j \in Idx /\ urls[j].group = f.group /\ f.group # Blank /\ e \in OnDisk
    BY <1>5, <2>1 DEF Of, GroupNames, ListedFile, OnDisk
  <2>3. ~HeldBySize(e) /\ Holder(e) = f.group
    BY <2>2 DEF HeldBySize, Untagged, Holder
  <2>4. e \in GroupKeys(f.group)
    BY <2>1, <2>2 DEF Strayed
  <2>5. PICK h \in Of(f.group) : e \in Keys(h)
    BY <2>4 DEF GroupKeys
  <2>6. h \in Idx /\ urls[h].group = f.group /\ urls[h].placed # {}
    BY <2>5 DEF Of, Keys
  <2>7. Holder(e) \in Covering(e)
    BY <2>2, <2>3, <2>5, <2>6 DEF Covering, GroupsOf
  <2>8. Holder(e) \notin Blanket
    BY <2>3, <2>6 DEF Blanket, GroupsOf, Mixed
  <2>9. ASSUME f.group = urls[i].group, NEW z, <<e, z>> \in urls[i].placed PROVE f.size = z
    <3>1. i \in Of(f.group)
      BY <2>9 DEF Of
    <3>2. f.size \in SizesOf(urls[i].files)
      BY <2>1, <2>2, <3>1, <2>9 DEF Strayed
    <3>3. PICK k \in Of(f.group) : <<e, f.size>> \in urls[k].placed
      BY <1>5, <2>9, <3>2 DEF PlacedFile
    <3> QED
      BY <1>1, <2>9, <3>3 DEF Of
  <2> QED
    BY <2>3, <2>7, <2>8, <2>9
<1> QED
  BY <1>4, <1>5 DEF Satisfies

\* A url whose episodes are kept is not asked for.
LEMMA KeptIsNotAsked ==
  ASSUME UrlsListed, Sourced, ByRelease, Blank \notin GroupNames, ~Mixed, ~Rivals, ~Strayed,
         NEW i \in Idx, ~urls[i].hand, urls[i].placed # {}, \A e \in Keys(i) : Satisfies(i, e, disk[e])
  PROVE  MatchUrl(i) = "no"
<1> DEFINE g == urls[i].group
           ours(e) == Holder(e) = g \/ Holder(e) \in Blanket
           matched == {p \in urls[i].placed : ours(p[1]) /\ ~HeldBySize(p[1])}
           foreign(e) == ~ours(e) /\ Holder(e) \notin Covering(e)
<1>1. /\ urls[i].placed \in SUBSET (Eps \X Sizes)
      /\ \A p \in urls[i].placed : p[1] \in Keys(i) /\ p = <<p[1], p[2]>>
      /\ Keys(i) \subseteq Eps
  BY DEF Sourced, Keys
<1>2. \A e \in Keys(i) :
        /\ Holder(e) \in Blanket \cup Covering(e)
        /\ Holder(e) \in Blanket => HeldBySize(e)
        /\ Holder(e) = g => \A z : <<e, z>> \in urls[i].placed => disk[e].size = z
  BY <1>1, KeptIsHeld
<1>3. ~(matched # {} /\ \A p \in matched : disk[p[1]].size # p[2])
  <2>1. \A p \in matched : disk[p[1]].size = p[2]
    BY <1>1, <1>2
  <2> QED
    BY <2>1
<1>4. ~Doubled(i)
  <2> DEFINE once == {p \in urls[i].placed : \A q \in urls[i].placed : q[1] = p[1] => q = p}
             held(z) == {p \in once : g # Blank /\ Holder(p[1]) = g /\ disk[p[1]].size = z}
             listed(z) == {p \in once : p[2] = z}
  <2>1. ASSUME NEW z PROVE ~(Cardinality(listed(z)) < Cardinality(held(z)))
    <3>1. held(z) \subseteq listed(z)
      BY <1>1, <1>2
    <3>2. IsFiniteSet(listed(z))
      <4>1. IsFiniteSet(Eps \X Sizes)
        BY SeadexFilterAssumption, FS_Product
      <4>2. listed(z) \subseteq Eps \X Sizes
        BY <1>1
      <4> HIDE DEF listed
      <4> QED
        BY <4>1, <4>2, FS_Subset
    <3> HIDE DEF held, listed
    <3>3. /\ IsFiniteSet(held(z)) /\ Cardinality(held(z)) <= Cardinality(listed(z))
      BY <3>1, <3>2, FS_Subset
    <3>4. Cardinality(held(z)) \in Nat /\ Cardinality(listed(z)) \in Nat
      BY <3>2, <3>3, FS_CardinalityType
    <3> QED
      BY <3>3, <3>4
  <2>2. Doubled(i) = \E z \in SizesOf(urls[i].files) : Cardinality(listed(z)) < Cardinality(held(z))
    BY DEF Doubled
  <2> HIDE DEF held, listed, once
  <2> QED
    BY <2>1, <2>2
<1>5. ~\E e \in Keys(i) : foreign(e)
  BY <1>2
<1>6. MatchEpisodes(i) = IF (matched # {} /\ \A p \in matched : disk[p[1]].size # p[2]) \/ Doubled(i) THEN "upgrade"
                         ELSE IF \E e \in Keys(i) : foreign(e) THEN "grab" ELSE "no"
  BY DEF MatchEpisodes
<1>7. MatchEpisodes(i) = "no"
  <2> HIDE DEF matched, foreign
  <2> QED
    BY <1>3, <1>4, <1>5, <1>6
<1> QED
  BY <1>7 DEF MatchUrl

-----------------------------------------------------------------------------
\* What nothing of a listing places is only grabbed when it was flagged: its set is its
\* group alone, where there is nothing to promote.
LEMMA AloneIsFlagged ==
  ASSUME UrlsListed, ByRelease, NEW down, NEW up, NEW i \in Reduce(down, up).down,
         GroupKeys(urls[i].group) = {}
  PROVE  i \in down
<1>1. i \in Flags(down, up)
  BY ReduceIs DEF ByRelease
<1>2. PICK set \in SameFileSets : i \in Rescued(set, down, up)
  BY <1>1 DEF Flags
<1>3. set = {urls[i].group}
  <2>1. i \in All(set)
    BY <1>2, RescuedDoes
  <2>2. set = SameFiles(urls[i].group)
    BY <2>1, InAll
  <2> QED
    BY <2>2 DEF SameFiles, ByRelease
<1> DEFINE kept == Part(set, down, up).down
           dropped == Dropped(set, down, up)
<1>4. kept \subseteq down
  <2> DEFINE flagged == {g \in set : Of(g) \cap down # {}}
             public == {g \in flagged : Public(Of(g)) # {}}
             addable == {g \in public : Of(g) \cap down \subseteq Public(Of(g))}
             isFallback(g) == \E k \in Of(g) : urls[k].fallback
             candidates == {g \in set \ flagged : Public(Of(g)) # {} /\ ~isFallback(g)}
             whole == {g \in candidates : Public(Of(g)) = Of(g)}
             rides == \E g \in set : isFallback(g)
             upgrade == \E g \in set : Of(g) \cap up # {}
             p == Part(set, down, up)
  <2>1. p = IF flagged = {} THEN Left({})
            ELSE IF upgrade /\ addable = {} /\ candidates # {}
              THEN Left(Public(Of(FirstOf(IF whole # {} THEN whole ELSE candidates))))
            ELSE IF public = {}
              THEN [down |-> {}, skipped |-> upgrade \/ ~rides, stale |-> upgrade /\ rides,
                    covered |-> rides /\ ~upgrade]
            ELSE IF addable # {} THEN Left(Of(FirstOf(addable)) \cap down)
            ELSE [Left(Of(FirstOf(public)) \cap down) EXCEPT
                    !.stale = upgrade /\ \E g \in set \ flagged : isFallback(g)]
    BY DEF Part, ReduceCoverage
  <2>2. flagged # {} => candidates = {}
    BY <1>3
  <2> HIDE DEF flagged, public, addable, isFallback, candidates, whole, rides, upgrade, p
  <2>3. p.down \subseteq down
    BY <2>1, <2>2 DEF Left
  <2> QED
    BY <2>3 DEF p
<1>5. dropped \subseteq down /\ dropped \subseteq Idx
  BY DEF Dropped, All, Of
<1>6. Rescued(set, down, up) = Rescue(kept, dropped)
  BY DEF Rescued
<1>7. Rescue(kept, dropped) \subseteq kept \cup Public(dropped)
  <2> HIDE DEF kept, dropped
  <2> QED
    BY <1>5, IdxRange, RescueDoes
<1> HIDE DEF kept, dropped
<1> QED
  BY <1>2, <1>4, <1>5, <1>6, <1>7 DEF Public

\* What a reduction leaves is of the urls.
LEMMA ReducedAreListed ==
  ASSUME UrlsListed, ByRelease, NEW down, NEW up
  PROVE  Reduce(down, up).down \subseteq Idx
<1>1. ~title.interactive
  BY DEF ByRelease
<1>2. Reduce(down, up).down = {i \in Flags(down, up) : ~Duplicate(i, Flags(down, up))}
  BY <1>1, ReduceIs
<1>3. Flags(down, up) \subseteq Idx
  BY FlagsInIdx
<1> QED
  BY <1>2, <1>3

\* A file of a group the plan trusts is one the group lists.
LEMMA TrustedIsListed ==
  ASSUME UrlsListed, Sourced, ByRelease, NEW up, NEW flagged, flagged = {i \in Idx : MatchUrl(i) # "no"},
         NEW r, r = Reduce(flagged, up), NEW e \in Eps, disk[e] # NoFile,
         disk[e].group \in Guards.current \cup (GroupsOf(Grabs(r)) \ Guards.stale)
  PROVE  ListedFile(disk[e])
<1> DEFINE g == disk[e].group
<1>1. r.down \subseteq Idx
  BY ReducedAreListed
<1>2. g \in GroupNames /\ g # Blank
  BY <1>1 DEF Guards, Current, GroupsOf, Grabs, Public, GroupNames
<1>3. disk[e].size \in HeldBy(g)
  <2>1. e \in OnDisk /\ e \notin Untagged
    BY <1>2 DEF OnDisk, Untagged
  <2>2. Holder(e) = g
    BY <2>1 DEF Holder, HeldBySize
  <2> QED
    BY <1>2, <2>1, <2>2 DEF HeldBy, ByRelease
<1>4. CASE Listed(g) # {}
  <2>1. HeldBy(g) \subseteq Listed(g)
    BY <1>2, <1>3, <1>4 DEF Guards, Current, Stale
  <2>2. PICK j \in Of(g) : disk[e].size \in SizesOf(urls[j].files) \cup {p[2] : p \in urls[j].placed}
    BY <1>3, <2>1 DEF Listed
  <2>3. disk[e].size \in SizesOf(urls[j].files)
    BY <2>2 DEF Sourced, Of
  <2> QED
    BY <2>2, <2>3 DEF ListedFile
<1>5. CASE Listed(g) = {}
  <2>1. g \in GroupsOf(Grabs(r))
    BY <1>3, <1>5 DEF Guards, Current
  <2>2. PICK i \in Grabs(r) : urls[i].group = g
    BY <2>1 DEF GroupsOf
  <2>3. i \in r.down /\ i \in Idx /\ ~urls[i].hand
    BY <1>1, <2>2 DEF Grabs, Public
  <2>4. \A j \in Of(g) : urls[j].placed = {} /\ SizesOf(urls[j].files) = {}
    BY <1>5 DEF Listed
  <2>5. GroupKeys(g) = {} /\ i \in Of(g)
    BY <2>2, <2>3, <2>4 DEF GroupKeys, Keys, Of
  <2>6. i \in flagged
    BY <2>2, <2>3, <2>5, AloneIsFlagged
  <2>7. MatchUrl(i) # "no"
    BY <2>6
  <2>8. MatchUrl(i) = MatchNoEpisodes(i)
    BY <2>3, <2>4, <2>5 DEF MatchUrl
  <2>9. Tagged(urls[i].group) # {}
    BY <1>2, <2>2 DEF Tagged, OnDisk
  <2>10. MatchNoEpisodes(i) = "no"
    BY <2>4, <2>5, <2>9 DEF MatchNoEpisodes
  <2> QED
    BY <2>7, <2>8, <2>10
<1> QED
  BY <1>4, <1>5

\* What is said of a file stays true while the urls stay.
LEMMA SaidOfFiles ==
  ASSUME title' = title, urls' = urls
  PROVE  /\ ByRelease' = ByRelease /\ Dict' = Dict /\ Idx' = Idx /\ Sourced' = Sourced
         /\ \A e, z : NameFor(e, z)' = NameFor(e, z)
         /\ \A f : ListedFile(f)' = ListedFile(f)
         /\ \A e, f : PlacedFile(e, f)' = PlacedFile(e, f)
         /\ \A i, e, f : Satisfies(i, e, f)' = Satisfies(i, e, f)
         /\ \A i : Keys(i)' = Keys(i)
<1>1. ByRelease' = ByRelease /\ Dict' = Dict /\ Idx' = Idx
  BY DEF ByRelease, Dict, Idx
<1>2. \A g : Of(g)' = Of(g)
  BY <1>1 DEF Of
<1>3. \A e, z : NameFor(e, z)' = NameFor(e, z)
  BY <1>1 DEF NameFor
<1>4. \A e, f : NamedFile(e, f)' = NamedFile(e, f)
  BY <1>3 DEF NamedFile
<1>5. \A f : ListedFile(f)' = ListedFile(f)
  BY <1>2 DEF ListedFile
<1>6. \A e, f : PlacedFile(e, f)' = PlacedFile(e, f)
  BY <1>2 DEF PlacedFile
<1>7. \A i, e, f : Satisfies(i, e, f)' = Satisfies(i, e, f)
  BY <1>4, <1>5, <1>6 DEF Satisfies
<1>8. Sourced' = Sourced
  BY <1>1 DEF Sourced
<1>9. \A i : Keys(i)' = Keys(i)
  BY DEF Keys
<1> QED
  BY <1>1, <1>3, <1>5, <1>6, <1>7, <1>8, <1>9

\* So does what landed while the library stays, and what is being imported.
LEMMA LandedStays ==
  ASSUME title' = title, urls' = urls, disk' = disk, landed' = landed, LandedInv
  PROVE  LandedInv'
<1>1. \A i, e : Satisfies(i, e, disk[e])' = Satisfies(i, e, disk[e])
  BY DEF Satisfies, NamedFile, NameFor, ListedFile, PlacedFile, Of, Idx
<1>2. ByRelease' = ByRelease /\ Idx' = Idx /\ \A i : Keys(i)' = Keys(i)
  BY SaidOfFiles
<1> QED
  BY <1>1, <1>2 DEF LandedInv

\* A step that changes nothing leaves what is being imported as it was.
LEMMA ImportStays ==
  ASSUME UNCHANGED choiceVars, ImportInv
  PROVE  ImportInv'
<1>1. /\ title' = title /\ disk' = disk /\ urls' = urls /\ plan' = plan /\ toImport' = toImport
      /\ phase' = phase /\ before' = before
  BY DEF choiceVars
<1>2. ByRelease' = ByRelease /\ Idx' = Idx /\ \A e, z : NameFor(e, z)' = NameFor(e, z)
  BY <1>1, SaidOfFiles
<1>3. /\ \A e : PlacedFile(e, disk[e])' = PlacedFile(e, disk[e])
      /\ \A e : ListedFile(before[e])' = ListedFile(before[e])
  BY <1>1 DEF PlacedFile, ListedFile, Of, Idx
<1>4. Grabs(plan.result)' = Grabs(plan.result) /\ GroupsOf(toImport)' = GroupsOf(toImport)
  BY <1>1 DEF Grabs, Public, GroupsOf
<1> QED
  BY <1>1, <1>2, <1>3, <1>4 DEF ImportInv

-----------------------------------------------------------------------------
\* The inductive invariant: what the property needs of the runs before the plan.
AskInv == DictInv /\ LandedInv /\ ImportInv /\ NeverAskedTwice

\* Nothing landed before the first run.
LEMMA AskInvInit == ChoiceInit => AskInv
  BY DEF ChoiceInit, AskInv, DictInv, LandedInv, ImportInv, NeverAskedTwice, Matched, Planned, ByRelease

\* Every run builds the same dict, so what landed is of the urls still.
LEMMA AskInvBuild ==
  ASSUME ChoiceInv, AskInv, Build
  PROVE  AskInv'
<1>1. /\ title' = title /\ disk' = disk /\ landed' = landed
      /\ urls' = Dict
      /\ ByRelease => phase' = "plan"
      /\ phase' # "grab"
  BY DEF Build, Dict, ByRelease
<1>2. ByRelease' = ByRelease /\ Dict' = Dict
  BY <1>1 DEF ByRelease, Dict
<1>3. DictInv'
  BY <1>1, <1>2 DEF DictInv
<1>4. LandedInv'
  <2>1. CASE landed = {}
    BY <1>1, <2>1 DEF LandedInv
  <2>2. CASE landed # {} /\ ByRelease
    <3>1. urls' = urls
      BY <1>1, <2>2 DEF AskInv, DictInv
    <3> QED
      BY <1>1, <3>1, LandedStays DEF AskInv
  <2>3. CASE ~ByRelease
    BY <1>2, <2>3 DEF LandedInv
  <2> QED
    BY <2>1, <2>2, <2>3
<1>5. ImportInv' /\ NeverAskedTwice'
  BY <1>1 DEF ImportInv, NeverAskedTwice, Matched, Planned
<1> QED
  BY <1>3, <1>4, <1>5 DEF AskInv

\* A plan asks for nothing that landed: its episodes are kept, and the match sees it.
LEMMA AskInvPlan ==
  ASSUME ChoiceInv, AskInv, MakePlan
  PROVE  AskInv'
<1>1. UrlsListed /\ Sourced
  BY UrlsAsListed, UrlsAreSourced DEF ChoiceInv
<1>2. UNCHANGED <<title, disk, urls, landed>> /\ before' = disk /\ phase = "plan" /\ phase' = "grab"
  BY DEF MakePlan
<1>3. /\ ByRelease' = ByRelease /\ Dict' = Dict /\ Idx' = Idx
      /\ \A e, z : NameFor(e, z)' = NameFor(e, z)
      /\ \A f : ListedFile(f)' = ListedFile(f)
      /\ \A i, e, f : Satisfies(i, e, f)' = Satisfies(i, e, f)
      /\ \A i : Keys(i)' = Keys(i)
  BY <1>2, SaidOfFiles
<1>4. DictInv' /\ LandedInv'
  <2>1. DictInv'
    BY <1>2, <1>3 DEF AskInv, DictInv
  <2>2. LandedInv'
    BY <1>2, LandedStays DEF AskInv
  <2> QED
    BY <2>1, <2>2
<1>5. ASSUME ByRelease
      PROVE  \E up : LET flagged == {i \in Idx : MatchUrl(i) # "no"} IN
               /\ plan'.flagged = flagged /\ plan'.result = Reduce(flagged, up)
               /\ plan'.guards = Guards /\ toImport' = Grabs(Reduce(flagged, up))
  <2> DEFINE match == [i \in Idx |-> MatchUrl(i)]
             up == {i \in Idx : match[i] = "upgrade"}
             flagged == {i \in Idx : match[i] # "no"}
  <2>1. /\ plan' = [flagged |-> flagged, result |-> Reduce(flagged, up), guards |-> Guards]
        /\ toImport' = Grabs(Reduce(flagged, up))
    BY <1>5 DEF MakePlan, ByRelease
  <2>2. flagged = {i \in Idx : MatchUrl(i) # "no"}
    OBVIOUS
  <2> HIDE DEF up, flagged
  <2> QED
    BY <2>1, <2>2
<1>6. ImportInv'
  <2> SUFFICES ASSUME ByRelease PROVE ImportInv'
    BY <1>3 DEF ImportInv
  <2> DEFINE flagged == {i \in Idx : MatchUrl(i) # "no"}
  <2>1. PICK up : /\ plan'.flagged = flagged /\ plan'.result = Reduce(flagged, up)
                  /\ plan'.guards = Guards /\ toImport' = Grabs(Reduce(flagged, up))
    BY <1>5
  <2> DEFINE r == Reduce(flagged, up)
  <2>2. r.down \subseteq Idx
    BY <1>1, ReducedAreListed
  <2>3. Grabs(plan.result)' = Grabs(r)
    BY <1>2, <2>1 DEF Grabs, Public
  <2>4. GroupsOf(toImport)' = GroupsOf(Grabs(r))
    BY <1>2, <2>1 DEF GroupsOf
  <2>5. toImport' \subseteq Grabs(plan.result)' /\ toImport' \subseteq Idx'
    BY <1>3, <2>1, <2>2, <2>3 DEF Grabs, Public
  <2>6. ASSUME NEW p \in plan'.guards.owned
        PROVE  p[2] > 0 /\ NameFor(p[1], p[2])' # Blank
    <3>1. PICK e \in Eps : HeldBySize(e) /\ p = <<e, disk[e].size>>
      BY <2>1 DEF Guards
    <3>2. NamedFile(e, disk[e])
      BY <3>1, NamedIsHeld DEF ByRelease
    <3> QED
      BY <1>3, <3>1, <3>2 DEF NamedFile
  <2>7. ASSUME NEW e \in Eps, disk[e] # NoFile,
               disk[e].group \in plan'.guards.current \cup (GroupsOf(toImport)' \ plan'.guards.stale)
        PROVE  ListedFile(disk[e])
    BY <1>1, <2>1, <2>4, <2>7, TrustedIsListed
  <2> HIDE DEF flagged, r
  <2>8. \A e \in Eps : disk'[e] = before'[e]
    BY <1>2
  <2>9. \A e \in Eps : ListedFile(before[e])' = ListedFile(disk[e])
    BY <1>2 DEF ListedFile, Of, Idx
  <2> QED
    BY <2>5, <2>6, <2>7, <2>8, <2>9, <1>2 DEF ImportInv
<1>7. NeverAskedTwice'
  <2> SUFFICES ASSUME ByRelease, Blank \notin GroupNames, ~Mixed, ~Rivals, ~Strayed,
                      NEW i \in plan'.flagged, NEW e \in Eps, <<urls[i].id, e>> \in landed
               PROVE  FALSE
    <3>1. Mixed' = Mixed /\ Rivals' = Rivals /\ Strayed' = Strayed /\ GroupNames' = GroupNames
      BY <1>2 DEF Mixed, Rivals, Strayed, GroupNames, Idx, Of, GroupKeys, Keys, OnDisk
    <3> QED
      BY <1>2, <1>3, <3>1 DEF NeverAskedTwice, Matched, ByRelease, Public
  <2>1. i \in Idx /\ MatchUrl(i) # "no"
    BY <1>5
  <2>2. ~urls[i].hand /\ urls[i].placed # {} /\ \A d \in Keys(i) : Satisfies(i, d, disk[d])
    BY <2>1 DEF AskInv, LandedInv
  <2> QED
    BY <1>1, <2>1, <2>2, KeptIsNotAsked
<1> QED
  BY <1>4, <1>6, <1>7 DEF AskInv

\* An import keeps what landed: it overwrites only with a pick's file.
LEMMA AskInvImport ==
  ASSUME ChoiceInv, AskInv, NEW i \in toImport, Import(i)
  PROVE  AskInv'
<1>1. UrlsListed /\ Sourced
  BY UrlsAsListed, UrlsAreSourced DEF ChoiceInv
<1>2. UNCHANGED <<title, urls, plan, phase, before>> /\ phase = "grab" /\ toImport' = toImport \ {i}
  BY DEF Import
<1>3. /\ ByRelease' = ByRelease /\ Dict' = Dict /\ Idx' = Idx
      /\ \A e, z : NameFor(e, z)' = NameFor(e, z)
      /\ \A f : ListedFile(f)' = ListedFile(f)
      /\ \A e, f : PlacedFile(e, f)' = PlacedFile(e, f)
      /\ \A k, e, f : Satisfies(k, e, f)' = Satisfies(k, e, f)
      /\ \A k : Keys(k)' = Keys(k)
  BY <1>2, SaidOfFiles
<1> SUFFICES ASSUME ByRelease PROVE AskInv'
  BY <1>3 DEF AskInv, DictInv, LandedInv, ImportInv, NeverAskedTwice, Matched, ByRelease
<1>4. title.hasEps /\ i \in Idx /\ ~urls[i].hand /\ i \in Grabs(plan.result) /\ toImport \subseteq Grabs(plan.result)
  BY <1>2 DEF AskInv, ImportInv, Grabs, ByRelease
<1>5. DictInv'
  BY <1>2, <1>3 DEF AskInv, DictInv
<1>6. ASSUME NEW e \in Eps PROVE disk'[e] = disk[e] \/ PlacedFile(e, disk'[e])
  BY <1>1, <1>4, LandsOrIsKept
<1>7. ImportInv'
  <2>1. toImport' \subseteq Grabs(plan.result)' /\ toImport' \subseteq Idx'
    BY <1>2, <1>3, <1>4 DEF Grabs, Public, AskInv, ImportInv
  <2>2. GroupsOf(toImport)' \subseteq GroupsOf(toImport)
    BY <1>2 DEF GroupsOf
  <2>3. \A e \in Eps : disk'[e] = before[e] \/ PlacedFile(e, disk'[e])
    BY <1>2, <1>6 DEF AskInv, ImportInv
  <2>4. \A e \in Eps : PlacedFile(e, disk[e])' = PlacedFile(e, disk'[e])
    BY <1>2 DEF PlacedFile, Of, Idx
  <2>5. \A e \in Eps : ListedFile(before[e])' = ListedFile(before[e])
    BY <1>2 DEF ListedFile, Of, Idx
  <2>6. \A p \in plan.guards.owned : p[2] > 0 /\ NameFor(p[1], p[2])' # Blank
    BY <1>2, <1>3 DEF AskInv, ImportInv
  <2>7. \A e \in Eps : before[e] # NoFile /\ before[e].group \in plan.guards.current \cup (GroupsOf(toImport)' \ plan.guards.stale)
          => ListedFile(before[e])
    BY <1>2, <2>2 DEF AskInv, ImportInv
  <2> QED
    BY <1>2, <2>1, <2>3, <2>4, <2>5, <2>6, <2>7 DEF ImportInv
<1>8. LandedInv'
  <2> SUFFICES ASSUME NEW x \in landed', NEW k \in Idx, urls[k].id = x[1]
               PROVE  /\ ~urls[k].hand /\ urls[k].placed # {}
                      /\ \A e \in Keys(k) : Satisfies(k, e, disk'[e])
    <3>1. \A k, e : Satisfies(k, e, disk[e])' = Satisfies(k, e, disk'[e])
      BY <1>2 DEF Satisfies, NamedFile, NameFor, ListedFile, PlacedFile, Of, Idx
    <3> QED
      BY <1>2, <1>3, <3>1 DEF LandedInv
  <2>1. Keys(k) \subseteq Eps
    BY <1>1 DEF Sourced, Keys
  <2>2. CASE x \in landed
    <3>1. ~urls[k].hand /\ urls[k].placed # {} /\ \A e \in Keys(k) : Satisfies(k, e, disk[e])
      BY <2>2 DEF AskInv, LandedInv
    <3>2. ASSUME NEW e \in Keys(k) PROVE Satisfies(k, e, disk'[e])
      BY <1>1, <1>6, <2>1, <3>1, PlacedSatisfies
    <3> QED
      BY <3>1, <3>2
  <2>3. CASE x[1] = urls[i].id /\ urls[i].placed # {}
    <3>1. /\ urls[k].group = urls[i].group /\ urls[k].hand = urls[i].hand
          /\ urls[k].files = urls[i].files /\ urls[k].placed = urls[i].placed
      BY <1>1, <1>4, <2>3 DEF Sourced
    <3>2. ASSUME NEW e \in Keys(k) PROVE Satisfies(k, e, disk'[e])
      <4>1. PICK z : <<e, z>> \in urls[i].placed
        <5>1. PICK p \in urls[i].placed : p[1] = e
          BY <3>1 DEF Keys
        <5>2. p = <<e, p[2]>>
          BY <1>1, <1>4, <5>1 DEF Sourced
        <5> QED
          BY <5>1, <5>2
      <4>2. CASE PlacedFile(e, disk'[e])
        BY <1>1, <4>2, PlacedSatisfies
      <4>3. CASE disk'[e] = disk[e] /\ Protected(i, e, z)
        <5>1. Satisfies(i, e, disk[e])
          BY <1>1, <1>2, <2>1, <4>1, <4>3, ProtectedIsKept DEF AskInv
        <5> QED
          BY <3>1, <4>3, <5>1 DEF Satisfies
      <4> QED
        BY <1>1, <1>4, <2>1, <4>1, <4>2, <4>3, LandsOrIsKept
    <3> QED
      BY <1>4, <2>3, <3>1, <3>2
  <2> QED
    BY <1>1, <1>4, <2>2, <2>3, ImportLands
<1>9. NeverAskedTwice'
  <2>1. Grabs(plan.result)' = Grabs(plan.result)
    BY <1>2 DEF Grabs, Public
  <2> QED
    BY <1>2, <1>4, <2>1 DEF NeverAskedTwice, Matched, Planned
<1> QED
  BY <1>5, <1>7, <1>8, <1>9 DEF AskInv

\* The rest changes neither the library nor what landed.
LEMMA AskInvRest ==
  ASSUME ChoiceInv, AskInv, Settle \/ Pick \/ UNCHANGED choiceVars
  PROVE  AskInv'
<1>1. CASE Settle
  <2>1. UNCHANGED <<title, disk, urls, landed>> /\ phase' = "idle"
    BY <1>1 DEF Settle
  <2>2. DictInv' /\ LandedInv'
    BY <1>1, <2>1, LandedStays DEF AskInv, DictInv, ByRelease, Dict, Settle
  <2>3. ImportInv' /\ NeverAskedTwice'
    BY <2>1 DEF ImportInv, NeverAskedTwice, Matched, Planned
  <2> QED
    BY <2>2, <2>3 DEF AskInv
<1>2. CASE Pick
  <2>1. ~ByRelease /\ ~ByRelease' /\ title'.interactive
    BY <1>2 DEF Pick, ChoiceInv, UrlsInv, ByRelease
  <2> QED
    BY <2>1 DEF AskInv, DictInv, LandedInv, ImportInv, NeverAskedTwice, Matched
<1>3. CASE UNCHANGED choiceVars
  <2>1. /\ title' = title /\ disk' = disk /\ urls' = urls /\ plan' = plan /\ toImport' = toImport
        /\ phase' = phase /\ before' = before /\ landed' = landed
    BY <1>3 DEF choiceVars
  <2>2. DictInv' /\ LandedInv'
    BY <2>1, LandedStays DEF AskInv, DictInv, ByRelease, Dict
  <2>3. ImportInv'
    BY <1>3, ImportStays DEF AskInv
  <2>4. NeverAskedTwice'
    BY <2>1 DEF AskInv, NeverAskedTwice, Matched, Planned, Grabs, Public, GroupNames, Mixed, Rivals, Strayed, GroupKeys, Keys, Of, OnDisk, Idx
  <2> QED
    BY <2>2, <2>3, <2>4 DEF AskInv
<1> QED
  BY <1>1, <1>2, <1>3

\* The matcher reaches a fixpoint, for any listing and any library: where no group lists two
\* releases of an episode, mixes placed urls with unplaced ones, goes without a name or has a
\* file of its own astray, no later plan asks for a url an earlier run imported, whichever
\* imports ran since (filter_by_release_group of planner.py).
THEOREM NothingIsAskedTwice == ChoiceSpec => []NeverAskedTwice
<1>1. AskInv /\ ChoiceInv /\ [ChoiceNext]_choiceVars => AskInv'
  BY AskInvBuild, AskInvPlan, AskInvImport, AskInvRest DEF ChoiceNext
<1>2. AskInv => NeverAskedTwice
  BY DEF AskInv
<1> QED
  BY <1>1, <1>2, AskInvInit, ChoiceInvariant, PTL DEF ChoiceSpec

-----------------------------------------------------------------------------
(* The state of one call.  What is placed was open, no two files hold one    *)
(* episode, and none is put where its title contradicts.                     *)

StateFields == {"batch", "file", "al", "window", "before", "used", "rd", "place", "barred", "disputed",
                "byPosition", "elsewhere", "runRefuted", "lost", "sizeRefuted", "extra"}
ReadingFields == {"resolved", "inside", "complete", "borrowed", "vetoed", "corroborated", "isTied", "tied"}

OneAlias(A) == A \in SUBSET (Nat \X Nat) /\ \A a, b \in A : a[1] = b[1] => a = b

\* What a pass says of a file: a verdict that places nothing, or one that places it somewhere.
Refusals == Refusing \cup {"EXTRA", "FOREIGN", "ALIASED_ELSEWHERE", "SKIPPED", "DUPLICATE", "TITLE_REFUTED"}
Told(verdict, ids) == verdict \in Refusals \/ (verdict \in Placing /\ ids # {})

Sound(st) ==
  /\ DOMAIN st = StateFields /\ st.file \in Seq(FileReads) /\ st.window \in SUBSET Episodes
  /\ OneAlias(st.batch.alias) /\ st.before \subseteq st.used
  /\ DOMAIN st.place = Files(st) /\ DOMAIN st.rd = Files(st)
  /\ \A i \in Files(st) :
       /\ st.place[i].ids \subseteq (st.window \cap st.used) \ st.before
       /\ st.place[i].ids # {} => ~Contradicts(st, i, st.place[i].ids)
       /\ st.place[i].verdict = Unjudged \/ Told(st.place[i].verdict, st.place[i].ids)
       /\ DOMAIN st.rd[i] = ReadingFields /\ st.rd[i].inside \subseteq st.window
  /\ \A i, j \in Files(st) : i # j => st.place[i].ids \cap st.place[j].ids = {}

\* A file whose title refutes its reading is not placed by it.
Refuted(st) ==
  \A i \in Remaining(st) : st.rd[i].vetoed \/ st.rd[i].resolved = {} \/ ~Contradicts(st, i, st.rd[i].resolved)

\* What no pass changes, and what one that only places leaves alone.
Same(s, st) ==
  s.batch = st.batch /\ s.file = st.file /\ s.window = st.window /\ s.before = st.before /\ s.extra = st.extra
Keeps(s, st) == Same(s, st) /\ s.rd = st.rd /\ Remaining(s) \subseteq Remaining(st)

LEMMA KeepsRefuted ==
  ASSUME NEW s, NEW st, Keeps(s, st), Refuted(st)
  PROVE  Refuted(s)
  BY DEF Keeps, Same, Refuted, Contradicts

\* A change of any other field.
LEMMA OtherFields ==
  ASSUME NEW st, Sound(st), NEW s, DOMAIN s = StateFields, Same(s, st), s.rd = st.rd, s.place = st.place,
         s.used = st.used
  PROVE  Sound(s) /\ Keeps(s, st)
<1>1. Files(s) = Files(st) /\ Remaining(s) = Remaining(st)
  BY DEF Same, Files, Remaining, ToPlace, Judged
<1>2. Keeps(s, st)
  BY <1>1 DEF Keeps
<1> QED
  BY <1>1, <1>2 DEF Sound, Same, Contradicts

LEMMA BarSound ==
  ASSUME NEW st, Sound(st), NEW cond
  PROVE  /\ Sound(Bar(st, cond)) /\ Keeps(Bar(st, cond), st)
         /\ Bar(st, cond).used = st.used /\ Bar(st, cond).place = st.place
         /\ DOMAIN Bar(st, cond) = StateFields
<1>1. DOMAIN st = StateFields
  BY DEF Sound
<1>2. /\ DOMAIN Bar(st, cond) = StateFields /\ Same(Bar(st, cond), st) /\ Bar(st, cond).rd = st.rd
      /\ Bar(st, cond).place = st.place /\ Bar(st, cond).used = st.used
  BY <1>1 DEF Bar, StateFields, Same
<1> QED
  BY <1>2, OtherFields

LEMMA PutEachSound ==
  ASSUME NEW st, Sound(st), NEW ids, NEW verdict,
         \A i \in DOMAIN ids : Told(verdict, ids[i]),
         \A i \in DOMAIN ids : ids[i] \subseteq Open(st),
         \A i, j \in DOMAIN ids : i # j => ids[i] \cap ids[j] = {},
         \A i \in DOMAIN ids : ids[i] # {} => ~Contradicts(st, i, ids[i])
  PROVE  Sound(PutEach(st, ids, verdict)) /\ Keeps(PutEach(st, ids, verdict), st)
<1> DEFINE s == PutEach(st, ids, verdict)
           news == UNION {ids[i] : i \in DOMAIN ids}
<1>1. DOMAIN st = StateFields
  BY DEF Sound
<1>2. /\ DOMAIN s = StateFields /\ Same(s, st) /\ s.rd = st.rd /\ s.used = st.used \cup news
      /\ s.place = [i \in Files(st) |->
                      IF i \in DOMAIN ids THEN [ids |-> ids[i], verdict |-> verdict] ELSE st.place[i]]
  BY <1>1 DEF PutEach, StateFields, Same
<1> HIDE DEF s
<1>3. Files(s) = Files(st)
  BY <1>2 DEF Same, Files
<1>4. /\ \A i \in Files(st) \cap DOMAIN ids : s.place[i].ids = ids[i] /\ s.place[i].verdict = verdict
      /\ \A i \in Files(st) \ DOMAIN ids : s.place[i] = st.place[i]
  BY <1>2
<1>5. Keeps(s, st)
  <2>1. \A i \in DOMAIN ids : verdict # Unjudged
    BY DEF Told, Refusals, Refusing, Placing, BySize, Unjudged
  <2> QED
    BY <1>2, <1>3, <1>4, <2>1 DEF Keeps, Same, Remaining, ToPlace, Judged
<1>6. \A i \in DOMAIN ids : ids[i] \subseteq news /\ ids[i] \cap st.used = {} /\ ids[i] \subseteq st.window
  BY DEF Open
<1>7. \A i \in Files(s) :
        /\ s.place[i].ids \subseteq (s.window \cap s.used) \ s.before
        /\ s.place[i].ids # {} => ~Contradicts(s, i, s.place[i].ids)
        /\ s.place[i].verdict = Unjudged \/ Told(s.place[i].verdict, s.place[i].ids)
        /\ DOMAIN s.rd[i] = ReadingFields /\ s.rd[i].inside \subseteq s.window
  <2> TAKE i \in Files(s)
  <2>1. /\ Contradicts(s, i, s.place[i].ids) <=> Contradicts(st, i, s.place[i].ids)
        /\ s.window = st.window /\ s.before = st.before /\ st.before \subseteq st.used
    BY <1>2 DEF Same, Contradicts, Sound
  <2>2. CASE i \in DOMAIN ids
    BY <1>2, <1>3, <1>4, <1>6, <2>1, <2>2 DEF Sound
  <2>3. CASE i \notin DOMAIN ids
    BY <1>2, <1>3, <1>4, <2>1, <2>3 DEF Sound
  <2> QED
    BY <2>2, <2>3
<1>8. \A i, j \in Files(s) : i # j => s.place[i].ids \cap s.place[j].ids = {}
  <2>1. \A i \in Files(st) : st.place[i].ids \subseteq st.used
    BY DEF Sound
  <2> QED
    BY <1>3, <1>4, <1>6, <2>1 DEF Sound
<1>9. Sound(s)
  BY <1>2, <1>3, <1>7, <1>8 DEF Sound, Same
<1> QED
  BY <1>5, <1>9 DEF s

LEMMA SetAsideSound ==
  ASSUME NEW st, Sound(st), NEW S, NEW verdict \in Refusals
  PROVE  /\ Sound(SetAside(st, S, verdict)) /\ Keeps(SetAside(st, S, verdict), st)
         /\ SetAside(st, S, verdict).used = st.used /\ DOMAIN SetAside(st, S, verdict) = StateFields
         /\ Remaining(SetAside(st, S, verdict)) \cap S = {}
<1> DEFINE s == SetAside(st, S, verdict)
<1>1. DOMAIN st = StateFields
  BY DEF Sound
<1>2. /\ DOMAIN s = StateFields /\ Same(s, st) /\ s.rd = st.rd /\ s.used = st.used
      /\ s.place = [i \in Files(st) |->
                      IF i \in S THEN [ids |-> {}, verdict |-> verdict] ELSE st.place[i]]
  BY <1>1 DEF SetAside, StateFields, Same
<1> HIDE DEF s
<1>3. Files(s) = Files(st)
  BY <1>2 DEF Same, Files
<1>4. /\ \A i \in Files(st) \cap S : s.place[i].ids = {} /\ s.place[i].verdict = verdict
      /\ \A i \in Files(st) \ S : s.place[i] = st.place[i]
  BY <1>2
<1>5. Keeps(s, st) /\ Remaining(s) \cap S = {}
  <2>1. verdict # Unjudged
    BY DEF Refusals, Refusing, Unjudged
  <2> QED
    BY <1>2, <1>3, <1>4, <2>1 DEF Keeps, Same, Remaining, ToPlace, Judged
<1>6. \A i \in Files(s) :
        /\ s.place[i].ids \subseteq (s.window \cap s.used) \ s.before
        /\ s.place[i].ids # {} => ~Contradicts(s, i, s.place[i].ids)
        /\ s.place[i].verdict = Unjudged \/ Told(s.place[i].verdict, s.place[i].ids)
        /\ DOMAIN s.rd[i] = ReadingFields /\ s.rd[i].inside \subseteq s.window
  BY <1>2, <1>3, <1>4 DEF Same, Contradicts, Sound, Told
<1>7. \A i, j \in Files(s) : i # j => s.place[i].ids \cap s.place[j].ids = {}
  BY <1>3, <1>4 DEF Sound
<1>8. Sound(s)
  BY <1>2, <1>3, <1>6, <1>7 DEF Sound, Same
<1> QED
  BY <1>2, <1>5, <1>8 DEF s

\* Readings change, places do not.
Rereads(s, st) ==
  /\ DOMAIN s = StateFields /\ Same(s, st) /\ s.place = st.place /\ s.used = st.used /\ DOMAIN s.rd = Files(st)
  /\ \A i \in Files(st) : /\ DOMAIN s.rd[i] = ReadingFields /\ s.rd[i].inside \subseteq st.window
                          /\ \/ s.rd[i].resolved = st.rd[i].resolved /\ (st.rd[i].vetoed => s.rd[i].vetoed)
                             \/ s.rd[i].vetoed
                             \/ ~Contradicts(st, i, s.rd[i].resolved)

LEMMA RereadsSound ==
  ASSUME NEW st, Sound(st), NEW s, Rereads(s, st)
  PROVE  Sound(s) /\ Remaining(s) = Remaining(st) /\ (Refuted(st) => Refuted(s))
<1>1. Files(s) = Files(st) /\ Remaining(s) = Remaining(st)
  BY DEF Rereads, Same, Files, Remaining, ToPlace, Judged
<1>2. Sound(s)
  BY <1>1 DEF Sound, Rereads, Same, Contradicts
<1>3. Remaining(st) \subseteq Files(st)
  BY DEF Remaining, ToPlace
<1>4. Refuted(st) => Refuted(s)
  BY <1>1, <1>3 DEF Refuted, Rereads, Same, Contradicts
<1> QED
  BY <1>1, <1>2, <1>4

LEMMA VetoRereads ==
  ASSUME NEW st, Sound(st), NEW S
  PROVE  /\ Rereads(Veto(st, S), st)
         /\ \A i \in Files(st) \cap S : Veto(st, S).rd[i].vetoed
         /\ \A i \in Files(st) : Veto(st, S).rd[i].resolved = st.rd[i].resolved
<1> DEFINE s == Veto(st, S)
<1>1. DOMAIN st = StateFields /\ DOMAIN st.rd = Files(st)
  BY DEF Sound
<1>2. /\ DOMAIN s = StateFields /\ Same(s, st) /\ s.place = st.place /\ s.used = st.used
      /\ s.rd = [i \in Files(st) |-> IF i \in S THEN Vetoed(st.rd[i]) ELSE st.rd[i]]
  BY <1>1 DEF Veto, StateFields, Same
<1> HIDE DEF s
<1>3. \A i \in Files(st) :
        /\ DOMAIN s.rd[i] = ReadingFields /\ s.rd[i].inside = st.rd[i].inside
        /\ s.rd[i].resolved = st.rd[i].resolved
        /\ (st.rd[i].vetoed \/ i \in S => s.rd[i].vetoed)
  <2> TAKE i \in Files(st)
  <2>1. DOMAIN st.rd[i] = ReadingFields
    BY DEF Sound
  <2>2. s.rd[i] = IF i \in S THEN Vetoed(st.rd[i]) ELSE st.rd[i]
    BY <1>2
  <2> QED
    BY <2>1, <2>2 DEF ReadingFields, Vetoed
<1>4. \A i \in Files(st) : s.rd[i].inside \subseteq st.window
  BY <1>3 DEF Sound
<1>5. Rereads(s, st)
  BY <1>2, <1>3, <1>4 DEF Rereads
<1> QED
  BY <1>3, <1>5 DEF s

-----------------------------------------------------------------------------
(* The start of a call, and the passes that settle the readings.             *)

GoodBatch(batch) ==
  batch.files \in Seq(FileReads) /\ OneAlias(batch.alias)

LEMMA WidenedIsRead ==
  ASSUME NEW p \in FileReads
  PROVE  /\ Widened(p) \in FileReads /\ Widened(p).title = p.title /\ Widened(p).num = p.num
<1> DEFINE wide == [p EXCEPT !.eps = KeyRange(p), !.abs = IF @ = {p.last} THEN {} ELSE @,
                             !.matched = @ \cup Unmatched(p)]
<1>1. Widened(p) = IF ReadWhole(p) THEN p ELSE wide
  BY DEF Widened
<1>2. CASE ReadWhole(p)
  BY <1>1, <1>2
<1>3. CASE ~ReadWhole(p)
  <2>1. FirstKey(p) \in Nat
    <3>1. Cardinality(p.eps) = 1 /\ Cardinality({}) # 1
      BY <1>3, FS_EmptySet DEF ReadWhole
    <3>2. p.eps # {} /\ p.eps \in SUBSET Nat
      BY <3>1 DEF FileReads
    <3> QED
      BY <3>2 DEF FirstKey
  <2>2. KeyRange(p) \in SUBSET Nat
    <3>1. p.last \in Nat
      BY DEF FileReads
    <3> QED
      BY <2>1, <3>1 DEF KeyRange
  <2>3. Unmatched(p) \in SUBSET (Nat \X Nat \X Nat)
    <3>1. p.matched \in SUBSET (Nat \X Nat \X Nat)
      BY DEF FileReads
    <3>2. MatchedFirst(p) \in SUBSET (Nat \X Nat \X Nat)
      BY <3>1 DEF MatchedFirst
    <3>3. \A m \in MatchedFirst(p), n \in KeyRange(p) : <<m[1], n, 0>> \in Nat \X Nat \X Nat
      BY <2>2, <3>2
    <3> QED
      BY <3>3 DEF Unmatched
  <2>4. wide \in FileReads /\ wide.title = p.title /\ wide.num = p.num
    BY <2>2, <2>3 DEF FileReads
  <2> QED
    BY <1>1, <1>3, <2>4
<1> QED
  BY <1>2, <1>3

LEMMA ReadingHasFields ==
  ASSUME NEW p, NEW window
  PROVE  DOMAIN ReadParse(p, window) = ReadingFields /\ ReadParse(p, window).inside \subseteq window
  BY DEF ReadParse, NoReading, ReadingFields

LEMMA StartSound ==
  ASSUME NEW batch, GoodBatch(batch), NEW al, NEW window \in SUBSET Episodes, NEW used0
  PROVE  LET st == Start(batch, al, window, used0)
         IN /\ Sound(st) /\ st.before = HeldIn(batch, window, used0) /\ st.window = window
            /\ DOMAIN st.file = DOMAIN batch.files
            /\ \A i \in DOMAIN batch.files : st.file[i].title = batch.files[i].title
<1> DEFINE st == Start(batch, al, window, used0)
           wide == [i \in DOMAIN batch.files |-> Widened(batch.files[i])]
<1>1. /\ DOMAIN st = StateFields /\ st.batch = batch /\ st.file = wide /\ st.window = window
      /\ st.before = HeldIn(batch, window, used0) /\ st.used = HeldIn(batch, window, used0)
      /\ st.rd = [i \in DOMAIN wide |-> ReadParse(wide[i], window)]
      /\ st.place = [i \in DOMAIN wide |-> [ids |-> {}, verdict |-> Unjudged]]
  BY DEF Start, StateFields
<1>2. \A i \in DOMAIN batch.files : batch.files[i] \in FileReads
  BY DEF GoodBatch
<1>3. wide \in Seq(FileReads)
  <2>1. \A i \in DOMAIN batch.files : Widened(batch.files[i]) \in FileReads
    BY <1>2, WidenedIsRead
  <2>2. DOMAIN batch.files = 1..Len(batch.files) /\ Len(batch.files) \in Nat
    BY DEF GoodBatch
  <2> QED
    BY <2>1, <2>2
<1>4. \A i \in DOMAIN batch.files : wide[i].title = batch.files[i].title
  BY <1>2, WidenedIsRead
<1>5. DOMAIN wide = DOMAIN batch.files
  OBVIOUS
<1> HIDE DEF st, wide
<1>6. Sound(st)
  <2>1. \A i \in Files(st) : /\ st.place[i].ids = {}
                             /\ DOMAIN st.rd[i] = ReadingFields /\ st.rd[i].inside \subseteq st.window
    BY <1>1, ReadingHasFields DEF Files
  <2> QED
    BY <1>1, <1>3, <2>1 DEF Sound, Files, GoodBatch
<1> QED
  BY <1>1, <1>4, <1>5, <1>6 DEF st

\* What a pass leaves.
Good(s, st) == Sound(s) /\ Refuted(s) /\ Same(s, st)

LEMMA ExtrasSound ==
  ASSUME NEW st, Sound(st)
  PROVE  LET s == Extras(st) IN Sound(s) /\ Same(s, st) /\ Remaining(s) \cap s.extra = {}
<1> DEFINE s == Extras(st)
           S == Remaining(st) \cap st.extra
<1>1. s = SetAside(st, S, "EXTRA") /\ "EXTRA" \in Refusals
  BY DEF Extras, Refusals
<1> HIDE DEF s, S
<1>2. Sound(s) /\ Keeps(s, st) /\ Remaining(s) \cap S = {}
  BY <1>1, SetAsideSound
<1> QED
  BY <1>2 DEF Keeps, Same, s, S

LEMMA RefuseRefutedSound ==
  ASSUME NEW st, Sound(st), Remaining(st) \cap st.extra = {}
  PROVE  Good(RefuseRefuted(st), st)
<1> DEFINE reads(i) == st.rd[i].resolved
           titled == {i \in Counted(st) : reads(i) # {} /\ Contradicts(st, i, reads(i))}
           unconfirmed == {i \in Counted(st) : reads(i) # {} /\ CountedByTitle(st, i)}
           mates == UNION {r.whole : r \in {r \in Runs(st, Counted(st)) : r.whole \cap titled # {}}}
           refuted == titled \cup {i \in mates : st.rd[i].inside # {} /\ ~Confirms(st, i, reads(i))}
           S == refuted \cup unconfirmed
           v == Veto(st, S)
           b == Bar(v, S # {})
           s == RefuseRefuted(st)
<1>1. s = [b EXCEPT !.runRefuted = refuted \ titled, !.disputed = unconfirmed]
  BY DEF RefuseRefuted
<1>2. titled \subseteq S
  OBVIOUS
<1>3. \A i \in Remaining(st) : reads(i) # {} /\ Contradicts(st, i, reads(i)) => i \in titled
  BY DEF Counted, Remaining, ToPlace
<1> HIDE DEF titled, unconfirmed, mates, refuted, S, s
<1>4. /\ Rereads(v, st) /\ \A i \in Files(st) \cap S : v.rd[i].vetoed
      /\ \A i \in Files(st) : v.rd[i].resolved = st.rd[i].resolved
  BY VetoRereads
<1>5. Sound(v) /\ Remaining(v) = Remaining(st) /\ Same(v, st)
  BY <1>4, RereadsSound DEF Rereads
<1> HIDE DEF v
<1>6. Refuted(v)
  <2> SUFFICES ASSUME NEW i \in Remaining(v), v.rd[i].resolved # {}, Contradicts(v, i, v.rd[i].resolved)
               PROVE  v.rd[i].vetoed
    BY DEF Refuted
  <2>1. i \in Files(st) /\ i \in Remaining(st)
    BY <1>5 DEF Remaining, ToPlace
  <2>2. i \in titled
    BY <1>3, <1>4, <1>5, <2>1 DEF Same, Contradicts
  <2> QED
    BY <1>2, <1>4, <2>1, <2>2
<1>7. Sound(b) /\ Keeps(b, v) /\ DOMAIN b = StateFields
  BY <1>5, BarSound
<1> HIDE DEF b
<1>8. /\ DOMAIN s = StateFields /\ Same(s, b) /\ s.rd = b.rd /\ s.place = b.place /\ s.used = b.used
  BY <1>1, <1>7 DEF StateFields, Same
<1>9. Sound(s) /\ Keeps(s, b)
  BY <1>7, <1>8, OtherFields
<1>10. Refuted(s)
  BY <1>6, <1>7, <1>9, KeepsRefuted
<1> QED
  BY <1>5, <1>7, <1>9, <1>10 DEF Good, Keeps, Same, s

LEMMA RefuseDisputedSound ==
  ASSUME NEW st, Sound(st), Refuted(st)
  PROVE  Good(RefuseDisputed(st), st)
<1> DEFINE here(spreads) == {i \in Files(st) : \E e \in st.window : <<i, e>> \in spreads}
           elsewhere(spreads) == SpreadFiles(spreads) \ here(spreads)
           shape == PositionSpreads(st)
           H == here(Spreads(st, shape))
           E == elsewhere(Spreads(st, shape))
           s == RefuseDisputed(st)
<1>1. s = DisputeHere(st, shape, H, E)
  <2>1. UNION {{DisputeHere(st, byShape, here(spreads), elsewhere(spreads)) : spreads \in {Spreads(st, byShape)}}
                 : byShape \in {shape}} = {DisputeHere(st, shape, H, E)}
    OBVIOUS
  <2> QED
    BY <2>1 DEF RefuseDisputed, Only
<1> HIDE DEF shape, H, E, s
<1> DEFINE v == Veto(st, H)
           copies == (UNION {r.superseded : r \in Runs(st, Counted(st))}) \cap H
           winners == ExactPicks(st) \cap H
           loses(i, others) == (UNION {ExactIds(st.rd[j]) : j \in others \ {i}}) \cap ExactIds(st.rd[i])
           lost == [i \in Files(st) |-> IF i \in Remaining(st) THEN loses(i, winners) ELSE {}]
           a == SetAside(v, copies \cap Remaining(st), "DUPLICATE")
           b == Bar(a, H \cup E # {})
           byPosition == H \cap SpreadFiles(shape)
<1>2. s = [b EXCEPT !.lost = lost, !.disputed = @ \cup (H \ copies), !.byPosition = byPosition, !.elsewhere = E]
  BY <1>1 DEF DisputeHere
<1> HIDE DEF copies, lost, byPosition
<1>3. Sound(v) /\ Refuted(v) /\ Same(v, st)
  BY VetoRereads, RereadsSound DEF Rereads
<1> HIDE DEF v
<1>4. Sound(a) /\ Keeps(a, v)
  <2>1. "DUPLICATE" \in Refusals
    BY DEF Refusals
  <2> QED
    BY <1>3, <2>1, SetAsideSound
<1> HIDE DEF a
<1>5. Sound(b) /\ Keeps(b, a) /\ DOMAIN b = StateFields
  BY <1>4, BarSound
<1> HIDE DEF b
<1>6. DOMAIN s = StateFields /\ Same(s, b) /\ s.rd = b.rd /\ s.place = b.place /\ s.used = b.used
  BY <1>2, <1>5 DEF StateFields, Same
<1>7. Sound(s) /\ Keeps(s, b)
  BY <1>5, <1>6, OtherFields
<1>8. Refuted(s)
  BY <1>3, <1>4, <1>5, <1>7, KeepsRefuted
<1> QED
  BY <1>3, <1>4, <1>5, <1>7, <1>8 DEF Good, Keeps, Same, s

LEMMA RefuseOverlapsSound ==
  ASSUME NEW st, Sound(st), Refuted(st)
  PROVE  Good(RefuseOverlaps(st), st)
<1>1. \E S : RefuseOverlaps(st) = Veto(st, S)
  BY DEF RefuseOverlaps
<1> QED
  BY <1>1, VetoRereads, RereadsSound DEF Good, Rereads

LEMMA RereadSeasonRunsSound ==
  ASSUME NEW st, Sound(st), Refuted(st)
  PROVE  Good(RereadSeasonRuns(st), st)
<1> DEFINE s == RereadSeasonRuns(st)
           mine(i) == {r \in Runs(st, Remaining(st)) : i \in r.whole}
           fit(i) == SeasonFit(st, Only(mine(i)))
           read(i) == CASE mine(i) = {} \/ fit(i).fit = "none" -> st.rd[i]
                        [] mine(i) # {} /\ fit(i).fit = "tied" -> Tie(st, fit(i).season, i)
                        [] mine(i) # {} /\ fit(i).fit = "season" -> Reread(st, fit(i).season, i)
<1>1. s = [st EXCEPT !.rd = [i \in Files(st) |-> read(i)]]
  BY DEF RereadSeasonRuns
<1>2. \A i : fit(i).fit \in {"none", "tied", "season"}
  BY DEF SeasonFit
<1> HIDE DEF s, mine, fit
<1>3. \A i : \/ read(i) = st.rd[i] \/ (\E season : read(i) = Tie(st, season, i))
             \/ \E season : read(i) = Reread(st, season, i)
  BY <1>2
<1>4. DOMAIN st = StateFields /\ \A i \in Files(st) : DOMAIN st.rd[i] = ReadingFields /\ st.rd[i].inside \subseteq st.window
  BY DEF Sound
<1>5. \A season : \A i \in Files(st) :
        LET r == Tie(st, season, i) IN DOMAIN r = ReadingFields /\ r.inside = st.rd[i].inside /\ r.vetoed
  BY <1>4 DEF Tie, ReadingFields
<1>6. \A season : \A i \in Files(st) :
        LET r == Reread(st, season, i)
        IN \/ r = st.rd[i]
           \/ /\ DOMAIN r = ReadingFields /\ r.inside \subseteq st.window
              /\ r.vetoed \/ ~Contradicts(st, i, r.resolved)
  BY DEF Reread, ReadingFields, NoReading
<1>7. DOMAIN s = StateFields /\ Same(s, st) /\ s.place = st.place /\ s.used = st.used /\ DOMAIN s.rd = Files(st)
  BY <1>1, <1>4 DEF StateFields, Same
<1>8. \A i \in Files(st) : s.rd[i] = read(i)
  BY <1>1, <1>4 DEF StateFields
<1> HIDE DEF read
<1>9. \A i \in Files(st) :
        /\ DOMAIN s.rd[i] = ReadingFields /\ s.rd[i].inside \subseteq st.window
        /\ \/ s.rd[i].resolved = st.rd[i].resolved /\ (st.rd[i].vetoed => s.rd[i].vetoed)
           \/ s.rd[i].vetoed
           \/ ~Contradicts(st, i, s.rd[i].resolved)
  <2> TAKE i \in Files(st)
  <2>1. CASE s.rd[i] = st.rd[i]
    BY <1>4, <2>1
  <2>2. CASE \E season : s.rd[i] = Tie(st, season, i)
    BY <1>4, <1>5, <2>2
  <2>3. CASE \E season : s.rd[i] = Reread(st, season, i)
    BY <1>4, <1>6, <2>3
  <2> QED
    BY <1>3, <1>8, <2>1, <2>2, <2>3
<1>10. Rereads(s, st)
  BY <1>7, <1>9 DEF Rereads
<1> QED
  BY <1>7, <1>10, RereadsSound DEF Good, s

-----------------------------------------------------------------------------
(* The passes that take the files one by one.                                *)

LEMMA KeepsChain ==
  ASSUME NEW s, NEW t, NEW u, Keeps(s, t), Keeps(t, u)
  PROVE  Keeps(s, u)
  BY DEF Keeps, Same

LEMMA PutSound ==
  ASSUME NEW st, Sound(st), NEW i, NEW ids, NEW verdict, Told(verdict, ids), ids \subseteq Open(st),
         ids # {} => ~Contradicts(st, i, ids)
  PROVE  Sound(Put(st, i, ids, verdict)) /\ Keeps(Put(st, i, ids, verdict), st)
<1> DEFINE each == [f \in {i} |-> ids]
<1>1. DOMAIN each = {i} /\ each[i] = ids
  OBVIOUS
<1> HIDE DEF each
<1>2. Put(st, i, ids, verdict) = PutEach(st, each, verdict)
  BY DEF Put, each
<1>3. /\ \A j \in DOMAIN each : Told(verdict, each[j]) /\ each[j] \subseteq Open(st)
      /\ \A j, k \in DOMAIN each : j # k => each[j] \cap each[k] = {}
      /\ \A j \in DOMAIN each : each[j] # {} => ~Contradicts(st, j, each[j])
  BY <1>1
<1> QED
  BY <1>2, <1>3, PutEachSound

LEMMA PutOrSkipSound ==
  ASSUME NEW st, Sound(st), NEW i, NEW e \in st.window, NEW verdict \in Placing, ~Contradicts(st, i, {e})
  PROVE  Sound(PutOrSkip(st, i, e, verdict)) /\ Keeps(PutOrSkip(st, i, e, verdict), st)
<1>1. CASE e \in st.used
  <2>1. PutOrSkip(st, i, e, verdict) = Put(st, i, {}, "SKIPPED") /\ Told("SKIPPED", {})
    BY <1>1 DEF PutOrSkip, Told, Refusals
  <2> QED
    BY <2>1, PutSound
<1>2. CASE e \notin st.used
  <2>1. PutOrSkip(st, i, e, verdict) = Put(st, i, {e}, verdict) /\ {e} \subseteq Open(st) /\ Told(verdict, {e})
    BY <1>2 DEF PutOrSkip, Open, Told
  <2> QED
    BY <2>1, PutSound
<1> QED
  BY <1>1, <1>2

\* A special's number stands for one special, and the file's title does not contradict it.
Aliased(st, i) == AliasedSpecial(st, i) # {} /\ ~Contradicts(st, i, AliasedSpecial(st, i))

LEMMA AliasedSpecialIsOne ==
  ASSUME NEW st, OneAlias(st.batch.alias), NEW i, NEW d \in AliasedSpecial(st, i), NEW e \in AliasedSpecial(st, i)
  PROVE  d = e
<1>1. PICK a \in st.batch.alias : a[1] = st.file[i].num /\ d \in IdAt(0, a[2])
  BY DEF AliasedSpecial
<1>2. PICK b \in st.batch.alias : b[1] = st.file[i].num /\ e \in IdAt(0, b[2])
  BY DEF AliasedSpecial
<1>3. a = b
  BY <1>1, <1>2 DEF OneAlias
<1> QED
  BY <1>1, <1>2, <1>3, ParseReadingAssumption DEF IdAt

LEMMA AliasOneSound ==
  ASSUME NEW st, Sound(st), NEW i, Aliased(st, i)
  PROVE  Sound(AliasOne(st, i)) /\ Keeps(AliasOne(st, i), st)
<1> DEFINE ids == AliasedSpecial(st, i)
           e == Only(ids)
<1>1. e \in ids /\ ~Contradicts(st, i, ids)
  BY DEF Aliased, Only
<1>2. ids = {e}
  BY <1>1, AliasedSpecialIsOne DEF Sound
<1>3. "ALTERNATE" \in Placing /\ Told("ALIASED_ELSEWHERE", {})
  BY DEF Placing, Told, Refusals
<1>4. AliasOne(st, i) = IF ids \subseteq st.window THEN PutOrSkip(st, i, e, "ALTERNATE")
                        ELSE Put(st, i, {}, "ALIASED_ELSEWHERE")
  BY DEF AliasOne
<1> HIDE DEF ids, e
<1>5. CASE ids \subseteq st.window
  BY <1>1, <1>2, <1>3, <1>4, <1>5, PutOrSkipSound
<1>6. CASE ~(ids \subseteq st.window)
  BY <1>3, <1>4, <1>6, PutSound
<1> QED
  BY <1>5, <1>6

LEMMA IdentifyOneSound ==
  ASSUME NEW st, Sound(st), NEW i
  PROVE  Sound(IdentifyOne(st, i)) /\ Keeps(IdentifyOne(st, i), st)
<1> DEFINE e == st.batch.ident[i]
           another == NumbersAnother(st, i, e)
           b == Bar(st, another)
           marked == [b EXCEPT !.sizeRefuted = @ \cup IF another THEN {st.file[i].prefix} \ {NoPrefix} ELSE {}]
           verdict == IF another THEN "OVERRIDDEN" ELSE "IDENTIFIED"
<1>1. \/ IdentifyOne(st, i) = st
      \/ IdentifyOne(st, i) = Put(st, i, {}, "FOREIGN")
      \/ /\ e \in st.window /\ ~Contradicts(st, i, {e})
         /\ IdentifyOne(st, i) = PutOrSkip(marked, i, e, verdict)
  BY DEF IdentifyOne
<1>2. Told("FOREIGN", {}) /\ verdict \in Placing
  BY DEF Told, Refusals, Placing, BySize
<1> HIDE DEF e, another, verdict
<1>3. Sound(b) /\ Keeps(b, st) /\ DOMAIN b = StateFields
  BY BarSound
<1> HIDE DEF b
<1>4. DOMAIN marked = StateFields /\ Same(marked, b) /\ marked.rd = b.rd /\ marked.place = b.place /\ marked.used = b.used
  BY <1>3 DEF StateFields, Same
<1> HIDE DEF marked
<1>5. Sound(marked) /\ Keeps(marked, st)
  BY <1>3, <1>4, OtherFields, KeepsChain
<1>6. CASE IdentifyOne(st, i) = st
  BY <1>6 DEF Keeps, Same
<1>7. CASE IdentifyOne(st, i) = Put(st, i, {}, "FOREIGN")
  BY <1>2, <1>7, PutSound
<1>8. CASE /\ e \in st.window /\ ~Contradicts(st, i, {e})
           /\ IdentifyOne(st, i) = PutOrSkip(marked, i, e, verdict)
  <2>1. e \in marked.window /\ ~Contradicts(marked, i, {e})
    BY <1>5, <1>8 DEF Keeps, Same, Contradicts
  <2> QED
    BY <1>2, <1>5, <1>8, <2>1, PutOrSkipSound, KeepsChain
<1> QED
  BY <1>1, <1>6, <1>7, <1>8

LEMMA TitleOneSound ==
  ASSUME NEW st, Sound(st), NEW i
  PROVE  Sound(TitleOne(st, i)) /\ Keeps(TitleOne(st, i), st)
<1> DEFINE e == st.file[i].title
           p == Put(st, i, {e}, "EPISODE_TITLE")
<1>1. \/ TitleOne(st, i) = st
      \/ e \in Open(st) /\ TitleOne(st, i) = Bar(p, TRUE)
  BY DEF TitleOne
<1>2. Told("EPISODE_TITLE", {e}) /\ ~Contradicts(st, i, {e})
  BY DEF Told, Placing, Contradicts
<1> HIDE DEF e
<1>3. CASE TitleOne(st, i) = st
  BY <1>3 DEF Keeps, Same
<1>4. CASE e \in Open(st) /\ TitleOne(st, i) = Bar(p, TRUE)
  <2>1. Sound(p) /\ Keeps(p, st)
    BY <1>2, <1>4, PutSound
  <2> HIDE DEF p
  <2> QED
    BY <1>4, <2>1, BarSound, KeepsChain
<1> QED
  BY <1>1, <1>3, <1>4

Turns == {6, 7, 10}
LEMMA TurnSound ==
  ASSUME NEW n \in Turns, NEW st, Sound(st), NEW i, n = 6 => Aliased(st, i)
  PROVE  Sound(Turn(n, st, i)) /\ Keeps(Turn(n, st, i), st)
<1>1. CASE n = 6
  BY <1>1, AliasOneSound DEF Turn
<1>2. CASE n = 7
  BY <1>2, IdentifyOneSound DEF Turn
<1>3. CASE n = 10
  BY <1>3, TitleOneSound DEF Turn
<1> QED
  BY <1>1, <1>2, <1>3 DEF Turns

\* The recursion of OneByOne over the first m files.
TurnsTo(n, st, files, f, m) ==
  f = [k \in 0..m |-> IF k = 0 THEN st ELSE Only({Turn(n, s, files[k]) : s \in {f[k - 1]}})]

LEMMA OneByOneRuns ==
  ASSUME NEW n, NEW st, NEW files, Len(files) \in Nat
  PROVE  \E f : TurnsTo(n, st, files, f, Len(files)) /\ OneByOne(n, st, files) = f[Len(files)]
<1> DEFINE L == Len(files)
           S == {m \in 0..L : \E f : TurnsTo(n, st, files, f, m)}
           step(s, k) == Only({Turn(n, x, files[k]) : x \in {s}})
<1>1. 0 \in S
  <2> DEFINE f == [k \in 0..0 |-> st]
  <2>1. TurnsTo(n, st, files, f, 0)
    BY DEF TurnsTo
  <2> QED
    BY <2>1
<1>2. \A m \in 0..L : m \in S /\ m < L => m + 1 \in S
  <2> TAKE m \in 0..L
  <2> HAVE m \in S /\ m < L
  <2>1. PICK f : TurnsTo(n, st, files, f, m)
    OBVIOUS
  <2> DEFINE g == [k \in 0..(m + 1) |-> IF k = m + 1 THEN step(f[m], k) ELSE f[k]]
  <2>2. \A k \in 0..m : f[k] = IF k = 0 THEN st ELSE step(f[k - 1], k)
    BY <2>1 DEF TurnsTo
  <2> HIDE DEF step
  <2>3. \A k \in 0..(m + 1) : g[k] = IF k = 0 THEN st ELSE step(g[k - 1], k)
    <3> TAKE k \in 0..(m + 1)
    <3>1. CASE k = m + 1
      BY <3>1
    <3>2. CASE k # m + 1
      <4>1. k \in 0..m /\ k - 1 # m + 1 /\ g[k] = f[k]
        BY <3>2
      <4>2. k # 0 => g[k - 1] = f[k - 1]
        BY <4>1
      <4> QED
        BY <2>2, <4>1, <4>2
    <3> QED
      BY <3>1, <3>2
  <2>4. g = [k \in 0..(m + 1) |-> IF k = 0 THEN st ELSE step(g[k - 1], k)]
    BY <2>3
  <2>5. TurnsTo(n, st, files, g, m + 1)
    BY <2>4 DEF TurnsTo, step
  <2> QED
    BY <2>5
<1>3. L \in S
  <2> HIDE DEF S
  <2>1. 0..L \subseteq S
    BY <1>1, <1>2, UpTo
  <2> QED
    BY <2>1
<1>4. PICK f : TurnsTo(n, st, files, f, L)
  BY <1>3
<1> DEFINE after == CHOOSE g : TurnsTo(n, st, files, g, L)
<1>5. TurnsTo(n, st, files, after, L)
  BY <1>4
<1>6. OneByOne(n, st, files) = after[L]
  BY DEF OneByOne, TurnsTo
<1> QED
  BY <1>5, <1>6

LEMMA OneByOneSound ==
  ASSUME NEW n \in Turns, NEW st, Sound(st), NEW files, Len(files) \in Nat,
         n = 6 => \A k \in 1..Len(files) : Aliased(st, files[k])
  PROVE  Sound(OneByOne(n, st, files)) /\ Keeps(OneByOne(n, st, files), st)
<1> DEFINE L == Len(files)
<1>1. PICK f : TurnsTo(n, st, files, f, L) /\ OneByOne(n, st, files) = f[L]
  BY OneByOneRuns
<1>2. f[0] = st /\ \A k \in 1..L : f[k] = Turn(n, f[k - 1], files[k])
  <2> DEFINE step(k) == Only({Turn(n, s, files[k]) : s \in {f[k - 1]}})
  <2>1. \A k \in 0..L : f[k] = IF k = 0 THEN st ELSE step(k)
    BY <1>1 DEF TurnsTo
  <2>2. \A k : step(k) = Turn(n, f[k - 1], files[k])
    BY DEF Only
  <2> HIDE DEF step
  <2> QED
    BY <2>1, <2>2
<1> DEFINE S == {k \in 0..L : Sound(f[k]) /\ Keeps(f[k], st)}
<1>3. 0 \in S
  BY <1>2 DEF Keeps, Same
<1>4. \A k \in 0..L : k \in S /\ k < L => k + 1 \in S
  <2> TAKE k \in 0..L
  <2> HAVE k \in S /\ k < L
  <2>1. k + 1 \in 1..L /\ (k + 1) - 1 = k
    OBVIOUS
  <2>2. f[k + 1] = Turn(n, f[k], files[k + 1])
    BY <1>2, <2>1
  <2>3. n = 6 => Aliased(f[k], files[k + 1])
    <3>1. n = 6 => Aliased(st, files[k + 1])
      BY <2>1
    <3>2. f[k].batch = st.batch /\ f[k].file = st.file
      BY DEF Keeps, Same
    <3> QED
      BY <3>1, <3>2 DEF Aliased, AliasedSpecial, Contradicts
  <2>4. Sound(f[k + 1]) /\ Keeps(f[k + 1], f[k])
    BY <2>2, <2>3, TurnSound
  <2> QED
    BY <2>1, <2>4, KeepsChain
<1> HIDE DEF S
<1>5. 0..L \subseteq S
  BY <1>3, <1>4, UpTo
<1>6. L \in S
  BY <1>5
<1> QED
  BY <1>1, <1>6 DEF S

LEMMA FilesAreFinite ==
  ASSUME NEW st, Sound(st)
  PROVE  /\ Files(st) = 1..Len(st.file) /\ Files(st) \in SUBSET Nat /\ IsFiniteSet(Files(st))
         /\ \A i \in Files(st) : st.file[i] \in FileReads
<1>1. st.file \in Seq(FileReads) /\ Len(st.file) \in Nat /\ DOMAIN st.file = 1..Len(st.file)
  BY DEF Sound
<1>2. IsFiniteSet(1..Len(st.file))
  BY <1>1, FS_Interval
<1> QED
  BY <1>1, <1>2 DEF Files

LEMMA InOrderLists ==
  ASSUME NEW st, Sound(st), NEW S \in SUBSET Files(st)
  PROVE  Lists(InOrder(st, S), S)
<1> DEFINE num(i) == st.file[i].num
           less(i, j) == num(i) < num(j) \/ (num(i) = num(j) /\ i < j)
           R == {p \in S \X S : less(p[1], p[2])}
           seq == InOrder(st, S)
           at(n) == CHOOSE x \in S : Cardinality({y \in S : less(y, x)}) = n - 1
<1>1. IsFiniteSet(S) /\ S \subseteq Nat /\ \A i \in S : num(i) \in Nat
  BY FilesAreFinite, FS_Subset DEF FileReads
<1>2. seq = [n \in 1..Cardinality(S) |-> at(n)]
  BY DEF InOrder, Sorted
<1> HIDE DEF num, seq
<1>3. StrictOrder(R, S)
  <2>1. \A i, j \in S : <<i, j>> \in R <=> less(i, j)
    OBVIOUS
  <2>2. \A i \in S : i \in Nat /\ num(i) \in Nat
    BY <1>1
  <2> HIDE DEF R
  <2>3. \A i \in S : <<i, i>> \notin R
    BY <2>1, <2>2
  <2>4. \A i, j \in S : i # j => <<i, j>> \in R \/ <<j, i>> \in R
    BY <2>1, <2>2
  <2>5. \A i, j, k \in S : <<i, j>> \in R /\ <<j, k>> \in R => <<i, k>> \in R
    BY <2>1, <2>2
  <2> QED
    BY <2>3, <2>4, <2>5 DEF StrictOrder
<1> HIDE DEF less
<1>4. \A x \in S : Rank(S, R, x) = Cardinality({y \in S : less(y, x)})
  <2>1. \A x \in S : {y \in S : <<y, x>> \in R} = {y \in S : less(y, x)}
    OBVIOUS
  <2> QED
    BY <2>1 DEF Rank
<1>5. \A n : (\E x \in S : Cardinality({y \in S : less(y, x)}) = n - 1) =>
               at(n) \in S /\ Cardinality({y \in S : less(y, at(n))}) = n - 1
  OBVIOUS
<1> HIDE DEF R, at
<1>6. \A n \in 1..Cardinality(S) :
        (\E x \in S : Rank(S, R, x) = n - 1) => seq[n] \in S /\ Rank(S, R, seq[n]) = n - 1
  BY <1>2, <1>4, <1>5
<1>7. DOMAIN seq = 1..Cardinality(S) /\ seq = [n \in 1..Cardinality(S) |-> seq[n]]
  BY <1>2
<1>8. Lists(seq, S)
  BY <1>1, <1>3, <1>6, <1>7, RanksList
<1> QED
  BY <1>8 DEF seq

LEMMA RunsAreOfFiles ==
  ASSUME NEW st, NEW S, NEW r \in Runs(st, S)
  PROVE  r.members \subseteq r.whole /\ r.whole \subseteq S
  BY DEF Runs, Run

LEMMA MisnumberedPackSound ==
  ASSUME NEW st, Sound(st), Refuted(st)
  PROVE  Good(MisnumberedPack(st), st)
<1> DEFINE pack == Only(MisnumberedPacks(st))
           s == MisnumberedPack(st)
           members == pack.members \cap Remaining(st)
           placed == OneByOne(6, st, InOrder(st, members))
<1> SUFFICES Good(s, st)
  OBVIOUS
<1>1. \/ s = st
      \/ s = SetAside(st, pack.whole \cap Remaining(st), "MISNUMBERED")
      \/ /\ MisnumberedPacks(st) # {} /\ Aliases(st, pack)
         /\ s = SetAside(placed, pack.superseded \cap Remaining(st), "DUPLICATE")
  BY DEF MisnumberedPack
<1>2. "MISNUMBERED" \in Refusals /\ "DUPLICATE" \in Refusals
  BY DEF Refusals, Refusing
<1> HIDE DEF s, pack
<1>3. CASE s = st
  BY <1>3 DEF Good, Same
<1>4. CASE s = SetAside(st, pack.whole \cap Remaining(st), "MISNUMBERED")
  BY <1>2, <1>4, SetAsideSound, KeepsRefuted DEF Good, Keeps
<1>5. CASE /\ MisnumberedPacks(st) # {} /\ Aliases(st, pack)
           /\ s = SetAside(placed, pack.superseded \cap Remaining(st), "DUPLICATE")
  <2>1. pack \in Runs(st, Counted(st))
    BY <1>5 DEF pack, Only, MisnumberedPacks
  <2>2. members \subseteq pack.whole /\ members \in SUBSET Files(st)
    BY <2>1, RunsAreOfFiles DEF Remaining, ToPlace
  <2> HIDE DEF members
  <2> DEFINE files == InOrder(st, members)
  <2>3. Lists(files, members)
    BY <2>2, InOrderLists
  <2> HIDE DEF files
  <2>4. Len(files) \in Nat /\ \A k \in 1..Len(files) : files[k] \in pack.whole
    BY <2>2, <2>3 DEF Lists
  <2>5. \A i \in pack.whole : Aliased(st, i)
    BY <1>5 DEF Aliases, Aliased
  <2>6. Sound(placed) /\ Keeps(placed, st)
    <3>1. 6 \in Turns /\ \A k \in 1..Len(files) : Aliased(st, files[k])
      BY <2>4, <2>5 DEF Turns
    <3>2. placed = OneByOne(6, st, files)
      BY DEF files
    <3> HIDE DEF placed
    <3> QED
      BY <2>4, <3>1, <3>2, OneByOneSound
  <2> HIDE DEF placed
  <2>7. Sound(s) /\ Keeps(s, placed)
    BY <1>2, <1>5, <2>6, SetAsideSound
  <2>8. Keeps(s, st)
    BY <2>6, <2>7, KeepsChain
  <2> QED
    BY <2>7, <2>8, KeepsRefuted DEF Good, Keeps
<1> QED
  BY <1>1, <1>3, <1>4, <1>5

LEMMA IdentitySound ==
  ASSUME NEW st, Sound(st), Refuted(st)
  PROVE  Good(Identity(st), st)
<1> DEFINE files == Ascending(Remaining(st))
<1>1. Remaining(st) \in SUBSET Files(st)
  BY DEF Remaining, ToPlace
<1>2. Lists(files, Remaining(st))
  BY <1>1, FilesAreFinite, FS_Subset, AscendingLists
<1> HIDE DEF files
<1>3. Len(files) \in Nat /\ 7 \in Turns /\ 7 # 6
  BY <1>2 DEF Lists, Turns
<1>4. Identity(st) = OneByOne(7, st, files)
  BY DEF Identity, files
<1>5. Sound(Identity(st)) /\ Keeps(Identity(st), st)
  BY <1>3, <1>4, OneByOneSound
<1> QED
  BY <1>5, KeepsRefuted DEF Good, Keeps

LEMMA EpisodeTitleSound ==
  ASSUME NEW st, Sound(st), Refuted(st)
  PROVE  Good(EpisodeTitle(st), st)
<1> DEFINE S == Remaining(st)
           c == Cardinality(S)
           less(i, j) == Lower(st, j, i) \/ (st.file[i].ver = st.file[j].ver /\ i < j)
           at(n) == CHOOSE x \in S : Cardinality({y \in S : less(y, x)}) = n - 1
           files == [n \in 1..c |-> at(n)]
<1>1. EpisodeTitle(st) = OneByOne(10, st, files)
  BY DEF EpisodeTitle, Sorted
<1>2. c \in Nat
  <2>1. S \in SUBSET Files(st)
    BY DEF Remaining, ToPlace
  <2> QED
    BY <2>1, FilesAreFinite, FS_Subset, FS_CardinalityType
<1> HIDE DEF at, c, S
<1>3. Len(files) \in Nat
  <2> DEFINE T == {at(n) : n \in 1..c}
  <2>1. files \in [1..c -> T]
    OBVIOUS
  <2> HIDE DEF files, T
  <2>2. files \in Seq(T)
    BY <1>2, <2>1
  <2> QED
    BY <2>2
<1> HIDE DEF files
<1>4. 10 \in Turns /\ 10 # 6
  BY DEF Turns
<1>5. Sound(EpisodeTitle(st)) /\ Keeps(EpisodeTitle(st), st)
  BY <1>1, <1>3, <1>4, OneByOneSound
<1> QED
  BY <1>5, KeepsRefuted DEF Good, Keeps

LEMMA ClassifySound ==
  ASSUME NEW st, Sound(st), Refuted(st)
  PROVE  Good(Classify(st), st) /\ Remaining(Classify(st)) = {}
<1> DEFINE s == Classify(st)
<1>1. DOMAIN st = StateFields /\ DOMAIN st.place = Files(st)
  BY DEF Sound
<1>2. /\ DOMAIN s = StateFields /\ Same(s, st) /\ s.rd = st.rd /\ s.used = st.used
      /\ s.place = [i \in Files(st) |-> IF i \in Remaining(st) THEN [ids |-> {}, verdict |-> Classified(st, i)]
                                        ELSE st.place[i]]
  BY <1>1 DEF Classify, StateFields, Same
<1>3. \A i : Classified(st, i) \in Refusals /\ Classified(st, i) # Unjudged
  BY DEF Classified, Refusals, Refusing, Unjudged
<1> HIDE DEF s
<1>4. /\ \A i \in Remaining(st) : i \in Files(st) =>
           s.place[i].ids = {} /\ s.place[i].verdict # Unjudged /\ Told(s.place[i].verdict, s.place[i].ids)
      /\ \A i \in Files(st) \ Remaining(st) : s.place[i] = st.place[i]
  BY <1>2, <1>3 DEF Told
<1>5. Files(s) = Files(st)
  BY <1>2 DEF Same, Files
<1>6. Keeps(s, st) /\ Remaining(s) = {}
  BY <1>2, <1>4, <1>5 DEF Keeps, Same, Remaining, ToPlace, Judged
<1>7. \A i \in Files(s) :
        /\ s.place[i].ids \subseteq (s.window \cap s.used) \ s.before
        /\ s.place[i].ids # {} => ~Contradicts(s, i, s.place[i].ids)
        /\ s.place[i].verdict = Unjudged \/ Told(s.place[i].verdict, s.place[i].ids)
        /\ DOMAIN s.rd[i] = ReadingFields /\ s.rd[i].inside \subseteq s.window
  BY <1>2, <1>4, <1>5 DEF Same, Contradicts, Sound
<1>8. \A i, j \in Files(s) : i # j => s.place[i].ids \cap s.place[j].ids = {}
  BY <1>4, <1>5 DEF Sound
<1>9. Sound(s)
  BY <1>2, <1>5, <1>7, <1>8 DEF Sound, Same
<1> QED
  BY <1>6, <1>9, KeepsRefuted DEF Good, Keeps, s

-----------------------------------------------------------------------------
(* The exact pass.                                                           *)

LEMMA ExactOrderLists ==
  ASSUME NEW st, Sound(st)
  PROVE  Lists(ExactOrder(st), Remaining(st))
<1> DEFINE S == Remaining(st)
           less(i, j) == Before(st, i, j)
           R == {p \in S \X S : less(p[1], p[2])}
           seq == ExactOrder(st)
           at(n) == CHOOSE x \in S : Cardinality({y \in S : less(y, x)}) = n - 1
<1>1. IsFiniteSet(S) /\ S \subseteq Nat /\ \A i \in S : st.file[i].ver \in Nat
  <2>1. S \in SUBSET Files(st)
    BY DEF Remaining, ToPlace
  <2> QED
    BY <2>1, FilesAreFinite, FS_Subset DEF FileReads
<1>2. seq = [n \in 1..Cardinality(S) |-> at(n)]
  BY DEF ExactOrder, Sorted
<1> HIDE DEF seq, S
<1>3. StrictOrder(R, S)
  <2> DEFINE rank(k) == (IF st.rd[k].corroborated THEN 0 ELSE 2) + (IF st.rd[k].borrowed THEN 1 ELSE 0)
             ver(k) == st.file[k].ver
  <2>1. \A i, j \in S : less(i, j) <=> \/ rank(i) < rank(j)
                                       \/ rank(i) = rank(j) /\ (ver(j) < ver(i) \/ (ver(i) = ver(j) /\ i < j))
    BY DEF Before, Lower
  <2>2. \A k : rank(k) \in Nat
    OBVIOUS
  <2>3. \A k \in S : k \in Nat /\ rank(k) \in Nat /\ ver(k) \in Nat
    BY <1>1, <2>2
  <2>4. \A i, j \in S : <<i, j>> \in R <=> less(i, j)
    OBVIOUS
  <2> HIDE DEF rank, ver, less, R
  <2>5. \A i \in S : <<i, i>> \notin R
    BY <2>1, <2>3, <2>4
  <2>6. \A i, j \in S : i # j => <<i, j>> \in R \/ <<j, i>> \in R
    BY <2>1, <2>3, <2>4
  <2>7. \A i, j, k \in S : <<i, j>> \in R /\ <<j, k>> \in R => <<i, k>> \in R
    BY <2>1, <2>3, <2>4
  <2> QED
    BY <2>5, <2>6, <2>7 DEF StrictOrder
<1> HIDE DEF less
<1>4. \A x \in S : Rank(S, R, x) = Cardinality({y \in S : less(y, x)})
  <2>1. \A x \in S : {y \in S : <<y, x>> \in R} = {y \in S : less(y, x)}
    OBVIOUS
  <2> QED
    BY <2>1 DEF Rank
<1>5. \A n : (\E x \in S : Cardinality({y \in S : less(y, x)}) = n - 1) =>
               at(n) \in S /\ Cardinality({y \in S : less(y, at(n))}) = n - 1
  OBVIOUS
<1> HIDE DEF R, at
<1>6. \A n \in 1..Cardinality(S) :
        (\E x \in S : Rank(S, R, x) = n - 1) => seq[n] \in S /\ Rank(S, R, seq[n]) = n - 1
  BY <1>2, <1>4, <1>5
<1>7. DOMAIN seq = 1..Cardinality(S) /\ seq = [n \in 1..Cardinality(S) |-> seq[n]]
  BY <1>2
<1>8. Lists(seq, S)
  BY <1>1, <1>3, <1>6, <1>7, RanksList
<1> QED
  BY <1>8 DEF seq, S

\* The recursion of PicksOf over the first m files.
PicksTo(st, order, f, m) ==
  f = [n \in 0..m |-> IF n = 0 THEN {} ELSE Only({PickOne(st, picks, order[n]) : picks \in {f[n - 1]}})]

LEMMA PicksRun ==
  ASSUME NEW st, NEW order, Len(order) \in Nat
  PROVE  \E f : PicksTo(st, order, f, Len(order)) /\ PicksOf(st, order) = f[Len(order)]
<1> DEFINE L == Len(order)
           S == {m \in 0..L : \E f : PicksTo(st, order, f, m)}
           step(s, n) == Only({PickOne(st, picks, order[n]) : picks \in {s}})
<1>1. 0 \in S
  <2> DEFINE f == [n \in 0..0 |-> {}]
  <2>1. PicksTo(st, order, f, 0)
    BY DEF PicksTo
  <2> QED
    BY <2>1
<1>2. \A m \in 0..L : m \in S /\ m < L => m + 1 \in S
  <2> TAKE m \in 0..L
  <2> HAVE m \in S /\ m < L
  <2>1. PICK f : PicksTo(st, order, f, m)
    OBVIOUS
  <2> DEFINE g == [n \in 0..(m + 1) |-> IF n = m + 1 THEN step(f[m], n) ELSE f[n]]
  <2>2. \A n \in 0..m : f[n] = IF n = 0 THEN {} ELSE step(f[n - 1], n)
    BY <2>1 DEF PicksTo
  <2> HIDE DEF step
  <2>3. \A n \in 0..(m + 1) : g[n] = IF n = 0 THEN {} ELSE step(g[n - 1], n)
    <3> TAKE n \in 0..(m + 1)
    <3>1. CASE n = m + 1
      BY <3>1
    <3>2. CASE n # m + 1
      <4>1. n \in 0..m /\ n - 1 # m + 1 /\ g[n] = f[n]
        BY <3>2
      <4>2. n # 0 => g[n - 1] = f[n - 1]
        BY <4>1
      <4> QED
        BY <2>2, <4>1, <4>2
    <3> QED
      BY <3>1, <3>2
  <2>4. g = [n \in 0..(m + 1) |-> IF n = 0 THEN {} ELSE step(g[n - 1], n)]
    BY <2>3
  <2>5. PicksTo(st, order, g, m + 1)
    BY <2>4 DEF PicksTo, step
  <2> QED
    BY <2>5
<1>3. L \in S
  <2> HIDE DEF S
  <2>1. 0..L \subseteq S
    BY <1>1, <1>2, UpTo
  <2> QED
    BY <2>1
<1>4. PICK f : PicksTo(st, order, f, L)
  BY <1>3
<1> DEFINE after == CHOOSE g : PicksTo(st, order, g, L)
<1>5. PicksTo(st, order, after, L)
  BY <1>4
<1>6. PicksOf(st, order) = after[L]
  BY DEF PicksOf, PicksTo
<1> QED
  BY <1>5, <1>6

\* The files picked read disjoint sets of open ids.
Apart(st, picks) ==
  /\ picks \subseteq Remaining(st)
  /\ \A i \in picks : ExactIds(st.rd[i]) # {} /\ ExactIds(st.rd[i]) \cap st.used = {}
  /\ \A i, j \in picks : i # j => ExactIds(st.rd[i]) \cap ExactIds(st.rd[j]) = {}

LEMMA ExactPicksApart ==
  ASSUME NEW st, Sound(st)
  PROVE  Apart(st, ExactPicks(st))
<1> DEFINE order == ExactOrder(st)
<1>1. Lists(order, Remaining(st)) /\ ExactPicks(st) = PicksOf(st, order)
  BY ExactOrderLists DEF ExactPicks
<1> HIDE DEF order
<1> DEFINE L == Len(order)
<1>2. L \in Nat /\ \A n \in 1..L : order[n] \in Remaining(st)
  BY <1>1 DEF Lists
<1>3. PICK f : PicksTo(st, order, f, L) /\ ExactPicks(st) = f[L]
  BY <1>1, <1>2, PicksRun
<1>4. f[0] = {} /\ \A n \in 1..L : f[n] = PickOne(st, f[n - 1], order[n])
  <2> DEFINE step(n) == Only({PickOne(st, picks, order[n]) : picks \in {f[n - 1]}})
  <2>1. \A n \in 0..L : f[n] = IF n = 0 THEN {} ELSE step(n)
    BY <1>3 DEF PicksTo
  <2>2. \A n : step(n) = PickOne(st, f[n - 1], order[n])
    BY DEF Only
  <2> HIDE DEF step
  <2> QED
    BY <1>2, <2>1, <2>2
<1> DEFINE S == {n \in 0..L : Apart(st, f[n])}
<1>5. 0 \in S
  BY <1>2, <1>4 DEF Apart
<1>6. \A n \in 0..L : n \in S /\ n < L => n + 1 \in S
  <2> TAKE n \in 0..L
  <2> HAVE n \in S /\ n < L
  <2>1. n + 1 \in 1..L /\ (n + 1) - 1 = n
    BY <1>2
  <2> DEFINE i == order[n + 1]
             ids(j) == ExactIds(st.rd[j])
             P == f[n]
  <2>2. i \in Remaining(st) /\ f[n + 1] = PickOne(st, P, i) /\ Apart(st, P)
    BY <1>2, <1>4, <2>1
  <2> HIDE DEF i, P
  <2>3. \/ f[n + 1] = P
        \/ /\ f[n + 1] = P \cup {i} /\ ids(i) # {} /\ ids(i) \cap st.used = {}
           /\ \A j \in P : ids(i) \cap ids(j) = {}
    BY <2>2 DEF PickOne
  <2> HIDE DEF ids
  <2>4. CASE f[n + 1] = P
    BY <2>1, <2>2, <2>4
  <2>5. CASE /\ f[n + 1] = P \cup {i} /\ ids(i) # {} /\ ids(i) \cap st.used = {}
             /\ \A j \in P : ids(i) \cap ids(j) = {}
    <3>1. Apart(st, P \cup {i})
      BY <2>2, <2>5 DEF Apart, ids
    <3>2. f[n + 1] = P \cup {i}
      BY <2>5
    <3>3. Apart(st, f[n + 1])
      BY <3>1, <3>2, Zenon
    <3> QED
      BY <2>1, <3>3
  <2> QED
    BY <2>3, <2>4, <2>5
<1> HIDE DEF S
<1>7. 0..L \subseteq S
  BY <1>2, <1>5, <1>6, UpTo
<1>8. L \in S
  BY <1>2, <1>7
<1> QED
  BY <1>3, <1>8 DEF S

LEMMA ExactSound ==
  ASSUME NEW st, Sound(st), Refuted(st)
  PROVE  Good(Exact(st), st)
<1> DEFINE P == ExactPicks(st)
           ids == [i \in P |-> ExactIds(st.rd[i])]
<1>1. Apart(st, P)
  BY ExactPicksApart
<1>2. Exact(st) = PutEach(st, ids, "EXACT")
  BY DEF Exact
<1> HIDE DEF P
<1>3. DOMAIN ids = P /\ \A i \in P : ids[i] = ExactIds(st.rd[i])
  OBVIOUS
<1> HIDE DEF ids
<1>4. P \subseteq Files(st)
  BY <1>1 DEF Apart, Remaining, ToPlace
<1>5. \A i \in DOMAIN ids : ids[i] \subseteq Open(st)
  BY <1>1, <1>3, <1>4 DEF Apart, ExactIds, Sound, Open
<1>6. \A i, j \in DOMAIN ids : i # j => ids[i] \cap ids[j] = {}
  BY <1>1, <1>3 DEF Apart
<1>7. \A i \in DOMAIN ids : ids[i] # {} => ~Contradicts(st, i, ids[i])
  <2> SUFFICES ASSUME NEW i \in P PROVE ids[i] # {} => ~Contradicts(st, i, ids[i])
    BY <1>3
  <2>1. ids[i] = {} \/ (~st.rd[i].vetoed /\ ids[i] = st.rd[i].resolved)
    BY <1>3 DEF ExactIds, Trusted
  <2> QED
    BY <1>1, <2>1 DEF Refuted, Apart
<1>8. Sound(Exact(st)) /\ Keeps(Exact(st), st)
  <2>1. \A i \in DOMAIN ids : Told("EXACT", ids[i])
    BY <1>1, <1>3 DEF Apart, Told, Placing
  <2> QED
    BY <1>2, <1>5, <1>6, <1>7, <2>1, PutEachSound
<1> QED
  BY <1>8, KeepsRefuted DEF Good, Keeps

-----------------------------------------------------------------------------
(* What the zips pair, and the run window.                                   *)

LEMMA PlaceZipSound ==
  ASSUME NEW st, Sound(st), NEW files, NEW ids, Lists(ids, Open(st)), DOMAIN files \subseteq DOMAIN ids,
         NEW verdict \in Placing
  PROVE  Sound(PlaceZip(st, files, ids, verdict)) /\ Keeps(PlaceZip(st, files, ids, verdict), st)
<1> DEFINE of(i) == {n \in DOMAIN files : files[n] = i}
           pairs == Paired(files, ids)
<1>1. DOMAIN pairs = Set(files) /\ \A i \in Set(files) : pairs[i] = {ids[n] : n \in of(i)}
  BY DEF Paired
<1> HIDE DEF pairs
<1>2. \A n \in DOMAIN files : ids[n] \in Open(st)
  BY DEF Lists
<1>3. \A m, n \in DOMAIN files : ids[m] = ids[n] => m = n
  BY DEF Lists
<1>4. CASE Zips(st, files, ids)
  <2>1. \A i \in DOMAIN pairs : pairs[i] \subseteq Open(st)
    BY <1>1, <1>2
  <2>2. \A i, j \in DOMAIN pairs : i # j => pairs[i] \cap pairs[j] = {}
    BY <1>1, <1>3
  <2>3. \A i \in DOMAIN pairs : pairs[i] # {} => ~Contradicts(st, i, pairs[i])
    BY <1>1, <1>4 DEF Zips, Contradicts
  <2>4. PlaceZip(st, files, ids, verdict) = PutEach(st, pairs, verdict)
    BY <1>4 DEF PlaceZip, pairs
  <2>5. \A i \in DOMAIN pairs : Told(verdict, pairs[i])
    BY <1>1 DEF Told, Set
  <2> QED
    BY <2>1, <2>2, <2>3, <2>4, <2>5, PutEachSound
<1>5. CASE ~Zips(st, files, ids)
  BY <1>5, BarSound DEF PlaceZip
<1> QED
  BY <1>4, <1>5

\* Sorting by a number each element has of its own lists the set.
LEMMA ByLists ==
  ASSUME NEW S, IsFiniteSet(S), NEW f, \A x \in S : f[x] \in Int, \A x, y \in S : f[x] = f[y] => x = y
  PROVE  Lists(By(f, S), S)
<1> DEFINE R == {p \in S \X S : f[p[1]] < f[p[2]]}
           seq == By(f, S)
           at(n) == CHOOSE x \in S : Cardinality({y \in S : f[y] < f[x]}) = n - 1
<1>1. StrictOrder(R, S)
  BY DEF StrictOrder
<1>2. \A x \in S : Rank(S, R, x) = Cardinality({y \in S : f[y] < f[x]})
  <2>1. \A x \in S : {y \in S : <<y, x>> \in R} = {y \in S : f[y] < f[x]}
    OBVIOUS
  <2> QED
    BY <2>1 DEF Rank
<1>3. seq = [n \in 1..Cardinality(S) |-> at(n)]
  BY DEF By, Sorted
<1>4. \A n : (\E x \in S : Cardinality({y \in S : f[y] < f[x]}) = n - 1) =>
               at(n) \in S /\ Cardinality({y \in S : f[y] < f[at(n)]}) = n - 1
  OBVIOUS
<1> HIDE DEF R, seq, at
<1>5. \A n \in 1..Cardinality(S) :
        (\E x \in S : Rank(S, R, x) = n - 1) => seq[n] \in S /\ Rank(S, R, seq[n]) = n - 1
  BY <1>2, <1>3, <1>4
<1>6. DOMAIN seq = 1..Cardinality(S) /\ seq = [n \in 1..Cardinality(S) |-> seq[n]]
  BY <1>3
<1>7. IsFiniteSet(S)
  OBVIOUS
<1>8. Lists(seq, S)
  BY ONLY <1>1, <1>5, <1>6, <1>7, RanksList
<1> QED
  BY <1>8 DEF seq

\* The window of a run lists the open ids, each with a number.
GoodWindow(st, w) == Lists(w.ids, Open(st)) /\ DOMAIN w.numbers = DOMAIN w.ids

LEMMA OpenIsFinite ==
  ASSUME NEW st, Sound(st)
  PROVE  Open(st) \in SUBSET Episodes /\ IsFiniteSet(Open(st))
<1>1. Open(st) \in SUBSET Episodes
  BY DEF Sound, Open
<1> QED
  BY <1>1, ParseReadingAssumption, FS_Subset

\* A function on a finite set with as many values as arguments takes each once.
LEMMA AsManyValues ==
  ASSUME NEW S, IsFiniteSet(S), NEW f, Cardinality({f[x] : x \in S}) = Cardinality(S)
  PROVE  \A x, y \in S : f[x] = f[y] => x = y
<1> DEFINE T == {f[x] : x \in S}
           g == [x \in S |-> f[x]]
<1>1. g \in Surjection(S, T)
  BY DEF Surjection
<1>2. g \in Injection(S, T)
  BY <1>1, FS_Surjection
<1> QED
  BY <1>2 DEF Injection, IsInjective

LEMMA RunWindowLists ==
  ASSUME NEW st, Sound(st), RunWindow(st).ids # <<>>
  PROVE  GoodWindow(st, RunWindow(st))
<1> DEFINE open == Open(st)
           number == [e \in open |-> KeyOf[e][2]]
           keyed == By(number, open)
           aired == By(AbsOf, open)
           absolutes == {AbsOf[e] : e \in open}
           byNumber == [season |-> SeasonOf(keyed[1]), ids |-> keyed, numbers |-> Along(keyed, number)]
           byAbs == [season |-> -1, ids |-> aired, numbers |-> Along(aired, AbsOf)]
           one == Cardinality({SeasonOf(e) : e \in open}) = 1
           w == RunWindow(st)
<1>1. \/ w = NoWindow
      \/ w = byNumber /\ one
      \/ w = byAbs /\ Cardinality(absolutes) = Cardinality(open)
  BY DEF RunWindow
<1>2. open \in SUBSET Episodes /\ IsFiniteSet(open)
  BY OpenIsFinite
<1> HIDE DEF w, open
<1>3. w # NoWindow
  BY DEF w, NoWindow
<1>4. CASE w = byNumber /\ one
  <2> DEFINE season == [e \in open |-> SeasonOf(e)]
             T == {SeasonOf(e) : e \in open}
  <2>1. PICK s : T = {s}
    <3>1. season \in Surjection(open, T)
      BY DEF Surjection
    <3>2. IsFiniteSet(T)
      BY <1>2, <3>1, FS_Surjection
    <3> QED
      BY <1>4, <3>2, FS_Singleton
  <2>2. \A e \in open : KeyOf[e][1] = s /\ KeyOf[e] \in Nat \X Nat
    BY <1>2, <2>1, ParseReadingAssumption DEF SeasonOf
  <2>3. \A e \in open : number[e] \in Int /\ number[e] = KeyOf[e][2]
    BY <2>2
  <2>4. \A d, e \in open : number[d] = number[e] => d = e
    <3> TAKE d, e \in open
    <3> HAVE number[d] = number[e]
    <3>1. KeyOf[d] = KeyOf[e]
      BY <2>2, <2>3
    <3> QED
      BY <1>2, <3>1, ParseReadingAssumption
  <2> HIDE DEF number
  <2>5. Lists(keyed, open)
    BY <1>2, <2>3, <2>4, ByLists
  <2> HIDE DEF keyed
  <2>6. w.ids = keyed /\ DOMAIN w.numbers = DOMAIN keyed
    BY <1>4 DEF Along
  <2>7. GoodWindow(st, w)
    BY <2>5, <2>6 DEF GoodWindow, open
  <2> QED
    BY <2>7 DEF w
<1>5. CASE w = byAbs /\ Cardinality(absolutes) = Cardinality(open)
  <2>1. \A d, e \in open : AbsOf[d] = AbsOf[e] => d = e
    BY <1>2, <1>5, AsManyValues
  <2>2. \A e \in open : AbsOf[e] \in Int
    BY <1>2, ParseReadingAssumption
  <2>3. Lists(aired, open)
    BY <1>2, <2>1, <2>2, ByLists
  <2> HIDE DEF aired
  <2>4. w.ids = aired /\ DOMAIN w.numbers = DOMAIN aired
    BY <1>5 DEF Along
  <2>5. GoodWindow(st, w)
    BY <2>3, <2>4 DEF GoodWindow, open
  <2> QED
    BY <2>5 DEF w
<1> QED
  BY <1>1, <1>3, <1>4, <1>5

-----------------------------------------------------------------------------
(* The passes by position.                                                   *)

LEMMA SingleSound ==
  ASSUME NEW st, Sound(st), NEW open, NEW e \in Open(st)
  PROVE  Sound(Single(st, open, e)) /\ Keeps(Single(st, open, e), st)
<1> DEFINE unnumbered == {i \in open : ReadsNoNumber(st, i)}
           named == {i \in unnumbered : st.al \in st.file[i].names}
           alone == Cardinality(open) = 1 /\ unnumbered # {}
           pick == IF alone THEN unnumbered ELSE IF AllKnown(st) THEN named ELSE {}
           verdict == IF alone THEN "SINGLE" ELSE "TITLED"
           i == Only(pick)
<1>1. \/ Single(st, open, e) = st
      \/ Cardinality(pick) = 1 /\ Single(st, open, e) = Put(st, i, {e}, verdict)
  BY DEF Single
<1>2. \A j \in pick : ReadsNoNumber(st, j)
  OBVIOUS
<1>3. Told(verdict, {e})
  BY DEF Told, Placing
<1> HIDE DEF pick, verdict
<1>4. CASE Single(st, open, e) = st
  BY <1>4 DEF Keeps, Same
<1>5. CASE Cardinality(pick) = 1 /\ Single(st, open, e) = Put(st, i, {e}, verdict)
  <2>1. pick # {}
    BY <1>5, FS_EmptySet
  <2>2. i \in pick
    BY <2>1 DEF Only
  <2> HIDE DEF i
  <2>3. ~Contradicts(st, i, {e})
    BY <1>2, <2>2 DEF ReadsNoNumber, Contradicts
  <2>4. {e} \subseteq Open(st)
    OBVIOUS
  <2> QED
    BY <1>3, <1>5, <2>3, <2>4, PutSound
<1> QED
  BY <1>1, <1>4, <1>5

LEMMA PositionalSound ==
  ASSUME NEW st, Sound(st), Refuted(st)
  PROVE  Good(Positional(st), st)
<1> DEFINE open == {i \in Remaining(st) : ~Outside(st.rd[i])}
           ids == Ascending(Open(st))
           byAbsolute == By([i \in open |-> Min(st.file[i].abs)], open)
           s == Positional(st)
<1> SUFFICES Good(s, st)
  OBVIOUS
<1>1. \/ s = st
      \/ AbsolutesPair(st, open) /\ s = PlaceZip(st, byAbsolute, ids, "ABSOLUTE")
      \/ Len(ids) = 1 /\ s = Single(st, open, ids[1])
      \/ Pristine(st, open) /\ s = PlaceZip(st, Ascending(open), ids, "ORDERED")
  BY DEF Positional
<1>2. DOMAIN byAbsolute = 1..Cardinality(open) /\ DOMAIN Ascending(open) = 1..Cardinality(open)
  BY DEF By, Ascending, Sorted
<1>3. Lists(ids, Open(st))
  <2>1. Open(st) \in SUBSET Nat
    BY OpenIsFinite, ParseReadingAssumption
  <2> QED
    BY <2>1, OpenIsFinite, AscendingLists
<1>4. "ABSOLUTE" \in Placing /\ "ORDERED" \in Placing
  BY DEF Placing
<1> HIDE DEF s, open, ids, byAbsolute
<1>5. DOMAIN ids = 1..Cardinality(Open(st)) /\ (Len(ids) = 1 => ids[1] \in Open(st))
  BY <1>3 DEF Lists
<1>6. CASE s = st
  BY <1>6 DEF Good, Same
<1>7. CASE AbsolutesPair(st, open) /\ s = PlaceZip(st, byAbsolute, ids, "ABSOLUTE")
  <2>1. DOMAIN byAbsolute \subseteq DOMAIN ids
    BY <1>2, <1>5, <1>7 DEF AbsolutesPair
  <2>2. Sound(s) /\ Keeps(s, st)
    BY <1>3, <1>4, <1>7, <2>1, PlaceZipSound
  <2> QED
    BY <2>2, KeepsRefuted DEF Good, Keeps
<1>8. CASE Len(ids) = 1 /\ s = Single(st, open, ids[1])
  <2>1. Sound(s) /\ Keeps(s, st)
    BY <1>5, <1>8, SingleSound
  <2> QED
    BY <2>1, KeepsRefuted DEF Good, Keeps
<1>9. CASE Pristine(st, open) /\ s = PlaceZip(st, Ascending(open), ids, "ORDERED")
  <2>1. DOMAIN Ascending(open) \subseteq DOMAIN ids
    BY <1>2, <1>5, <1>9 DEF Pristine
  <2>2. Sound(s) /\ Keeps(s, st)
    BY <1>3, <1>4, <1>9, <2>1, PlaceZipSound
  <2> QED
    BY <2>2, KeepsRefuted DEF Good, Keeps
<1> QED
  BY <1>1, <1>6, <1>7, <1>8, <1>9

\* A run numbered 1 to n has n members.
LEMMA RunOfWidth ==
  ASSUME NEW st, NEW r, NEW numbers, Numbers(st, r) = numbers
  PROVE  DOMAIN InOrder(st, r.members) = DOMAIN numbers
  BY DEF Numbers

LEMMA NumberedRunSound ==
  ASSUME NEW st, Sound(st), Refuted(st)
  PROVE  Good(NumberedRun(st), st)
<1> DEFINE w == RunWindow(st)
           blind == {i \in Remaining(st) : /\ st.rd[i].resolved = {} /\ st.file[i].eps = {}
                                           /\ SingleParse(st.file[i], st.window)}
           fits == {r \in Runs(st, blind) : FromOne(st, r, Len(w.ids))}
           r == Only(fits)
           files == InOrder(st, r.members)
           z == PlaceZip(st, files, w.ids, "NUMBERED_RUN")
           s == NumberedRun(st)
<1> SUFFICES Good(s, st)
  OBVIOUS
<1>1. \/ s = st
      \/ s = Bar(st, TRUE)
      \/ w.ids # <<>> /\ Cardinality(fits) = 1 /\ s = SetAside(z, r.superseded, "DUPLICATE")
  BY DEF NumberedRun
<1>2. w.ids # <<>> => GoodWindow(st, w)
  BY RunWindowLists
<1>3. \A q \in fits : FromOne(st, q, Len(w.ids))
  OBVIOUS
<1>4. "NUMBERED_RUN" \in Placing /\ "DUPLICATE" \in Refusals
  BY DEF Placing, Refusals
<1> HIDE DEF s, w, fits
<1>5. CASE s = st
  BY <1>5 DEF Good, Same
<1>6. CASE s = Bar(st, TRUE)
  BY <1>6, BarSound, KeepsRefuted DEF Good, Keeps
<1>7. CASE w.ids # <<>> /\ Cardinality(fits) = 1 /\ s = SetAside(z, r.superseded, "DUPLICATE")
  <2>1. fits # {}
    <3>1. Cardinality({}) # 1
      BY FS_EmptySet
    <3>2. Cardinality(fits) = 1
      BY <1>7
    <3> QED
      BY <3>1, <3>2
  <2>2. FromOne(st, r, Len(w.ids))
    BY <1>3, <2>1 DEF Only
  <2> HIDE DEF r
  <2>3. Lists(w.ids, Open(st))
    BY <1>2, <1>7 DEF GoodWindow
  <2>4. DOMAIN files = DOMAIN w.ids
    <3>1. DOMAIN files = 1..Len(w.ids)
      BY <2>2, RunOfWidth DEF FromOne
    <3> QED
      BY <2>3, <3>1 DEF Lists
  <2> HIDE DEF files
  <2>5. Sound(z) /\ Keeps(z, st)
    BY <1>4, <2>3, <2>4, PlaceZipSound
  <2> HIDE DEF z
  <2>6. Sound(s) /\ Keeps(s, z)
    BY <1>4, <1>7, <2>5, SetAsideSound
  <2> QED
    BY <2>5, <2>6, KeepsChain, KeepsRefuted DEF Good, Keeps
<1> QED
  BY <1>1, <1>5, <1>6, <1>7

-----------------------------------------------------------------------------
(* The release run.                                                          *)

\* How a run of a tier can be paired with its window.
Fits(st, w, r, covers) ==
  IF covers THEN Numbers(st, r) = [k \in 1..SeasonCount(w.season) |-> k]
  ELSE DOMAIN InOrder(st, r.members) = DOMAIN w.ids

LEMMA TierFits ==
  ASSUME NEW st, Sound(st), NEW w, GoodWindow(st, w), NEW r, r.members \in SUBSET Files(st), Tier(st, w, r) > 0
  PROVE  Fits(st, w, r, Tier(st, w, r) = 3)
<1> DEFINE numbers == Numbers(st, r)
           width == Len(w.ids)
           t == Tier(st, w, r)
<1>1. DOMAIN w.ids = 1..width /\ DOMAIN w.numbers = 1..width
  BY DEF GoodWindow, Lists
<1>2. DOMAIN InOrder(st, r.members) = 1..Cardinality(r.members)
  BY InOrderLists DEF Lists
<1>3. \/ t = 1 /\ numbers = [k \in 1..width |-> k]
      \/ t = 2 /\ numbers = w.numbers
      \/ t = 3 /\ numbers = [k \in 1..SeasonCount(w.season) |-> k]
      \/ t = 4 /\ Cardinality(r.members) = width
      \/ t = 0
  BY DEF Tier
<1>4. DOMAIN numbers = DOMAIN InOrder(st, r.members)
  BY DEF Numbers
<1> HIDE DEF numbers, width, t
<1>5. t > 0
  BY DEF t
<1>6. CASE t = 3 /\ numbers = [k \in 1..SeasonCount(w.season) |-> k]
  BY <1>6 DEF Fits, t, numbers
<1>7. CASE t # 3 /\ DOMAIN InOrder(st, r.members) = DOMAIN w.ids
  BY <1>7 DEF Fits, t
<1> QED
  BY <1>1, <1>2, <1>3, <1>4, <1>5, <1>6, <1>7

\* A list of a finite set misses no element.
LEMMA ListsAll ==
  ASSUME NEW S, IsFiniteSet(S), NEW seq, Lists(seq, S)
  PROVE  \A x \in S : \E n \in DOMAIN seq : seq[n] = x
<1> DEFINE D == 1..Cardinality(S)
<1>1. PICK c \in Nat : c = Cardinality(S)
  BY FS_CardinalityType
<1>2. IsFiniteSet(1..c) /\ Cardinality(1..c) = c
  <2>1. 1 \in Int /\ c \in Int /\ (1 > c => c = 0) /\ c - 1 + 1 = c
    OBVIOUS
  <2> QED
    BY <2>1, FS_Interval
<1>3. seq \in Injection(1..c, S)
  BY <1>1 DEF Lists, Injection, IsInjective
<1>4. seq \in Surjection(1..c, S)
  BY <1>1, <1>2, <1>3, FS_Injection
<1>5. DOMAIN seq = 1..c
  BY <1>1 DEF Lists
<1> QED
  BY <1>4, <1>5 DEF Surjection

\* The members of a covering run numbered in the window are no more than it holds.
LEMMA CoveredSlice ==
  ASSUME NEW st, Sound(st), NEW w, GoodWindow(st, w), NEW r, r.members \in SUBSET Files(st),
         NEW c, Numbers(st, r) = [k \in 1..c |-> k],
         NEW slice, slice = {i \in r.members : st.file[i].num \in Set(w.numbers)}
  PROVE  DOMAIN InOrder(st, slice) \subseteq DOMAIN w.ids
<1> DEFINE files == InOrder(st, r.members)
           D == {n \in DOMAIN w.ids : w.numbers[n] \in 1..c}
           f == [n \in D |-> files[w.numbers[n]]]
           T == {f[n] : n \in D}
<1>1. Lists(files, r.members) /\ IsFiniteSet(r.members)
  BY InOrderLists, FilesAreFinite, FS_Subset
<1>2. DOMAIN files = 1..c /\ \A n \in DOMAIN files : st.file[files[n]].num = n
  <2>1. Numbers(st, r) = [n \in DOMAIN files |-> st.file[files[n]].num]
    BY DEF Numbers
  <2> HIDE DEF files
  <2> QED
    BY <2>1
<1>3. \A i \in r.members : \E n \in DOMAIN files : files[n] = i
  <2> HIDE DEF files
  <2> QED
    BY <1>1, ListsAll
<1> HIDE DEF files
<1>4. slice \subseteq T
  <2> SUFFICES ASSUME NEW i \in slice PROVE i \in T
    OBVIOUS
  <2>1. PICK k \in DOMAIN files : files[k] = i
    BY <1>3
  <2>2. st.file[i].num = k
    BY <1>2, <2>1
  <2>3. PICK n \in DOMAIN w.ids : w.numbers[n] = k
    BY <2>2 DEF Set, GoodWindow
  <2>4. n \in D /\ f[n] = i
    BY <1>2, <2>1, <2>3
  <2> QED
    BY <2>4
<1>5. IsFiniteSet(Open(st)) /\ Lists(w.ids, Open(st)) /\ DOMAIN w.ids = 1..Cardinality(Open(st))
  BY OpenIsFinite DEF GoodWindow, Lists
<1>6. PICK o \in Nat : o = Cardinality(Open(st))
  BY <1>5, FS_CardinalityType
<1>7. IsFiniteSet(1..o) /\ Cardinality(1..o) = o
  <2>1. 1 \in Int /\ o \in Int /\ (1 > o => o = 0) /\ o - 1 + 1 = o
    OBVIOUS
  <2> QED
    BY <2>1, FS_Interval
<1>8. D \in SUBSET (1..o)
  BY <1>5, <1>6
<1>9. f \in Surjection(D, T)
  <2> HIDE DEF D
  <2> QED
    BY DEF Surjection
<1> HIDE DEF D, f, T
<1>10. IsFiniteSet(D) /\ Cardinality(D) <= o
  BY <1>7, <1>8, FS_Subset
<1>11. IsFiniteSet(T) /\ Cardinality(T) <= Cardinality(D)
  BY <1>9, <1>10, FS_Surjection
<1>12. IsFiniteSet(slice) /\ Cardinality(slice) <= Cardinality(T)
  <2>1. slice \in SUBSET T
    BY <1>4
  <2> QED
    BY <1>11, <2>1, FS_Subset
<1>13. PICK s \in Nat : s = Cardinality(slice)
  BY <1>12, FS_CardinalityType
<1>14. s <= o
  <2>1. Cardinality(T) \in Nat /\ Cardinality(D) \in Nat
    BY <1>10, <1>11, FS_CardinalityType
  <2> QED
    BY <1>10, <1>11, <1>12, <1>13, <2>1
<1>15. DOMAIN InOrder(st, slice) = 1..s
  BY <1>13 DEF InOrder, Sorted
<1>16. 1..s \subseteq 1..o
  BY <1>14
<1> QED
  BY <1>5, <1>6, <1>15, <1>16

LEMMA PlaceRunSound ==
  ASSUME NEW st, Sound(st), Refuted(st), NEW w, GoodWindow(st, w), NEW r, r.members \in SUBSET Files(st),
         NEW covers \in BOOLEAN, Fits(st, w, r, covers), NEW disputed, NEW open
  PROVE  Good(PlaceRun(st, w, r, covers, disputed, open), st)
<1> DEFINE slice == {i \in r.members : ~covers \/ st.file[i].num \in Set(w.numbers)}
           files == InOrder(st, slice)
           z == PlaceZip(st, files, w.ids, "RELEASE_RUN")
           a == SetAside(z, r.members \ slice, "FOREIGN")
           s == PlaceRun(st, w, r, covers, disputed, open)
<1> SUFFICES Good(s, st)
  OBVIOUS
<1>1. \/ s = st \/ s = SetAside(st, r.whole, "HELD") \/ s = Bar(st, TRUE)
      \/ s = SetAside(a, r.superseded, "DUPLICATE")
  BY DEF PlaceRun
<1>2. "HELD" \in Refusals /\ "RELEASE_RUN" \in Placing /\ "FOREIGN" \in Refusals /\ "DUPLICATE" \in Refusals
  BY DEF Refusals, Refusing, Placing
<1>3. DOMAIN files \subseteq DOMAIN w.ids
  <2>1. CASE covers
    <3>1. Numbers(st, r) = [k \in 1..SeasonCount(w.season) |-> k]
      BY <2>1 DEF Fits
    <3>2. slice = {i \in r.members : st.file[i].num \in Set(w.numbers)}
      BY <2>1
    <3> HIDE DEF slice
    <3> QED
      BY <3>1, <3>2, CoveredSlice
  <2>2. CASE ~covers
    <3>1. slice = r.members
      BY <2>2
    <3> QED
      BY <2>2, <3>1 DEF Fits
  <2> QED
    BY <2>1, <2>2
<1> HIDE DEF s, files, slice
<1>4. CASE s = st
  BY <1>4 DEF Good, Same
<1>5. CASE s = SetAside(st, r.whole, "HELD")
  BY <1>2, <1>5, SetAsideSound, KeepsRefuted DEF Good, Keeps
<1>6. CASE s = Bar(st, TRUE)
  BY <1>6, BarSound, KeepsRefuted DEF Good, Keeps
<1>7. CASE s = SetAside(a, r.superseded, "DUPLICATE")
  <2>1. Sound(z) /\ Keeps(z, st)
    BY <1>2, <1>3, PlaceZipSound DEF GoodWindow
  <2> HIDE DEF z
  <2>2. Sound(a) /\ Keeps(a, z)
    BY <1>2, <2>1, SetAsideSound
  <2> HIDE DEF a
  <2>3. Sound(s) /\ Keeps(s, a)
    BY <1>2, <1>7, <2>2, SetAsideSound
  <2>4. Keeps(s, st)
    BY <2>1, <2>2, <2>3, KeepsChain
  <2> QED
    BY <2>3, <2>4, KeepsRefuted DEF Good, Keeps
<1> QED
  BY <1>1, <1>4, <1>5, <1>6, <1>7

\* The one candidate left by the tie-breaks is a candidate.
LEMMA SoleCandidateIsOne ==
  ASSUME NEW st, NEW w, NEW tier, NEW candidates, NEW open
  PROVE  SoleCandidate(st, w, tier, candidates, open) \subseteq candidates
<1> DEFINE A == OpenFirst(candidates, open)
           B == ByTitles(st, w, A)
           C == ByName(st, B)
<1>1. A \subseteq candidates
  BY DEF OpenFirst
<1>2. B \subseteq A
  BY DEF ByTitles, Sole
<1>3. C \subseteq B
  BY DEF ByName, Sole
<1>4. Lone(BestTier(C, tier)) \subseteq C
  BY DEF Lone, BestTier
<1>5. SoleCandidate(st, w, tier, candidates, open) = Lone(BestTier(C, tier))
  BY DEF SoleCandidate
<1> HIDE DEF A, B, C
<1> QED
  BY <1>1, <1>2, <1>3, <1>4, <1>5

LEMMA ReleaseRunSound ==
  ASSUME NEW st, Sound(st), Refuted(st)
  PROVE  Good(ReleaseRun(st), st)
<1> DEFINE w == RunWindow(st)
           ofBatch == Runs(st, Remaining(st))
           tier == [r \in ofBatch |-> Tier(st, w, r)]
           disputed == Disputed(st, w, tier)
           v == VetoUnsettled(st, disputed)
           candidates == {r \in DOMAIN tier : tier[r] > 0}
           open == {r \in DOMAIN tier : ~SettledElsewhere(v, r)}
           b == Bar(v, Cardinality(candidates) > 1)
           pick == SoleCandidate(v, w, tier, candidates, open)
           r == Only(pick)
           s == ReleaseRun(st)
<1> SUFFICES Good(s, st)
  OBVIOUS
<1>1. s = IF w.ids = <<>> THEN st ELSE PlacePick(b, w, tier, pick, disputed, open)
  BY DEF ReleaseRun, OntoWindow, OnVetoed, JudgeRuns
<1>2. w.ids # <<>> => GoodWindow(st, w)
  BY RunWindowLists
<1>3. \A q \in ofBatch : q.members \in SUBSET Files(st)
  BY RunsAreOfFiles DEF Remaining, ToPlace
<1>4. DOMAIN tier = ofBatch /\ \A q \in ofBatch : tier[q] = Tier(st, w, q)
  OBVIOUS
<1> HIDE DEF s, w, ofBatch, tier, disputed, open
<1>5. Sound(v) /\ Refuted(v) /\ Same(v, st) /\ v.used = st.used
  BY VetoRereads, RereadsSound DEF Rereads, VetoUnsettled
<1>6. pick \subseteq candidates
  BY SoleCandidateIsOne
<1> HIDE DEF v, candidates
<1>7. Sound(b) /\ Keeps(b, v) /\ b.used = v.used
  BY <1>5, BarSound
<1> HIDE DEF b, pick
<1>8. Sound(b) /\ Refuted(b) /\ Same(b, st) /\ b.used = st.used
  BY <1>5, <1>7, KeepsRefuted DEF Keeps, Same
<1>9. CASE w.ids = <<>>
  BY <1>1, <1>9 DEF Good, Same
<1>10. CASE w.ids # <<>> /\ pick = {}
  BY <1>1, <1>8, <1>10 DEF PlacePick, Good
<1>11. CASE w.ids # <<>> /\ pick # {}
  <2>1. r \in candidates
    BY <1>6, <1>11 DEF Only
  <2>2. r \in ofBatch /\ tier[r] > 0 /\ tier[r] = Tier(st, w, r)
    BY <1>4, <2>1 DEF candidates
  <2>3. s = PlaceRun(b, w, r, tier[r] = 3, disputed, open)
    BY <1>1, <1>11 DEF PlacePick
  <2> HIDE DEF r
  <2>4. r.members \in SUBSET Files(st) /\ GoodWindow(st, w)
    BY <1>2, <1>3, <1>11, <2>2
  <2>5. Fits(st, w, r, tier[r] = 3)
    BY <2>2, <2>4, TierFits
  <2>6. Files(b) = Files(st) /\ Open(b) = Open(st) /\ b.file = st.file
    BY <1>8 DEF Same, Files, Open
  <2>7. Fits(b, w, r, tier[r] = 3) /\ GoodWindow(b, w) /\ r.members \in SUBSET Files(b)
    <3>1. InOrder(b, r.members) = InOrder(st, r.members)
      BY <2>6 DEF InOrder, Sorted
    <3> QED
      BY <2>4, <2>5, <2>6, <3>1 DEF Fits, GoodWindow, Numbers
  <2>8. Good(s, b)
    BY <1>8, <2>3, <2>7, PlaceRunSound
  <2> QED
    BY <1>8, <2>8 DEF Good, Same
<1> QED
  BY <1>9, <1>10, <1>11

-----------------------------------------------------------------------------
(* A call: the passes, one after another.                                    *)

Stage(n, st) ==
  /\ Sound(st) /\ (n = 1 => Remaining(st) \cap st.extra = {})
  /\ n \notin {0, 1} => Refuted(st)

LEMMA PassSound ==
  ASSUME NEW n \in 1..13, NEW st, Stage(n - 1, st)
  PROVE  Stage(n, Pass(n, st)) /\ Same(Pass(n, st), st)
<1>1. CASE n = 1
  BY <1>1, ExtrasSound DEF Pass, Stage
<1>2. CASE n = 2
  BY <1>2, RefuseRefutedSound DEF Pass, Stage, Good
<1>3. CASE n \in 3..13
  <2>1. Sound(st) /\ Refuted(st) /\ n \notin {0, 1}
    BY <1>3 DEF Stage
  <2>2. Good(Pass(n, st), st)
    <3>1. CASE n = 3
      BY <2>1, <3>1, RefuseDisputedSound DEF Pass
    <3>2. CASE n = 4
      BY <2>1, <3>2, RefuseOverlapsSound DEF Pass
    <3>3. CASE n = 5
      BY <2>1, <3>3, RereadSeasonRunsSound DEF Pass
    <3>4. CASE n = 6
      BY <2>1, <3>4, MisnumberedPackSound DEF Pass
    <3>5. CASE n = 7
      BY <2>1, <3>5, IdentitySound DEF Pass
    <3>6. CASE n = 8
      BY <2>1, <3>6, ReleaseRunSound DEF Pass
    <3>7. CASE n = 9
      BY <2>1, <3>7, ExactSound DEF Pass
    <3>8. CASE n = 10
      BY <2>1, <3>8, EpisodeTitleSound DEF Pass
    <3>9. CASE n = 11
      BY <2>1, <3>9, PositionalSound DEF Pass
    <3>10. CASE n = 12
      BY <2>1, <3>10, NumberedRunSound DEF Pass
    <3>11. CASE n = 13
      BY <2>1, <3>11, ClassifySound DEF Pass
    <3> QED
      BY <1>3, <3>1, <3>2, <3>3, <3>4, <3>5, <3>6, <3>7, <3>8, <3>9, <3>10, <3>11
  <2> QED
    BY <1>3, <2>2 DEF Good, Stage
<1> QED
  BY <1>1, <1>2, <1>3

\* The recursion of Assign over the first m passes.
PassesTo(start, f, m) ==
  f = [n \in 0..m |-> IF n = 0 THEN start ELSE Only({Pass(n, st) : st \in {f[n - 1]}})]

LEMMA PassesRun ==
  ASSUME NEW batch, NEW al, NEW window, NEW used
  PROVE  \E f : /\ PassesTo(Start(batch, al, window, used), f, 13)
                /\ Assign(batch, al, window, used) = f[13].place
<1> DEFINE start == Start(batch, al, window, used)
           S == {m \in 0..13 : \E f : PassesTo(start, f, m)}
           step(s, n) == Only({Pass(n, st) : st \in {s}})
<1>1. 0 \in S
  <2> DEFINE f == [n \in 0..0 |-> start]
  <2> HIDE DEF start
  <2>1. PassesTo(start, f, 0)
    BY DEF PassesTo
  <2> QED
    BY <2>1
<1>2. \A m \in 0..13 : m \in S /\ m < 13 => m + 1 \in S
  <2> TAKE m \in 0..13
  <2> HAVE m \in S /\ m < 13
  <2> HIDE DEF start
  <2>1. PICK f : PassesTo(start, f, m)
    OBVIOUS
  <2> DEFINE g == [n \in 0..(m + 1) |-> IF n = m + 1 THEN step(f[m], n) ELSE f[n]]
  <2>2. \A n \in 0..m : f[n] = IF n = 0 THEN start ELSE step(f[n - 1], n)
    BY <2>1 DEF PassesTo
  <2> HIDE DEF step
  <2>3. \A n \in 0..(m + 1) : g[n] = IF n = 0 THEN start ELSE step(g[n - 1], n)
    <3> TAKE n \in 0..(m + 1)
    <3>1. CASE n = m + 1
      BY <3>1
    <3>2. CASE n # m + 1
      <4>1. n \in 0..m /\ n - 1 # m + 1 /\ g[n] = f[n]
        BY <3>2
      <4>2. n # 0 => g[n - 1] = f[n - 1]
        BY <4>1
      <4> QED
        BY <2>2, <4>1, <4>2
    <3> QED
      BY <3>1, <3>2
  <2>4. g = [n \in 0..(m + 1) |-> IF n = 0 THEN start ELSE step(g[n - 1], n)]
    BY <2>3
  <2>5. PassesTo(start, g, m + 1)
    BY <2>4 DEF PassesTo, step
  <2> QED
    BY <2>5
<1>3. 13 \in S
  <2> HIDE DEF S
  <2>1. 0..13 \subseteq S
    BY <1>1, <1>2, UpTo
  <2> QED
    BY <2>1
<1> HIDE DEF start
<1>4. PICK f : PassesTo(start, f, 13)
  BY <1>3
<1> DEFINE after == CHOOSE g : PassesTo(start, g, 13)
<1>5. PassesTo(start, after, 13)
  BY <1>4
<1>6. Assign(batch, al, window, used) = after[13].place
  BY DEF Assign, PassesTo, start
<1> QED
  BY <1>5, <1>6 DEF start

\* What a call leaves each file: ids of the window that were free, no other file's and not
\* the ones its title contradicts, and a verdict when the record has not mapped it.
Assigned(batch, window, used, place) ==
  /\ DOMAIN place = DOMAIN batch.files
  /\ \A i \in DOMAIN place : /\ place[i].ids \subseteq window \ HeldIn(batch, window, used)
                             /\ place[i].ids # {} => batch.files[i].title \in {0} \cup place[i].ids
                             /\ batch.seed[i] = {} => Told(place[i].verdict, place[i].ids)
  /\ \A i, j \in DOMAIN place : i # j => place[i].ids \cap place[j].ids = {}

LEMMA AssignAssigns ==
  ASSUME NEW batch, GoodBatch(batch), NEW al, NEW window \in SUBSET Episodes, NEW used
  PROVE  Assigned(batch, window, used, Assign(batch, al, window, used))
<1> DEFINE start == Start(batch, al, window, used)
<1>1. /\ Sound(start) /\ start.before = HeldIn(batch, window, used) /\ start.window = window
      /\ DOMAIN start.file = DOMAIN batch.files
      /\ \A i \in DOMAIN batch.files : start.file[i].title = batch.files[i].title
      /\ start.batch = batch
  BY StartSound DEF Start
<1>2. PICK f : PassesTo(start, f, 13) /\ Assign(batch, al, window, used) = f[13].place
  BY PassesRun
<1> HIDE DEF start
<1>3. f[0] = start /\ \A n \in 1..13 : f[n] = Pass(n, f[n - 1])
  <2> DEFINE step(n) == Only({Pass(n, st) : st \in {f[n - 1]}})
  <2>1. \A n \in 0..13 : f[n] = IF n = 0 THEN start ELSE step(n)
    BY <1>2 DEF PassesTo
  <2>2. \A n : step(n) = Pass(n, f[n - 1])
    BY DEF Only
  <2> HIDE DEF step
  <2> QED
    BY <2>1, <2>2
<1> DEFINE S == {n \in 0..13 : Stage(n, f[n]) /\ Same(f[n], start)}
<1>4. 0 \in S
  BY <1>1, <1>3 DEF Stage, Same
<1>5. \A n \in 0..13 : n \in S /\ n < 13 => n + 1 \in S
  <2> TAKE n \in 0..13
  <2> HAVE n \in S /\ n < 13
  <2>1. n + 1 \in 1..13 /\ (n + 1) - 1 = n
    OBVIOUS
  <2>2. f[n + 1] = Pass(n + 1, f[n]) /\ Stage((n + 1) - 1, f[n])
    BY <1>3, <2>1
  <2>3. Stage(n + 1, f[n + 1]) /\ Same(f[n + 1], f[n])
    BY <2>1, <2>2, PassSound
  <2> QED
    BY <2>1, <2>3 DEF Same
<1> HIDE DEF S
<1>6. 0..13 \subseteq S
  BY <1>4, <1>5, UpTo
<1>7. Sound(f[13]) /\ Same(f[13], start)
  BY <1>6 DEF S, Stage
<1>8. Remaining(f[13]) = {}
  <2>1. 12 \in S /\ 13 \in 1..13 /\ 13 - 1 = 12 /\ 12 \notin {0, 1}
    BY <1>6
  <2>2. Sound(f[12]) /\ Refuted(f[12])
    BY <2>1 DEF S, Stage
  <2>3. f[13] = Classify(f[12])
    BY <1>3, <2>1 DEF Pass
  <2> QED
    BY <2>2, <2>3, ClassifySound
<1>9. \A i \in Files(f[13]) : batch.seed[i] = {} => Told(f[13].place[i].verdict, f[13].place[i].ids)
  BY <1>1, <1>7, <1>8 DEF Remaining, ToPlace, Judged, Sound, Same
<1>10. Files(f[13]) = DOMAIN batch.files /\ DOMAIN f[13].place = DOMAIN batch.files
  BY <1>1, <1>7 DEF Sound, Same, Files
<1>11. \A i \in DOMAIN batch.files :
         /\ f[13].place[i].ids \subseteq window \ HeldIn(batch, window, used)
         /\ f[13].place[i].ids # {} => batch.files[i].title \in {0} \cup f[13].place[i].ids
  BY <1>1, <1>7, <1>10 DEF Sound, Same, Contradicts
<1>12. \A i, j \in DOMAIN batch.files : i # j => f[13].place[i].ids \cap f[13].place[j].ids = {}
  BY <1>7, <1>10 DEF Sound
<1> QED
  BY <1>2, <1>9, <1>10, <1>11, <1>12 DEF Assigned

-----------------------------------------------------------------------------
(* The windows of a torrent, one after another.                              *)

LEMMA WindowOrderLists ==
  ASSUME torrent \in Torrents, NEW chosen \in SUBSET Entries
  PROVE  Lists(InWindowOrder(chosen), chosen)
<1> DEFINE class(al) == (IF AllSpecials(Window(al)) THEN 2 ELSE 0)
                          + (IF al \in torrent.ignored \cap torrent.lists THEN 1 ELSE 0)
           less(a, b) == class(a) < class(b) \/ (class(a) = class(b) /\ a < b)
           R == {p \in chosen \X chosen : less(p[1], p[2])}
           seq == InWindowOrder(chosen)
           at(n) == CHOOSE x \in chosen : Cardinality({y \in chosen : less(y, x)}) = n - 1
<1>2. seq = [n \in 1..Cardinality(chosen) |-> at(n)]
  BY DEF InWindowOrder, Sorted
<1>3. \A a \in chosen : class(a) \in Nat
  OBVIOUS
<1> HIDE DEF seq, class
<1>4. IsFiniteSet(chosen) /\ chosen \subseteq Nat
  BY ParseReadingAssumption, FS_Subset
<1>5. StrictOrder(R, chosen)
  <2>1. \A a, b \in chosen : <<a, b>> \in R <=> less(a, b)
    OBVIOUS
  <2>2. \A a \in chosen : a \in Nat /\ class(a) \in Nat
    BY <1>3, <1>4
  <2> HIDE DEF R
  <2>3. \A a \in chosen : <<a, a>> \notin R
    BY <2>1, <2>2
  <2>4. \A a, b \in chosen : a # b => <<a, b>> \in R \/ <<b, a>> \in R
    BY <2>1, <2>2
  <2>5. \A a, b, c \in chosen : <<a, b>> \in R /\ <<b, c>> \in R => <<a, c>> \in R
    BY <2>1, <2>2
  <2> QED
    BY <2>3, <2>4, <2>5 DEF StrictOrder
<1> HIDE DEF less
<1>6. \A x \in chosen : Rank(chosen, R, x) = Cardinality({y \in chosen : less(y, x)})
  <2>1. \A x \in chosen : {y \in chosen : <<y, x>> \in R} = {y \in chosen : less(y, x)}
    OBVIOUS
  <2> QED
    BY <2>1 DEF Rank
<1>7. \A n : (\E x \in chosen : Cardinality({y \in chosen : less(y, x)}) = n - 1) =>
               at(n) \in chosen /\ Cardinality({y \in chosen : less(y, at(n))}) = n - 1
  OBVIOUS
<1> HIDE DEF R, at
<1>8. \A n \in 1..Cardinality(chosen) :
        (\E x \in chosen : Rank(chosen, R, x) = n - 1) => seq[n] \in chosen /\ Rank(chosen, R, seq[n]) = n - 1
  BY <1>2, <1>6, <1>7
<1>9. DOMAIN seq = 1..Cardinality(chosen) /\ seq = [n \in 1..Cardinality(chosen) |-> seq[n]]
  BY <1>2
<1>10. Lists(seq, chosen)
  BY ONLY <1>4, <1>5, <1>8, <1>9, RanksList
<1> QED
  BY <1>10 DEF seq

\* The recursion of AcrossWindows over the first m windows.
NoneYet(batch, order) ==
  [used |-> {}, by |-> [i \in DOMAIN batch.files |-> 0], each |-> [al \in Set(order) |-> <<>>]]
AcrossTo(batch, order, f, m) ==
  f = [n \in 0..m |-> IF n = 0 THEN NoneYet(batch, order)
                      ELSE Only({UnderWindow(batch, s, order[n]) : s \in {f[n - 1]}})]

LEMMA AcrossRuns ==
  ASSUME NEW batch, NEW order, Len(order) \in Nat
  PROVE  \E f : AcrossTo(batch, order, f, Len(order)) /\ AcrossWindows(batch, order) = f[Len(order)]
<1> DEFINE L == Len(order)
           none == NoneYet(batch, order)
           S == {m \in 0..L : \E f : AcrossTo(batch, order, f, m)}
           step(s, n) == Only({UnderWindow(batch, x, order[n]) : x \in {s}})
<1>1. 0 \in S
  <2> DEFINE f == [n \in 0..0 |-> none]
  <2>1. AcrossTo(batch, order, f, 0)
    BY DEF AcrossTo
  <2> QED
    BY <2>1
<1>2. \A m \in 0..L : m \in S /\ m < L => m + 1 \in S
  <2> TAKE m \in 0..L
  <2> HAVE m \in S /\ m < L
  <2> HIDE DEF none
  <2>1. PICK f : AcrossTo(batch, order, f, m)
    OBVIOUS
  <2> DEFINE g == [n \in 0..(m + 1) |-> IF n = m + 1 THEN step(f[m], n) ELSE f[n]]
  <2>2. \A n \in 0..m : f[n] = IF n = 0 THEN none ELSE step(f[n - 1], n)
    BY <2>1 DEF AcrossTo, none
  <2> HIDE DEF step
  <2>3. \A n \in 0..(m + 1) : g[n] = IF n = 0 THEN none ELSE step(g[n - 1], n)
    <3> TAKE n \in 0..(m + 1)
    <3>1. CASE n = m + 1
      BY <3>1
    <3>2. CASE n # m + 1
      <4>1. n \in 0..m /\ n - 1 # m + 1 /\ g[n] = f[n]
        BY <3>2
      <4>2. n # 0 => g[n - 1] = f[n - 1]
        BY <4>1
      <4> QED
        BY <2>2, <4>1, <4>2
    <3> QED
      BY <3>1, <3>2
  <2>4. g = [n \in 0..(m + 1) |-> IF n = 0 THEN none ELSE step(g[n - 1], n)]
    BY <2>3
  <2>5. AcrossTo(batch, order, g, m + 1)
    BY <2>4 DEF AcrossTo, step, none
  <2> QED
    BY <2>5
<1>3. L \in S
  <2> HIDE DEF S
  <2>1. 0..L \subseteq S
    BY <1>1, <1>2, UpTo
  <2> QED
    BY <2>1
<1>4. PICK f : AcrossTo(batch, order, f, L)
  BY <1>3
<1> DEFINE after == CHOOSE g : AcrossTo(batch, order, g, L)
<1>5. AcrossTo(batch, order, after, L)
  BY <1>4
<1>6. AcrossWindows(batch, order) = after[L]
  BY DEF AcrossWindows, AcrossTo, NoneYet
<1> QED
  BY <1>5, <1>6

\* What the windows decided: disjoint ids, none of them seeded, none against a title.
Chosen(s, i) == s.each[s.by[i]][i].ids
Settled(batch, s, done) ==
  /\ DOMAIN s.by = DOMAIN batch.files /\ \A i \in DOMAIN s.by : s.by[i] # 0 => s.by[i] \in done
  /\ \A i \in DOMAIN s.by : s.by[i] # 0 =>
       /\ Chosen(s, i) \subseteq s.used
       /\ \A j \in DOMAIN batch.files : Chosen(s, i) \cap batch.seed[j] = {}
       /\ Chosen(s, i) # {} => batch.files[i].title \in {0} \cup Chosen(s, i)
  /\ \A i, j \in DOMAIN s.by : i # j /\ s.by[i] # 0 /\ s.by[j] # 0 => Chosen(s, i) \cap Chosen(s, j) = {}

\* What the windows said: one that decides a file is heard, and a file without one is undecided.
Heard(batch, s, done) ==
  /\ DOMAIN s.by = DOMAIN batch.files
  /\ \A al \in done : \A i \in DOMAIN batch.files :
       batch.seed[i] = {} => Told(s.each[al][i].verdict, s.each[al][i].ids) /\ s.each[al][i].ids \subseteq Window(al)
  /\ \A i \in DOMAIN batch.files : \/ s.by[i] \in done \ {0} /\ Decides(s.each[s.by[i]][i].verdict)
                                   \/ s.by[i] = 0 /\ \A al \in done : ~Decides(s.each[al][i].verdict)

\* A window not yet asked, and what it makes of the files.
Asked(batch, s, done, al, window, place) ==
  /\ done \subseteq DOMAIN s.each /\ al \in DOMAIN s.each \ done /\ al # 0 /\ window = Window(al)
  /\ Settled(batch, s, done) /\ Heard(batch, s, done) /\ Assigned(batch, window, s.used, place)
Answered(batch, s, done, al, place) ==
  /\ Settled(batch, Decided(s, al, place), done \cup {al}) /\ Heard(batch, Decided(s, al, place), done \cup {al})
  /\ DOMAIN Decided(s, al, place).each = DOMAIN s.each

LEMMA DecidedSettles ==
  ASSUME NEW batch, NEW s, NEW done, NEW al, NEW window, NEW place, Asked(batch, s, done, al, window, place)
  PROVE  Answered(batch, s, done, al, place)
<1> USE DEF Asked
<1> DEFINE t == Decided(s, al, place)
           news == {i \in DOMAIN place : s.by[i] = 0 /\ Decides(place[i].verdict)}
<1>1. /\ t.used = s.used \cup UNION {place[i].ids : i \in news}
      /\ DOMAIN t.by = DOMAIN s.by /\ \A i \in DOMAIN s.by : t.by[i] = IF i \in news THEN al ELSE s.by[i]
      /\ DOMAIN t.each = DOMAIN s.each /\ t.each[al] = place
      /\ \A a \in DOMAIN s.each : a # al => t.each[a] = s.each[a]
  BY DEF Decided
<1>2. news \subseteq DOMAIN place /\ \A i \in news : s.by[i] = 0
  OBVIOUS
<1>11. \A i \in DOMAIN place : i \in news <=> s.by[i] = 0 /\ Decides(place[i].verdict)
  OBVIOUS
<1> HIDE DEF t, news
<1>3. DOMAIN s.by = DOMAIN batch.files /\ DOMAIN place = DOMAIN batch.files
  BY DEF Settled, Assigned
<1>4. \A i \in news : t.by[i] = al /\ Chosen(t, i) = place[i].ids /\ place[i].ids \subseteq t.used
  BY <1>1, <1>2, <1>3 DEF Chosen
<1>5. \A i \in DOMAIN s.by : i \notin news /\ s.by[i] # 0 =>
         t.by[i] = s.by[i] /\ s.by[i] \in done /\ Chosen(t, i) = Chosen(s, i) /\ Chosen(s, i) \subseteq s.used
  <2>1. \A a \in done : t.each[a] = s.each[a]
    BY <1>1
  <2> QED
    BY <1>1, <2>1 DEF Settled, Chosen
<1>6. \A i \in DOMAIN place : /\ place[i].ids \cap s.used = {}
                              /\ \A j \in DOMAIN batch.files : place[i].ids \cap batch.seed[j] = {}
  BY DEF Assigned, HeldIn
<1>7. \A i \in DOMAIN t.by : t.by[i] # 0 => t.by[i] \in done \cup {al}
  BY <1>1, <1>4, <1>5
<1>8. \A i \in DOMAIN t.by : t.by[i] # 0 =>
        /\ Chosen(t, i) \subseteq t.used
        /\ \A j \in DOMAIN batch.files : Chosen(t, i) \cap batch.seed[j] = {}
        /\ Chosen(t, i) # {} => batch.files[i].title \in {0} \cup Chosen(t, i)
  <2> SUFFICES ASSUME NEW i \in DOMAIN t.by, t.by[i] # 0
               PROVE  /\ Chosen(t, i) \subseteq t.used
                      /\ \A j \in DOMAIN batch.files : Chosen(t, i) \cap batch.seed[j] = {}
                      /\ Chosen(t, i) # {} => batch.files[i].title \in {0} \cup Chosen(t, i)
    OBVIOUS
  <2>1. CASE i \in news
    BY <1>1, <1>2, <1>4, <1>6, <2>1 DEF Assigned
  <2>2. CASE i \notin news
    <3>1. i \in DOMAIN s.by /\ s.by[i] # 0
      BY <1>1, <2>2
    <3> QED
      BY <1>1, <1>5, <2>2, <3>1 DEF Settled
  <2> QED
    BY <2>1, <2>2
<1>9. \A i, j \in DOMAIN t.by : i # j /\ t.by[i] # 0 /\ t.by[j] # 0 => Chosen(t, i) \cap Chosen(t, j) = {}
  <2> SUFFICES ASSUME NEW i \in DOMAIN t.by, NEW j \in DOMAIN t.by, i # j, t.by[i] # 0, t.by[j] # 0
               PROVE  Chosen(t, i) \cap Chosen(t, j) = {}
    OBVIOUS
  <2>1. /\ i \in DOMAIN s.by /\ j \in DOMAIN s.by
        /\ i \notin news => s.by[i] # 0
        /\ j \notin news => s.by[j] # 0
    BY <1>1
  <2>2. CASE i \in news /\ j \in news
    BY <1>2, <1>4, <2>2 DEF Assigned
  <2>3. CASE i \in news /\ j \notin news
    BY <1>2, <1>4, <1>5, <1>6, <2>1, <2>3
  <2>4. CASE i \notin news /\ j \in news
    BY <1>2, <1>4, <1>5, <1>6, <2>1, <2>4
  <2>5. CASE i \notin news /\ j \notin news
    BY <1>5, <2>1, <2>5 DEF Settled
  <2> QED
    BY <2>2, <2>3, <2>4, <2>5
<1>10. Settled(batch, t, done \cup {al})
  BY <1>1, <1>3, <1>7, <1>8, <1>9 DEF Settled
<1>12. \A a \in done : t.each[a] = s.each[a]
  BY <1>1
<1>13. \A i \in DOMAIN batch.files :
         batch.seed[i] = {} => Told(place[i].verdict, place[i].ids) /\ place[i].ids \subseteq Window(al)
  BY <1>3 DEF Assigned
<1>14. \A i \in DOMAIN batch.files :
         \/ t.by[i] \in (done \cup {al}) \ {0} /\ Decides(t.each[t.by[i]][i].verdict)
         \/ t.by[i] = 0 /\ \A a \in done \cup {al} : ~Decides(t.each[a][i].verdict)
  <2> TAKE i \in DOMAIN batch.files
  <2>1. CASE s.by[i] # 0
    BY <1>1, <1>2, <1>3, <1>12, <2>1 DEF Heard
  <2>2. CASE s.by[i] = 0 /\ Decides(place[i].verdict)
    BY <1>1, <1>3, <1>11, <2>2
  <2>3. CASE s.by[i] = 0 /\ ~Decides(place[i].verdict)
    BY <1>1, <1>3, <1>11, <1>12, <2>3 DEF Heard
  <2> QED
    BY <2>1, <2>2, <2>3
<1>15. Heard(batch, t, done \cup {al})
  BY <1>1, <1>3, <1>12, <1>13, <1>14 DEF Heard
<1> QED
  BY <1>1, <1>10, <1>15 DEF t, Answered

LEMMA AcrossWindowsSettle ==
  ASSUME torrent \in Torrents, NEW batch, GoodBatch(batch), NEW chosen \in SUBSET Entries,
         NEW order, Lists(order, chosen)
  PROVE  LET across == AcrossWindows(batch, order)
         IN /\ Settled(batch, across, Set(order)) /\ Heard(batch, across, Set(order))
            /\ DOMAIN across.each = Set(order)
<1> DEFINE L == Len(order)
           upTo(n) == {order[m] : m \in 1..n}
<1>1. /\ L \in Nat /\ DOMAIN order = 1..L /\ \A n \in 1..L : order[n] \in chosen
      /\ \A m, n \in 1..L : order[m] = order[n] => m = n
  BY DEF Lists
<1>2. PICK f : AcrossTo(batch, order, f, L) /\ AcrossWindows(batch, order) = f[L]
  BY <1>1, AcrossRuns
<1>3. /\ f[0] = NoneYet(batch, order)
      /\ \A n \in 1..L : f[n] = Decided(f[n - 1], order[n], Assign(batch, order[n], Window(order[n]), f[n - 1].used))
  <2> DEFINE step(n) == Only({UnderWindow(batch, s, order[n]) : s \in {f[n - 1]}})
  <2>1. \A n \in 0..L : f[n] = IF n = 0 THEN NoneYet(batch, order) ELSE step(n)
    BY <1>2 DEF AcrossTo
  <2>2. \A n : step(n) = UnderWindow(batch, f[n - 1], order[n])
    BY DEF Only
  <2>3. \A s, al : UnderWindow(batch, s, al) = Decided(s, al, Assign(batch, al, Window(al), s.used))
    <3> TAKE s, al
    <3> DEFINE place == Assign(batch, al, Window(al), s.used)
    <3>1. UnderWindow(batch, s, al) = Only({Decided(s, al, p) : p \in {place}})
      BY DEF UnderWindow
    <3> HIDE DEF place
    <3>2. Only({Decided(s, al, p) : p \in {place}}) = Decided(s, al, place)
      BY DEF Only
    <3> QED
      BY <3>1, <3>2 DEF place
  <2> HIDE DEF step
  <2>4. \A n \in 1..L : n \in 0..L /\ n # 0
    BY <1>1
  <2>5. 0 \in 0..L
    BY <1>1
  <2> QED
    BY <2>1, <2>2, <2>3, <2>4, <2>5
<1> DEFINE S == {n \in 0..L : Settled(batch, f[n], upTo(n)) /\ Heard(batch, f[n], upTo(n)) /\ DOMAIN f[n].each = Set(order)}
<1>4. 0 \in S
  <2>1. upTo(0) = {}
    OBVIOUS
  <2>2. DOMAIN f[0].by = DOMAIN batch.files /\ (\A i \in DOMAIN f[0].by : f[0].by[i] = 0)
        /\ DOMAIN f[0].each = Set(order)
    BY <1>3 DEF NoneYet
  <2> QED
    BY <1>1, <2>1, <2>2 DEF Settled, Heard
<1>5. \A n \in 0..L : n \in S /\ n < L => n + 1 \in S
  <2> TAKE n \in 0..L
  <2> HAVE n \in S /\ n < L
  <2>1. n + 1 \in 1..L /\ (n + 1) - 1 = n /\ n \in Nat
    BY <1>1
  <2>2. PICK al : al = order[n + 1]
    OBVIOUS
  <2>3. PICK s : s = f[n]
    OBVIOUS
  <2>4. PICK window : window = Window(al)
    OBVIOUS
  <2>5. PICK place : place = Assign(batch, al, window, s.used)
    OBVIOUS
  <2>6. PICK done : done = upTo(n)
    OBVIOUS
  <2>7. f[n + 1] = Decided(s, al, place)
    BY <1>3, <2>1, <2>2, <2>3, <2>4, <2>5
  <2>8. al \in Entries /\ al \in Set(order) /\ done \subseteq Set(order) /\ al \notin done
    BY <1>1, <2>1, <2>2, <2>6 DEF Set
  <2>9. upTo(n + 1) = done \cup {al}
    BY <2>1, <2>2, <2>6
  <2>10. window \in SUBSET Episodes
    BY <2>4, <2>8 DEF Window, Torrents
  <2>11. Assigned(batch, window, s.used, place)
    BY <2>5, <2>10, AssignAssigns
  <2>12. Settled(batch, s, done) /\ Heard(batch, s, done) /\ DOMAIN s.each = Set(order)
    BY <2>3, <2>6
  <2> HIDE DEF S, upTo
  <2>13. /\ Settled(batch, Decided(s, al, place), done \cup {al}) /\ Heard(batch, Decided(s, al, place), done \cup {al})
         /\ DOMAIN Decided(s, al, place).each = DOMAIN s.each
    <3>1. Asked(batch, s, done, al, window, place)
      BY <2>4, <2>8, <2>11, <2>12, ParseReadingAssumption DEF Asked
    <3>2. Answered(batch, s, done, al, place)
      BY <3>1, DecidedSettles
    <3> QED
      BY <3>2 DEF Answered
  <2>14. Settled(batch, f[n + 1], upTo(n + 1)) /\ Heard(batch, f[n + 1], upTo(n + 1)) /\ DOMAIN f[n + 1].each = Set(order)
    BY <2>7, <2>9, <2>12, <2>13
  <2>15. n + 1 \in 0..L
    BY <2>1
  <2> QED
    BY <2>14, <2>15 DEF S
<1> HIDE DEF S
<1>6. 0..L \subseteq S
  BY <1>1, <1>4, <1>5, UpTo
<1>7. L \in S /\ upTo(L) = Set(order)
  BY <1>1, <1>6 DEF Set
<1> QED
  BY <1>2, <1>7 DEF S

-----------------------------------------------------------------------------
(* The record: what it maps are ids of one file each, none its title         *)
(* contradicts.                                                              *)

GoodMap(map) ==
  /\ DOMAIN map = Names
  /\ \A i, j \in Names : i # j => map[i] \cap map[j] = {}
  /\ \A i \in Names : map[i] # {} => torrent.files[i].title \in {0} \cup map[i]

LEMMA BatchIsGood ==
  ASSUME torrent \in Torrents, NEW map, NEW reads, NEW miss
  PROVE  LET batch == Batch(map, reads, miss)
         IN /\ GoodBatch(batch) /\ DOMAIN batch.files = Names /\ batch.seed = map
            /\ \A i \in Names : batch.files[i].title = torrent.files[i].title
<1> DEFINE batch == Batch(map, reads, miss)
<1>1. /\ batch.files = [i \in Names |-> [torrent.files[i] EXCEPT !.known = @ /\ i # miss]]
      /\ batch.seed = map /\ batch.alias = torrent.alias
  BY DEF Batch
<1> HIDE DEF batch
<1>2. torrent.files \in Seq(FileReads) /\ OneAlias(torrent.alias)
  BY DEF Torrents, OneAlias
<1>3. Names = 1..Len(torrent.files) /\ Len(torrent.files) \in Nat /\ \A i \in Names : torrent.files[i] \in FileReads
  BY <1>2 DEF Names
<1>4. \A i \in Names : batch.files[i] \in FileReads /\ batch.files[i].title = torrent.files[i].title
  <2> TAKE i \in Names
  <2>1. PICK p \in FileReads : p = torrent.files[i]
    BY <1>3
  <2>2. PICK known \in BOOLEAN : known = (p.known /\ i # miss)
    OBVIOUS
  <2>3. batch.files[i] = [p EXCEPT !.known = known]
    BY <1>1, <2>1, <2>2
  <2>4. [p EXCEPT !.known = known] \in FileReads /\ [p EXCEPT !.known = known].title = p.title
    BY DEF FileReads
  <2> QED
    BY <2>1, <2>3, <2>4
<1>5. batch.files \in Seq(FileReads)
  <2>1. batch.files = [i \in 1..Len(torrent.files) |-> batch.files[i]]
    BY <1>1, <1>3
  <2> QED
    BY <1>3, <1>4, <2>1
<1> QED
  BY <1>1, <1>2, <1>4, <1>5 DEF GoodBatch, batch

LEMMA MergedIsChosen ==
  ASSUME NEW across, NEW i
  PROVE  \/ MergedFile(across, i).ids = {}
         \/ across.by[i] # 0 /\ MergedFile(across, i).ids = Chosen(across, i)
  BY DEF MergedFile, Chosen

LEMMA JoinedIsGood ==
  ASSUME NEW batch, DOMAIN batch.files = Names, GoodMap(batch.seed),
         \A i \in Names : batch.files[i].title = torrent.files[i].title,
         NEW across, NEW done, Settled(batch, across, done), NEW imports
  PROVE  GoodMap(Joined(batch.seed, ForRecord(across, batch.seed, imports)))
<1> DEFINE place == ForRecord(across, batch.seed, imports)
           map == Joined(batch.seed, place)
<1>1. DOMAIN map = Names
  BY DEF Joined
<1>2. \A i \in Names : place[i].ids = {} \/ (across.by[i] # 0 /\ place[i].ids = Chosen(across, i))
  <2> TAKE i \in Names
  <2>1. place[i].ids = {} \/ place[i] = MergedFile(across, i)
    BY DEF ForRecord
  <2> HIDE DEF place
  <2> QED
    BY <2>1, MergedIsChosen
<1>3. \A i \in Names : \/ map[i] = {} \/ map[i] = batch.seed[i] \/ map[i] = place[i].ids
  <2> HIDE DEF place
  <2> QED
    BY DEF Joined
<1> HIDE DEF map, place
<1>4. \A i \in Names : \/ map[i] = {} \/ map[i] = batch.seed[i]
                       \/ across.by[i] # 0 /\ map[i] = Chosen(across, i)
  BY <1>2, <1>3
<1>5. DOMAIN across.by = Names
  BY DEF Settled
<1>6. \A i, j \in Names : i # j => map[i] \cap map[j] = {}
  <2> SUFFICES ASSUME NEW i \in Names, NEW j \in Names, i # j PROVE map[i] \cap map[j] = {}
    OBVIOUS
  <2>1. batch.seed[i] \cap batch.seed[j] = {}
    BY DEF GoodMap
  <2>2. /\ across.by[i] # 0 => Chosen(across, i) \cap batch.seed[j] = {}
        /\ across.by[j] # 0 => Chosen(across, j) \cap batch.seed[i] = {}
        /\ across.by[i] # 0 /\ across.by[j] # 0 => Chosen(across, i) \cap Chosen(across, j) = {}
    BY <1>5 DEF Settled
  <2>3. /\ map[i] = {} \/ map[i] = batch.seed[i] \/ (across.by[i] # 0 /\ map[i] = Chosen(across, i))
        /\ map[j] = {} \/ map[j] = batch.seed[j] \/ (across.by[j] # 0 /\ map[j] = Chosen(across, j))
    BY <1>4
  <2> QED
    BY <2>1, <2>2, <2>3
<1>7. \A i \in Names : map[i] # {} => torrent.files[i].title \in {0} \cup map[i]
  <2> SUFFICES ASSUME NEW i \in Names, map[i] # {} PROVE torrent.files[i].title \in {0} \cup map[i]
    OBVIOUS
  <2>1. CASE map[i] = batch.seed[i]
    BY <2>1 DEF GoodMap
  <2>2. CASE across.by[i] # 0 /\ map[i] = Chosen(across, i)
    BY <1>5, <2>2 DEF Settled
  <2> QED
    BY <1>4, <2>1, <2>2
<1> QED
  BY <1>1, <1>6, <1>7 DEF GoodMap, map, place

\* The inductive invariant.
RecordIsGood ==
  /\ torrent \in Torrents /\ record.claims \in SUBSET Entries
  /\ record.stored => GoodMap(record.map)

LEMMA GrabKeepsTheRecordGood ==
  ASSUME RecordIsGood, NEW own \in Entries, NEW reads, NEW miss, Grab(own, reads, miss)
  PROVE  RecordIsGood'
<1>1. PICK order : order = OrderedWindows(record.claims, own)
  OBVIOUS
<1>2. PICK batch : batch = Batch(SeedOf(record), reads, miss)
  OBVIOUS
<1>3. PICK across : across = AcrossWindows(batch, order)
  OBVIOUS
<1>4. PICK place : place = ForRecord(across, batch.seed, record.claims \cup {own})
  OBVIOUS
<1>5. PICK map : map = Joined(batch.seed, place)
  OBVIOUS
<1>6. torrent' = torrent /\ (record' = record \/ record' = Accreted(record, place, map, own))
  BY <1>1, <1>2, <1>3, <1>4, <1>5 DEF Grab
<1>7. PICK chosen \in SUBSET Entries : Lists(order, chosen)
  <2>1. Listing \cup record.claims \cup {own} \in SUBSET Entries
    BY DEF RecordIsGood, Listing, Torrents
  <2> QED
    BY <1>1, <2>1, WindowOrderLists DEF RecordIsGood, OrderedWindows
<1>8. /\ GoodBatch(batch) /\ DOMAIN batch.files = Names /\ batch.seed = SeedOf(record)
      /\ \A i \in Names : batch.files[i].title = torrent.files[i].title
  BY <1>2, BatchIsGood DEF RecordIsGood
<1>9. GoodMap(batch.seed)
  BY <1>8 DEF RecordIsGood, SeedOf, GoodMap, Unmapped
<1>10. Settled(batch, across, Set(order))
  BY <1>3, <1>7, <1>8, AcrossWindowsSettle DEF RecordIsGood
<1>11. GoodMap(map)
  BY <1>4, <1>5, <1>8, <1>9, <1>10, JoinedIsGood
<1>12. Accreted(record, place, map, own).map = map
       /\ Accreted(record, place, map, own).claims = record.claims \cup {own}
  BY DEF Accreted
<1>13. record'.claims \in SUBSET Entries
  BY <1>6, <1>12 DEF RecordIsGood
<1>14. Names' = Names
  BY <1>6 DEF Names
<1>15. record'.stored => GoodMap(record'.map)
  BY <1>6, <1>11, <1>12 DEF RecordIsGood
<1>16. record'.stored => GoodMap(record.map)'
  BY <1>6, <1>14, <1>15 DEF GoodMap
<1> QED
  BY <1>6, <1>13, <1>16 DEF RecordIsGood

LEMMA TheRecordStaysGood == PlacementSpec => []RecordIsGood
<1>1. PlacementInit => RecordIsGood
  BY DEF PlacementInit, NoRecord, RecordIsGood
<1>2. RecordIsGood /\ [PlacementNext]_placementVars => RecordIsGood'
  <2> SUFFICES ASSUME RecordIsGood, [PlacementNext]_placementVars PROVE RecordIsGood'
    OBVIOUS
  <2>1. ASSUME NEW own \in Entries, NEW reads \in Reads, NEW miss \in Names \cup {0}, Grab(own, reads, miss)
        PROVE  RecordIsGood'
    BY <2>1, GrabKeepsTheRecordGood
  <2>2. CASE Retire
    BY <2>2 DEF Retire, NoRecord, RecordIsGood
  <2>3. CASE UNCHANGED placementVars
    BY <2>3 DEF placementVars, RecordIsGood, GoodMap, Names
  <2> QED
    BY <2>1, <2>2, <2>3 DEF PlacementNext
<1> QED
  BY <1>1, <1>2, PTL DEF PlacementSpec

\* However the entries' grabs of any torrent interleave and fail, no two of its files are
\* mapped to one episode, whatever their names and parses say (assign_episode_ids,
\* place_across_windows, PlacementBatch.seeded).
THEOREM EpisodesAreMappedOnce == PlacementSpec => []NoEpisodeTwice
<1>1. RecordIsGood => NoEpisodeTwice
  BY DEF RecordIsGood, GoodMap, NoEpisodeTwice
<1> QED
  BY <1>1, TheRecordStaysGood, PTL

\* No pass maps a file of any torrent to episodes its own title contradicts: a title
\* refutes a number, a zip, an alias and a size (Placer.place_zip, pass_refuse_refuted).
THEOREM TitlesStand == PlacementSpec => []TitleNeverContradicted
<1>1. RecordIsGood => TitleNeverContradicted
  BY DEF RecordIsGood, GoodMap, TitleNeverContradicted, Mapped
<1> QED
  BY <1>1, TheRecordStaysGood, PTL

-----------------------------------------------------------------------------
(* Who takes the torrent: placed with no record before, its files give some  *)
(* entry a reason to grab it, and that entry or a grabber keeps it.          *)

\* HoldOf by its parts, in the order they are looked at.
Unmappeds(batch) == {i \in Names : batch.seed[i] = {}}
MisnumberedFor(across, own, batch) ==
  \E i \in Unmappeds(batch) : MergedFile(across, i).verdict = "MISNUMBERED" /\ Party(across.each[own][i].verdict)
Unread(batch, reads) == reads = "identities" \/ (Unmappeds(batch) # {} /\ \E i \in Names : ~batch.files[i].known)
RefutedFor(across, own, batch) ==
  \E i \in Unmappeds(batch) : MergedFile(across, i).verdict = "TITLE_REFUTED" /\ across.each[own][i].verdict = "TITLE_REFUTED"
Placed(map, own) == (UNION {map[i] : i \in Names}) \cap Window(own)
LeftToOthers(across, own, order, map, batch) ==
  {i \in Unmappeds(batch) : ListedElsewhere(across, i, {own})}
    \cup {i \in Names : map[i] \cap UNION {Window(al) : al \in Set(order) \ {own}} # {}}

LEMMA HoldOfIs ==
  ASSUME NEW across, NEW own, NEW order, NEW map, NEW batch, NEW reads, NEW why,
         why = HoldOf(across, own, order, map, batch, reads)
  PROVE  /\ why \in {"none", "PLACED_ELSEWHERE"} => ~MisnumberedFor(across, own, batch) /\ ~Unread(batch, reads)
         /\ Placed(map, own) # {} => why # "PLACED_ELSEWHERE"
         /\ why = "PLACED_ELSEWHERE" =>
              ~RefutedFor(across, own, batch) /\ LeftToOthers(across, own, order, map, batch) # {}
         /\ why = "none" => Placed(map, own) # {} \/ LeftToOthers(across, own, order, map, batch) = {}
<1> DEFINE m == MisnumberedFor(across, own, batch)
           u == Unread(batch, reads)
           r == RefutedFor(across, own, batch)
           c == Placed(map, own)
           o == LeftToOthers(across, own, order, map, batch)
<1>1. why = CASE m -> "MISNUMBERED"
              [] ~m /\ u -> "INPUT_UNREAD"
              [] OTHER -> IF c # {} THEN "none"
                          ELSE IF r THEN "TITLE_REFUTED"
                          ELSE IF o # {} THEN "PLACED_ELSEWHERE" ELSE "none"
  BY DEF HoldOf, MisnumberedFor, Unread, RefutedFor, Placed, LeftToOthers, Unmappeds
<1> HIDE DEF m, u, r, c, o
<1>2. CASE m
  <2>1. why = "MISNUMBERED"
    BY <1>1, <1>2
  <2> QED
    BY <2>1
<1>3. CASE ~m /\ u
  <2>1. why = "INPUT_UNREAD"
    BY <1>1, <1>3
  <2> QED
    BY <2>1
<1>4. CASE ~m /\ ~u
  <2>1. why = IF c # {} THEN "none" ELSE IF r THEN "TITLE_REFUTED" ELSE IF o # {} THEN "PLACED_ELSEWHERE" ELSE "none"
    BY <1>1, <1>4
  <2> QED
    BY <1>4, <2>1 DEF m, u, r, c, o
<1> QED
  BY <1>2, <1>3, <1>4 DEF m, u

\* What placing the torrent afresh says.
ScratchBatch == Batch(Unmapped, "all", 0)
Scratch == AcrossWindows(ScratchBatch, InWindowOrder(Listing))
Said(al, i) == Scratch.each[al][i]
Merged(i) == MergedFile(Scratch, i)
ScratchMap(own) == Joined(Unmapped, ForRecord(Scratch, Unmapped, {own}))
ScratchHold(own) == HoldOf(Scratch, own, InWindowOrder(Listing), ScratchMap(own), ScratchBatch, "all")

LEMMA ScratchSays ==
  ASSUME torrent \in Torrents
  PROVE  /\ DOMAIN Scratch.each = Listing /\ DOMAIN Scratch.by = Names /\ Listing \in SUBSET (Nat \ {0})
         /\ \A al \in Listing : \A i \in Names : Told(Said(al, i).verdict, Said(al, i).ids) /\ Said(al, i).ids \subseteq Window(al)
         /\ \A i \in Names : \/ Scratch.by[i] \in Listing \ {0} /\ Decides(Said(Scratch.by[i], i).verdict)
                             \/ Scratch.by[i] = 0 /\ \A al \in Listing : ~Decides(Said(al, i).verdict)
         /\ ScratchBatch.seed = Unmapped /\ Unmappeds(ScratchBatch) = Names
<1>1. Listing \in SUBSET Entries
  BY DEF Listing, Torrents
<1>2. IsFiniteSet(Listing) /\ Listing \in SUBSET (Nat \ {0})
  BY <1>1, ParseReadingAssumption, FS_Subset
<1>3. PICK order : order = InWindowOrder(Listing)
  OBVIOUS
<1>4. Lists(order, Listing)
  BY <1>1, <1>3, WindowOrderLists
<1>5. Set(order) = Listing
  <2>1. \A x \in Listing : \E n \in DOMAIN order : order[n] = x
    BY <1>2, <1>4, ListsAll
  <2>2. \A n \in DOMAIN order : order[n] \in Listing
    BY <1>4 DEF Lists
  <2> QED
    BY <2>1, <2>2 DEF Set
<1>6. PICK batch : batch = ScratchBatch
  OBVIOUS
<1>7. GoodBatch(batch) /\ DOMAIN batch.files = Names /\ batch.seed = Unmapped
  BY <1>6, BatchIsGood DEF ScratchBatch
<1>8. \A i \in Names : batch.seed[i] = {}
  BY <1>7 DEF Unmapped
<1>9. PICK across : across = AcrossWindows(batch, order)
  OBVIOUS
<1>10. Heard(batch, across, Listing) /\ DOMAIN across.each = Listing
  BY <1>1, <1>4, <1>5, <1>7, <1>9, AcrossWindowsSettle
<1>11. Scratch = across
  BY <1>3, <1>6, <1>9 DEF Scratch
<1> QED
  BY <1>2, <1>6, <1>7, <1>8, <1>10, <1>11 DEF Heard, Said, Unmappeds

\* A file's one verdict is the deciding window's, or some window's, or the aliases' dispute.
LEMMA MergedIsSaid ==
  ASSUME torrent \in Torrents, Listing # {}, NEW i \in Names
  PROVE  \/ Merged(i).verdict = "MISNUMBERED" /\ \E p \in Listing : Decides(Said(p, i).verdict)
         \/ Scratch.by[i] \in Listing /\ Merged(i) = Said(Scratch.by[i], i) /\ Decides(Merged(i).verdict)
         \/ Merged(i).verdict \in Refusals \ Refusing /\ \E p \in Listing : Said(p, i).verdict = Merged(i).verdict
<1> DEFINE judged == {Scratch.each[al][i] : al \in DOMAIN Scratch.each}
           aliased == {p.ids : p \in {p \in judged : p.verdict \in ByAlias}}
           numbered == {p.ids : p \in {p \in judged : p.verdict \in Placing \ ByAlias}}
           ranks == {n \in DOMAIN ClaimRank : \E p \in judged : p.verdict = ClaimRank[n]}
           disputed == aliased # {} /\ ~(numbered \subseteq aliased)
<1>1. Merged(i) = IF disputed THEN [ids |-> {}, verdict |-> "MISNUMBERED"]
                  ELSE IF Scratch.by[i] # 0 THEN Scratch.each[Scratch.by[i]][i]
                  ELSE [ids |-> {}, verdict |-> ClaimRank[Max(ranks)]]
  BY DEF Merged, MergedFile
<1>2. judged = {Said(al, i) : al \in Listing}
  BY ScratchSays DEF Said
<1>3. CASE disputed
  <2>1. PICK p \in judged : p.verdict \in Placing \ ByAlias
    BY <1>3
  <2>2. PICK al \in Listing : p = Said(al, i)
    BY <1>2
  <2>3. Decides(Said(al, i).verdict)
    BY <2>1, <2>2 DEF Decides
  <2>4. Merged(i).verdict = "MISNUMBERED"
    BY <1>1, <1>3
  <2> QED
    BY <2>3, <2>4
<1>4. CASE ~disputed /\ Scratch.by[i] # 0
  <2>1. Merged(i) = Said(Scratch.by[i], i)
    BY <1>1, <1>4 DEF Said
  <2>2. Scratch.by[i] \in Listing /\ Decides(Said(Scratch.by[i], i).verdict)
    BY <1>4, ScratchSays
  <2> QED
    BY <2>1, <2>2
<1>5. CASE ~disputed /\ Scratch.by[i] = 0
  <2>1. PICK q : q \in Listing
    OBVIOUS
  <2>2. Said(q, i).verdict \in Refusals \ Refusing
    BY <1>5, <2>1, ScratchSays DEF Told, Decides
  <2>3. DOMAIN ClaimRank = 1..6 /\ \A v \in Refusals \ Refusing : \E n \in 1..6 : ClaimRank[n] = v
    <3>1. DOMAIN ClaimRank = 1..6
      BY DEF ClaimRank
    <3>2. /\ ClaimRank[1] = "EXTRA" /\ ClaimRank[2] = "FOREIGN" /\ ClaimRank[3] = "ALIASED_ELSEWHERE"
          /\ ClaimRank[4] = "SKIPPED" /\ ClaimRank[5] = "DUPLICATE" /\ ClaimRank[6] = "TITLE_REFUTED"
      BY DEF ClaimRank
    <3>3. 1 \in 1..6 /\ 2 \in 1..6 /\ 3 \in 1..6 /\ 4 \in 1..6 /\ 5 \in 1..6 /\ 6 \in 1..6
      OBVIOUS
    <3>4. \A v \in Refusals \ Refusing :
            v \in {"EXTRA", "FOREIGN", "ALIASED_ELSEWHERE", "SKIPPED", "DUPLICATE", "TITLE_REFUTED"}
      BY DEF Refusals
    <3> QED
      BY <3>1, <3>2, <3>3, <3>4
  <2>4. ranks \subseteq 1..6 /\ ranks # {}
    BY <1>2, <2>1, <2>2, <2>3
  <2>5. Max(ranks) \in ranks
    <3>1. IsFiniteSet(ranks) /\ ranks \subseteq Nat
      <4>1. PICK a \in Int, b \in Int : a = 1 /\ b = 6
        OBVIOUS
      <4>2. IsFiniteSet(a..b)
        BY FS_Interval
      <4> HIDE DEF ranks
      <4>3. ranks \subseteq a..b /\ a..b \subseteq Nat
        BY <2>4, <4>1
      <4> QED
        BY <4>2, <4>3, FS_Subset
    <3> HIDE DEF ranks
    <3>2. PICK n \in ranks : \A k \in ranks : k <= n
      BY <2>4, <3>1, HasMax
    <3> QED
      BY <3>1, <3>2 DEF Max
  <2>6. PICK top : top = Max(ranks)
    OBVIOUS
  <2>7. PICK p \in judged : p.verdict = ClaimRank[top]
    BY <2>5, <2>6
  <2>8. PICK al \in Listing : p = Said(al, i)
    BY <1>2
  <2>9. Merged(i).verdict = ClaimRank[top]
    BY <1>1, <1>5, <2>6
  <2>10. Said(al, i).verdict \in Refusals \ Refusing
    BY <1>5, <2>3, <2>5, <2>6, <2>7, <2>8, <2>9, ScratchSays DEF Told, Decides
  <2> QED
    BY <2>7, <2>8, <2>9, <2>10
<1> QED
  BY <1>3, <1>4, <1>5

\* Placed afresh, a file somebody is given is mapped by that entry's grab.
LEMMA DeciderMaps ==
  ASSUME torrent \in Torrents, Listing # {}, NEW i \in Names, NEW p, p = Scratch.by[i], Merged(i).verdict \in Placing
  PROVE  /\ p \in Listing /\ Merged(i) = Said(p, i)
         /\ Merged(i).ids # {} /\ Merged(i).ids \subseteq Window(p)
         /\ ScratchMap(p)[i] = Merged(i).ids
<1>1. Placing \cap Refusals = {} /\ Placing \cap HandImport = {} /\ "MISNUMBERED" \notin Placing
  BY DEF Placing, BySize, Refusals, Refusing, HandImport
<1>2. p \in Listing /\ Merged(i) = Said(p, i)
  BY <1>1, MergedIsSaid
<1>3. Merged(i).ids # {} /\ Merged(i).ids \subseteq Window(p)
  BY <1>1, <1>2, ScratchSays DEF Told
<1>4. ~ListedElsewhere(Scratch, i, {p})
  BY <1>1 DEF ListedElsewhere, Merged
<1>5. Unmapped[i] = {}
  BY DEF Unmapped
<1>6. ForRecord(Scratch, Unmapped, {p})[i] = Merged(i)
  BY <1>4, <1>5 DEF ForRecord, Merged
<1>7. ScratchMap(p)[i] = Merged(i).ids
  BY <1>5, <1>6 DEF ScratchMap, Joined
<1> QED
  BY <1>2, <1>3, <1>7

\* An entry leaves the torrent to others only when placing it afresh gives one of them a
\* reason to take it or to hold it for a hand.
LEMMA SomeReason ==
  ASSUME torrent \in Torrents, NEW own \in Listing, ScratchHold(own) = "PLACED_ELSEWHERE"
  PROVE  \E p \in Listing : ScratchHold(p) # "PLACED_ELSEWHERE"
<1> SUFFICES ASSUME \A p \in Listing : ScratchHold(p) = "PLACED_ELSEWHERE" PROVE FALSE
  OBVIOUS
<1>1. \A p \in Listing : /\ ~MisnumberedFor(Scratch, p, ScratchBatch) /\ ~RefutedFor(Scratch, p, ScratchBatch)
                          /\ Placed(ScratchMap(p), p) = {}
                          /\ LeftToOthers(Scratch, p, InWindowOrder(Listing), ScratchMap(p), ScratchBatch) # {}
  <2> TAKE p \in Listing
  <2>1. PICK order : order = InWindowOrder(Listing)
    OBVIOUS
  <2>2. PICK why : why = HoldOf(Scratch, p, order, ScratchMap(p), ScratchBatch, "all")
    OBVIOUS
  <2>3. why = "PLACED_ELSEWHERE"
    BY <2>1, <2>2 DEF ScratchHold
  <2> QED
    BY <2>1, <2>2, <2>3, HoldOfIs
<1>2. \A i \in Names : Merged(i).verdict \notin Placing
  <2> SUFFICES ASSUME NEW i \in Names, Merged(i).verdict \in Placing PROVE FALSE
    OBVIOUS
  <2>1. PICK p : p = Scratch.by[i]
    OBVIOUS
  <2>2. /\ p \in Listing /\ Merged(i).ids # {} /\ Merged(i).ids \subseteq Window(p)
        /\ ScratchMap(p)[i] = Merged(i).ids
    BY <2>1, DeciderMaps
  <2>3. Placed(ScratchMap(p), p) # {}
    BY <2>2 DEF Placed
  <2> QED
    BY <1>1, <2>2, <2>3
<1>3. PICK i : i \in LeftToOthers(Scratch, own, InWindowOrder(Listing), ScratchMap(own), ScratchBatch)
  BY <1>1
<1>4. i \in Names /\ ScratchMap(own)[i] = {}
  <2>1. i \in Names
    BY <1>3 DEF LeftToOthers, Unmappeds
  <2>2. ForRecord(Scratch, Unmapped, {own})[i].verdict \notin Placing
    BY <1>2, <2>1 DEF ForRecord, Merged, Placing, BySize, Unjudged
  <2>3. ScratchMap(own)[i] = IF Unmapped[i] # {} THEN Unmapped[i]
                             ELSE IF ForRecord(Scratch, Unmapped, {own})[i].verdict \in Placing
                                    THEN ForRecord(Scratch, Unmapped, {own})[i].ids ELSE {}
    BY <2>1 DEF ScratchMap, Joined
  <2> QED
    BY <2>1, <2>2, <2>3 DEF Unmapped
<1>5. ListedElsewhere(Scratch, i, {own})
  BY <1>3, <1>4 DEF LeftToOthers
<1>6. Merged(i).verdict \in HandImport
  BY <1>2, <1>4, <1>5 DEF ListedElsewhere, Merged
<1>7. i \in Unmappeds(ScratchBatch)
  BY <1>4, ScratchSays
<1>8. CASE Merged(i).verdict = "MISNUMBERED"
  <2>1. PICK p \in Listing : Decides(Said(p, i).verdict)
    <3>1. "MISNUMBERED" \in Refusing
      BY DEF Refusing
    <3>2. Scratch.by[i] \in Listing /\ Merged(i) = Said(Scratch.by[i], i) /\ Decides(Merged(i).verdict) =>
            \E p \in Listing : Decides(Said(p, i).verdict)
      OBVIOUS
    <3> QED
      BY <1>4, <1>8, <3>1, <3>2, MergedIsSaid
  <2>2. MisnumberedFor(Scratch, p, ScratchBatch)
    BY <1>7, <1>8, <2>1 DEF MisnumberedFor, Merged, Said, Party
  <2> QED
    BY <1>1, <2>2
<1>9. CASE Merged(i).verdict = "TITLE_REFUTED"
  <2>1. PICK p \in Listing : Said(p, i).verdict = "TITLE_REFUTED"
    BY <1>4, <1>9, MergedIsSaid
  <2>2. RefutedFor(Scratch, p, ScratchBatch)
    BY <1>7, <1>9, <2>1 DEF RefutedFor, Merged, Said
  <2> QED
    BY <1>1, <2>2
<1> QED
  BY <1>6, <1>8, <1>9 DEF HandImport

\* What the torrent is decides it, so a step that leaves the torrent alone leaves it too.
NothingPlaced == \A i \in Names : Merged(i).verdict \notin Placing
Reasoned(al) == ScratchHold(al) # "PLACED_ELSEWHERE"

LEMMA ScratchStays ==
  ASSUME torrent' = torrent
  PROVE  /\ Names' = Names /\ Unmapped' = Unmapped /\ Takers' = Takers
         /\ NothingPlaced' = NothingPlaced /\ \A al : Reasoned(al)' = Reasoned(al) /\ Window(al)' = Window(al)
<1>1. Names' = Names /\ Unmapped' = Unmapped /\ Listing' = Listing /\ Takers' = Takers
  BY DEF Names, Unmapped, Listing, Takers, Window
<1>2. PICK names, map, listing : names = Names /\ map = Unmapped /\ listing = Listing
  OBVIOUS
<1>3. InWindowOrder(listing)' = InWindowOrder(listing)
  BY DEF InWindowOrder, Sorted, Window
<1>4. Batch(map, "all", 0)' = Batch(map, "all", 0)
  BY DEF Batch, Names, Listing, Window
<1>5. PICK order, batch : order = InWindowOrder(listing) /\ batch = Batch(map, "all", 0)
  OBVIOUS
<1>6. InWindowOrder(Listing)' = order /\ InWindowOrder(Listing) = order
  BY <1>1, <1>2, <1>3, <1>5
<1>7. ScratchBatch' = batch /\ ScratchBatch = batch
  BY <1>1, <1>2, <1>4, <1>5 DEF ScratchBatch
<1>8. AcrossWindows(batch, order)' = AcrossWindows(batch, order)
  BY DEF AcrossWindows, UnderWindow, Window
<1>9. PICK across : across = AcrossWindows(batch, order)
  OBVIOUS
<1>10. Scratch' = across /\ Scratch = across
  BY <1>6, <1>7, <1>8, <1>9 DEF Scratch
<1>11. NothingPlaced' = NothingPlaced
  BY <1>1, <1>10 DEF NothingPlaced, Merged
<1>12. \A al : ScratchMap(al)' = ScratchMap(al)
  <2> TAKE al
  <2>1. ForRecord(across, map, {al})' = ForRecord(across, map, {al})
    BY DEF ForRecord, Names
  <2>2. PICK place : place = ForRecord(across, map, {al})
    OBVIOUS
  <2>3. Joined(map, place)' = Joined(map, place)
    BY DEF Joined, Names
  <2> QED
    BY <1>1, <1>2, <1>10, <2>1, <2>2, <2>3 DEF ScratchMap
<1>13. \A al : Reasoned(al)' = Reasoned(al)
  <2> TAKE al
  <2>1. PICK mine : mine = ScratchMap(al)
    OBVIOUS
  <2>2. HoldOf(across, al, order, mine, batch, "all")' = HoldOf(across, al, order, mine, batch, "all")
    BY DEF HoldOf, Names, Window
  <2>3. ScratchHold(al)' = ScratchHold(al)
    BY <1>6, <1>7, <1>10, <1>12, <2>1, <2>2 DEF ScratchHold
  <2> QED
    BY <2>3 DEF Reasoned
<1>14. \A al : Window(al)' = Window(al)
  BY DEF Window
<1> QED
  BY <1>1, <1>11, <1>13, <1>14

\* An entry that keeps a reason to take the torrent: its last grab was not left to others,
\* afresh none is, and the record maps some of its window, or nothing at all.
Stands(al, r, why) ==
  /\ why # "PLACED_ELSEWHERE" /\ Reasoned(al)
  /\ r.stored => Placed(r.map, al) # {} \/ (r.map = Unmapped /\ NothingPlaced)

\* The inductive invariant.
SomeoneStands ==
  /\ torrent \in Torrents /\ DOMAIN hold = Entries
  /\ record.claims \subseteq Takers /\ (~record.stored => record.claims = {})
  /\ torrent.ignored = {} /\ Takers # {} => \E al \in Takers : Stands(al, record, hold[al])

LEMMA SomeoneStandsAtFirst == PlacementInit => SomeoneStands
<1> SUFFICES ASSUME PlacementInit PROVE SomeoneStands
  OBVIOUS
<1>1. /\ torrent \in Torrents /\ record = NoRecord /\ DOMAIN hold = Entries
      /\ \A al \in Entries : hold[al] = "none"
  BY DEF PlacementInit
<1>2. ASSUME torrent.ignored = {}, NEW own \in Takers
      PROVE  \E al \in Takers : Reasoned(al)
  <2>1. Takers = Listing
    BY <1>2 DEF Takers, Listing
  <2> QED
    BY <1>1, <1>2, <2>1, SomeReason DEF Reasoned
<1>3. Takers \subseteq Entries
  BY <1>1 DEF Takers, Torrents
<1>4. ASSUME torrent.ignored = {}, Takers # {}
      PROVE  \E al \in Takers : Stands(al, record, hold[al])
  <2>1. PICK al \in Takers : Reasoned(al)
    BY <1>2, <1>4
  <2> QED
    BY <1>1, <1>3, <2>1 DEF Stands, NoRecord
<1> QED
  BY <1>1, <1>4 DEF SomeoneStands, NoRecord

LEMMA StandsOn ==
  ASSUME torrent' = torrent, NEW al, NEW r, NEW why
  PROVE  Stands(al, r, why)' = Stands(al, r, why)
  BY ScratchStays DEF Stands, Placed

LEMMA NothingIsMapped ==
  ASSUME NothingPlaced, NEW imports
  PROVE  Joined(Unmapped, ForRecord(Scratch, Unmapped, imports)) = Unmapped
<1> DEFINE place == ForRecord(Scratch, Unmapped, imports)
<1>1. \A i \in Names : Unmapped[i] = {} /\ place[i].verdict \notin Placing
  BY DEF ForRecord, Unmapped, NothingPlaced, Merged, Placing, BySize, Unjudged
<1> HIDE DEF place
<1>2. Joined(Unmapped, place) = [i \in Names |-> {}]
  BY <1>1 DEF Joined
<1> QED
  BY <1>2 DEF Unmapped, place

\* A grab made onto nothing mapped, or left to others, had every read served: it is the
\* one afresh.
LEMMA GrabsAfresh ==
  ASSUME torrent \in Torrents, NEW own, NEW reads \in Reads, NEW miss \in Names \cup {0}, NEW across, NEW order, NEW map, NEW batch,
         batch = Batch(Unmapped, reads, miss), across = AcrossWindows(batch, order), order = InWindowOrder(Listing),
         NEW why, why = HoldOf(across, own, order, map, batch, reads), reads # "listing",
         why \in {"none", "PLACED_ELSEWHERE"}
  PROVE  reads = "all" /\ miss = 0 /\ batch = ScratchBatch /\ across = Scratch
<1>1. ~Unread(batch, reads)
  BY HoldOfIs
<1>2. reads = "all"
  BY <1>1 DEF Unread, Reads
<1>3. miss = 0
  <2> SUFFICES ASSUME miss \in Names PROVE FALSE
    OBVIOUS
  <2>1. batch.files = [i \in Names |-> [torrent.files[i] EXCEPT !.known = @ /\ i # miss]] /\ batch.seed = Unmapped
    BY DEF Batch
  <2>2. batch.files[miss] = [torrent.files[miss] EXCEPT !.known = @ /\ miss # miss]
    BY <2>1
  <2>3. PICK p \in FileReads : p = torrent.files[miss]
    BY DEF Torrents, Names
  <2>4. [p EXCEPT !.known = @ /\ miss # miss].known = FALSE
    BY DEF FileReads
  <2>5. ~batch.files[miss].known
    BY <2>2, <2>3, <2>4
  <2> QED
    BY <1>1, <2>1, <2>5 DEF Unread, Unmappeds, Unmapped
<1> QED
  BY <1>2, <1>3 DEF ScratchBatch, Scratch

\* The first grab of a torrent stands for it.
LEMMA FirstGrabStands ==
  ASSUME torrent \in Torrents, NEW own \in Takers, ScratchHold(own) = "none",
         NEW r, r.map = ScratchMap(own)
  PROVE  Stands(own, r, "none")
<1>1. Reasoned(own)
  BY DEF Reasoned
<1>2. Listing # {}
  BY DEF Takers, Listing
<1>3. PICK order, map, batch : order = InWindowOrder(Listing) /\ map = ScratchMap(own) /\ batch = ScratchBatch
  OBVIOUS
<1>4. Placed(map, own) # {} \/ LeftToOthers(Scratch, own, order, map, batch) = {}
  <2>1. PICK why : why = HoldOf(Scratch, own, order, map, batch, "all")
    OBVIOUS
  <2>2. why = "none"
    BY <1>3, <2>1 DEF ScratchHold
  <2> QED
    BY <2>1, <2>2, HoldOfIs
<1>5. CASE Placed(map, own) # {}
  BY <1>1, <1>3, <1>5 DEF Stands
<1>6. CASE Placed(map, own) = {} /\ LeftToOthers(Scratch, own, order, map, batch) = {}
  <2>1. ASSUME NEW i \in Names, Merged(i).verdict \in Placing
        PROVE  FALSE
    <3>1. PICK p : p = Scratch.by[i]
      OBVIOUS
    <3>2. /\ p \in Listing /\ Merged(i).ids # {} /\ Merged(i).ids \subseteq Window(p)
          /\ ScratchMap(p)[i] = Merged(i).ids
      BY <1>2, <2>1, <3>1, DeciderMaps
    <3>3. CASE p = own
      BY <1>3, <1>6, <3>2, <3>3 DEF Placed
    <3>4. CASE p # own
      <4>1. ListedElsewhere(Scratch, i, {own})
        BY <2>1, <3>1, <3>4 DEF ListedElsewhere, Merged
      <4>2. i \in Unmappeds(batch)
        BY <1>3, ScratchSays
      <4> QED
        BY <1>6, <4>1, <4>2 DEF LeftToOthers
    <3> QED
      BY <3>3, <3>4
  <2>2. NothingPlaced
    BY <2>1 DEF NothingPlaced
  <2>3. ScratchMap(own) = Unmapped
    BY <2>2, NothingIsMapped DEF ScratchMap
  <2> QED
    BY <1>1, <2>2, <2>3 DEF Stands
<1> QED
  BY <1>4, <1>5, <1>6

\* One grab, by its parts.
GrabOf(own, reads, miss, order, batch, across, map, why) ==
  /\ order = InWindowOrder(Listing) /\ batch = Batch(SeedOf(record), reads, miss)
  /\ across = AcrossWindows(batch, order)
  /\ map = Joined(SeedOf(record), ForRecord(across, SeedOf(record), record.claims \cup {own}))
  /\ why = IF reads = "listing" THEN "INPUT_UNREAD" ELSE HoldOf(across, own, order, map, batch, reads)

LEMMA GrabParts ==
  ASSUME SomeoneStands, NEW own \in Entries, NEW reads, NEW miss, Grab(own, reads, miss)
  PROVE  \E order, batch, across, map, why :
           /\ GrabOf(own, reads, miss, order, batch, across, map, why)
           /\ own \in Takers /\ torrent' = torrent /\ hold' = [hold EXCEPT ![own] = why]
           /\ \/ why # "none" /\ record' = record
              \/ /\ why = "none" /\ record'.stored /\ record'.map = map
                 /\ record'.claims = record.claims \cup {own}
<1>1. PICK order : order = OrderedWindows(record.claims, own)
  OBVIOUS
<1>2. PICK batch : batch = Batch(SeedOf(record), reads, miss)
  OBVIOUS
<1>3. PICK across : across = AcrossWindows(batch, order)
  OBVIOUS
<1>4. PICK place : place = ForRecord(across, batch.seed, record.claims \cup {own})
  OBVIOUS
<1>5. PICK map : map = Joined(batch.seed, place)
  OBVIOUS
<1>6. PICK why : why = IF reads = "listing" THEN "INPUT_UNREAD" ELSE HoldOf(across, own, order, map, batch, reads)
  OBVIOUS
<1>7. /\ own \in Takers /\ torrent' = torrent /\ hold' = [hold EXCEPT ![own] = why]
      /\ record' = IF why # "none" THEN record ELSE Accreted(record, place, map, own)
  BY <1>1, <1>2, <1>3, <1>4, <1>5, <1>6 DEF Grab
<1>8. order = InWindowOrder(Listing)
  <2>1. Listing \cup record.claims \cup {own} = Listing
    BY <1>7 DEF SomeoneStands, Takers, Listing
  <2> QED
    BY <1>1, <2>1 DEF OrderedWindows
<1>9. batch.seed = SeedOf(record)
  BY <1>2 DEF Batch
<1>10. /\ Accreted(record, place, map, own).stored /\ Accreted(record, place, map, own).map = map
       /\ Accreted(record, place, map, own).claims = record.claims \cup {own}
  BY DEF Accreted
<1>11. GrabOf(own, reads, miss, order, batch, across, map, why)
  BY <1>2, <1>3, <1>4, <1>5, <1>6, <1>8, <1>9 DEF GrabOf
<1> QED
  BY <1>7, <1>10, <1>11

\* Onto nothing mapped, a grab that is made or left to others is the one afresh.
LEMMA OntoNothing ==
  ASSUME torrent \in Torrents, NEW own \in Takers, NEW reads \in Reads, NEW miss \in Names \cup {0},
         NEW order, NEW batch, NEW across, NEW map, NEW why,
         GrabOf(own, reads, miss, order, batch, across, map, why), SeedOf(record) = Unmapped,
         record.claims = {} \/ NothingPlaced, why \in {"none", "PLACED_ELSEWHERE"}
  PROVE  map = ScratchMap(own) /\ why = ScratchHold(own) /\ (NothingPlaced => map = Unmapped)
<1>1. reads # "listing" /\ why = HoldOf(across, own, order, map, batch, reads)
  BY DEF GrabOf
<1>2. /\ order = InWindowOrder(Listing) /\ batch = Batch(Unmapped, reads, miss) /\ across = AcrossWindows(batch, order)
      /\ map = Joined(Unmapped, ForRecord(across, Unmapped, record.claims \cup {own}))
  BY DEF GrabOf
<1>3. reads = "all" /\ batch = ScratchBatch /\ across = Scratch
  BY <1>1, <1>2, GrabsAfresh
<1>4. NothingPlaced => map = Unmapped /\ ScratchMap(own) = Unmapped
  BY <1>2, <1>3, NothingIsMapped DEF ScratchMap
<1>5. map = ScratchMap(own)
  <2>1. CASE record.claims = {}
    <3>1. record.claims \cup {own} = {own}
      BY <2>1
    <3> QED
      BY <1>2, <1>3, <3>1 DEF ScratchMap
  <2>2. CASE NothingPlaced
    BY <1>4, <2>2
  <2> QED
    BY <2>1, <2>2
<1> QED
  BY <1>1, <1>2, <1>3, <1>4, <1>5 DEF ScratchHold

\* What the record maps, a grab keeps.
LEMMA StillPlaced ==
  ASSUME NEW own, NEW reads, NEW miss, NEW order, NEW batch, NEW across, NEW map, NEW why,
         GrabOf(own, reads, miss, order, batch, across, map, why), record.stored, NEW al, Placed(record.map, al) # {}
  PROVE  Placed(map, al) # {} /\ (al = own => why # "PLACED_ELSEWHERE")
<1>1. PICK e : e \in Placed(record.map, al)
  OBVIOUS
<1>2. PICK i \in Names : e \in record.map[i] /\ e \in Window(al)
  BY <1>1 DEF Placed
<1>3. map[i] = record.map[i]
  BY <1>2 DEF GrabOf, Joined, SeedOf
<1>4. Placed(map, al) # {}
  BY <1>2, <1>3 DEF Placed
<1>5. al = own => why # "PLACED_ELSEWHERE"
  <2> SUFFICES ASSUME al = own, reads # "listing" PROVE why # "PLACED_ELSEWHERE"
    BY DEF GrabOf
  <2>1. why = HoldOf(across, own, order, map, batch, reads)
    BY DEF GrabOf
  <2> QED
    BY <1>4, <2>1, HoldOfIs
<1> QED
  BY <1>4, <1>5

LEMMA GrabLeavesSomeone ==
  ASSUME SomeoneStands, NEW own \in Entries, NEW reads \in Reads, NEW miss \in Names \cup {0}, Grab(own, reads, miss)
  PROVE  SomeoneStands'
<1>1. PICK order, batch, across, map, why :
        /\ GrabOf(own, reads, miss, order, batch, across, map, why)
        /\ own \in Takers /\ torrent' = torrent /\ hold' = [hold EXCEPT ![own] = why]
        /\ \/ why # "none" /\ record' = record
           \/ /\ why = "none" /\ record'.stored /\ record'.map = map
              /\ record'.claims = record.claims \cup {own}
  BY GrabParts
<1>2. /\ torrent \in Torrents /\ DOMAIN hold = Entries /\ record.claims \subseteq Takers
      /\ ~record.stored => record.claims = {} /\ SeedOf(record) = Unmapped
      /\ Takers \subseteq Entries
  BY DEF SomeoneStands, SeedOf, Takers, Torrents
<1>3. Takers' = Takers
  BY <1>1, ScratchStays
<1>4. /\ torrent' \in Torrents /\ DOMAIN hold' = Entries
      /\ record'.claims \subseteq Takers /\ (~record'.stored => record'.claims = {})
      /\ hold'[own] = why /\ \A al \in Entries : al # own => hold'[al] = hold[al]
  BY <1>1, <1>2
<1>5. Torrents' = Torrents
  BY DEF Torrents
<1>6. PICK r, w : r = record' /\ w = hold'
  OBVIOUS
<1>7. ASSUME torrent.ignored = {}, Takers # {}
      PROVE  \E al \in Takers : Stands(al, r, w[al])
  <2>1. PICK al \in Takers : Stands(al, record, hold[al])
    BY <1>7 DEF SomeoneStands
  <2>2. al \in Entries /\ Reasoned(al) /\ hold[al] # "PLACED_ELSEWHERE"
    BY <1>2, <2>1 DEF Stands
  <2>3. w[own] = why /\ (al # own => w[al] = hold[al])
    BY <1>4, <1>6, <2>2
  <2>4. CASE ~record.stored
    <3>1. why \in {"none", "PLACED_ELSEWHERE"} => map = ScratchMap(own) /\ why = ScratchHold(own)
      BY <1>1, <1>2, <2>4, OntoNothing
    <3>2. CASE why = "none"
      <4>1. r.map = ScratchMap(own) /\ ScratchHold(own) = "none"
        BY <1>1, <1>6, <3>1, <3>2
      <4>2. Stands(own, r, "none")
        BY <1>1, <1>2, <4>1, FirstGrabStands
      <4> QED
        BY <1>1, <2>3, <3>2, <4>2
    <3>3. CASE why # "none"
      <4>1. r = record
        BY <1>1, <1>6, <3>3
      <4>2. w[al] # "PLACED_ELSEWHERE"
        BY <2>2, <2>3, <3>1 DEF Reasoned
      <4> QED
        BY <2>2, <2>4, <4>1, <4>2 DEF Stands
    <3> QED
      BY <3>2, <3>3
  <2>5. CASE record.stored /\ Placed(record.map, al) # {}
    <3>1. Placed(map, al) # {} /\ (al = own => why # "PLACED_ELSEWHERE")
      BY <1>1, <2>5, StillPlaced
    <3>2. Placed(r.map, al) # {}
      BY <1>1, <1>6, <2>5, <3>1
    <3> QED
      BY <2>2, <2>3, <3>1, <3>2 DEF Stands
  <2>6. CASE record.stored /\ record.map = Unmapped /\ NothingPlaced
    <3>1. why \in {"none", "PLACED_ELSEWHERE"} => map = Unmapped /\ why = ScratchHold(own)
      <4>1. SeedOf(record) = Unmapped
        BY <2>6 DEF SeedOf
      <4> QED
        BY <1>1, <1>2, <2>6, <4>1, OntoNothing
    <3>2. r.map = Unmapped
      BY <1>1, <1>6, <2>6, <3>1
    <3>3. w[al] # "PLACED_ELSEWHERE"
      BY <2>2, <2>3, <3>1 DEF Reasoned
    <3> QED
      BY <2>2, <2>6, <3>2, <3>3 DEF Stands
  <2> QED
    BY <2>1, <2>4, <2>5, <2>6 DEF Stands
<1>8. torrent'.ignored = {} /\ Takers # {} => \E al \in Takers : Stands(al, record, hold[al])'
  <2>1. \A al : Stands(al, r, w[al])' = Stands(al, r, w[al])
    BY <1>1, StandsOn
  <2>2. \A al : Stands(al, record, hold[al])' = Stands(al, r, w[al])'
    BY <1>6 DEF Stands
  <2> QED
    BY <1>1, <1>7, <2>1, <2>2
<1> QED
  BY <1>3, <1>4, <1>5, <1>8 DEF SomeoneStands

LEMMA SomeoneAlwaysStands == PlacementSpec => []SomeoneStands
<1>1. SomeoneStands /\ [PlacementNext]_placementVars => SomeoneStands'
  <2> SUFFICES ASSUME SomeoneStands, [PlacementNext]_placementVars PROVE SomeoneStands'
    OBVIOUS
  <2>1. ASSUME NEW own \in Entries, NEW reads \in Reads, NEW miss \in Names \cup {0}, Grab(own, reads, miss)
        PROVE  SomeoneStands'
    BY <2>1, GrabLeavesSomeone
  <2>2. ASSUME torrent' = torrent, hold' = hold, record' = record \/ record' = NoRecord
        PROVE  SomeoneStands'
    <3>1. PICK r : r = record'
      OBVIOUS
    <3>2. Takers' = Takers /\ Torrents' = Torrents
      BY <2>2, ScratchStays DEF Torrents
    <3>3. \A al : Stands(al, record, hold[al]) => Stands(al, r, hold[al])
      BY <2>2, <3>1 DEF Stands, NoRecord
    <3>4. \A al, why : Stands(al, r, why)' = Stands(al, r, why)
      BY <2>2, StandsOn
    <3>5. \A al : Stands(al, r, hold[al])' = Stands(al, r, hold[al])
      <4> TAKE al
      <4>1. PICK why : why = hold[al]
        OBVIOUS
      <4>2. Stands(al, r, why)' = Stands(al, r, why)
        BY <3>4
      <4>3. Stands(al, r, hold[al])' = Stands(al, r, why)'
        BY <2>2, <4>1 DEF Stands
      <4> QED
        BY <4>1, <4>2, <4>3
    <3>6. \A al : Stands(al, record, hold[al])' = Stands(al, r, hold[al])'
      BY <3>1 DEF Stands
    <3>7. torrent'.ignored = {} /\ Takers # {} => \E al \in Takers : Stands(al, record, hold[al])'
      BY <2>2, <3>3, <3>5, <3>6 DEF SomeoneStands
    <3>8. record'.claims \subseteq Takers /\ (~record'.stored => record'.claims = {})
      BY <2>2 DEF SomeoneStands, NoRecord
    <3> QED
      BY <2>2, <3>2, <3>7, <3>8 DEF SomeoneStands
  <2>3. CASE Retire
    BY <2>2, <2>3 DEF Retire
  <2>4. CASE UNCHANGED placementVars
    BY <2>2, <2>4 DEF placementVars
  <2> QED
    BY <2>1, <2>3, <2>4 DEF PlacementNext
<1> QED
  BY <1>1, SomeoneStandsAtFirst, PTL DEF PlacementSpec

\* The entries of a torrent never all leave it to one another, whatever its files' names
\* and parses say and however their grabs interleave, fail and start over (_hold_of,
\* place_across_windows, _merged).
THEOREM SomeoneTakesTheTorrent == PlacementSpec => []SomeoneTakesIt
<1>1. SomeoneStands => SomeoneTakesIt
  BY DEF SomeoneStands, Stands, SomeoneTakesIt
<1> QED
  BY <1>1, SomeoneAlwaysStands, PTL
=============================================================================
