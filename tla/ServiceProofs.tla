--------------------------- MODULE ServiceProofs ---------------------------
(***************************************************************************)
(* What a run asks of its services, for any ids and series, any chunk and  *)
(* batch size, and services that fail whenever they like: an outage is     *)
(* never read as an answer, costs nothing that was stored, and leaves no   *)
(* half of a record behind; a leg's categories and episode lists are the   *)
(* ones it was really given; no failure is lost between the threads that   *)
(* share the failure ledger, and none is told of twice.  What it makes of  *)
(* the mapping files, whatever they say: the stored tables answer as the   *)
(* graph they were read from, and an entry's episodes are the ones its     *)
(* sources name.  And what it keeps of the answers: the safety of the      *)
(* cache store, for every schema version, number of writes and number of   *)
(* kills, while no write-ahead log outlives its file (~OrphanLog).         *)
(***************************************************************************)
EXTENDS SeadexGateway, AnilistGateway, SkyhookGateway, ArrCategories, ArrStreaks,
        SeriesEpisodes, EntryMappings, CacheStore, FiniteSetTheorems,
        WellFoundedInduction, TLAPS

-----------------------------------------------------------------------------
(* SeaDex.  What the leg holds is true of every id it has heard of.          *)

EntriesInv ==
  /\ SeadexTypeOK
  /\ entryCache \subseteq listed /\ prefetched \cap listed \subseteq entryCache
  /\ EntryNeverDenied

LEMMA SeadexStarts == SeadexInit => EntriesInv
  BY DEF SeadexInit, EntriesInv, SeadexTypeOK, SeadexAnswers, EntryNeverDenied

LEMMA EntriesInvKept == EntriesInv /\ [SeadexNext]_sdVars => EntriesInv'
<1> SUFFICES ASSUME EntriesInv, [SeadexNext]_sdVars PROVE EntriesInv'
  OBVIOUS
<1> USE DEF EntriesInv, SeadexTypeOK, SeadexAnswers, EntryNeverDenied
<1>1. ASSUME NEW wanted \in SUBSET Ids, SeadexPrefetch(wanted) PROVE EntriesInv'
  BY <1>1 DEF SeadexPrefetch
<1>2. CASE ChunkAnswered
  BY <1>2 DEF ChunkAnswered, NextChunk, Chunk
<1>3. CASE ChunkFails \/ ChunkSkipped
  BY <1>3 DEF ChunkFails, ChunkSkipped, NextChunk
<1>4. CASE PrefetchDone
  BY <1>4 DEF PrefetchDone
<1>5. ASSUME NEW i \in Ids, EntryHeld(i) PROVE EntriesInv'
  BY <1>5 DEF EntryHeld, Answered
<1>6. ASSUME NEW i \in Ids, EntryFetched(i) \/ EntryFails(i) PROVE EntriesInv'
  BY <1>6 DEF EntryFetched, EntryFails, Answered
<1>7. CASE UNCHANGED sdVars
  BY <1>7 DEF sdVars
<1> QED
  BY <1>1, <1>2, <1>3, <1>4, <1>5, <1>6, <1>7 DEF SeadexNext

(* Whichever chunks and lookups fail, a title is said to have no SeaDex entry  *)
(* only when SeaDex said so (SeaDexGateway.prefetch, entry).                   *)
THEOREM EntriesAreNeverDenied == SeadexSpec => []EntryNeverDenied
<1>1. EntriesInv => EntryNeverDenied
  BY DEF EntriesInv
<1> QED
  BY <1>1, SeadexStarts, EntriesInvKept, PTL DEF SeadexSpec

-----------------------------------------------------------------------------
(* AniList.                                                                  *)

MetaInv ==
  /\ meta \in [MediaIds -> {"none", "fresh", "aged"}]
  /\ alCache \in [MediaIds -> {"absent", "body", "empty"}]
  /\ \A i \in MediaIds : alCache[i] = "empty" => i \notin known

LEMMA AnilistStarts == AnilistInit => MetaInv
  BY DEF AnilistInit, MetaInv

LEMMA MetaInvKept == MetaInv /\ [AnilistNext]_alVars => MetaInv'
<1> SUFFICES ASSUME MetaInv, [AnilistNext]_alVars PROVE MetaInv'
  OBVIOUS
<1> USE DEF MetaInv
<1>1. ASSUME NEW wanted \in SUBSET MediaIds, NEW dry \in BOOLEAN, StartLeg(wanted, dry)
      PROVE  MetaInv'
  BY <1>1 DEF StartLeg, Aged, Rows
<1>2. CASE BatchAnswered
  BY <1>2 DEF BatchAnswered, Stored, Batch
<1>3. CASE BatchFails \/ EndLeg
  BY <1>3 DEF BatchFails, EndLeg
<1>4. CASE SaveCache
  BY <1>4 DEF SaveCache, SaveStep
<1>5. ASSUME NEW i \in MediaIds, MediaAnswered(i) PROVE MetaInv'
  BY <1>5 DEF MediaAnswered, Stored
<1>6. ASSUME NEW i \in MediaIds, MediaFails(i) \/ MetaAges(i) PROVE MetaInv'
  BY <1>6 DEF MediaFails, MetaAges
<1>7. CASE UNCHANGED alVars
  BY <1>7 DEF alVars
<1> QED
  BY <1>1, <1>2, <1>3, <1>4, <1>5, <1>6, <1>7 DEF AnilistNext

(* Whenever AniList goes down, over any number of legs and previews, no stored *)
(* row is lost, no loaded one stops answering, and nothing is remembered of an *)
(* id AniList was not heard on (save_cache, _media).                           *)
THEOREM OutagesKeepMeta == AnilistSpec => OutageKeepsMeta
<1>1. ASSUME MetaInv, MetaInv', AnilistNext
      PROVE  /\ alOutage' => \A i \in MediaIds : meta[i] # "none" => meta'[i] # "none"
             /\ alStep = "batch" => \A i \in MediaIds : alCache[i] = "body" => alCache'[i] = "body"
             /\ \A i \in MediaIds : alCache'[i] = "empty" => i \notin known
  <2> USE <1>1 DEF MetaInv
  <2>1. known' = known
    BY DEF AnilistNext, StartLeg, BatchAnswered, BatchFails, SaveCache, EndLeg, MediaAnswered,
           MediaFails, MetaAges
  <2>2. alOutage' => \A i \in MediaIds : meta[i] # "none" => meta'[i] # "none"
    BY DEF AnilistNext, StartLeg, BatchAnswered, BatchFails, SaveCache, EndLeg, MediaAnswered,
           MediaFails, MetaAges
  <2>3. alStep = "batch" => \A i \in MediaIds : alCache[i] = "body" => alCache'[i] = "body"
    BY DEF AnilistNext, StartLeg, BatchAnswered, BatchFails, SaveCache, EndLeg, MediaAnswered,
           MediaFails, MetaAges, Stored
  <2> QED
    BY <2>1, <2>2, <2>3
<1>2. MetaInv /\ MetaInv' /\ [AnilistNext]_alVars =>
        [/\ alOutage' => \A i \in MediaIds : meta[i] # "none" => meta'[i] # "none"
         /\ alStep = "batch" => \A i \in MediaIds : alCache[i] = "body" => alCache'[i] = "body"
         /\ \A i \in MediaIds : alCache'[i] = "empty" => i \notin known]_alVars
  BY <1>1
<1> QED
  BY <1>2, AnilistStarts, MetaInvKept, PTL DEF AnilistSpec, OutageKeepsMeta

-----------------------------------------------------------------------------
(* SkyHook.  What a leg has of the series it fetches is what it heard of it,   *)
(* and of a series still to fetch it has neither heard nor kept anything.      *)

\* Records and replies are of legs begun.
LegsInv ==
  /\ skyLeg \in Nat
  /\ \A h \in heard : h.leg \in Nat /\ h.leg <= skyLeg
  /\ DOMAIN stored = Series /\ DOMAIN read = Series
  /\ \A s \in Series : stored[s].leg \in 0..skyLeg /\ read[s].leg \in 0..skyLeg

\* The leg has no record yet of the series it fetches or has to, and heard nothing of the
\* latter.
ToFetchInv ==
  /\ due \subseteq Series
  /\ fetching \in Series => fetching \notin due
  /\ \A s \in Series : s \in due \/ s = fetching =>
       stored[s].leg # skyLeg /\ read[s].leg # skyLeg
  /\ \A s \in due : Heard(s, skyLeg) = {}

\* What is fetched of the series so far, and what its official reply called for.
GotInv ==
  fetching \in Series =>
    /\ got.rows = {h.order : h \in {h \in Heard(fetching, skyLeg) : h.reply = "rows"}}
    /\ Official \notin got.orders => got = Nothing /\ Heard(fetching, skyLeg) = {}
    /\ Official \in got.orders =>
         /\ got.orders \subseteq {Official} \cup got.lists
         /\ \E h \in Heard(fetching, skyLeg) :
              h.order = Official /\ h.reply # "unknown" /\ h.lists = got.lists

RecordInv == LegsInv /\ ToFetchInv /\ GotInv /\ RecordsAreWhole

\* Nothing is kept before the first leg.
LEMMA SkyhookStarts == SkyhookInit => RecordInv
<1> SUFFICES ASSUME SkyhookInit PROVE RecordInv
  OBVIOUS
<1>1. RecordsAreWhole
  <2>1. \A s \in Series : ~HasRecord(stored[s]) /\ ~HasRecord(read[s])
    BY DEF SkyhookInit, HasRecord, NoRecord
  <2> QED
    BY <2>1 DEF RecordsAreWhole
<1>2. LegsInv
  BY DEF SkyhookInit, LegsInv, NoRecord
<1>3. ToFetchInv
  BY SkyhookAssumption DEF SkyhookInit, ToFetchInv, HasRecord, NoRecord
<1>4. GotInv
  BY SkyhookAssumption DEF SkyhookInit, GotInv
<1> QED
  BY <1>1, <1>2, <1>3, <1>4 DEF RecordInv

\* A leg that hears of one series hears nothing of another, nor does an earlier leg.
LEMMA HearsOne ==
  ASSUME NEW s, NEW o, NEW reply, NEW lists, Hears(s, o, reply, lists), skyLeg' = skyLeg
  PROVE  \E h : /\ h.series = s /\ h.leg = skyLeg /\ h.order = o /\ h.reply = reply /\ h.lists = lists
                /\ heard' = heard \cup {h} /\ Heard(s, skyLeg)' = Heard(s, skyLeg) \cup {h}
                /\ \A t, n : t # s \/ n # skyLeg => Heard(t, n)' = Heard(t, n)
<1> DEFINE told == [series |-> s, leg |-> skyLeg, order |-> o, reply |-> reply, lists |-> lists]
<1>1. /\ told.series = s /\ told.leg = skyLeg /\ told.order = o /\ told.reply = reply
      /\ told.lists = lists /\ heard' = heard \cup {told}
  BY DEF Hears
<1> HIDE DEF told
<1>2. Heard(s, skyLeg)' = Heard(s, skyLeg) \cup {told}
  BY <1>1 DEF Heard
<1>3. \A t, n : t # s \/ n # skyLeg => Heard(t, n)' = Heard(t, n)
  BY <1>1 DEF Heard
<1> QED
  BY <1>1, <1>2, <1>3

\* A record written whole, of the series being fetched, keeps the invariant: the record it
\* replaces, or that a preview leaves in cache.db, is of an earlier leg.
LEMMA RecordWritten ==
  ASSUME LegsInv, ToFetchInv, RecordsAreWhole, NEW s \in Series, fetching = s, Writes(s),
         skyLeg' = skyLeg, due' = due, WholeOf(Heard(s, skyLeg)', Record),
         \A h \in heard' : h \in heard \/ h.leg = skyLeg,
         \A t, n : t # s \/ n # skyLeg => Heard(t, n)' = Heard(t, n)
  PROVE  RecordInv'
<1>1. /\ fetching' = NoSeries /\ Record.leg = skyLeg
      /\ \A t \in Series : \A r \in {stored'[t], read'[t]} : (t = s /\ r = Record) \/ r \in {stored[t], read[t]}
      /\ DOMAIN stored' = Series /\ DOMAIN read' = Series
      /\ \A t \in Series : t # s => stored'[t] = stored[t] /\ read'[t] = read[t]
  BY DEF LegsInv, Writes, Record
<1>2. LegsInv'
  BY <1>1 DEF LegsInv
<1>3. \A t \in due : t # s
  BY DEF ToFetchInv
<1>4. \A t \in due' : Heard(t, skyLeg)' = {}
  BY <1>3 DEF ToFetchInv
<1>5. ToFetchInv'
  BY <1>1, <1>3, <1>4, SkyhookAssumption DEF ToFetchInv
<1>6. ASSUME NEW t \in Series, NEW r \in {stored'[t], read'[t]}, HasRecord(r)
      PROVE  WholeOf(Heard(t, r.leg)', r)
  <2>1. CASE t = s /\ r = Record
    BY <1>1, <2>1
  <2>2. CASE r \in {stored[t], read[t]}
    <3>1. t # s \/ r.leg # skyLeg
      BY <1>6, <2>2 DEF ToFetchInv
    <3>2. Heard(t, r.leg)' = Heard(t, r.leg)
      BY <3>1
    <3>3. WholeOf(Heard(t, r.leg), r)
      BY <1>6, <2>2 DEF RecordsAreWhole
    <3> QED
      BY <3>2, <3>3
  <2> QED
    BY <1>1, <1>6, <2>1, <2>2
<1>7. RecordsAreWhole'
  BY <1>6 DEF RecordsAreWhole
<1>8. GotInv'
  BY <1>1, SkyhookAssumption DEF GotInv
<1> QED
  BY <1>2, <1>5, <1>7, <1>8 DEF RecordInv

LEMMA RecordInvKept == RecordInv /\ [SkyhookNext]_skyVars => RecordInv'
<1> SUFFICES ASSUME RecordInv, [SkyhookNext]_skyVars PROVE RecordInv'
  OBVIOUS
<1>0. LegsInv /\ ToFetchInv /\ GotInv /\ RecordsAreWhole /\ NoSeries \notin Series
  BY SkyhookAssumption DEF RecordInv
<1>1. CASE OrdersLeg
  <2>1. /\ skyLeg' = skyLeg + 1 /\ read' = stored /\ stored' = stored /\ heard' = heard
        /\ due' \subseteq Series /\ fetching' = NoSeries /\ skyLeg \in Nat
    BY <1>0, <1>1 DEF OrdersLeg, LegsInv, ToFetchInv
  <2>2. LegsInv'
    BY <1>0, <2>1 DEF LegsInv
  <2>3. \A s : Heard(s, skyLeg)' = {}
    BY <1>0, <2>1 DEF LegsInv, Heard
  <2>4. ToFetchInv'
    BY <1>0, <2>1, <2>3 DEF LegsInv, ToFetchInv
  <2>5. RecordsAreWhole'
    BY <1>0, <2>1 DEF RecordsAreWhole, Heard
  <2>6. GotInv'
    BY <1>0, <2>1 DEF GotInv
  <2> QED
    BY <2>2, <2>4, <2>5, <2>6 DEF RecordInv
<1>2. ASSUME NEW s \in Series, Pick(s) PROVE RecordInv'
  <2>1. /\ s \in due /\ fetching' = s /\ got' = Nothing /\ due' = due \ {s}
        /\ UNCHANGED <<stored, read, skyLeg, heard>>
    BY <1>2 DEF Pick
  <2>2. \A t, n : Heard(t, n)' = Heard(t, n)
    BY <2>1 DEF Heard
  <2>3. LegsInv' /\ RecordsAreWhole'
    BY <1>0, <2>1 DEF LegsInv, RecordsAreWhole, Heard
  <2>4. ToFetchInv'
    BY <1>0, <2>1, <2>2 DEF ToFetchInv, Heard
  <2>5. Heard(s, skyLeg)' = {}
    BY <1>0, <2>1 DEF ToFetchInv, Heard
  <2>6. GotInv'
    BY <1>0, <2>1, <2>5 DEF GotInv, Nothing, Heard
  <2> QED
    BY <2>3, <2>4, <2>6 DEF RecordInv
<1>3. ASSUME NEW s \in Series, NEW o, NEW some \in BOOLEAN, NEW lists \in Listings,
             Fetched(s, o, some, lists)
      PROVE  RecordInv'
  <2>1. /\ fetching = s /\ o \in NextOrder
        /\ got' = [orders |-> got.orders \cup {o}, rows |-> got.rows \cup (IF some THEN {o} ELSE {}),
                   lists |-> IF o = Official THEN lists ELSE got.lists]
        /\ UNCHANGED <<stored, read, skyLeg, due, fetching>>
    BY <1>3 DEF Fetched
  <2>2. PICK h0 : /\ h0.series = s /\ h0.leg = skyLeg /\ h0.order = o /\ h0.lists = lists
                  /\ h0.reply = (IF some THEN "rows" ELSE "empty")
                  /\ heard' = heard \cup {h0} /\ Heard(s, skyLeg)' = Heard(s, skyLeg) \cup {h0}
                  /\ \A t, n : t # s \/ n # skyLeg => Heard(t, n)' = Heard(t, n)
    BY <1>3, HearsOne DEF Fetched
  <2>4. LegsInv'
    BY <1>0, <2>1, <2>2 DEF LegsInv
  <2>5. ToFetchInv'
    <3>1. \A t \in due : t # s
      BY <1>0, <2>1 DEF ToFetchInv
    <3>2. \A t \in due' : Heard(t, skyLeg)' = {}
      BY <1>0, <2>1, <2>2, <3>1 DEF ToFetchInv
    <3> QED
      BY <1>0, <2>1, <3>2 DEF ToFetchInv
  <2>6. RecordsAreWhole'
    <3>1. \A t \in Series : \A r \in {stored[t], read[t]} : t # s \/ r.leg # skyLeg
      BY <1>0, <2>1 DEF ToFetchInv
    <3>2. \A t \in Series : \A r \in {stored[t], read[t]} : Heard(t, r.leg)' = Heard(t, r.leg)
      BY <2>2, <3>1
    <3> QED
      BY <1>0, <2>1, <3>2 DEF RecordsAreWhole
  <2>7. GotInv'
    <3>1. got'.rows = {h.order : h \in {h \in Heard(s, skyLeg)' : h.reply = "rows"}}
      <4>1. got.rows = {h.order : h \in {h \in Heard(s, skyLeg) : h.reply = "rows"}}
        BY <1>0, <2>1 DEF GotInv
      <4>2. CASE some
        BY <2>1, <2>2, <4>1, <4>2
      <4>3. CASE ~some
        BY <2>1, <2>2, <4>1, <4>3
      <4> QED
        BY <4>2, <4>3
    <3>2. Official \in got'.orders
      BY <2>1 DEF NextOrder
    <3>3. /\ got'.orders \subseteq {Official} \cup got'.lists
          /\ \E h \in Heard(s, skyLeg)' :
               h.order = Official /\ h.reply # "unknown" /\ h.lists = got'.lists
      <4>1. CASE Official \notin got.orders
        <5>1. o = Official /\ got = Nothing
          BY <1>0, <2>1, <4>1 DEF GotInv, NextOrder
        <5>2. h0 \in Heard(s, skyLeg)' /\ h0.order = Official /\ h0.reply # "unknown" /\ h0.lists = got'.lists
          BY <2>1, <2>2, <5>1
        <5> QED
          BY <2>1, <5>1, <5>2 DEF Nothing
      <4>2. CASE Official \in got.orders
        <5>1. o # Official /\ o \in got.lists
          BY <2>1, <4>2 DEF NextOrder
        <5> QED
          BY <1>0, <2>1, <2>2, <4>2, <5>1 DEF GotInv
      <4> QED
        BY <4>1, <4>2
    <3> QED
      BY <2>1, <3>1, <3>2, <3>3 DEF GotInv, Heard
  <2> QED
    BY <2>4, <2>5, <2>6, <2>7 DEF RecordInv
<1>4. ASSUME NEW s \in Series, Complete(s) PROVE RecordInv'
  <2>1. /\ fetching = s /\ NextOrder = {} /\ Writes(s) /\ UNCHANGED <<skyLeg, due, heard>>
    BY <1>4 DEF Complete
  <2>2. WholeOf(Heard(s, skyLeg), Record)
    <3>1. Official \in got.orders /\ got.lists \subseteq got.orders
      BY <2>1 DEF NextOrder
    <3>2. PICK h \in Heard(s, skyLeg) :
            h.order = Official /\ h.reply # "unknown" /\ h.lists = got.lists
      BY <1>0, <2>1, <3>1 DEF GotInv
    <3>3. Record.orders = CalledFor(h)
      BY <1>0, <2>1, <3>1, <3>2 DEF GotInv, Record, CalledFor
    <3> QED
      BY <1>0, <2>1, <3>2, <3>3 DEF GotInv, WholeOf, Record
  <2>3. Heard(s, skyLeg)' = Heard(s, skyLeg) /\ \A t, n : Heard(t, n)' = Heard(t, n)
    BY <2>1 DEF Heard
  <2> QED
    BY <1>0, <2>1, <2>2, <2>3, RecordWritten
<1>5. ASSUME NEW s \in Series, NotFound(s) PROVE RecordInv'
  <2>1. /\ fetching = s /\ Official \notin got.orders /\ Writes(s) /\ UNCHANGED <<skyLeg, due>>
        /\ Hears(s, Official, "unknown", {})
    BY <1>5 DEF NotFound
  <2>2. PICK h0 : /\ h0.series = s /\ h0.leg = skyLeg /\ h0.order = Official /\ h0.reply = "unknown" /\ h0.lists = {}
                  /\ heard' = heard \cup {h0} /\ Heard(s, skyLeg)' = Heard(s, skyLeg) \cup {h0}
                  /\ \A t, n : t # s \/ n # skyLeg => Heard(t, n)' = Heard(t, n)
    BY <2>1, HearsOne
  <2>3. got = Nothing /\ Heard(s, skyLeg)' = {h0}
    BY <1>0, <2>1, <2>2 DEF GotInv
  <2>4. WholeOf(Heard(s, skyLeg)', Record)
    BY <2>2, <2>3 DEF WholeOf, Record, Nothing, CalledFor
  <2> QED
    BY <1>0, <2>1, <2>2, <2>4, RecordWritten
<1>6. ASSUME NEW s \in Series, Outage(s) PROVE RecordInv'
  <2>1. fetching' = NoSeries /\ UNCHANGED <<stored, read, skyLeg, due, heard>>
    BY <1>6 DEF Outage
  <2>2. LegsInv' /\ RecordsAreWhole'
    BY <1>0, <2>1 DEF LegsInv, RecordsAreWhole, Heard
  <2>3. ToFetchInv'
    BY <1>0, <2>1 DEF ToFetchInv, Heard
  <2> QED
    BY <1>0, <2>1, <2>2, <2>3 DEF RecordInv, GotInv
<1>7. CASE UNCHANGED skyVars
  <2>1. UNCHANGED <<stored, read, skyLeg, due, fetching, got, heard>>
    BY <1>7 DEF skyVars
  <2> QED
    BY <1>0, <2>1 DEF RecordInv, LegsInv, ToFetchInv, GotInv, RecordsAreWhole, Heard
<1> QED
  BY <1>1, <1>2, <1>3, <1>4, <1>5, <1>6, <1>7 DEF SkyhookNext

(* Over any series, orders and legs, whatever requests fail and wherever a leg *)
(* is cut short: a record is one complete reading, every order that the        *)
(* official reply of its leg listed, with the rows it was sent (prefetch,      *)
(* _fetch_series).                                                             *)
THEOREM RecordsStayWhole == SkyhookSpec => []RecordsAreWhole
<1>1. RecordInv => RecordsAreWhole
  BY DEF RecordInv
<1> QED
  BY <1>1, SkyhookStarts, RecordInvKept, PTL DEF SkyhookSpec

-----------------------------------------------------------------------------
(* The categories.  Until a pair is kept nothing but blanks is taken from a    *)
(* client; afterwards everything is of that pair.                              *)

CategoriesInv ==
  /\ fetchedPair \in [Uses -> Values] \cup {Unfetched}
  /\ client \in [Uses -> Values] /\ DOMAIN taken = Uses
  /\ \A u \in Uses :
       taken[u] \subseteq IF configured[u] # "absent" THEN {configured[u]}
                          ELSE IF fetchedPair = Unfetched THEN {Blank} ELSE {Blank, fetchedPair[u]}

LEMMA CategoriesStart == CategoriesInit => CategoriesInv
  BY DEF CategoriesInit, CategoriesInv

\* A pair a client has is never the mark of no pair.
LEMMA PairIsFetched ==
  ASSUME "unfetched" \notin Categories, NEW pair \in [Uses -> Values]
  PROVE  pair # Unfetched
<1>1. pair["grab"] # "unfetched"
  BY DEF Uses, Values, Blank
<1> QED
  BY <1>1 DEF Unfetched, Uses

LEMMA CategoriesInvKept ==
  ASSUME "unfetched" \notin Categories, CategoriesInv, [CategoriesNext]_catVars
  PROVE  CategoriesInv'
<1>1. ASSUME NEW u \in Uses, TakeCategory(u) PROVE CategoriesInv'
  <2>1. CASE /\ configured[u] # "absent" /\ UNCHANGED fetchedPair
             /\ taken' = [taken EXCEPT ![u] = @ \cup {configured[u]}]
    BY <1>1, <2>1 DEF TakeCategory, CategoriesInv
  <2>2. ASSUME configured[u] = "absent", NEW pair, ClientPair(pair, fetchedPair'),
               taken' = [taken EXCEPT ![u] = @ \cup {pair[u]}]
        PROVE  CategoriesInv'
    <3>1. \/ pair = Blanks /\ fetchedPair' = Unfetched
          \/ /\ fetchedPair' = pair /\ (fetchedPair = pair \/ fetchedPair = Unfetched)
             /\ pair \in [Uses -> Values] /\ pair # Unfetched
      BY <2>2, PairIsFetched DEF ClientPair, CategoriesInv
    <3>2. pair = Blanks /\ fetchedPair' = Unfetched => fetchedPair = Unfetched
      BY <2>2, PairIsFetched DEF ClientPair, CategoriesInv
    <3>3. Blanks[u] = Blank
      BY DEF Blanks
    <3>4. UNCHANGED <<configured, client>>
      BY <1>1 DEF TakeCategory
    <3> QED
      BY <2>2, <3>1, <3>2, <3>3, <3>4 DEF CategoriesInv
  <2> QED
    BY <1>1, <2>1, <2>2 DEF TakeCategory
<1>2. CASE AskUntracks
  <2>1. PICK pair : ClientPair(pair, fetchedPair')
    BY <1>2 DEF AskUntracks
  <2>2. fetchedPair' = fetchedPair \/ (fetchedPair = Unfetched /\ fetchedPair' = client)
    BY <2>1 DEF ClientPair
  <2> QED
    BY <1>2, <2>2, PairIsFetched DEF AskUntracks, CategoriesInv
<1>3. CASE EditClient
  BY <1>3 DEF EditClient, CategoriesInv
<1>4. CASE UNCHANGED catVars
  BY <1>4 DEF catVars, CategoriesInv
<1> QED
  BY <1>1, <1>2, <1>3, <1>4 DEF CategoriesNext

LEMMA CategoriesInvSettles == CategoriesInv => CategoriesSettle
<1> SUFFICES ASSUME CategoriesInv PROVE CategoriesSettle
  OBVIOUS
<1>1. ASSUME NEW u \in Uses PROVE Cardinality(taken[u] \ {Blank}) <= 1
  <2>1. PICK x : taken[u] \ {Blank} \subseteq {x}
    BY DEF CategoriesInv
  <2>2. IsFiniteSet({x}) /\ Cardinality({x}) = 1
    BY FS_Singleton
  <2> QED
    BY <2>1, <2>2, FS_Subset
<1>2. ASSUME fetchedPair # Unfetched, NEW u \in Uses
      PROVE  taken[u] \subseteq {Blank, configured[u], fetchedPair[u]}
  BY <1>2 DEF CategoriesInv
<1> QED
  BY <1>1, <1>2 DEF CategoriesSettle

(* For any category names and however often the client is edited or cannot be  *)
(* read, a leg's torrents go to one category of each use                       *)
(* (ArrCategoryResolver._client_pair).                                         *)
THEOREM CategoriesStaySettled ==
  ASSUME "unfetched" \notin Categories
  PROVE  CategoriesSpec => []CategoriesSettle
<1>1. CategoriesInv /\ [CategoriesNext]_catVars => CategoriesInv'
  BY CategoriesInvKept
<1> QED
  BY <1>1, CategoriesStart, CategoriesInvSettles, PTL DEF CategoriesSpec

-----------------------------------------------------------------------------
(* The episode lists.  Whatever is cached, or comes from a fetcher, was the    *)
(* library's since the run began; no read outlives its prefetch.               *)

SinceStart(s) == atStart[s] .. library[s]

ListsInv ==
  /\ library \in [Shows -> Nat] /\ atStart \in [Shows -> Nat]
  /\ \A s \in Shows : atStart[s] <= library[s]
  /\ DOMAIN epCache = Shows /\ \A s \in Shows : epCache[s] \in {Unread} \cup SinceStart(s)
  /\ reading \in [Fetchers -> Shows \cup {NoShow}]
  /\ queued \subseteq Shows
  /\ \A r \in results : r.show \in Shows /\ r.list \in {Failed} \cup SinceStart(r.show)
  /\ stage \notin {"warming", "stopping"} =>
       results = {} /\ \A f \in Fetchers : reading[f] = NoShow

EpisodesInv == ListsInv /\ ServedWasLibrary

LEMMA EpisodesStart == EpisodesInit => EpisodesInv
  BY DEF EpisodesInit, EpisodesInv, ListsInv, ServedWasLibrary, NoAnswer, SinceStart, Unread, Failed

\* A list read since the start stays one as the library moves.
LEMMA MovesKeep ==
  ASSUME EpisodesInv, NEW s \in Shows, LibraryMoves(s)
  PROVE  EpisodesInv'
<1>1. /\ library' \in [Shows -> Nat] /\ UNCHANGED atStart
      /\ \A q \in Shows : library'[q] >= library[q]
  BY DEF EpisodesInv, ListsInv, LibraryMoves
<1>2. \A q \in Shows : SinceStart(q) \subseteq atStart'[q] .. library'[q]
  BY <1>1 DEF SinceStart, EpisodesInv, ListsInv
<1>3. ListsInv'
  BY <1>1, <1>2 DEF EpisodesInv, ListsInv, LibraryMoves, SinceStart
<1>4. ServedWasLibrary'
  BY <1>1, <1>2 DEF EpisodesInv, ServedWasLibrary, LibraryMoves, SinceStart
<1> QED
  BY <1>3, <1>4 DEF EpisodesInv

LEMMA NowIsSinceStart ==
  ASSUME ListsInv, NEW s \in Shows
  PROVE  library[s] \in SinceStart(s) /\ library[s] \in Nat
  BY DEF ListsInv, SinceStart

\* Between two moves of the library, what was read since the start stays so.
LEMMA ListsKept ==
  ASSUME ListsInv, UNCHANGED <<library, atStart>>,
         DOMAIN epCache' = Shows, \A s \in Shows : epCache'[s] \in {Unread} \cup SinceStart(s),
         reading' \in [Fetchers -> Shows \cup {NoShow}], queued' \subseteq Shows,
         \A r \in results' : r.show \in Shows /\ r.list \in {Failed} \cup SinceStart(r.show),
         stage' \notin {"warming", "stopping"} =>
           results' = {} /\ \A f \in Fetchers : reading'[f] = NoShow
  PROVE  ListsInv'
  BY DEF ListsInv, SinceStart

LEMMA ServedKept ==
  ASSUME UNCHANGED <<library, atStart>>,
         answered' = answered \/ (answered'.show \in Shows /\ answered'.kind # "last known" =>
           answered'.list \in {Failed} \cup SinceStart(answered'.show)),
         ServedWasLibrary
  PROVE  ServedWasLibrary'
  BY DEF ServedWasLibrary, SinceStart

LEMMA EpisodesInvKept == EpisodesInv /\ [EpisodesNext]_episodeVars => EpisodesInv'
<1> SUFFICES ASSUME ListsInv, ServedWasLibrary, [EpisodesNext]_episodeVars PROVE EpisodesInv'
  BY DEF EpisodesInv
<1>0. /\ DOMAIN epCache = Shows /\ \A s \in Shows : epCache[s] \in {Unread} \cup SinceStart(s)
      /\ reading \in [Fetchers -> Shows \cup {NoShow}] /\ queued \subseteq Shows
      /\ \A r \in results : r.show \in Shows /\ r.list \in {Failed} \cup SinceStart(r.show)
      /\ stage \notin {"warming", "stopping"} =>
           results = {} /\ \A f \in Fetchers : reading[f] = NoShow
  BY DEF ListsInv
<1>1. ASSUME NEW s \in Shows, LibraryMoves(s) PROVE EpisodesInv'
  BY <1>1, MovesKeep DEF EpisodesInv
<1>2. CASE CollectSeries
  <2>1. /\ answered'.list = Failed /\ atStart' = library /\ library' = library
        /\ epCache' = [s \in Shows |-> Unread] /\ UNCHANGED <<queued, reading, results>>
        /\ stage \in {"between", "scanning"}
    BY <1>2 DEF CollectSeries, NoAnswer
  <2>2. library \in [Shows -> Nat] /\ results = {} /\ \A f \in Fetchers : reading[f] = NoShow
    BY <1>0, <2>1 DEF ListsInv
  <2>3. ListsInv'
    BY <1>0, <2>1, <2>2 DEF ListsInv
  <2> QED
    BY <2>1, <2>3 DEF EpisodesInv, ServedWasLibrary
<1>3. ASSUME NEW needs \in SUBSET Shows, Prefetch(needs) PROVE EpisodesInv'
  BY <1>0, <1>3, ListsKept, ServedKept DEF Prefetch, EpisodesInv
<1>4. ASSUME NEW f \in Fetchers, NEW s \in Shows, TakeFuture(f, s) PROVE EpisodesInv'
  BY <1>0, <1>4, ListsKept, ServedKept DEF TakeFuture, EpisodesInv
<1>5. ASSUME NEW f \in Fetchers, NEW ok \in BOOLEAN, FetchEnds(f, ok) PROVE EpisodesInv'
  <2>1. reading[f] \in Shows /\ stage \in {"warming", "stopping"}
    BY <1>0, <1>5 DEF FetchEnds
  <2>2. \A r \in results' : r.show \in Shows /\ r.list \in {Failed} \cup SinceStart(r.show)
    BY <1>0, <1>5, <2>1, NowIsSinceStart DEF FetchEnds
  <2>3. reading' \in [Fetchers -> Shows \cup {NoShow}]
    BY <1>0, <1>5 DEF FetchEnds
  <2>4. UNCHANGED <<library, atStart, epCache, queued, stage, answered>>
    BY <1>5 DEF FetchEnds
  <2> QED
    BY <1>0, <2>1, <2>2, <2>3, <2>4, ListsKept, ServedKept DEF EpisodesInv
<1>6. ASSUME NEW r \in results, Consume(r) PROVE EpisodesInv'
  <2>1. UNCHANGED <<library, atStart, queued, reading, answered>> /\ results' = results \ {r}
    BY <1>6 DEF Consume
  <2>2. DOMAIN epCache' = Shows /\ \A s \in Shows : epCache'[s] \in {Unread} \cup SinceStart(s)
    BY <1>0, <1>6 DEF Consume, Kept
  <2>3. stage' \notin {"warming", "stopping"} =>
          results' = {} /\ \A f \in Fetchers : reading'[f] = NoShow
    BY <1>6 DEF Consume
  <2> QED
    BY <1>0, <2>1, <2>2, <2>3, ListsKept, ServedKept DEF EpisodesInv
<1>7. CASE StopPrefetch \/ StopEnds
  BY <1>0, <1>7, ListsKept, ServedKept DEF StopPrefetch, StopEnds, EpisodesInv
<1>8. ASSUME NEW s \in Shows, CachedEpisodes(s) \/ ReadEpisodes(s) PROVE EpisodesInv'
  <2>1. UNCHANGED <<library, atStart, queued, reading, results, stage>>
    BY <1>8 DEF CachedEpisodes, ReadEpisodes
  <2>2. \/ epCache' = epCache
        \/ epCache' = [epCache EXCEPT ![s] = library[s]]
    BY <1>8 DEF CachedEpisodes, ReadEpisodes
  <2>3. DOMAIN epCache' = Shows /\ \A q \in Shows : epCache'[q] \in {Unread} \cup SinceStart(q)
    BY <1>0, <2>2, NowIsSinceStart
  <2>4. answered'.show = s /\ answered'.list \in {Failed} \cup SinceStart(s)
    BY <1>0, <1>8, NowIsSinceStart DEF CachedEpisodes, ReadEpisodes, Answer
  <2> QED
    BY <1>0, <2>1, <2>3, <2>4, ListsKept, ServedKept DEF EpisodesInv
<1>9. ASSUME NEW s \in Shows, LastKnownEpisodes(s) PROVE EpisodesInv'
  <2>1. answered'.kind = "last known"
    BY <1>9 DEF LastKnownEpisodes, Answer
  <2> QED
    BY <1>0, <1>9, <2>1, ListsKept, ServedKept DEF LastKnownEpisodes, EpisodesInv
<1>10. CASE UNCHANGED episodeVars
  BY <1>0, <1>10, ListsKept, ServedKept DEF episodeVars, EpisodesInv
<1> QED
  BY <1>1, <1>2, <1>3, <1>4, <1>5, <1>6, <1>7, <1>8, <1>9, <1>10 DEF EpisodesNext

(* For any series and any number of fetchers, an episode list a grab is decided *)
(* on is one the library had since the run began, whatever fetch of it failed   *)
(* (sonarr_episodes.py:199-204, run_loop.py:167).                               *)
THEOREM ServedListsWereReal == EpisodesSpec => []ServedWasLibrary
<1>1. EpisodesInv => ServedWasLibrary
  BY DEF EpisodesInv
<1> QED
  BY <1>1, EpisodesStart, EpisodesInvKept, PTL DEF EpisodesSpec

-----------------------------------------------------------------------------
(* The failure ledger of an arr.  A failed call is counted in one place at a *)
(* time, and so is what it has to announce.                                  *)

Steps == {"idle", "warn", "heartbeat", "pop", "note"}

\* f is counted by a streak, by a note on its way, or by one that went out.
Counted(w, f) ==
  /\ f \in noted[w] \/ (\E d \in Details : f \in active[<<w, d>>]) \/ Telling(w, "note", f) # {}
  /\ \A d, e \in Details : f \in active[<<w, d>>] /\ f \in active[<<w, e>>] => d = e
  /\ \A t, u \in Telling(w, "note", f) : t = u
  /\ \A d \in Details : f \in active[<<w, d>>] => Telling(w, "note", f) = {} /\ f \notin noted[w]
  /\ f \in noted[w] => Telling(w, "note", f) = {}

Announced(w, f) ==
  /\ f \in warned[w] \/ Telling(w, "warn", f) # {}
  /\ \A t, u \in Telling(w, "warn", f) : t = u
  /\ f \in warned[w] => Telling(w, "warn", f) = {}

StreaksTypes ==
  /\ calls \in Nat /\ active \in [Keys -> SUBSET Made]
  /\ \E S : doing \in [Threads -> S]
  /\ failures \in [Warnings -> SUBSET Made] /\ noted \in [Warnings -> SUBSET Made]
  /\ opened \in [Warnings -> SUBSET Made] /\ warned \in [Warnings -> SUBSET Made]
  /\ \A t \in Threads : /\ doing[t].step \in Steps
                        /\ doing[t].calls \subseteq Made
                        /\ doing[t].step # "idle" => doing[t].warn \in Warnings

\* Only what failed is counted, and only what opened a streak announced.
OfFailures(w) ==
  /\ noted[w] \subseteq failures[w] /\ \A d \in Details : active[<<w, d>>] \subseteq failures[w]
  /\ warned[w] \subseteq opened[w]
  /\ \A t \in Threads : doing[t].warn = w =>
       /\ doing[t].step = "note" => doing[t].calls \subseteq failures[w]
       /\ doing[t].step = "warn" => doing[t].calls \subseteq opened[w]

StreaksInv ==
  /\ StreaksTypes
  /\ \A w \in Warnings : /\ OfFailures(w)
                         /\ \A f \in failures[w] : Counted(w, f)
                         /\ \A f \in opened[w] : Announced(w, f)

LEMMA StreaksStart == StreaksInit => StreaksInv
<1> SUFFICES ASSUME StreaksInit PROVE StreaksInv
  OBVIOUS
<1>1. /\ \A t \in Threads : doing[t].step = "idle" /\ doing[t].calls = {}
      /\ \A w \in Warnings : failures[w] = {} /\ warned[w] = {} /\ noted[w] = {} /\ opened[w] = {}
      /\ \A w \in Warnings, d \in Details : active[<<w, d>>] = {}
  BY DEF StreaksInit, AtRest, Keys
<1>2. StreaksTypes
  <2>1. \E S : doing \in [Threads -> S]
    <3>1. doing \in [Threads -> {AtRest}]
      BY DEF StreaksInit
    <3> QED
      BY <3>1
  <2>2. /\ calls \in Nat /\ active \in [Keys -> SUBSET Made]
        /\ failures \in [Warnings -> SUBSET Made] /\ warned \in [Warnings -> SUBSET Made]
        /\ noted \in [Warnings -> SUBSET Made] /\ opened \in [Warnings -> SUBSET Made]
    BY DEF StreaksInit
  <2> QED
    BY <1>1, <2>1, <2>2 DEF StreaksTypes, Steps
<1>3. ASSUME NEW w \in Warnings PROVE OfFailures(w)
  BY <1>1, <1>3 DEF OfFailures
<1> QED
  BY <1>1, <1>2, <1>3 DEF StreaksInv

\* Who has something to tell after a step of t.
\* A thread's next message leaves doing a function.
LEMMA DoingKept ==
  ASSUME StreaksTypes, NEW t \in Threads, NEW m, doing' = [doing EXCEPT ![t] = m]
  PROVE  /\ \E S : doing' \in [Threads -> S]
         /\ doing'[t] = m /\ \A u \in Threads \ {t} : doing'[u] = doing[u]
<1>1. PICK S : doing \in [Threads -> S]
  BY DEF StreaksTypes
<1>2. doing' \in [Threads -> S \cup {m}]
  BY <1>1
<1>3. doing'[t] = m /\ \A u \in Threads \ {t} : doing'[u] = doing[u]
  BY <1>1
<1> QED
  BY <1>2, <1>3

LEMMA TellingAfter ==
  ASSUME StreaksTypes, NEW t \in Threads, NEW m, doing' = [doing EXCEPT ![t] = m],
         NEW w, NEW step, NEW f
  PROVE  /\ \A u \in Threads \ {t} : u \in Telling(w, step, f)' <=> u \in Telling(w, step, f)
         /\ t \in Telling(w, step, f)' <=> m.step = step /\ m.warn = w /\ f \in m.calls
         /\ Telling(w, step, f) \subseteq Threads /\ Telling(w, step, f)' \subseteq Threads
<1>1. doing'[t] = m /\ \A u \in Threads \ {t} : doing'[u] = doing[u]
  BY DoingKept
<1> QED
  BY <1>1 DEF Telling

\* What no step of the ledger changes for f.
LEMMA AccountsKept ==
  ASSUME NEW w \in Warnings, NEW f, f \in noted'[w] <=> f \in noted[w], f \in warned'[w] <=> f \in warned[w],
         \A d \in Details : f \in active'[<<w, d>>] <=> f \in active[<<w, d>>],
         Telling(w, "note", f)' = Telling(w, "note", f), Telling(w, "warn", f)' = Telling(w, "warn", f)
  PROVE  (Counted(w, f) => Counted(w, f)') /\ (Announced(w, f) => Announced(w, f)')
  BY DEF Counted, Announced

LEMMA FailKeeps ==
  ASSUME StreaksInv, NEW t \in Threads, NEW w \in Warnings, NEW d \in Details, Fail(t, w, d)
  PROVE  StreaksInv'
<1>n. PICK n : n = This
  OBVIOUS
<1>1. /\ doing[t].step = "idle" /\ calls' = calls + 1 /\ UNCHANGED <<warned, noted>>
      /\ failures' = [failures EXCEPT ![w] = @ \cup {n}]
      /\ active' = [active EXCEPT ![<<w, d>>] = @ \cup {n}]
      /\ opened' = [opened EXCEPT ![w] = IF active[<<w, d>>] = {} THEN @ \cup {n} ELSE @]
  BY <1>n DEF Fail, Resting, Call
<1>2. PICK m : /\ doing' = [doing EXCEPT ![t] = m]
               /\ m.step \in {"warn", "heartbeat", "idle"}
               /\ m.calls \subseteq {n}
               /\ m.step # "idle" => m.warn = w
               /\ m.step = "warn" <=> active[<<w, d>>] = {}
               /\ m.step = "warn" => m.calls = {n}
  <2>1. CASE active[<<w, d>>] = {}
    <3>1. PICK m : /\ doing' = [doing EXCEPT ![t] = m]
                   /\ m = [step |-> "warn", warn |-> w, calls |-> {n}]
      BY <1>n, <2>1 DEF Fail, Does
    <3>2. m.step = "warn" /\ m.warn = w /\ m.calls = {n}
      BY <3>1
    <3> QED
      BY <2>1, <3>1, <3>2
  <2>2. CASE active[<<w, d>>] # {}
    <3>1. PICK m : /\ doing' = [doing EXCEPT ![t] = m]
                   /\ \/ m = [step |-> "heartbeat", warn |-> w, calls |-> {}]
                      \/ m = [step |-> "idle", warn |-> "", calls |-> {}]
      BY <2>2 DEF Fail, Does
    <3>2. /\ m.step \in {"heartbeat", "idle"}
          /\ m.calls = {}
          /\ m.step = "heartbeat" => m.warn = w
      <4>1. CASE m = [step |-> "heartbeat", warn |-> w, calls |-> {}]
        BY <4>1
      <4>2. CASE m = [step |-> "idle", warn |-> "", calls |-> {}]
        <5>1. m.step = "idle"
          BY <4>2
        <5>2. m.calls = {}
          BY <4>2
        <5> QED
          BY <5>1, <5>2
      <4> QED
        BY <3>1, <4>1, <4>2
    <3> QED
      BY <2>2, <3>1, <3>2
  <2> QED
    BY <2>1, <2>2
<1>3. /\ n = calls + 1 /\ calls \in Nat /\ Made' = Made \cup {n} /\ n \notin Made
      /\ <<w, d>> \in Keys /\ \A v \in Warnings, e \in Details : <<v, e>> \in Keys
  <2>1. calls \in Nat /\ n = calls + 1
    BY <1>n DEF This, StreaksInv, StreaksTypes
  <2>2. 1..(calls + 1) = (1..calls) \cup {calls + 1} /\ calls + 1 \notin 1..calls
    BY <2>1
  <2>3. Made' = 1..(calls + 1)
    BY <1>1 DEF Made
  <2> QED
    BY <2>1, <2>2, <2>3 DEF Made, Keys
<1>4. /\ \A v \in Warnings : failures'[v] = IF v = w THEN failures[w] \cup {n} ELSE failures[v]
      /\ \A v \in Warnings : opened'[v] =
           IF v = w /\ active[<<w, d>>] = {} THEN opened[w] \cup {n} ELSE opened[v]
      /\ \A v \in Warnings, e \in Details : active'[<<v, e>>] =
           IF v = w /\ e = d THEN active[<<w, d>>] \cup {n} ELSE active[<<v, e>>]
      /\ doing'[t] = m /\ \A u \in Threads \ {t} : doing'[u] = doing[u]
      /\ \E S : doing' \in [Threads -> S]
  <2>1. StreaksTypes /\ doing' = [doing EXCEPT ![t] = m]
    BY <1>2 DEF StreaksInv
  <2>2. /\ doing'[t] = m /\ \A u \in Threads \ {t} : doing'[u] = doing[u]
        /\ \E S : doing' \in [Threads -> S]
    BY <2>1, DoingKept
  <2>3. \A v \in Warnings : failures'[v] = IF v = w THEN failures[w] \cup {n} ELSE failures[v]
    BY <1>1, <2>1 DEF StreaksTypes
  <2>4. \A v \in Warnings : opened'[v] =
           IF v = w /\ active[<<w, d>>] = {} THEN opened[w] \cup {n} ELSE opened[v]
    BY <1>1, <2>1 DEF StreaksTypes
  <2>5. ASSUME NEW v \in Warnings, NEW e \in Details
        PROVE  active'[<<v, e>>] = IF v = w /\ e = d THEN active[<<w, d>>] \cup {n} ELSE active[<<v, e>>]
    BY <1>1, <1>3, <2>1 DEF StreaksTypes
  <2> QED
    BY <2>2, <2>3, <2>4, <2>5
<1>5. StreaksTypes'
  <2>1. Made \subseteq Made' /\ calls' \in Nat
    BY <1>1, <1>3
  <2>2. \E S : doing' \in [Threads -> S]
    BY <1>4
  <2>3. active' \in [Keys -> SUBSET Made']
    BY <1>1, <1>3 DEF StreaksInv, StreaksTypes
  <2>4. /\ failures' \in [Warnings -> SUBSET Made'] /\ noted' \in [Warnings -> SUBSET Made']
        /\ opened' \in [Warnings -> SUBSET Made'] /\ warned' \in [Warnings -> SUBSET Made']
    BY <1>1, <1>3 DEF StreaksInv, StreaksTypes
  <2>5. ASSUME NEW u \in Threads
        PROVE  /\ doing'[u].step \in Steps
               /\ doing'[u].calls \subseteq Made'
               /\ doing'[u].step # "idle" => doing'[u].warn \in Warnings
    <3>1. CASE u = t
      BY <1>2, <1>3, <1>4, <3>1 DEF Steps
    <3>2. CASE u # t
      <4>1. /\ doing[u].step \in Steps
            /\ doing[u].calls \subseteq Made
            /\ doing[u].step # "idle" => doing[u].warn \in Warnings
        BY DEF StreaksInv, StreaksTypes
      <4> QED
        BY <1>4, <2>1, <3>2, <4>1
    <3> QED
      BY <3>1, <3>2
  <2> QED
    BY <2>1, <2>2, <2>3, <2>4, <2>5 DEF StreaksTypes
<1>6. ASSUME NEW v \in Warnings PROVE OfFailures(v)'
  <2>1. /\ noted'[v] = noted[v] /\ warned'[v] = warned[v]
        /\ failures[v] \subseteq failures'[v] /\ opened[v] \subseteq opened'[v]
        /\ n \in failures'[w]
    BY <1>1, <1>4
  <2>2. ASSUME NEW e \in Details PROVE active'[<<v, e>>] \subseteq failures'[v]
    BY <1>4, <2>1 DEF StreaksInv, OfFailures
  <2>3. ASSUME NEW u \in Threads, doing'[u].warn = v
        PROVE  /\ doing'[u].step = "note" => doing'[u].calls \subseteq failures'[v]
               /\ doing'[u].step = "warn" => doing'[u].calls \subseteq opened'[v]
    <3>1. CASE u = t
      <4>1. m.step # "note" /\ (m.step = "warn" => active[<<w, d>>] = {} /\ m.calls = {n} /\ m.warn = w)
        BY <1>2
      <4> QED
        BY <1>4, <2>3, <3>1, <4>1
    <3>2. CASE u # t
      BY <1>4, <2>1, <2>3, <3>2 DEF StreaksInv, OfFailures
    <3> QED
      BY <3>1, <3>2
  <2> QED
    BY <2>1, <2>2, <2>3 DEF StreaksInv, OfFailures
<1>t. ASSUME NEW v, NEW step \in {"warn", "note"}, NEW f
      PROVE  Telling(v, step, f)' = Telling(v, step, f)
               \cup {u \in {t} : m.step = step /\ m.warn = v /\ f \in m.calls}
  <2>1. t \notin Telling(v, step, f)
    BY <1>1 DEF Telling
  <2>2. Telling(v, step, f)' = (Telling(v, step, f) \ {t})
           \cup {u \in {t} : m.step = step /\ m.warn = v /\ f \in m.calls}
    <3>1. doing' = [doing EXCEPT ![t] = m]
      BY <1>2
    <3>2. StreaksTypes
      BY DEF StreaksInv
    <3>3. /\ \A u \in Threads \ {t} : u \in Telling(v, step, f)' <=> u \in Telling(v, step, f)
          /\ t \in Telling(v, step, f)' <=> m.step = step /\ m.warn = v /\ f \in m.calls
          /\ Telling(v, step, f) \subseteq Threads /\ Telling(v, step, f)' \subseteq Threads
      BY <3>1, <3>2, TellingAfter
    <3> QED
      BY <3>3
  <2> QED
    BY <2>1, <2>2
<1>7. ASSUME NEW v \in Warnings, NEW f \in Made
      PROVE  (Counted(v, f) => Counted(v, f)') /\ (Announced(v, f) => Announced(v, f)')
  <2>1. f # n
    BY <1>3
  <2>2. Telling(v, "note", f)' = Telling(v, "note", f) /\ Telling(v, "warn", f)' = Telling(v, "warn", f)
    <3>1. f \notin m.calls
      BY <1>2, <2>1
    <3>2. /\ Telling(v, "note", f)' = Telling(v, "note", f) \cup {u \in {t} : m.step = "note" /\ m.warn = v /\ f \in m.calls}
          /\ Telling(v, "warn", f)' = Telling(v, "warn", f) \cup {u \in {t} : m.step = "warn" /\ m.warn = v /\ f \in m.calls}
      BY <1>t
    <3> QED
      BY <3>1, <3>2
  <2>3. /\ f \in noted'[v] <=> f \in noted[v]
        /\ f \in warned'[v] <=> f \in warned[v]
        /\ \A e \in Details : f \in active'[<<v, e>>] <=> f \in active[<<v, e>>]
    BY <1>1, <1>4, <2>1
  <2> QED
    BY <2>2, <2>3, AccountsKept
<1>8. \A v \in Warnings : /\ n \notin noted[v] /\ n \notin warned[v]
                          /\ \A e \in Details : n \notin active[<<v, e>>]
                          /\ \A u \in Threads : n \notin doing[u].calls
  <2> SUFFICES ASSUME NEW v \in Warnings
               PROVE  /\ n \notin noted[v] /\ n \notin warned[v]
                      /\ \A e \in Details : n \notin active[<<v, e>>]
                      /\ \A u \in Threads : n \notin doing[u].calls
    OBVIOUS
  <2>1. noted[v] \subseteq Made /\ warned[v] \subseteq Made
    BY DEF StreaksInv, StreaksTypes
  <2>2. \A e \in Details : active[<<v, e>>] \subseteq Made
    BY <1>3 DEF StreaksInv, StreaksTypes
  <2>3. \A u \in Threads : doing[u].calls \subseteq Made
    BY DEF StreaksInv, StreaksTypes
  <2> QED
    BY <1>3, <2>1, <2>2, <2>3
<1>9. Counted(w, n)'
  <2>1. Telling(w, "note", n) = {} /\ m.step # "note"
    BY <1>2, <1>8 DEF Telling
  <2>2. Telling(w, "note", n)' = {}
    BY <1>t, <2>1
  <2>3. /\ n \notin noted'[w]
        /\ \A e \in Details : n \in active'[<<w, e>>] <=> e = d
    BY <1>1, <1>4, <1>8
  <2> QED
    BY <2>2, <2>3 DEF Counted
<1>10. active[<<w, d>>] = {} => Announced(w, n)'
  <2> SUFFICES ASSUME active[<<w, d>>] = {} PROVE Announced(w, n)'
    OBVIOUS
  <2>1. Telling(w, "warn", n) = {} /\ m.step = "warn" /\ m.warn = w /\ n \in m.calls
    BY <1>2, <1>8 DEF Telling
  <2>2. Telling(w, "warn", n)' = {t}
    BY <1>t, <2>1
  <2> QED
    BY <1>1, <1>8, <2>2 DEF Announced
<1>11. ASSUME NEW v \in Warnings, NEW f \in failures'[v] PROVE Counted(v, f)'
  <2>1. CASE f \in failures[v]
    BY <1>7, <2>1 DEF StreaksInv, StreaksTypes
  <2>2. CASE f \notin failures[v]
    <3>1. v = w /\ f = n
      BY <1>4, <1>11, <2>2
    <3> QED
      BY <1>9, <3>1
  <2> QED
    BY <2>1, <2>2
<1>12. ASSUME NEW v \in Warnings, NEW f \in opened'[v] PROVE Announced(v, f)'
  <2>1. CASE f \in opened[v]
    BY <1>7, <2>1 DEF StreaksInv, StreaksTypes
  <2>2. CASE f \notin opened[v]
    <3>1. v = w /\ f = n /\ active[<<w, d>>] = {}
      BY <1>4, <1>12, <2>2
    <3> QED
      BY <1>10, <3>1
  <2> QED
    BY <2>1, <2>2
<1> QED
  BY <1>5, <1>6, <1>11, <1>12 DEF StreaksInv

LEMMA PopKeeps ==
  ASSUME StreaksInv, NEW t \in Threads, Pop(t)
  PROVE  StreaksInv'
<1> DEFINE w == doing[t].warn
           ended == UNION {active[<<w, d>>] : d \in Details}
<1>1. /\ doing[t].step = "pop" /\ w \in Warnings /\ UNCHANGED <<failures, warned, noted, opened, calls>>
      /\ active' = [k \in Keys |-> IF k[1] = w THEN {} ELSE active[k]]
  <2>1. doing[t].step = "pop" /\ UNCHANGED <<failures, warned, noted, opened, calls>>
        /\ active' = [k \in Keys |-> IF k[1] = w THEN {} ELSE active[k]]
    BY DEF Pop
  <2>2. doing[t].step # "idle" => doing[t].warn \in Warnings
    BY DEF StreaksInv, StreaksTypes
  <2> QED
    BY <2>1, <2>2
<1>2. PICK m : /\ doing' = [doing EXCEPT ![t] = m]
               /\ m.step = (IF ended = {} THEN "idle" ELSE "note") /\ m.warn = w /\ m.calls = ended
  <2>1. PICK m : /\ doing' = [doing EXCEPT ![t] = m]
                 /\ m = [step |-> IF ended = {} THEN "idle" ELSE "note", warn |-> w, calls |-> ended]
    BY DEF Pop, Does
  <2>2. m.step = (IF ended = {} THEN "idle" ELSE "note") /\ m.warn = w /\ m.calls = ended
    BY <2>1
  <2> QED
    BY <2>1, <2>2
<1>3. /\ \A v \in Warnings, e \in Details : active'[<<v, e>>] = IF v = w THEN {} ELSE active[<<v, e>>]
      /\ doing'[t] = m /\ \A u \in Threads \ {t} : doing'[u] = doing[u]
      /\ \E S : doing' \in [Threads -> S]
  <2>1. StreaksTypes /\ doing' = [doing EXCEPT ![t] = m]
    BY <1>2 DEF StreaksInv
  <2>2. /\ doing'[t] = m /\ \A u \in Threads \ {t} : doing'[u] = doing[u]
        /\ \E S : doing' \in [Threads -> S]
    BY <2>1, DoingKept
  <2> QED
    BY <1>1, <2>2 DEF Keys
<1>4. ended \subseteq Made /\ ended \subseteq failures[w] /\ Made' = Made
  <2>1. Made' = Made
    BY <1>1 DEF Made
  <2>2. ASSUME NEW d \in Details PROVE active[<<w, d>>] \subseteq Made /\ active[<<w, d>>] \subseteq failures[w]
    BY <1>1 DEF StreaksInv, StreaksTypes, OfFailures, Keys
  <2> QED
    BY <2>1, <2>2
<1>5. StreaksTypes'
  <2>1. \E S : doing' \in [Threads -> S]
    BY <1>3
  <2>2. active' \in [Keys -> SUBSET Made]
    BY <1>1 DEF StreaksInv, StreaksTypes
  <2>3. ASSUME NEW u \in Threads
        PROVE  /\ doing'[u].step \in Steps
               /\ doing'[u].calls \subseteq Made
               /\ doing'[u].step # "idle" => doing'[u].warn \in Warnings
    <3>1. CASE u = t
      BY <1>1, <1>2, <1>3, <1>4, <3>1 DEF Steps
    <3>2. CASE u # t
      <4>1. /\ doing[u].step \in Steps
            /\ doing[u].calls \subseteq Made
            /\ doing[u].step # "idle" => doing[u].warn \in Warnings
        BY DEF StreaksInv, StreaksTypes
      <4> QED
        BY <1>3, <3>2, <4>1
    <3> QED
      BY <3>1, <3>2
  <2> QED
    BY <1>1, <1>4, <2>1, <2>2, <2>3 DEF StreaksInv, StreaksTypes
<1>6. ASSUME NEW v \in Warnings PROVE OfFailures(v)'
  BY <1>1, <1>2, <1>3, <1>4 DEF StreaksInv, OfFailures
<1>7. ASSUME NEW v \in Warnings, NEW f
      PROVE  /\ Telling(v, "warn", f)' = Telling(v, "warn", f)
             /\ Telling(v, "note", f)' =
                  Telling(v, "note", f) \cup {u \in {t} : v = w /\ f \in ended}
  <2>1. t \notin Telling(v, "warn", f) /\ t \notin Telling(v, "note", f)
    BY <1>1 DEF Telling
  <2>2. /\ m.step # "warn" /\ m.warn = w
        /\ m.calls = ended
        /\ f \in ended => m.step = "note"
    BY <1>2
  <2>3. ASSUME NEW step
        PROVE  Telling(v, step, f)' = (Telling(v, step, f) \ {t})
                 \cup {u \in {t} : m.step = step /\ m.warn = v /\ f \in m.calls}
    <3>1. doing' = [doing EXCEPT ![t] = m]
      BY <1>2
    <3>2. StreaksTypes
      BY DEF StreaksInv
    <3>3. /\ \A u \in Threads \ {t} : u \in Telling(v, step, f)' <=> u \in Telling(v, step, f)
          /\ t \in Telling(v, step, f)' <=> m.step = step /\ m.warn = v /\ f \in m.calls
          /\ Telling(v, step, f) \subseteq Threads /\ Telling(v, step, f)' \subseteq Threads
      BY <3>1, <3>2, TellingAfter
    <3> QED
      BY <3>3
  <2> HIDE DEF w, ended
  <2> QED
    BY <2>1, <2>2, <2>3
<1>8. ASSUME NEW v \in Warnings, NEW f \in opened[v] PROVE Announced(v, f)'
  BY <1>1, <1>7 DEF StreaksInv, Announced
<1>9. ASSUME NEW v \in Warnings, NEW f \in failures[v] PROVE Counted(v, f)'
  <2>1. Counted(v, f)
    BY DEF StreaksInv
  <2>2. CASE v = w /\ f \in ended
    <3>1. PICK e \in Details : f \in active[<<w, e>>]
      BY <2>2
    <3>2. Telling(v, "note", f) = {} /\ f \notin noted[v]
      BY <2>1, <2>2, <3>1 DEF Counted
    <3>3. Telling(v, "note", f)' = {t}
      BY <1>7, <2>2, <3>2
    <3>4. \A d \in Details : f \notin active'[<<v, d>>]
      BY <1>3, <2>2
    <3>5. f \notin noted'[v]
      BY <1>1, <3>2
    <3> QED
      BY <3>3, <3>4, <3>5 DEF Counted
  <2>3. CASE ~(v = w /\ f \in ended)
    <3>1. Telling(v, "note", f)' = Telling(v, "note", f)
      BY <1>7, <2>3
    <3>2. \A d \in Details : f \in active'[<<v, d>>] <=> f \in active[<<v, d>>]
      BY <1>3, <2>3
    <3> QED
      BY <1>1, <1>7, <2>1, <3>1, <3>2, AccountsKept
  <2> QED
    BY <2>2, <2>3
<1> QED
  BY <1>1, <1>5, <1>6, <1>8, <1>9 DEF StreaksInv

LEMMA EmitKeeps ==
  ASSUME StreaksInv, NEW t \in Threads, Emit(t)
  PROVE  StreaksInv'
<1> DEFINE m == doing[t]
<1>1. /\ m.step \in {"warn", "heartbeat", "note"} /\ m.warn \in Warnings /\ m.calls \subseteq Made
      /\ UNCHANGED <<active, failures, opened, calls>>
      /\ warned' = [warned EXCEPT ![m.warn] = IF m.step = "warn" THEN @ \cup m.calls ELSE @]
      /\ noted' = [noted EXCEPT ![m.warn] = IF m.step = "note" THEN @ \cup m.calls ELSE @]
      /\ doing' = [doing EXCEPT ![t] = [step |-> "idle", warn |-> "", calls |-> {}]]
  <2>1. /\ m.step \in {"warn", "heartbeat", "note"}
        /\ UNCHANGED <<active, failures, opened, calls>>
        /\ warned' = [warned EXCEPT ![m.warn] = IF m.step = "warn" THEN @ \cup m.calls ELSE @]
        /\ noted' = [noted EXCEPT ![m.warn] = IF m.step = "note" THEN @ \cup m.calls ELSE @]
        /\ doing' = [doing EXCEPT ![t] = [step |-> "idle", warn |-> "", calls |-> {}]]
    BY DEF Emit, Does
  <2>2. (m.step # "idle" => m.warn \in Warnings) /\ m.calls \subseteq Made
    BY DEF StreaksInv, StreaksTypes
  <2> QED
    BY <2>1, <2>2
<1>2. /\ \A v \in Warnings : noted'[v] =
           IF v = m.warn /\ m.step = "note" THEN noted[v] \cup m.calls ELSE noted[v]
      /\ \A v \in Warnings : warned'[v] =
           IF v = m.warn /\ m.step = "warn" THEN warned[v] \cup m.calls ELSE warned[v]
      /\ \A u \in Threads \ {t} : doing'[u] = doing[u]
      /\ doing'[t].step = "idle" /\ doing'[t].calls = {}
      /\ Made' = Made /\ \E S : doing' \in [Threads -> S]
  <2>1. StreaksTypes
    BY DEF StreaksInv
  <2> DEFINE rest == [step |-> "idle", warn |-> "", calls |-> {}]
  <2>a. rest.step = "idle" /\ rest.calls = {} /\ doing' = [doing EXCEPT ![t] = rest]
    BY <1>1
  <2> HIDE DEF rest
  <2>2. /\ doing'[t] = rest
        /\ \A u \in Threads \ {t} : doing'[u] = doing[u]
        /\ \E S : doing' \in [Threads -> S]
    BY <2>a, <2>1, DoingKept
  <2>3. doing'[t].step = "idle" /\ doing'[t].calls = {}
    BY <2>a, <2>2
  <2>4. /\ \A v \in Warnings : noted'[v] =
             IF v = m.warn /\ m.step = "note" THEN noted[v] \cup m.calls ELSE noted[v]
        /\ \A v \in Warnings : warned'[v] =
             IF v = m.warn /\ m.step = "warn" THEN warned[v] \cup m.calls ELSE warned[v]
    BY <1>1, <2>1 DEF StreaksTypes
  <2> QED
    BY <1>1, <2>2, <2>3, <2>4 DEF Made
<1>a. active' = active /\ failures' = failures /\ opened' = opened /\ calls' = calls
  BY <1>1
<1>3. StreaksTypes'
  <2>1. \E S : doing' \in [Threads -> S]
    BY <1>2
  <2>2. noted' \in [Warnings -> SUBSET Made] /\ warned' \in [Warnings -> SUBSET Made]
    BY <1>1 DEF StreaksInv, StreaksTypes
  <2>3. ASSUME NEW u \in Threads
        PROVE  /\ doing'[u].step \in Steps
               /\ doing'[u].calls \subseteq Made
               /\ doing'[u].step # "idle" => doing'[u].warn \in Warnings
    <3>1. CASE u = t
      BY <1>2, <3>1 DEF Steps
    <3>2. CASE u # t
      <4>1. /\ doing[u].step \in Steps
            /\ doing[u].calls \subseteq Made
            /\ doing[u].step # "idle" => doing[u].warn \in Warnings
        BY DEF StreaksInv, StreaksTypes
      <4> QED
        BY <1>2, <3>2, <4>1
    <3> QED
      BY <3>1, <3>2
  <2> QED
    BY <1>1, <1>2, <2>1, <2>2, <2>3 DEF StreaksInv, StreaksTypes
<1>4. ASSUME NEW v \in Warnings PROVE OfFailures(v)'
  <2>1. noted'[v] \subseteq failures'[v] /\ warned'[v] \subseteq opened'[v]
    <3>1. /\ noted[v] \subseteq failures[v]
          /\ warned[v] \subseteq opened[v]
          /\ (m.warn = v /\ m.step = "note") => m.calls \subseteq failures[v]
          /\ (m.warn = v /\ m.step = "warn") => m.calls \subseteq opened[v]
      BY DEF StreaksInv, OfFailures
    <3>2. CASE m.warn = v /\ m.step = "note"
      BY <1>a, <1>2, <3>1, <3>2
    <3>3. CASE m.warn = v /\ m.step = "warn"
      BY <1>a, <1>2, <3>1, <3>3
    <3>4. CASE m.warn # v \/ m.step \notin {"note", "warn"}
      BY <1>a, <1>2, <3>1, <3>4
    <3> QED
      BY <3>2, <3>3, <3>4
  <2>2. ASSUME NEW u \in Threads, doing'[u].warn = v
        PROVE  /\ doing'[u].step = "note" => doing'[u].calls \subseteq failures'[v]
               /\ doing'[u].step = "warn" => doing'[u].calls \subseteq opened'[v]
    <3>1. CASE u = t
      BY <1>2, <3>1
    <3>2. CASE u # t
      <4>1. doing[u].warn = v => /\ doing[u].step = "note" => doing[u].calls \subseteq failures[v]
                                 /\ doing[u].step = "warn" => doing[u].calls \subseteq opened[v]
        BY DEF StreaksInv, OfFailures
      <4> QED
        BY <1>a, <1>2, <2>2, <3>2, <4>1
    <3> QED
      BY <3>1, <3>2
  <2> QED
    BY <1>a, <2>1, <2>2 DEF StreaksInv, OfFailures
<1>5. ASSUME NEW v \in Warnings, NEW f, NEW step \in {"note", "warn"}
      PROVE  Telling(v, step, f)' = Telling(v, step, f) \ {t}
  <2>1. t \notin Telling(v, step, f)'
    BY <1>2 DEF Telling
  <2>2. \A u \in Threads \ {t} : u \in Telling(v, step, f)' <=> u \in Telling(v, step, f)
    BY <1>2 DEF Telling
  <2> QED
    BY <2>1, <2>2 DEF Telling
<1>6. ASSUME NEW v \in Warnings, NEW f, NEW step \in {"note", "warn"}
      PROVE  t \in Telling(v, step, f) <=> v = m.warn /\ m.step = step /\ f \in m.calls
  BY DEF Telling
<1>7. ASSUME NEW v \in Warnings, NEW f \in failures[v] PROVE Counted(v, f)'
  <2>1. Counted(v, f)
    BY DEF StreaksInv
  <2>2. /\ f \in noted'[v] <=> f \in noted[v] \/ t \in Telling(v, "note", f)
        /\ Telling(v, "note", f)' = Telling(v, "note", f) \ {t}
        /\ active' = active
    <3>1. /\ Telling(v, "note", f)' = Telling(v, "note", f) \ {t}
          /\ t \in Telling(v, "note", f) <=> v = m.warn /\ m.step = "note" /\ f \in m.calls
      BY <1>5, <1>6
    <3>2. noted'[v] = IF v = m.warn /\ m.step = "note" THEN noted[v] \cup m.calls ELSE noted[v]
      BY <1>2
    <3> QED
      BY <1>a, <3>1, <3>2
  <2> QED
    BY <2>1, <2>2 DEF Counted
<1>8. ASSUME NEW v \in Warnings, NEW f \in opened[v] PROVE Announced(v, f)'
  <2>1. Announced(v, f)
    BY DEF StreaksInv
  <2>2. /\ f \in warned'[v] <=> f \in warned[v] \/ t \in Telling(v, "warn", f)
        /\ Telling(v, "warn", f)' = Telling(v, "warn", f) \ {t}
    <3>1. /\ Telling(v, "warn", f)' = Telling(v, "warn", f) \ {t}
          /\ t \in Telling(v, "warn", f) <=> v = m.warn /\ m.step = "warn" /\ f \in m.calls
      BY <1>5, <1>6
    <3>2. warned'[v] = IF v = m.warn /\ m.step = "warn" THEN warned[v] \cup m.calls ELSE warned[v]
      BY <1>2
    <3> QED
      BY <1>a, <3>1, <3>2
  <2> QED
    BY <2>1, <2>2 DEF Announced
<1> QED
  BY <1>a, <1>3, <1>4, <1>7, <1>8 DEF StreaksInv

LEMMA StreaksInvKept == StreaksInv /\ [StreaksNext]_streakVars => StreaksInv'
<1> SUFFICES ASSUME StreaksInv, [StreaksNext]_streakVars PROVE StreaksInv'
  OBVIOUS
<1>1. ASSUME NEW t \in Threads, NEW w \in Warnings, Succeed(t, w) PROVE StreaksInv'
  <2>1. /\ doing[t].step = "idle" /\ calls' = calls + 1
        /\ UNCHANGED <<active, failures, warned, noted, opened>>
    BY <1>1 DEF Succeed, Resting, Call
  <2>2. PICK m : /\ doing' = [doing EXCEPT ![t] = m]
                 /\ m.step \in {"idle", "pop"}
                 /\ m.warn = w
                 /\ m.calls = {}
    <3>1. PICK m : doing' = [doing EXCEPT ![t] = m] /\ \E step \in {"idle", "pop"} :
            m = [step |-> step, warn |-> w, calls |-> {}]
      BY <1>1 DEF Succeed, Does
    <3>2. m.step \in {"idle", "pop"} /\ m.warn = w /\ m.calls = {}
      BY <3>1
    <3> QED
      BY <3>1, <3>2
  <2>3. Made \subseteq Made' /\ calls' \in Nat
    <3>1. calls \in Nat /\ 1..calls \subseteq 1..(calls + 1)
      BY DEF StreaksInv, StreaksTypes
    <3>2. Made' = 1..(calls + 1)
      BY <2>1 DEF Made
    <3> QED
      BY <2>1, <3>1, <3>2 DEF Made
  <2>4. /\ doing'[t] = m
        /\ \A u \in Threads \ {t} : doing'[u] = doing[u]
        /\ \E S : doing' \in [Threads -> S]
    BY <2>2, DoingKept DEF StreaksInv
  <2>5. \A v, f : /\ Telling(v, "note", f)' = Telling(v, "note", f)
                  /\ Telling(v, "warn", f)' = Telling(v, "warn", f)
    BY <2>1, <2>2, <2>4 DEF Telling
  <2>6. StreaksTypes'
    <3>1. ASSUME NEW u \in Threads
          PROVE  /\ doing'[u].step \in Steps
                 /\ doing'[u].calls \subseteq Made'
                 /\ doing'[u].step # "idle" => doing'[u].warn \in Warnings
      <4>1. CASE u = t
        BY <2>2, <2>4, <4>1 DEF Steps
      <4>2. CASE u # t
        <5>1. /\ doing[u].step \in Steps
              /\ doing[u].calls \subseteq Made
              /\ doing[u].step # "idle" => doing[u].warn \in Warnings
          BY DEF StreaksInv, StreaksTypes
        <5> QED
          BY <2>3, <2>4, <4>2, <5>1
      <4> QED
        BY <4>1, <4>2
    <3>2. /\ active' \in [Keys -> SUBSET Made']
          /\ failures' \in [Warnings -> SUBSET Made'] /\ noted' \in [Warnings -> SUBSET Made']
          /\ opened' \in [Warnings -> SUBSET Made'] /\ warned' \in [Warnings -> SUBSET Made']
      BY <2>1, <2>3 DEF StreaksInv, StreaksTypes
    <3> QED
      BY <2>3, <2>4, <3>1, <3>2 DEF StreaksTypes
  <2>7. ASSUME NEW v \in Warnings PROVE OfFailures(v)'
    <3>1. ASSUME NEW u \in Threads, doing'[u].warn = v
          PROVE  /\ doing'[u].step = "note" => doing'[u].calls \subseteq failures'[v]
                 /\ doing'[u].step = "warn" => doing'[u].calls \subseteq opened'[v]
      <4>1. CASE u = t
        BY <2>2, <2>4, <4>1
      <4>2. CASE u # t
        BY <2>1, <2>4, <3>1, <4>2 DEF StreaksInv, OfFailures
      <4> QED
        BY <4>1, <4>2
    <3> QED
      BY <2>1, <3>1 DEF StreaksInv, OfFailures
  <2>8. ASSUME NEW v \in Warnings, NEW f
        PROVE  (Counted(v, f) => Counted(v, f)') /\ (Announced(v, f) => Announced(v, f)')
    BY <2>1, <2>5, AccountsKept
  <2> QED
    BY <2>1, <2>6, <2>7, <2>8 DEF StreaksInv
<1>2. CASE UNCHANGED streakVars
  <2>1. /\ UNCHANGED <<active, doing, failures, warned, noted, opened, calls>> /\ Made' = Made
        /\ \A v, step, f : Telling(v, step, f)' = Telling(v, step, f)
    BY <1>2 DEF streakVars, Made, Telling
  <2> QED
    BY <2>1 DEF StreaksInv, StreaksTypes, OfFailures, Counted, Announced
<1> QED
  BY <1>1, <1>2, FailKeeps, PopKeeps, EmitKeeps DEF StreaksNext

(* However the threads that share the ledger interleave, every failed call is  *)
(* counted by one open streak or told of by one recovery note, and every       *)
(* streak is announced once (ArrHttp._fail, _recover).                         *)
THEOREM FailuresStayAccounted == StreaksSpec => []FailuresAccounted
<1>1. ASSUME StreaksInv PROVE FailuresAccounted
  <2>1. ASSUME NEW w \in Warnings, NEW f \in failures[w] PROVE Cardinality(CountedIn(w, f)) = 1
    <3>1. Counted(w, f)
      BY <1>1 DEF StreaksInv
    <3>2. \E place : CountedIn(w, f) = {place}
      <4>1. CASE f \in noted[w]
        <5>1. CountedIn(w, f) = {<<"noted", f>>}
          BY <3>1, <4>1 DEF Counted, CountedIn
        <5> QED
          BY <5>1
      <4>2. ASSUME NEW d \in Details, f \in active[<<w, d>>] PROVE \E place : CountedIn(w, f) = {place}
        <5>1. {x \in Details : f \in active[<<w, x>>]} = {d} /\ Telling(w, "note", f) = {} /\ f \notin noted[w]
          BY <3>1, <4>2 DEF Counted
        <5>2. CountedIn(w, f) = {<<"streak", d>>}
          BY <5>1 DEF CountedIn
        <5> QED
          BY <5>2
      <4>3. ASSUME NEW t \in Telling(w, "note", f) PROVE \E place : CountedIn(w, f) = {place}
        <5>1. Telling(w, "note", f) = {t} /\ f \notin noted[w] /\ \A d \in Details : f \notin active[<<w, d>>]
          BY <3>1, <4>3 DEF Counted
        <5>2. CountedIn(w, f) = {<<"note of", t>>}
          BY <5>1 DEF CountedIn
        <5> QED
          BY <5>2
      <4> QED
        BY <3>1, <4>1, <4>2, <4>3 DEF Counted
    <3> QED
      BY <3>2, FS_Singleton
  <2>2. ASSUME NEW w \in Warnings, NEW f \in opened[w] PROVE Cardinality(AnnouncedBy(w, f)) = 1
    <3>1. Announced(w, f)
      BY <1>1 DEF StreaksInv
    <3>2. \E place : AnnouncedBy(w, f) = {place}
      <4>1. CASE f \in warned[w]
        <5>1. AnnouncedBy(w, f) = {<<"warned", f>>}
          BY <3>1, <4>1 DEF Announced, AnnouncedBy
        <5> QED
          BY <5>1
      <4>2. ASSUME NEW t \in Telling(w, "warn", f) PROVE \E place : AnnouncedBy(w, f) = {place}
        <5>1. Telling(w, "warn", f) = {t} /\ f \notin warned[w]
          BY <3>1, <4>2 DEF Announced
        <5>2. AnnouncedBy(w, f) = {<<"warning of", t>>}
          BY <5>1 DEF AnnouncedBy
        <5> QED
          BY <5>2
      <4> QED
        BY <3>1, <4>1, <4>2 DEF Announced
    <3> QED
      BY <3>2, FS_Singleton
  <2> QED
    BY <1>1, <2>1, <2>2 DEF StreaksInv, OfFailures, FailuresAccounted
<1>2. StreaksInv => FailuresAccounted
  BY <1>1
<1> QED
  BY <1>2, StreaksStart, StreaksInvKept, PTL DEF StreaksSpec

-----------------------------------------------------------------------------
(* The mappings.  What an entry is given is followed back through the tables *)
(* and the indexes to the targets of the file.                               *)

\* The first of some places is one of them.
LEMMA LeastIndex ==
  ASSUME NEW S, S \subseteq Nat, S # {}
  PROVE  First(S) \in S
<1>1. PICK n \in S : \A m \in S : <<m, n>> \notin OpToRel(<, Nat)
  BY NatLessThanWellFounded, WFMin
<1>2. \A m \in S : ~(m < n)
  BY <1>1 DEF OpToRel
<1>3. \A m \in S : n <= m
  BY <1>2
<1> QED
  BY <1>3 DEF First

(* The tables answer as the records do.                                      *)

\* What parsing a file leaves of an entry's record: all but the shared aliases.
LEMMA ParsedShape ==
  ASSUME NEW g, NEW a \in DOMAIN g
  PROVE  /\ DOMAIN Parse(g) = DOMAIN g
         /\ Parse(g)[a].shows = RecordOf(g[a]).shows
         /\ Parse(g)[a].anidb = RecordOf(g[a]).anidb
         /\ Parse(g)[a].movies = RecordOf(g[a]).movies
         /\ Parse(g)[a].imdbs = RecordOf(g[a]).imdbs
         /\ Parse(g)[a].aliasing = UnsharedAliasing(RecordsOf(g), a)
  BY DEF Parse, RecordOf

\* What a record needs to be stored: each season's ranges, each show's aliases.
ShowsStorable(shows) ==
  \A show \in DOMAIN shows :
    /\ shows[show] = [season \in DOMAIN shows[show] |-> shows[show][season]]
    /\ \A season \in DOMAIN shows[show] : shows[show][season] \subseteq Nat \X Int
AliasingStorable(aliasing) ==
  \A show \in DOMAIN aliasing :
    /\ aliasing[show] = [tmdb |-> aliasing[show].tmdb, aliases |-> aliasing[show].aliases]
    /\ aliasing[show].aliases = [n \in DOMAIN aliasing[show].aliases |-> aliasing[show].aliases[n]]
    /\ DOMAIN aliasing[show].aliases # {}

\* The ranges a file maps have a start, so none reads as a season without one.
LEMMA RangesOfTarget ==
  ASSUME NEW g \in Graphs, NEW a \in DOMAIN g, NEW t \in Range(g[a])
  PROVE  TargetRanges(t) \subseteq Nat \X Int
<1> SUFFICES ASSUME NEW p \in TargetRanges(t) PROVE p \in Nat \X Int
  OBVIOUS
<1>1. PICK i \in DOMAIN t.map : p \in Range(t.map[i].to.pieces) \ {Junk}
  BY DEF TargetRanges, ParseRanges
<1>2. Range(t.map[i].to.pieces) \subseteq Pieces
  BY AniBridgeAssumption
<1> QED
  BY <1>1, <1>2 DEF Pieces

LEMMA ShowsAreStorable ==
  ASSUME NEW g \in Graphs, NEW a \in DOMAIN g
  PROVE  ShowsStorable(RecordOf(g[a]).shows)
<1>1. RecordOf(g[a]).shows = [show \in ShowIds(g[a]) |-> SeasonMaps(g[a], show)]
  BY DEF RecordOf
<1> SUFFICES ASSUME NEW show \in ShowIds(g[a])
             PROVE  LET maps == SeasonMaps(g[a], show)
                    IN /\ maps = [season \in DOMAIN maps |-> maps[season]]
                       /\ \A season \in DOMAIN maps : maps[season] \subseteq Nat \X Int
  BY <1>1 DEF ShowsStorable
<1> DEFINE maps == SeasonMaps(g[a], show)
<1>2. maps = [season \in DOMAIN maps |-> maps[season]]
  BY DEF SeasonMaps
<1>3. ASSUME NEW season \in DOMAIN maps PROVE maps[season] \subseteq Nat \X Int
  <2>1. maps[season] = UNION {TargetRanges(t) : t \in {u \in OnShow(g[a], show) : u.season = season}}
    BY DEF SeasonMaps
  <2>2. \A t \in OnShow(g[a], show) : TargetRanges(t) \subseteq Nat \X Int
    BY RangesOfTarget DEF OnShow
  <2> QED
    BY <2>1, <2>2
<1> QED
  BY <1>2, <1>3

LEMMA AliasingIsStorable ==
  ASSUME NEW recs, NEW a
  PROVE  AliasingStorable(UnsharedAliasing(recs, a))
  BY DEF AliasingStorable, UnsharedAliasing

\* The rows of one season, read back, are its ranges.
LEMMA RangesReadBack ==
  ASSUME NEW a, NEW shows, NEW show \in DOMAIN shows, ShowsStorable(shows),
         NEW hits, hits = UNION {RangeRows(a, show, season, shows[show][season]) : season \in DOMAIN shows[show]}
  PROVE  RangesToMappings(hits) = shows[show]
<1> DEFINE maps == shows[show]
           own(season) == {h \in hits : h.season = season /\ h.start # NoNumber}
<1>1. /\ maps = [season \in DOMAIN maps |-> maps[season]]
      /\ \A season \in DOMAIN maps : maps[season] \subseteq Nat \X Int
  BY DEF ShowsStorable
<1>2. \A season \in DOMAIN maps : \A h \in RangeRows(a, show, season, maps[season]) :
        /\ h.season = season
        /\ h.start # NoNumber => <<h.start, h.end>> \in maps[season]
  <2> SUFFICES ASSUME NEW season \in DOMAIN maps, NEW h \in RangeRows(a, show, season, maps[season])
               PROVE  /\ h.season = season
                      /\ h.start # NoNumber => <<h.start, h.end>> \in maps[season]
    OBVIOUS
  <2>1. PICK p \in IF maps[season] = {} THEN {<<NoNumber, NoNumber>>} ELSE maps[season] :
          h = [al |-> a, show |-> show, season |-> season, start |-> p[1], end |-> p[2]]
    BY DEF RangeRows
  <2>2. p[1] # NoNumber => p \in maps[season] /\ p = <<p[1], p[2]>>
    BY <2>1, <1>1 DEF NoNumber
  <2> QED
    BY <2>1, <2>2
<1>3. {h.season : h \in hits} = DOMAIN maps
  <2>1. \A season \in DOMAIN maps : \E h \in RangeRows(a, show, season, maps[season]) : h.season = season
    <3> SUFFICES ASSUME NEW season \in DOMAIN maps
                 PROVE  \E h \in RangeRows(a, show, season, maps[season]) : h.season = season
      OBVIOUS
    <3>1. PICK p : p \in IF maps[season] = {} THEN {<<NoNumber, NoNumber>>} ELSE maps[season]
      OBVIOUS
    <3>2. [al |-> a, show |-> show, season |-> season, start |-> p[1], end |-> p[2]]
            \in RangeRows(a, show, season, maps[season])
      BY <3>1 DEF RangeRows
    <3> QED
      BY <3>2
  <2>2. ASSUME NEW h \in hits PROVE h.season \in DOMAIN maps
    <3>1. PICK season \in DOMAIN maps : h \in RangeRows(a, show, season, maps[season])
      OBVIOUS
    <3> QED
      BY <3>1, <1>2
  <2>3. \A season \in DOMAIN maps : \E h \in hits : h.season = season
    BY <2>1
  <2> QED
    BY <2>2, <2>3
<1>4. ASSUME NEW season \in DOMAIN maps
      PROVE  {<<h.start, h.end>> : h \in own(season)} = maps[season]
  <2>1. {<<h.start, h.end>> : h \in own(season)} \subseteq maps[season]
    BY <1>2
  <2>2. ASSUME NEW p \in maps[season] PROVE p \in {<<h.start, h.end>> : h \in own(season)}
    <3> DEFINE h == [al |-> a, show |-> show, season |-> season, start |-> p[1], end |-> p[2]]
    <3>1. h \in RangeRows(a, show, season, maps[season])
      BY <2>2 DEF RangeRows
    <3>2. p = <<p[1], p[2]>> /\ p[1] # NoNumber
      BY <1>1 DEF NoNumber
    <3>3. h \in own(season) /\ h.start = p[1] /\ h.end = p[2]
      BY <3>1, <3>2
    <3> HIDE DEF h, own
    <3> QED
      BY <3>2, <3>3
  <2> QED
    BY <2>1, <2>2
<1>5. RangesToMappings(hits) = [season \in DOMAIN maps |-> {<<h.start, h.end>> : h \in own(season)}]
  BY <1>3 DEF RangesToMappings
<1> HIDE DEF own
<1>6. RangesToMappings(hits) = [season \in DOMAIN maps |-> maps[season]]
  BY <1>4, <1>5
<1> QED
  BY <1>1, <1>6

\* A show's rows are the ones of the entry and the show.
LEMMA RangesOf ==
  ASSUME NEW recs, rows = ToRows(recs), NEW a \in DOMAIN recs, NEW show \in DOMAIN recs[a].shows
  PROVE  RangesFor(a, show)
           = UNION {RangeRows(a, show, season, recs[a].shows[show][season]) : season \in DOMAIN recs[a].shows[show]}
<1> DEFINE hits == UNION {RangeRows(a, show, season, recs[a].shows[show][season]) : season \in DOMAIN recs[a].shows[show]}
<1>1. rows.ranges = UNION {ShowRows(b, recs[b].shows) : b \in DOMAIN recs}
  BY DEF ToRows
<1>2. \A b, s, season, ranges : \A r \in RangeRows(b, s, season, ranges) : r.al = b /\ r.show = s
  BY DEF RangeRows
<1>3. ASSUME NEW r \in rows.ranges, r.al = a, r.show = show PROVE r \in hits
  <2>1. PICK b \in DOMAIN recs : r \in ShowRows(b, recs[b].shows)
    BY <1>1
  <2>2. PICK s \in DOMAIN recs[b].shows :
          r \in UNION {RangeRows(b, s, season, recs[b].shows[s][season]) : season \in DOMAIN recs[b].shows[s]}
    BY <2>1 DEF ShowRows
  <2>3. PICK season \in DOMAIN recs[b].shows[s] : r \in RangeRows(b, s, season, recs[b].shows[s][season])
    BY <2>2
  <2>4. b = a /\ s = show
    BY <2>3, <1>2, <1>3
  <2> QED
    BY <2>3, <2>4
<1>4. ASSUME NEW r \in hits PROVE r \in rows.ranges /\ r.al = a /\ r.show = show
  <2>1. r.al = a /\ r.show = show
    BY <1>2
  <2>2. r \in ShowRows(a, recs[a].shows)
    BY DEF ShowRows
  <2> QED
    BY <1>1, <2>1, <2>2
<1> HIDE DEF hits
<1>5. {r \in rows.ranges : r.al = a /\ r.show = show} = hits
  BY <1>3, <1>4
<1> QED
  BY <1>5 DEF hits, RangesFor
\* The alias rows of an entry and a show, read back, are its aliasing for it.
LEMMA AliasesOf ==
  ASSUME NEW recs, rows = ToRows(recs), NEW a \in DOMAIN recs, NEW show,
         AliasingStorable(recs[a].aliasing)
  PROVE  AliasingOf(AliasesFor(a, show))
           = IF show \in DOMAIN recs[a].aliasing THEN {recs[a].aliasing[show]} ELSE {}
<1> DEFINE Row(b, s, n) == [al |-> b, show |-> s, tmdb |-> recs[b].aliasing[s].tmdb, tmdbNumber |-> n,
                            tvdbNumber |-> recs[b].aliasing[s].aliases[n]]
           hits == AliasesFor(a, show)
<1>1. \A r : r \in rows.aliases <=>
        \E b \in DOMAIN recs : \E s \in DOMAIN recs[b].aliasing :
          \E n \in DOMAIN recs[b].aliasing[s].aliases : r = Row(b, s, n)
  BY DEF ToRows, AliasRows
<1>2. \A b, s, n : Row(b, s, n).al = b /\ Row(b, s, n).show = s
                   /\ Row(b, s, n).tmdb = recs[b].aliasing[s].tmdb
                   /\ Row(b, s, n).tmdbNumber = n
                   /\ Row(b, s, n).tvdbNumber = recs[b].aliasing[s].aliases[n]
  OBVIOUS
<1>. hits = {r \in rows.aliases : r.al = a /\ r.show = show}
  BY DEF AliasesFor
<1> HIDE DEF Row, hits
<1>3. CASE show \notin DOMAIN recs[a].aliasing
  <2>1. hits = {}
    BY <1>1, <1>2, <1>3
  <2>2. AliasingOf(hits) = {}
    BY <2>1 DEF AliasingOf
  <2> QED
    BY <1>3, <2>2 DEF hits
<1>4. CASE show \in DOMAIN recs[a].aliasing
  <2> DEFINE al == recs[a].aliasing[show]
  <2>1. hits = {Row(a, show, n) : n \in DOMAIN al.aliases}
    <3>1. \A r \in hits : \E n \in DOMAIN al.aliases : r = Row(a, show, n)
      BY <1>1, <1>2
    <3>2. \A n \in DOMAIN al.aliases : Row(a, show, n) \in hits
      BY <1>1, <1>2, <1>4
    <3> QED
      BY <3>1, <3>2
  <2>2. /\ al = [tmdb |-> al.tmdb, aliases |-> al.aliases]
        /\ al.aliases = [n \in DOMAIN al.aliases |-> al.aliases[n]]
        /\ DOMAIN al.aliases # {}
    BY <1>4 DEF AliasingStorable
  <2>3. \A r \in hits : /\ r.tmdbNumber \in DOMAIN al.aliases /\ r.tmdb = al.tmdb
                        /\ r.tvdbNumber = al.aliases[r.tmdbNumber]
    BY <1>2, <2>1
  <2>4. \A n \in DOMAIN al.aliases : \E r \in hits : r.tmdbNumber = n
    BY <1>2, <2>1
  <2> HIDE DEF al
  <2>5. {h.tmdbNumber : h \in hits} = DOMAIN al.aliases
    BY <2>3, <2>4
  <2>6. hits # {}
    BY <2>2, <2>4
  <2>7. (CHOOSE h \in hits : TRUE).tmdb = al.tmdb
    BY <2>3, <2>6
  <2>8. ASSUME NEW n \in DOMAIN al.aliases
        PROVE  (CHOOSE h \in hits : h.tmdbNumber = n).tvdbNumber = al.aliases[n]
    <3>1. PICK r : r = CHOOSE h \in hits : h.tmdbNumber = n
      OBVIOUS
    <3>2. r \in hits /\ r.tmdbNumber = n
      BY <2>4, <3>1
    <3> QED
      BY <2>3, <3>1, <3>2
  <2>9. [n \in {h.tmdbNumber : h \in hits} |-> (CHOOSE h \in hits : h.tmdbNumber = n).tvdbNumber] = al.aliases
    BY <2>2, <2>5, <2>8
  <2>10. AliasingOf(hits) = {[tmdb |-> al.tmdb, aliases |-> al.aliases]}
    BY <2>6, <2>7, <2>9 DEF AliasingOf
  <2> QED
    BY <1>4, <2>2, <2>10 DEF al, hits
<1> QED
  BY <1>3, <1>4

\* The entry rows, and who is found under an id.
LEMMA EntriesOf ==
  ASSUME NEW recs, rows = ToRows(recs), NEW axis \in Axes, NEW ext
  PROVE  /\ XrefsOf(axis, ext) = IndexOf(recs, axis, ext)
         /\ {e.al : e \in {x \in rows.entries : x.al \in XrefsOf(axis, ext)}} = IndexOf(recs, axis, ext)
         /\ \A a \in DOMAIN recs :
              (CHOOSE x \in rows.entries : x.al = a)
                = [al |-> a, anidb |-> recs[a].anidb, imdb |-> Firsts(recs[a].imdbs), movie |-> Firsts(recs[a].movies)]
<1>1. \A x : x \in rows.xrefs <=>
        \E a \in DOMAIN recs : \E ax \in Axes : \E k \in KeysOf(recs[a], ax) : x = [axis |-> ax, ext |-> k, al |-> a]
  BY DEF ToRows, XrefRows
<1>2. XrefsOf(axis, ext) = IndexOf(recs, axis, ext)
  <2>1. ASSUME NEW a \in XrefsOf(axis, ext) PROVE a \in IndexOf(recs, axis, ext)
    <3>1. PICK x \in rows.xrefs : x.axis = axis /\ x.ext = ext /\ x.al = a
      BY DEF XrefsOf
    <3>2. PICK b \in DOMAIN recs, ax \in Axes : \E k \in KeysOf(recs[b], ax) : x = [axis |-> ax, ext |-> k, al |-> b]
      BY <1>1, <3>1
    <3> QED
      BY <3>1, <3>2 DEF IndexOf
  <2>2. ASSUME NEW a \in IndexOf(recs, axis, ext) PROVE a \in XrefsOf(axis, ext)
    <3>1. a \in DOMAIN recs /\ ext \in KeysOf(recs[a], axis)
      BY DEF IndexOf
    <3>2. [axis |-> axis, ext |-> ext, al |-> a] \in rows.xrefs
      BY <1>1, <3>1
    <3> QED
      BY <3>2 DEF XrefsOf
  <2> QED
    BY <2>1, <2>2
<1> DEFINE Row(a) == [al |-> a, anidb |-> recs[a].anidb, imdb |-> Firsts(recs[a].imdbs), movie |-> Firsts(recs[a].movies)]
<1>3. rows.entries = {Row(a) : a \in DOMAIN recs}
  BY DEF ToRows, EntryRows
<1>4. \A a : Row(a).al = a
  OBVIOUS
<1> HIDE DEF Row
<1>5. {e.al : e \in {x \in rows.entries : x.al \in XrefsOf(axis, ext)}} = IndexOf(recs, axis, ext)
  <2>1. IndexOf(recs, axis, ext) \subseteq DOMAIN recs
    BY DEF IndexOf
  <2>2. \A e \in {x \in rows.entries : x.al \in XrefsOf(axis, ext)} : e.al \in IndexOf(recs, axis, ext)
    BY <1>2
  <2>3. \A a \in IndexOf(recs, axis, ext) : Row(a) \in {x \in rows.entries : x.al \in XrefsOf(axis, ext)}
    BY <1>2, <1>3, <1>4, <2>1
  <2> QED
    BY <1>4, <2>2, <2>3
<1>6. ASSUME NEW a \in DOMAIN recs PROVE (CHOOSE x \in rows.entries : x.al = a) = Row(a)
  <2>1. Row(a) \in rows.entries /\ Row(a).al = a
    BY <1>3, <1>4
  <2>2. \A x \in rows.entries : x.al = a => x = Row(a)
    BY <1>3, <1>4
  <2> QED
    BY <2>1, <2>2
<1> QED
  BY <1>2, <1>5, <1>6 DEF Row

\* The lookup of a parsed file, from its rows.
LEMMA LookupsAgree ==
  ASSUME NEW g \in Graphs, rows = ToRows(Parse(g)), NEW axis \in Axes, NEW ext,
         axis = "tvdb" => ext # NoId
  PROVE  SqlLookup(axis, ext) = GraphLookup(Parse(g), axis, ext)
<1> DEFINE recs == Parse(g)
           show == ShowAsked(axis, ext)
<1>1. ASSUME NEW a \in DOMAIN recs PROVE ShowsStorable(recs[a].shows) /\ AliasingStorable(recs[a].aliasing)
  BY ParsedShape, ShowsAreStorable, AliasingIsStorable DEF Parse
<1>2. ASSUME NEW a \in IndexOf(recs, axis, ext)
      PROVE  SqlEntry(CHOOSE x \in rows.entries : x.al = a, show) = ConsumerEntry(recs, a, show)
  <2>1. a \in DOMAIN recs /\ ext \in KeysOf(recs[a], axis)
    BY DEF IndexOf
  <2>2. PICK e : e = [al |-> a, anidb |-> recs[a].anidb, imdb |-> Firsts(recs[a].imdbs), movie |-> Firsts(recs[a].movies)]
    OBVIOUS
  <2>3. (CHOOSE x \in rows.entries : x.al = a) = e
    BY <2>1, <2>2, EntriesOf
  <2>4. e.al = a /\ e.anidb = recs[a].anidb /\ e.imdb = Firsts(recs[a].imdbs) /\ e.movie = Firsts(recs[a].movies)
    BY <2>2
  <2>5. CASE axis = "tvdb"
    <3>1. show = ext /\ show # NoId /\ show \in DOMAIN recs[a].shows
      BY <2>1, <2>5 DEF ShowAsked, KeysOf
    <3> HIDE DEF recs, show
    <3>2. RangesToMappings(RangesFor(a, show)) = recs[a].shows[show]
      BY <1>1, <2>1, <3>1, RangesOf, RangesReadBack DEF recs
    <3>3. AliasingOf(AliasesFor(a, show))
            = IF show \in DOMAIN recs[a].aliasing THEN {recs[a].aliasing[show]} ELSE {}
      <4>1. rows = ToRows(recs) /\ AliasingStorable(recs[a].aliasing) /\ a \in DOMAIN recs
        BY <1>1, <2>1 DEF recs
      <4> QED
        BY ONLY <4>1, AliasesOf
    <3> QED
      BY <2>3, <2>4, <3>1, <3>2, <3>3 DEF SqlEntry, ConsumerEntry
  <2>6. CASE axis # "tvdb"
    <3>1. show = NoId
      BY <2>6 DEF ShowAsked
    <3>2. NoId \notin DOMAIN recs[a].shows
      BY <2>1, ParsedShape DEF RecordOf, ShowIds, Parse
    <3> HIDE DEF recs, show
    <3> QED
      BY <2>3, <2>4, <3>1, <3>2 DEF SqlEntry, ConsumerEntry
  <2> QED
    BY <2>5, <2>6
<1>3. {e.al : e \in {x \in rows.entries : x.al \in XrefsOf(axis, ext)}} = IndexOf(recs, axis, ext)
  BY EntriesOf
<1> HIDE DEF recs, show
<1>4. SqlLookup(axis, ext) = [a \in IndexOf(recs, axis, ext) |->
                               SqlEntry(CHOOSE x \in rows.entries : x.al = a, show)]
  BY <1>3 DEF SqlLookup, show
<1>5. GraphLookup(recs, axis, ext) = [a \in IndexOf(recs, axis, ext) |-> ConsumerEntry(recs, a, show)]
  BY DEF GraphLookup, show
<1> QED
  BY <1>2, <1>4, <1>5 DEF recs

\* No key is the missing id.
LEMMA KeysAreIds ==
  ASSUME NEW g, NEW ext \in AxisIds(Parse(g), "tvdb")
  PROVE  ext # NoId
  BY ParsedShape DEF AxisIds, KeysOf, RecordOf, ShowIds, Parse

(* From the tables to the entries of a title, and to an entry's episodes.    *)

\* An answer kept is the one the sources would give again.
Answers(ids) == memo[ids] = GetAnilistIds(ids)

\* The last pick is what the entry picks.
PickedFrom(entry) ==
  /\ window.fails = PickFails(entry, window.format)
  /\ ~window.fails => window.eps = GetEpList(entry, window.format, window.count)

IndexStored == rows = ToRows(Parse(graph)) /\ records = Parse(graph)

\* The tables are the parsed file's, an answer is what they say, and a pick is from one.
MappingInv ==
  /\ graph \in Graphs /\ kometa \in KometaFiles /\ anidb \in AnidbFiles
  /\ records = <<>> \/ records = Parse(graph)
  /\ populated => IndexStored
  /\ \A ids \in DOMAIN memo : populated /\ Answers(ids)
  /\ window # NotPicked =>
       /\ window.ids \in DOMAIN memo /\ window.ids.tvdb = Show
       /\ window.al \in DOMAIN EveryEntry(memo[window.ids])
       /\ PickedFrom(EveryEntry(memo[window.ids])[window.al])

LEMMA MappingInvInit == MappingsInit => MappingInv
  BY DEF MappingsInit, MappingInv

LEMMA EmptyParse ==
  ASSUME NEW g, DOMAIN g = {}
  PROVE  Parse(g) = <<>>
  BY DEF Parse

\* What the tables and Kometa's file say stays while they do.
LEMMA LookupStays ==
  ASSUME UNCHANGED rows, NEW axis, NEW id
  PROVE  AskAniBridge(axis, id)' = AskAniBridge(axis, id)
  BY DEF AskAniBridge, SqlLookup, SqlEntry, XrefsOf, RangesFor, AliasesFor

LEMMA KometaStays ==
  ASSUME UNCHANGED kometa, NEW column, NEW id
  PROVE  AskKometa(column, id)' = AskKometa(column, id)
  BY DEF AskKometa, AnimeIdsLookup

LEMMA AnswersStay ==
  ASSUME UNCHANGED <<rows, kometa>>, NEW ids
  PROVE  GetAnilistIds(ids)' = GetAnilistIds(ids)
<1>1. FromAniBridge(ids)' = FromAniBridge(ids)
  BY LookupStays DEF FromAniBridge, AnyEntry
<1>2. FromKometa(ids)' = FromKometa(ids)
  BY KometaStays DEF FromKometa
<1>3. Resolved(ids)' = Resolved(ids)
  BY <1>1, <1>2 DEF Resolved
<1> QED
  BY <1>3 DEF GetAnilistIds

LEMMA PicksStay ==
  ASSUME UNCHANGED <<anidb, window>>, NEW entry
  PROVE  PickedFrom(entry)' <=> PickedFrom(entry)
  BY DEF PickedFrom, PickFails, AnidbAmbiguous, GetEpList, AnidbMapOf, AnidbRows

\* An entry picks the same while AniDB's list does.
LEMMA EpisodesStay ==
  ASSUME UNCHANGED anidb, NEW entry, NEW f, NEW n
  PROVE  PickFails(entry, f)' = PickFails(entry, f) /\ GetEpList(entry, f, n)' = GetEpList(entry, f, n)
<1>1. AnidbAmbiguous(entry.anidb)' = AnidbAmbiguous(entry.anidb)
  BY DEF AnidbAmbiguous
<1>2. AnidbRows(entry.anidb, entry.season)' = AnidbRows(entry.anidb, entry.season)
  BY DEF AnidbRows
<1> QED
  BY <1>1, <1>2 DEF PickFails, GetEpList, AnidbMapOf

LEMMA MappingInvNext ==
  ASSUME MappingInv, [MappingsNext]_mappingVars
  PROVE  MappingInv'
<1>1. CASE ParseGraph
  <2>1. records' = Parse(graph) /\ UNCHANGED <<graph, rows, kometa, anidb, populated, memo, window>> /\ ~populated
    BY <1>1 DEF ParseGraph
  <2>2. DOMAIN memo = {} /\ window = NotPicked
    BY <2>1 DEF MappingInv
  <2> QED
    BY <2>1, <2>2 DEF MappingInv
<1>2. CASE Populate
  <2>1. /\ rows' = ToRows(records) /\ UNCHANGED <<graph, records, kometa, anidb, memo, window>>
        /\ DOMAIN records = DOMAIN graph /\ ~populated
    BY <1>2 DEF Populate
  <2>2. DOMAIN memo = {} /\ window = NotPicked
    BY <2>1 DEF MappingInv
  <2>3. records = Parse(graph)
    BY <2>1, EmptyParse DEF MappingInv
  <2> QED
    BY <2>1, <2>2, <2>3 DEF MappingInv, IndexStored
<1>3. ASSUME NEW ids \in Lookups, Resolve(ids) PROVE MappingInv'
  <2>1. /\ populated /\ ids \notin DOMAIN memo /\ memo' = Filled(memo, [new \in {ids} |-> GetAnilistIds(new)])
        /\ UNCHANGED <<graph, records, rows, kometa, anidb, populated, window>>
    BY <1>3 DEF Resolve
  <2>2. /\ DOMAIN memo' = DOMAIN memo \cup {ids} /\ memo'[ids] = GetAnilistIds(ids)
        /\ \A x \in DOMAIN memo : memo'[x] = memo[x]
    BY <2>1 DEF Filled
  <2>3. \A x : GetAnilistIds(x)' = GetAnilistIds(x)
    BY <2>1, AnswersStay
  <2>4. \A x \in DOMAIN memo' : populated' /\ Answers(x)'
    BY <2>1, <2>2, <2>3 DEF MappingInv, Answers
  <2>5. window # NotPicked =>
          /\ window.ids \in DOMAIN memo' /\ window.ids.tvdb = Show
          /\ window.al \in DOMAIN EveryEntry(memo'[window.ids])
          /\ PickedFrom(EveryEntry(memo'[window.ids])[window.al])
    BY <2>2 DEF MappingInv
  <2>6. \A entry : PickedFrom(entry)' <=> PickedFrom(entry)
    BY <2>1, PicksStay
  <2>7. EveryEntry(memo[window.ids])' = EveryEntry(memo'[window.ids])
    BY <2>1
  <2> QED
    BY <2>1, <2>4, <2>5, <2>6, <2>7 DEF MappingInv, IndexStored
<1>4. ASSUME NEW ids \in DOMAIN memo, NEW a \in DOMAIN EveryEntry(memo[ids]), NEW f \in Formats, NEW n \in Counts,
             ids.tvdb = Show, PickEpisodes(ids, a, f, n)
      PROVE  MappingInv'
  <2>1. PICK entry : entry = EveryEntry(memo[ids])[a]
    OBVIOUS
  <2>2. /\ window' = [ids |-> ids, al |-> a, format |-> f, count |-> n,
                      eps |-> IF PickFails(entry, f) THEN {} ELSE GetEpList(entry, f, n),
                      fails |-> PickFails(entry, f)]
        /\ UNCHANGED <<graph, records, rows, kometa, anidb, populated, memo>>
    BY <1>4, <2>1 DEF PickEpisodes
  <2>3. \A x : GetAnilistIds(x)' = GetAnilistIds(x)
    BY <2>2, AnswersStay
  <2>4. /\ window'.ids = ids /\ window'.al = a /\ window'.format = f /\ window'.count = n
        /\ window'.fails = PickFails(entry, f)
        /\ ~PickFails(entry, f) => window'.eps = GetEpList(entry, f, n)
    BY <2>2
  <2>5. PickFails(entry, f)' = PickFails(entry, f) /\ GetEpList(entry, f, n)' = GetEpList(entry, f, n)
    BY <2>2, EpisodesStay
  <2>6. PickedFrom(entry)'
    BY <2>2, <2>4, <2>5 DEF PickedFrom
  <2>7. EveryEntry(memo'[window'.ids])[window'.al] = entry
    BY <2>1, <2>2, <2>4
  <2> QED
    BY <1>4, <2>2, <2>3, <2>4, <2>6, <2>7 DEF MappingInv, IndexStored, Answers
<1>5. CASE UNCHANGED mappingVars
  <2>1. UNCHANGED <<graph, records, rows, kometa, anidb, populated, memo, window>>
    BY <1>5 DEF mappingVars
  <2>2. \A x : GetAnilistIds(x)' = GetAnilistIds(x)
    BY <2>1, AnswersStay
  <2>3. \A entry : PickedFrom(entry)' <=> PickedFrom(entry)
    BY <2>1, PicksStay
  <2> QED
    BY <2>1, <2>2, <2>3 DEF MappingInv, IndexStored, Answers
<1> QED
  BY <1>1, <1>2, <1>3, <1>4, <1>5 DEF MappingsNext

\* The two halves of an answer are the resolved entries.
LEMMA EveryEntryIsResolved ==
  ASSUME NEW ids
  PROVE  EveryEntry(GetAnilistIds(ids)) = Resolved(ids)
<1>1. Resolved(ids) = [a \in DOMAIN Resolved(ids) |-> Resolved(ids)[a]]
  BY DEF Resolved, Filled
<1> QED
  BY <1>1 DEF EveryEntry, GetAnilistIds, Filled

\* What a title's ids resolve to came through one of them.
LEMMA BridgeAskedByStored ==
  ASSUME NEW axis \in Axes, NEW id, NEW a \in DOMAIN AskAniBridge(axis, id)
  PROVE  id # NoId /\ id \in StoredIds(axis)
<1>1. id # NoId /\ a \in DOMAIN SqlLookup(axis, id)
  BY DEF AskAniBridge
<1>2. a \in {e.al : e \in {x \in rows.entries : x.al \in XrefsOf(axis, id)}}
  BY <1>1 DEF SqlLookup
<1>3. a \in XrefsOf(axis, id)
  BY <1>2
<1> QED
  BY <1>1, <1>3 DEF XrefsOf, StoredIds

Columns == {"tvdb", "tmdb", "imdb"}

\* Reading a row changes nothing but its offset.
LEMMA RowsAsRead ==
  ASSUME kometa \in KometaFiles, NEW i \in DOMAIN kometa
  PROVE  /\ i \in Nat /\ kometa[i] \in KometaRows
         /\ \A column \in Columns : AnimeIdsRows(kometa)[i][column] = kometa[i][column]
         /\ AnimeIdsRows(kometa)[i].al = kometa[i].al
         /\ AnimeIdsRows(kometa)[i].season = kometa[i].season
         /\ AnimeIdsRows(kometa)[i].offset = Nullable(kometa[i].offset, 0)
<1>1. kometa \in Seq(KometaRows)
  BY EntryMappingsAssumption
<1>2. i \in Nat /\ kometa[i] \in KometaRows
  BY <1>1
<1>3. AnimeIdsRows(kometa)[i] = [kometa[i] EXCEPT !.offset = Nullable(kometa[i].offset, 0)]
  BY DEF AnimeIdsRows
<1> QED
  BY <1>2, <1>3 DEF KometaRows, Columns

\* A row of the entry that carries the id.
RowFor(i, a, column, id) ==
  i \in DOMAIN kometa /\ kometa[i].al = a /\ a # NoId /\ kometa[i][column] = id /\ id # NoId

LEMMA KometaAsked ==
  ASSUME kometa \in KometaFiles, NEW column \in Columns, NEW id, NEW a
  PROVE  /\ a \in DOMAIN AskKometa(column, id) =>
              \E i : RowFor(i, a, column, id) /\ AskKometa(column, id)[a] = EntryFromRow(AnimeIdsRows(kometa)[i])
         /\ \A i : RowFor(i, a, column, id) => a \in DOMAIN AskKometa(column, id)
<1> DEFINE hits == AnimeIdsLookup(column, id)
           own == {i \in hits : kometa[i].al = a}
<1>1. \A i : i \in own /\ id # NoId <=> RowFor(i, a, column, id)
  BY RowsAsRead DEF AnimeIdsLookup, RowFor
<1>2. own \subseteq Nat
  BY RowsAsRead DEF AnimeIdsLookup
<1>3. ASSUME a \in DOMAIN AskKometa(column, id)
      PROVE  \E i : RowFor(i, a, column, id) /\ AskKometa(column, id)[a] = EntryFromRow(AnimeIdsRows(kometa)[i])
  <2>1. id # NoId /\ a \in {kometa[i].al : i \in hits}
    BY <1>3 DEF AskKometa
  <2>2. AskKometa(column, id)[a] = EntryFromRow(AnimeIdsRows(kometa)[First(own)])
    BY <2>1 DEF AskKometa
  <2>3. own # {}
    BY <2>1
  <2> HIDE DEF own
  <2>4. First(own) \in own
    BY <1>2, <2>3, LeastIndex
  <2> QED
    BY <1>1, <2>1, <2>2, <2>4
<1>4. ASSUME NEW i, RowFor(i, a, column, id) PROVE a \in DOMAIN AskKometa(column, id)
  <2>1. i \in hits /\ kometa[i].al = a /\ id # NoId
    BY <1>1, <1>4
  <2> QED
    BY <2>1 DEF AskKometa
<1> QED
  BY <1>3, <1>4

\* A row of the title and the entry.
TitleRow(i, a, ids) == i \in DOMAIN kometa /\ kometa[i].al = a /\ a # NoId /\ OfTitle(kometa[i], ids)

\* Kometa knows the title's entries, and them only.
LEMMA KometaKnows ==
  ASSUME kometa \in KometaFiles, NEW ids, NEW a
  PROVE  /\ a \in DOMAIN FromKometa(ids) =>
              \E i : TitleRow(i, a, ids) /\ FromKometa(ids)[a] = EntryFromRow(AnimeIdsRows(kometa)[i])
         /\ \A i : TitleRow(i, a, ids) => a \in DOMAIN FromKometa(ids)
<1>1. \A column \in Columns : \A id :
        /\ a \in DOMAIN AskKometa(column, id) =>
             \E i : RowFor(i, a, column, id) /\ AskKometa(column, id)[a] = EntryFromRow(AnimeIdsRows(kometa)[i])
        /\ \A i : RowFor(i, a, column, id) => a \in DOMAIN AskKometa(column, id)
  BY KometaAsked
<1>2. \A i : TitleRow(i, a, ids) <=> \/ RowFor(i, a, "tvdb", ids.tvdb)
                                     \/ RowFor(i, a, "tmdb", ids.tmdb)
                                     \/ RowFor(i, a, "imdb", ids.imdb)
  BY DEF TitleRow, RowFor, OfTitle
<1> DEFINE byTvdb == AskKometa("tvdb", ids.tvdb)
           byTmdb == AskKometa("tmdb", ids.tmdb)
           byImdb == AskKometa("imdb", ids.imdb)
<1>3. /\ DOMAIN FromKometa(ids) = DOMAIN byTvdb \cup DOMAIN byTmdb \cup DOMAIN byImdb
      /\ a \in DOMAIN FromKometa(ids) => \/ a \in DOMAIN byTvdb /\ FromKometa(ids)[a] = byTvdb[a]
                                         \/ a \in DOMAIN byTmdb /\ FromKometa(ids)[a] = byTmdb[a]
                                         \/ a \in DOMAIN byImdb /\ FromKometa(ids)[a] = byImdb[a]
  BY DEF FromKometa, Filled
<1>4. "tvdb" \in Columns /\ "tmdb" \in Columns /\ "imdb" \in Columns
  BY DEF Columns
<1> QED
  BY <1>1, <1>2, <1>3, <1>4

\* The graph names the series for the entry.
Named(a) == a \in IndexOf(Parse(graph), "tvdb", Show)

LEMMA NamedInGraph ==
  ASSUME NEW a
  PROVE  Named(a) <=> NamedTargets(a) # {}
<1>1. a \in DOMAIN graph => (Show \in ShowIds(graph[a]) <=> OnShow(graph[a], Show) # {})
  BY EntryMappingsAssumption DEF ShowIds, OnShow
<1>2. a \in DOMAIN graph => DOMAIN Parse(graph)[a].shows = ShowIds(graph[a])
  <2>1. \A targets : DOMAIN RecordOf(targets).shows = ShowIds(targets)
    BY DEF RecordOf
  <2>2. a \in DOMAIN graph => Parse(graph)[a].shows = RecordOf(graph[a]).shows
    BY ParsedShape
  <2> QED
    BY <2>1, <2>2
<1>3. DOMAIN Parse(graph) = DOMAIN graph
  BY DEF Parse
<1> QED
  BY <1>1, <1>2, <1>3 DEF Named, IndexOf, KeysOf, NamedTargets

\* What AniBridge answers for it.
NamedEntry(a) == EntryFromRaw(ConsumerEntry(Parse(graph), a, Show))

\* AniBridge answers with the series' ranges for the entries its graph names, and
\* with none for the others.
LEMMA BridgeKnows ==
  ASSUME graph \in Graphs, IndexStored, NEW ids, ids.tvdb = Show, NEW a
  PROVE  /\ Named(a) => a \in DOMAIN FromAniBridge(ids) /\ FromAniBridge(ids)[a] = NamedEntry(a)
         /\ a \in DOMAIN FromAniBridge(ids) /\ ~Named(a) => IsDegraded(FromAniBridge(ids)[a])
<1> DEFINE byTvdb == AskAniBridge("tvdb", ids.tvdb)
           byTmdb == AskAniBridge("tmdb_movie", ids.tmdb)
           byImdb == AskAniBridge("imdb", ids.imdb)
<1>1. /\ Show # NoId
      /\ SqlLookup("tvdb", Show) = GraphLookup(Parse(graph), "tvdb", Show)
  BY EntryMappingsAssumption, LookupsAgree DEF IndexStored, Axes
<1>2. DOMAIN byTvdb = {x \in DOMAIN Parse(graph) : Named(x)} /\ (Named(a) => byTvdb[a] = NamedEntry(a))
  BY <1>1 DEF AskAniBridge, GraphLookup, ShowAsked, Named, IndexOf, NamedEntry
<1>3. \A axis \in {"tmdb_movie", "imdb"} : \A id :
        a \in DOMAIN AskAniBridge(axis, id) => IsDegraded(AskAniBridge(axis, id)[a])
  <2> SUFFICES ASSUME NEW axis \in {"tmdb_movie", "imdb"}, NEW id, a \in DOMAIN AskAniBridge(axis, id)
               PROVE  IsDegraded(AskAniBridge(axis, id)[a])
    OBVIOUS
  <2>1. AskAniBridge(axis, id)[a] = EntryFromRaw(SqlLookup(axis, id)[a]) /\ a \in DOMAIN SqlLookup(axis, id)
    BY DEF AskAniBridge
  <2>2. SqlLookup(axis, id)[a].tvdb = {}
    BY <2>1 DEF SqlLookup, SqlEntry, EntryDict, ShowAsked
  <2> QED
    BY <2>1, <2>2 DEF EntryFromRaw, IsDegraded, ByRanges
<1>4. Named(a) => AnyEntry
  <2>1. \A x \in DOMAIN Parse(graph) : EntryRows(Parse(graph)) # {}
    BY DEF EntryRows
  <2> QED
    BY <2>1 DEF AnyEntry, IndexStored, ToRows, Named, IndexOf
<1>5. AnyEntry => FromAniBridge(ids) = Filled(Filled(byTvdb, byTmdb), byImdb)
  BY DEF FromAniBridge
<1>6. Named(a) => a \in DOMAIN FromAniBridge(ids) /\ FromAniBridge(ids)[a] = NamedEntry(a)
  <2> SUFFICES ASSUME Named(a) PROVE a \in DOMAIN FromAniBridge(ids) /\ FromAniBridge(ids)[a] = NamedEntry(a)
    OBVIOUS
  <2>1. a \in DOMAIN byTvdb /\ byTvdb[a] = NamedEntry(a)
    BY <1>2 DEF Named, IndexOf
  <2> HIDE DEF byTvdb, byTmdb, byImdb
  <2> QED
    BY <1>4, <1>5, <2>1 DEF Filled
<1>7. ASSUME a \in DOMAIN FromAniBridge(ids), ~Named(a) PROVE IsDegraded(FromAniBridge(ids)[a])
  <2>1. AnyEntry
    BY <1>7 DEF FromAniBridge
  <2>2. a \notin DOMAIN byTvdb
    BY <1>2, <1>7
  <2>3. \/ a \in DOMAIN byTmdb /\ FromAniBridge(ids)[a] = byTmdb[a]
        \/ a \in DOMAIN byImdb /\ FromAniBridge(ids)[a] = byImdb[a]
    <3> HIDE DEF byTvdb, byTmdb, byImdb
    <3> QED
      BY <1>5, <1>7, <2>1, <2>2 DEF Filled
  <2> QED
    BY <1>3, <2>3
<1> QED
  BY <1>6, <1>7

\* Where an entry comes from, and when it comes from nowhere.
LEMMA EntryOfShow ==
  ASSUME graph \in Graphs, kometa \in KometaFiles, IndexStored, NEW ids, ids.tvdb = Show, NEW a \in DOMAIN Resolved(ids)
  PROVE  \/ Named(a) /\ Resolved(ids)[a] = NamedEntry(a)
         \/ ~Named(a) /\ \E i : TitleRow(i, a, ids) /\ Resolved(ids)[a] = EntryFromRow(AnimeIdsRows(kometa)[i])
         \/ ~Named(a) /\ (\A i : ~TitleRow(i, a, ids)) /\ IsDegraded(Resolved(ids)[a])
<1> DEFINE bridge == FromAniBridge(ids)
           kometas == FromKometa(ids)
<1>1. /\ a \in DOMAIN kometas \cup DOMAIN bridge
      /\ Resolved(ids)[a] = IF a \in DOMAIN kometas /\ Overrides(ids, bridge, a) THEN kometas[a] ELSE bridge[a]
  BY DEF Resolved, Filled, Overrides
<1>2. /\ Named(a) => a \in DOMAIN bridge /\ bridge[a] = NamedEntry(a)
      /\ a \in DOMAIN bridge /\ ~Named(a) => IsDegraded(bridge[a])
  BY BridgeKnows
<1>3. /\ a \in DOMAIN kometas => \E i : TitleRow(i, a, ids) /\ kometas[a] = EntryFromRow(AnimeIdsRows(kometa)[i])
      /\ \A i : TitleRow(i, a, ids) => a \in DOMAIN kometas
  BY KometaKnows
<1>4. Named(a) => ~IsDegraded(NamedEntry(a))
  BY DEF Named, IndexOf, KeysOf, NamedEntry, EntryFromRaw, ConsumerEntry, EntryDict, IsDegraded, ByRanges
<1>5. ids.tvdb # NoId
  BY EntryMappingsAssumption
<1> HIDE DEF bridge, kometas
<1>6. CASE Named(a)
  BY <1>1, <1>2, <1>4, <1>6 DEF Overrides
<1>7. CASE ~Named(a)
  <2>1. a \in DOMAIN kometas => Overrides(ids, bridge, a)
    BY <1>2, <1>5, <1>7 DEF Overrides
  <2> QED
    BY <1>1, <1>2, <1>3, <1>7, <2>1
<1> QED
  BY <1>6, <1>7

\* A named entry's seasons are the ones its targets map.
LEMMA NamedSeasons ==
  ASSUME NEW a, Named(a)
  PROVE  /\ a \in DOMAIN graph /\ NamedTargets(a) = OnShow(graph[a], Show)
         /\ NamedEntry(a).tvdb # {} /\ Seasons(NamedEntry(a)) = SeasonMaps(graph[a], Show)
         /\ NamedEntry(a).season = -1
<1>1. a \in DOMAIN graph /\ Show \in DOMAIN Parse(graph)[a].shows
  BY DEF Named, IndexOf, KeysOf, Parse
<1>2. Parse(graph)[a].shows = RecordOf(graph[a]).shows
  BY <1>1, ParsedShape
<1>3. \A targets : RecordOf(targets).shows = [show \in ShowIds(targets) |-> SeasonMaps(targets, show)]
  BY DEF RecordOf
<1>4. Parse(graph)[a].shows[Show] = SeasonMaps(graph[a], Show)
  <2>1. PICK shows : shows = Parse(graph)[a].shows
    OBVIOUS
  <2>2. shows = [show \in ShowIds(graph[a]) |-> SeasonMaps(graph[a], show)] /\ Show \in DOMAIN shows
    BY <1>1, <1>2, <1>3, <2>1
  <2> QED
    BY ONLY <2>1, <2>2
<1>5. PICK m : m.seasons = SeasonMaps(graph[a], Show) /\ NamedEntry(a).tvdb = {m}
  <2>1. NamedEntry(a).tvdb
          = {[seasons |-> Parse(graph)[a].shows[Show],
              aliasing |-> IF Show \in DOMAIN Parse(graph)[a].aliasing THEN {Parse(graph)[a].aliasing[Show]} ELSE {}]}
    BY <1>1 DEF NamedEntry, EntryFromRaw, ConsumerEntry, EntryDict
  <2> QED
    BY <1>4, <2>1
<1>6. NamedEntry(a).season = -1
  BY DEF NamedEntry, EntryFromRaw
<1> QED
  BY <1>1, <1>5, <1>6 DEF NamedTargets, Seasons

\* What the targets of a show map as its season, and whether they map it at all.
LEMMA SeasonMapped ==
  ASSUME NEW targets, NEW show, NEW season, season # NoSeason
  PROVE  LET own == {t \in OnShow(targets, show) : t.season = season}
         IN /\ season \in DOMAIN SeasonMaps(targets, show) <=> own # {}
            /\ own # {} => SeasonMaps(targets, show)[season] = UNION {TargetRanges(t) : t \in own}
  BY DEF SeasonMaps

----------------------------------------------------------------------------


(* The mapping tables are the ones of the file that was parsed, every answer    *)
(* kept is the one they give, and the episodes picked are of such an answer     *)
(* (AniBridge.to_rows, MappingResolver.get_anilist_ids, get_ep_list).           *)
THEOREM MappingsInvariant == MappingsSpec => []MappingInv
<1>1. MappingsInit => MappingInv
  BY MappingInvInit
<1>2. MappingInv /\ [MappingsNext]_mappingVars => MappingInv'
  BY MappingInvNext
<1> QED
  BY <1>1, <1>2, PTL DEF MappingsSpec

\* One lookup at a time, and one of the title's ids for every answer.
LEMMA StoredAlike == MappingInv => StoredAnswersAlike
<1> SUFFICES ASSUME MappingInv PROVE StoredAnswersAlike
  OBVIOUS
<1>1. ASSUME populated, NEW axis \in Axes, NEW ext \in AxisIds(records, axis)
      PROVE  SqlLookup(axis, ext) = GraphLookup(records, axis, ext)
  <2>1. graph \in Graphs /\ records = Parse(graph) /\ rows = ToRows(Parse(graph))
    BY <1>1 DEF MappingInv, IndexStored
  <2>2. axis = "tvdb" => ext # NoId
    BY <2>1, KeysAreIds
  <2> QED
    BY <2>1, <2>2, LookupsAgree
<1>2. ASSUME NEW ids \in DOMAIN memo, DOMAIN EveryEntry(memo[ids]) # {}
      PROVE  Collected(ids)
  <2>1. kometa \in KometaFiles /\ EveryEntry(memo[ids]) = Resolved(ids)
    BY EveryEntryIsResolved DEF MappingInv, Answers
  <2>2. PICK a : a \in DOMAIN Resolved(ids)
    BY <1>2, <2>1
  <2>3. a \in DOMAIN FromKometa(ids) \/ a \in DOMAIN FromAniBridge(ids)
    BY <2>2 DEF Resolved, Filled
  <2>4. CASE a \in DOMAIN FromKometa(ids)
    <3>1. PICK i : TitleRow(i, a, ids)
      BY <2>1, <2>4, KometaKnows
    <3> QED
      BY <3>1 DEF TitleRow, OfTitle, Collected, KometaIds
  <2>5. CASE a \in DOMAIN FromAniBridge(ids)
    <3>1. \/ a \in DOMAIN AskAniBridge("tvdb", ids.tvdb)
          \/ a \in DOMAIN AskAniBridge("tmdb_movie", ids.tmdb)
          \/ a \in DOMAIN AskAniBridge("imdb", ids.imdb)
      BY <2>5 DEF FromAniBridge, Filled
    <3>2. "tvdb" \in Axes /\ "tmdb_movie" \in Axes /\ "imdb" \in Axes
      BY DEF Axes
    <3> QED
      BY <3>1, <3>2, BridgeAskedByStored DEF Collected
  <2> QED
    BY <2>3, <2>4, <2>5
<1> QED
  BY <1>1, <1>2 DEF StoredAnswersAlike

\* An alias that was kept lands on no special that is claimed.
LEMMA SpecialsUnshared == MappingInv => NoSharedSpecial
<1> SUFFICES ASSUME MappingInv, NEW ids \in DOMAIN memo, ids.tvdb = Show,
                    NEW a \in DOMAIN memo[ids].mappings, NEW m \in memo[ids].mappings[a].tvdb,
                    NEW al \in m.aliasing, NEW n \in DOMAIN al.aliases, NEW b \in DOMAIN graph \ {a},
                    MapsSpecial(b, al.aliases[n])
             PROVE  FALSE
  BY DEF NoSharedSpecial
<1>1. graph \in Graphs /\ kometa \in KometaFiles /\ IndexStored /\ memo[ids] = GetAnilistIds(ids)
  BY DEF MappingInv, Answers
<1>2. a \in DOMAIN Resolved(ids) /\ memo[ids].mappings[a] = Resolved(ids)[a]
  BY <1>1 DEF GetAnilistIds
<1>3. Named(a) /\ Resolved(ids)[a] = NamedEntry(a)
  <2>1. Resolved(ids)[a].tvdb # {}
    BY <1>2
  <2>2. \A r : EntryFromRow(r).tvdb = {}
    BY DEF EntryFromRow
  <2>3. ~IsDegraded(Resolved(ids)[a])
    BY <2>1 DEF IsDegraded, ByRanges
  <2> QED
    BY <1>1, <1>2, <2>1, <2>2, <2>3, EntryOfShow
<1> DEFINE recs == RecordsOf(graph)
<1>4. a \in DOMAIN graph /\ Show \in DOMAIN Parse(graph)[a].aliasing /\ al = Parse(graph)[a].aliasing[Show]
  <2>1. a \in DOMAIN graph
    BY <1>3, NamedSeasons
  <2>2. Show \in DOMAIN Parse(graph)[a].shows
    BY <1>3 DEF Named, IndexOf, KeysOf
  <2>3. m.aliasing = IF Show \in DOMAIN Parse(graph)[a].aliasing THEN {Parse(graph)[a].aliasing[Show]} ELSE {}
    BY <1>2, <1>3, <2>2 DEF NamedEntry, EntryFromRaw, ConsumerEntry, EntryDict
  <2> QED
    BY <2>1, <2>3
<1>5. Parse(graph)[a].aliasing = UnsharedAliasing(recs, a)
  BY <1>4, ParsedShape
<1>6. n \in KeptAliases(recs, a, Show) /\ al.aliases[n] = recs[a].aliasing[Show].aliases[n]
  <2>1. /\ Show \in DOMAIN UnsharedAliasing(recs, a)
        /\ al = UnsharedAliasing(recs, a)[Show]
    BY <1>4, <1>5
  <2> HIDE DEF recs
  <2>2. al.aliases = [k \in KeptAliases(recs, a, Show) |-> recs[a].aliasing[Show].aliases[k]]
    BY ONLY <2>1 DEF UnsharedAliasing
  <2> QED
    BY <2>2
<1>7. \A r \in ClaimedBy(recs, DOMAIN recs \ {a}, Show) : ~SeasonHolds(r, al.aliases[n])
  BY <1>6 DEF KeptAliases
<1> DEFINE own == {t \in OnShow(graph[b], Show) : t.season = 0}
<1>8. own # {} /\ SeasonHolds(UNION {TargetRanges(t) : t \in own}, al.aliases[n])
  BY DEF MapsSpecial
<1>9. b \in DOMAIN recs /\ recs[b].shows = [show \in ShowIds(graph[b]) |-> SeasonMaps(graph[b], show)]
  <2>1. recs[b] = RecordOf(graph[b]) /\ b \in DOMAIN recs
    BY DEF RecordsOf
  <2>2. \A targets : RecordOf(targets).shows = [show \in ShowIds(targets) |-> SeasonMaps(targets, show)]
    BY DEF RecordOf
  <2> QED
    BY <2>1, <2>2
<1>10. Show \in ShowIds(graph[b])
  BY <1>8, EntryMappingsAssumption DEF OnShow, ShowIds
<1>11. 0 \in DOMAIN SeasonMaps(graph[b], Show) /\ SeasonMaps(graph[b], Show)[0] = UNION {TargetRanges(t) : t \in own}
  BY <1>8, SeasonMapped DEF NoSeason
<1> HIDE DEF recs, own
<1>12. UNION {TargetRanges(t) : t \in own} \in ClaimedBy(recs, DOMAIN recs \ {a}, Show)
  BY <1>9, <1>10, <1>11 DEF ClaimedBy
<1> QED
  BY <1>7, <1>8, <1>12

\* AniDB's list has no season -1, so it never renumbers an entry with ranges.
LEMMA NoAnidbSeason ==
  ASSUME anidb \in AnidbFiles, AnidbSeasonsNumbered, NEW id
  PROVE  AnidbRows(id, -1) = {}
<1> DEFINE own == {i \in DOMAIN anidb : anidb[i].id = id}
<1>1. CASE Cardinality(own) # 1
  BY <1>1 DEF AnidbRows
<1>2. CASE Cardinality(own) = 1
  <2>1. own # {}
    BY <1>2, FS_EmptySet
  <2>2. own \subseteq Nat
    BY EntryMappingsAssumption
  <2> HIDE DEF own
  <2>3. PICK i : i = First(own) /\ i \in own
    BY <2>1, <2>2, LeastIndex
  <2> USE DEF own
  <2>4. \A k \in DOMAIN anidb[i].maps : anidb[i].maps[k].season # -1
    BY <2>3 DEF AnidbSeasonsNumbered, Range, NoSeason
  <2> QED
    BY <2>3, <2>4 DEF AnidbRows
<1> QED
  BY <1>1, <1>2

\* An entry with ranges picks what its targets map.
LEMMA NamedEpisodes ==
  ASSUME anidb \in AnidbFiles, NEW a, Named(a), AnidbSeasonsNumbered, NEW format, NEW count
  PROVE  GetEpList(NamedEntry(a), format, count) = {i \in DOMAIN Episodes : BridgeSays(a, Episodes[i])}
<1> DEFINE maps == SeasonMaps(graph[a], Show)
           entry == NamedEntry(a)
<1>1. /\ a \in DOMAIN graph /\ NamedTargets(a) = OnShow(graph[a], Show)
      /\ ByRanges(entry) /\ Seasons(entry) = maps /\ entry.season = -1
  BY NamedSeasons DEF ByRanges
<1>2. \A i \in DOMAIN Episodes : Episodes[i][1] # NoSeason
  BY EntryMappingsAssumption DEF NoSeason
<1>3. ASSUME NEW e, e[1] # NoSeason PROVE BridgeSays(a, e) <=> ByAniBridge(e, maps)
  <2> DEFINE own == {t \in OnShow(graph[a], Show) : t.season = e[1]}
  <2>1. /\ e[1] \in DOMAIN maps <=> own # {}
        /\ own # {} => maps[e[1]] = UNION {TargetRanges(t) : t \in own}
    BY <1>3, SeasonMapped
  <2>2. BridgeSays(a, e) <=> own # {} /\ SeasonHolds(UNION {TargetRanges(t) : t \in own}, e[2])
    BY <1>1 DEF BridgeSays
  <2> HIDE DEF maps, own
  <2> QED
    BY <2>1, <2>2 DEF ByAniBridge
<1>4. AnidbMapOf(entry, format) = {}
  BY <1>1, NoAnidbSeason DEF AnidbMapOf
<1> HIDE DEF maps, entry
<1>5. SelectedBy(entry) = {i \in DOMAIN Episodes : ByAniBridge(Episodes[i], maps)}
  BY <1>1 DEF SelectedBy
<1>6. SelectedBy(entry) = {i \in DOMAIN Episodes : BridgeSays(a, Episodes[i])}
  BY <1>2, <1>3, <1>5
<1>7. CASE DOMAIN maps # {}
  BY <1>1, <1>4, <1>6, <1>7 DEF GetEpList, Resolvable, entry
<1>8. CASE DOMAIN maps = {}
  <2>1. SelectedBy(entry) = {}
    BY <1>5, <1>8 DEF ByAniBridge
  <2>2. GetEpList(entry, format, count) = {}
    BY <1>1, <1>8 DEF GetEpList, Resolvable
  <2> QED
    BY <1>6, <2>1, <2>2 DEF entry
<1> QED
  BY <1>7, <1>8

\* The episodes of a season; -1 is every one but the specials.
OfSeason(season) == {k \in DOMAIN Episodes : season = Episodes[k][1] \/ (season = -1 /\ Episodes[k][1] # 0)}

\* A Kometa entry picks its row's season, or less of it.
LEMMA KometaEpisodes ==
  ASSUME kometa \in KometaFiles, NEW i, NEW a, NEW ids, TitleRow(i, a, ids), NEW format, NEW count
  PROVE  LET entry == EntryFromRow(AnimeIdsRows(kometa)[i])
         IN /\ GetEpList(entry, format, count) \subseteq SelectedBy(entry)
            /\ SelectedBy(entry) = OfSeason(kometa[i].season)
            /\ entry.season = kometa[i].season /\ entry.offset = Nullable(kometa[i].offset, 0)
            /\ ~ByRanges(entry) /\ Resolvable(entry)
<1> DEFINE entry == EntryFromRow(AnimeIdsRows(kometa)[i])
<1>1. /\ entry.season = kometa[i].season /\ entry.offset = Nullable(kometa[i].offset, 0)
      /\ entry.tvdb = {} /\ entry.source = "anime_ids"
  BY RowsAsRead DEF TitleRow, EntryFromRow
<1> HIDE DEF entry
<1>2. ~ByRanges(entry) /\ Resolvable(entry)
  BY <1>1 DEF ByRanges, Resolvable, IsDegraded
<1>3. SelectedBy(entry) = {k \in DOMAIN Episodes : ByAnimeIds(Episodes[k], kometa[i].season)}
  BY <1>1, <1>2 DEF SelectedBy
<1>4. \A k \in DOMAIN Episodes : Episodes[k][1] # -1
  BY EntryMappingsAssumption
<1>5. SelectedBy(entry) = OfSeason(kometa[i].season)
  BY <1>3, <1>4 DEF ByAnimeIds, OfSeason
<1>6. Offsets(SelectedBy(entry), entry, count) \subseteq SelectedBy(entry)
  BY DEF Offsets
<1>7. GetEpList(entry, format, count) \subseteq SelectedBy(entry)
  BY <1>2, <1>6 DEF GetEpList
<1> QED
  BY <1>1, <1>2, <1>5, <1>7 DEF entry

\* With no offset and no count, every episode has its place.
LEMMA WholePlaces ==
  ASSUME NEW entry, NEW picked, picked \subseteq DOMAIN Episodes, entry.offset = 0, entry.season \in Int,
         entry.season # -1 => /\ \A k \in picked : Episodes[k][2] \in 1 .. Cardinality(picked)
  PROVE  Offsets(picked, entry, NoId) = picked
<1>1. Episodes \in Seq(Nat \X Nat)
  BY EntryMappingsAssumption
<1>2. DOMAIN Episodes = 1 .. Len(Episodes) /\ Len(Episodes) \in Nat
  BY <1>1
<1>3. IsFiniteSet(1 .. Len(Episodes))
  BY <1>2, FS_Interval
<1>4. IsFiniteSet(picked)
  BY <1>2, <1>3, FS_Subset
<1>5. PICK n \in Nat : n = Cardinality(picked)
  BY <1>4, FS_CardinalityType
<1>6. ASSUME NEW k \in picked PROVE Rank(k, picked) \in 1 .. n
  <2> DEFINE upTo == {j \in picked : j <= k}
  <2>1. upTo \subseteq picked /\ k \in upTo
    BY <1>2
  <2> HIDE DEF upTo
  <2>2. IsFiniteSet(upTo) /\ Cardinality(upTo) <= Cardinality(picked)
    BY <1>4, <2>1, FS_Subset
  <2>3. Cardinality(upTo) \in Nat /\ Cardinality(upTo) # 0
    BY <2>1, <2>2, FS_CardinalityType, FS_EmptySet
  <2>4. PICK c \in Nat : c = Cardinality(upTo)
    BY <2>3
  <2>5. Rank(k, picked) = c
    BY <2>4 DEF Rank, upTo
  <2> QED
    BY <1>5, <2>2, <2>3, <2>4, <2>5
<1>7. \A k \in picked : LET place == (IF entry.season # -1 THEN Episodes[k][2] ELSE Rank(k, picked)) - entry.offset
                        IN 1 <= place /\ place <= n - entry.offset
  BY <1>5, <1>6
<1> QED
  BY <1>5, <1>7 DEF Offsets, NoId

\* An empty list renumbers nothing.
LEMMA AnidbEmpty ==
  ASSUME anidb = <<>>, NEW id, NEW season
  PROVE  AnidbRows(id, season) = {}
<1>1. {i \in DOMAIN anidb : anidb[i].id = id} = {}
  OBVIOUS
<1>2. Cardinality({i \in DOMAIN anidb : anidb[i].id = id}) = 0
  BY <1>1, FS_EmptySet
<1> QED
  BY <1>2 DEF AnidbRows

\* With nothing to narrow it, a Kometa entry picks all of it.
LEMMA WholeEpisodes ==
  ASSUME kometa \in KometaFiles, NEW i, NEW a, NEW ids, TitleRow(i, a, ids), Whole, NEW format
  PROVE  LET entry == EntryFromRow(AnimeIdsRows(kometa)[i])
         IN GetEpList(entry, format, NoId) = SelectedBy(entry)
<1> DEFINE entry == EntryFromRow(AnimeIdsRows(kometa)[i])
           picked == SelectedBy(entry)
<1>1. kometa \in Seq(KometaRows) /\ Len(kometa) = 1
  BY EntryMappingsAssumption DEF Whole
<1>2. i = 1 /\ kometa[i] \in KometaRows
  <2>1. i \in DOMAIN kometa
    BY DEF TitleRow
  <2>2. DOMAIN kometa = 1 .. 1
    BY <1>1
  <2> QED
    BY <1>1, <2>1, <2>2
<1>3. /\ picked = OfSeason(kometa[i].season)
      /\ entry.season = kometa[i].season /\ entry.offset = Nullable(kometa[i].offset, 0)
      /\ ~ByRanges(entry) /\ Resolvable(entry)
  BY KometaEpisodes
<1>4. entry.offset = 0 /\ entry.season \in Int
  BY <1>2, <1>3 DEF Whole, Nullable, NoSeason, KometaRows
<1>5. ASSUME entry.season # -1, NEW k \in picked PROVE Episodes[k][2] \in 1 .. Cardinality(picked)
  <2>1. k \in DOMAIN Episodes /\ Episodes[k][1] = kometa[i].season
    BY <1>3, <1>5 DEF OfSeason
  <2>2. picked = {j \in DOMAIN Episodes : Episodes[j][1] = Episodes[k][1]}
    BY <1>3, <1>5, <2>1 DEF OfSeason
  <2>3. Episodes[k][2] \in 1 .. Cardinality({j \in DOMAIN Episodes : Episodes[j][1] = Episodes[k][1]})
    BY <2>1 DEF Whole
  <2> QED
    BY ONLY <2>2, <2>3
<1>6. AnidbMapOf(entry, format) = {}
  BY AnidbEmpty DEF Whole, AnidbMapOf
<1>7. picked \subseteq DOMAIN Episodes
  BY <1>3 DEF OfSeason
<1> HIDE DEF entry, picked
<1>8. Offsets(picked, entry, NoId) = picked
  BY <1>4, <1>5, <1>7, WholePlaces
<1> QED
  BY <1>3, <1>6, <1>8 DEF GetEpList, picked, entry

\* By where the entry came from: AniBridge's ranges, a row of Kometa's, or nothing.
LEMMA EpisodesMapped == MappingInv => EpisodesAsMapped
<1> SUFFICES ASSUME MappingInv, window # NotPicked, ~window.fails
             PROVE  IF NamedTargets(window.al) # {}
                    THEN AnidbSeasonsNumbered =>
                           window.eps = {i \in DOMAIN Episodes : BridgeSays(window.al, Episodes[i])}
                    ELSE /\ \A i \in window.eps : KometaSays(window.al, Episodes[i])
                         /\ Whole => window.eps = {i \in DOMAIN Episodes : KometaSays(window.al, Episodes[i])}
  BY DEF EpisodesAsMapped
<1>1. PICK ids, a, entry, f, n :
        /\ ids = window.ids /\ a = window.al /\ f = window.format /\ n = window.count
        /\ entry = EveryEntry(memo[ids])[a]
  OBVIOUS
<1>2. /\ graph \in Graphs /\ kometa \in KometaFiles /\ anidb \in AnidbFiles /\ IndexStored
      /\ ids.tvdb = Show /\ a \in DOMAIN Resolved(ids) /\ entry = Resolved(ids)[a]
      /\ window.eps = GetEpList(entry, f, n)
  <2>1. ids \in DOMAIN memo /\ memo[ids] = GetAnilistIds(ids)
    BY <1>1 DEF MappingInv, Answers
  <2>2. EveryEntry(memo[ids]) = Resolved(ids)
    BY <2>1, EveryEntryIsResolved
  <2>3. /\ graph \in Graphs /\ kometa \in KometaFiles /\ anidb \in AnidbFiles /\ IndexStored /\ ids.tvdb = Show
    BY <1>1, <2>1 DEF MappingInv
  <2>4. a \in DOMAIN EveryEntry(memo[ids]) /\ PickedFrom(entry)
    BY <1>1 DEF MappingInv
  <2> QED
    BY <1>1, <2>2, <2>3, <2>4 DEF PickedFrom
<1>3. CASE Named(a) /\ entry = NamedEntry(a)
  <2>1. NamedTargets(a) # {}
    BY <1>3, NamedInGraph
  <2>2. AnidbSeasonsNumbered => GetEpList(entry, f, n) = {i \in DOMAIN Episodes : BridgeSays(a, Episodes[i])}
    BY <1>2, <1>3, NamedEpisodes
  <2> QED
    BY <1>1, <1>2, <2>1, <2>2
<1>4. ASSUME ~Named(a), NEW i, TitleRow(i, a, ids), entry = EntryFromRow(AnimeIdsRows(kometa)[i])
      PROVE  /\ NamedTargets(a) = {}
             /\ \A k \in window.eps : KometaSays(a, Episodes[k])
             /\ Whole => window.eps = {k \in DOMAIN Episodes : KometaSays(a, Episodes[k])}
  <2>1. NamedTargets(a) = {}
    BY <1>4, NamedInGraph
  <2>2. window.eps \subseteq SelectedBy(entry) /\ SelectedBy(entry) = OfSeason(kometa[i].season)
    BY <1>2, <1>4, KometaEpisodes
  <2>3. \A e : KometaSays(a, e) <=> \E j : TitleRow(j, a, ids) /\ (kometa[j].season = e[1] \/ (kometa[j].season = -1 /\ e[1] # 0))
    BY <1>1 DEF KometaSays, TitleRow
  <2>4. \A k \in SelectedBy(entry) : KometaSays(a, Episodes[k])
    BY <1>4, <2>2, <2>3 DEF OfSeason
  <2>5. ASSUME Whole PROVE window.eps = {k \in DOMAIN Episodes : KometaSays(a, Episodes[k])}
    <3>1. n = NoId
      BY <1>1, <2>5 DEF Whole
    <3>2. window.eps = SelectedBy(entry)
      BY <1>2, <1>4, <2>5, <3>1, WholeEpisodes
    <3>3. kometa \in Seq(KometaRows) /\ Len(kometa) = 1
      BY <1>2, <2>5, EntryMappingsAssumption DEF Whole
    <3>4. \A j : TitleRow(j, a, ids) => j = i
      BY <1>4, <3>3 DEF TitleRow
    <3> QED
      BY <2>2, <2>3, <2>4, <3>2, <3>4 DEF OfSeason
  <2> QED
    BY <2>1, <2>2, <2>4, <2>5
<1>5. CASE ~Named(a) /\ (\A i : ~TitleRow(i, a, ids)) /\ IsDegraded(entry)
  <2>1. NamedTargets(a) = {}
    BY <1>5, NamedInGraph
  <2>2. GetEpList(entry, f, n) = {}
    BY <1>5 DEF GetEpList, Resolvable, IsDegraded
  <2>3. \A e : ~KometaSays(a, e)
    BY <1>1, <1>5 DEF KometaSays, TitleRow
  <2> QED
    BY <1>1, <1>2, <2>1, <2>2, <2>3
<1>6. \/ Named(a) /\ entry = NamedEntry(a)
      \/ ~Named(a) /\ \E i : TitleRow(i, a, ids) /\ entry = EntryFromRow(AnimeIdsRows(kometa)[i])
      \/ ~Named(a) /\ (\A i : ~TitleRow(i, a, ids)) /\ IsDegraded(entry)
  BY <1>2, EntryOfShow
<1> QED
  BY <1>1, <1>3, <1>4, <1>5, <1>6

(* For any graph, ids and lookups, mappings.db answers each id as the parsed    *)
(* graph does, and no title that an entry answers for is filtered out           *)
(* (MappingStore.anibridge_lookup, AniBridge._consumer_entry).                  *)
THEOREM TablesAnswerAlike == MappingsSpec => []StoredAnswersAlike
  BY MappingsInvariant, StoredAlike, PTL

(* For any graph, no aliased special is one that another entry of the series    *)
(* maps, whatever the order of the file (AniBridge._unshared_aliasing).         *)
THEOREM SpecialsHaveOneOwner == MappingsSpec => []NoSharedSpecial
  BY MappingsInvariant, SpecialsUnshared, PTL

(* For any mapping files, ids and episodes of a series, an entry's episodes are *)
(* the ones its best source names, all of them where nothing narrows them       *)
(* (get_ep_list, MappingResolver.get_anilist_ids).                              *)
THEOREM EpisodesFollowMappings == MappingsSpec => []EpisodesAsMapped
  BY MappingsInvariant, EpisodesMapped, PTL

-----------------------------------------------------------------------------
(* The cache store. *)

USE CacheStoreAssumption DEF CacheStoreAssumption

(* The inductive invariant: a log lies beside a healthy file only, what the  *)
(* connection is on decides what the path holds, and the path's content is   *)
(* the saved one except between the rename of a promotion and its reconnect. *)
StoreInv ==
  /\ TypeOK
  /\ file.kind # "db" => wal.kind # "db"
  /\ conn = "file" => file.kind = "db"
  /\ pc = "closed" => conn = "none" /\ ~preview
  /\ pc = "quarantine" => conn = "none" /\ file.kind = "absent"
  /\ pc = "schema" => conn = "file" /\ view = Content
  /\ pc = "open" => conn \in {"file", "memory"}
  /\ pc \in {"copy", "rename", "reconnect"} => conn = "memory" /\ ~preview
  /\ pc \in {"schema", "open", "copy", "rename", "reconnect"} => view.kind = "db"
  /\ pc \in {"open", "copy", "rename"} /\ conn = "memory" => file.kind = "absent"
  /\ pc = "rename" => tmp = view
  /\ pc = "reconnect" => Content = view
  /\ pc # "reconnect" => Content.n = saved

-----------------------------------------------------------------------------
LEMMA InitInv == Init => StoreInv
  <1> SUFFICES ASSUME Init PROVE StoreInv
    OBVIOUS
  <1>1. file \in Db /\ file.n = 0 /\ Absent \in Db /\ Absent.kind = "absent"
    <2>1. CASE file = Absent
      BY <2>1 DEF Db, Kinds, Absent
    <2>2. CASE \E v \in 0..(SchemaVersion + 1) : file = [kind |-> "db", ver |-> v, n |-> 0]
      <3>1. PICK v \in 0..(SchemaVersion + 1) : file = [kind |-> "db", ver |-> v, n |-> 0]
        BY <2>2
      <3>2. [kind |-> "db", ver |-> v, n |-> 0] \in Db /\ Absent \in Db
        BY DEF Db, Kinds, Absent
      <3> QED
        BY <3>1, <3>2 DEF Absent
    <2> QED
      BY <2>1, <2>2 DEF Init
  <1>2. Content.n = 0
    BY <1>1 DEF Init, Content, Absent
  <1>3. TypeOK
    <2>1. Absent.ver = 0
      BY DEF Absent
    <2>2. {file, wal, tmp, view} \subseteq Db /\ view.ver <= SchemaVersion
      BY <1>1, <2>1 DEF Init
    <2>3. pc = "closed" /\ conn = "none" /\ preview = FALSE /\ saved = 0 /\ kills = 0
      BY DEF Init
    <2>4. saved \in 0..MaxWrites /\ kills \in 0..MaxKills
      BY <2>3
    <2>5. preview \in BOOLEAN
      BY <2>3, Zenon
    <2> QED
      BY <2>2, <2>3, <2>4, <2>5 DEF TypeOK
  <1> QED
    BY <1>1, <1>2, <1>3 DEF Init, StoreInv

\* The content of a well-typed disk is a database or nothing.
LEMMA ContentTypes ==
  ASSUME file \in Db, wal \in Db
  PROVE  Content \in Db /\ (Content.kind = "db" <=> file.kind = "db")
  BY DEF Db, Kinds, Absent, Content

(* Every step keeps the invariant.                                           *)
LEMMA StepInv ==
  ASSUME ~OrphanLog, StoreInv, [Next]_vars
  PROVE  StoreInv'
  <1> USE DEF StoreInv, TypeOK, Content
  <1>0. Content \in Db /\ (Content.kind = "db" <=> file.kind = "db")
    BY ContentTypes
  <1>1. CASE LoseFile
    BY <1>1, <1>0 DEF LoseFile, Db, Kinds, Absent, Torn
  <1>2. CASE OpenMissing
    BY <1>2 DEF OpenMissing, OnMemory, NewDb, disk, Db, Kinds, Absent
  <1>3. CASE OpenTorn
    BY <1>3 DEF OpenTorn, Db, Kinds, Absent
  <1>4. CASE QuarantineLog
    BY <1>4 DEF QuarantineLog, OnMemory, NewDb, Db, Kinds, Absent
  <1>5. CASE OpenRefused
    BY <1>5 DEF OpenRefused, vars
  <1>6. CASE OpenFile
    BY <1>6, <1>0 DEF OpenFile, disk, Db, Absent
  <1>7. CASE Migrate
    BY <1>7, <1>0 DEF Migrate, Log, Db, Kinds
  <1>8. CASE Migrated
    BY <1>8 DEF Migrated, disk
  <1>9. CASE Write
    BY <1>9 DEF Write, disk, Db, Kinds
  <1>10. CASE Commit
    BY <1>10 DEF Commit, Log, Db, Kinds
  <1>11. CASE PromoteBegin
    BY <1>11 DEF PromoteBegin, Db, Kinds, Absent
  <1>12. CASE Copy
    BY <1>12 DEF Copy, Db, Kinds, Torn
  <1>13. CASE Rename
    BY <1>13 DEF Rename, Db, Kinds, Absent
  <1>14. CASE Reconnect
    BY <1>14, <1>0 DEF Reconnect, disk, Db
  <1>15. CASE PromoteFails
    <2>1. tmp' \in Db /\ saved' \in 0..MaxWrites
      BY <1>15 DEF PromoteFails, Db, Kinds, Absent
    <2>2. Content' = Content /\ Content.n = saved'
      BY <1>15 DEF PromoteFails
    <2> QED
      BY <1>15, <2>1, <2>2 DEF PromoteFails
  <1>16. CASE Close
    <2>1. Absent \in Db /\ Absent.kind # "db" /\ Absent.ver = 0
      BY DEF Db, Kinds, Absent
    <2>2. {file', wal', tmp', view'} \subseteq Db /\ view'.ver <= SchemaVersion
      BY <1>16, <1>0, <2>1 DEF Close
    <2>3. Content' = Content /\ Content.n = saved
      BY <1>16, <1>0, <2>1 DEF Close
    <2>4. file'.kind # "db" => wal'.kind # "db"
      BY <1>16, <1>0, <2>1 DEF Close
    <2> QED
      BY <1>16, <2>2, <2>3, <2>4 DEF Close
  <1>17. CASE Kill
    <2>1. Absent \in Db /\ Absent.ver = 0
      BY DEF Db, Kinds, Absent
    <2>2. saved' \in 0..MaxWrites /\ kills' \in 0..MaxKills
      <3>1. view.n \in 0..MaxWrites
        BY DEF Db
      <3> QED
        BY <1>17, <3>1 DEF Kill
    <2>3. Content' = Content /\ Content.n = saved'
      BY <1>17 DEF Kill, disk
    <2>4. {file', wal', tmp', view'} \subseteq Db /\ view'.ver <= SchemaVersion
      BY <1>17, <2>1 DEF Kill, disk
    <2> QED
      BY <1>17, <2>2, <2>3, <2>4 DEF Kill, disk
  <1>18. CASE UNCHANGED vars
    BY <1>18 DEF vars
  <1> QED
    BY <1>1, <1>2, <1>3, <1>4, <1>5, <1>6, <1>7, <1>8, <1>9, <1>10, <1>11,
       <1>12, <1>13, <1>14, <1>15, <1>16, <1>17, <1>18 DEF Next

THEOREM Invariance ==
  ASSUME ~OrphanLog
  PROVE  Spec => []StoreInv
  <1>1. Init => StoreInv
    BY InitInv
  <1>2. StoreInv /\ [Next]_vars => StoreInv'
    BY StepInv
  <1> QED
    BY <1>1, <1>2, PTL DEF Spec

(* Every component keeps its type, and no connection ever sees a schema past *)
(* the latest one (_ensure_schema steps exactly to it).                      *)
THEOREM StoreTypes ==
  ASSUME ~OrphanLog
  PROVE  Spec => []TypeOK
  <1>1. StoreInv => TypeOK
    BY DEF StoreInv
  <1> QED
    BY <1>1, Invariance, PTL

(* A save keeps its promise: between saves the path holds exactly the writes *)
(* of the last one that finished.                                            *)
THEOREM SavesAreKept ==
  ASSUME ~OrphanLog
  PROVE  Spec => []SavedIsStored
  <1>1. StoreInv => SavedIsStored
    BY DEF StoreInv, SavedIsStored
  <1> QED
    BY <1>1, Invariance, PTL

(* preview never commits: no step of a preview changes the stored content.   *)
THEOREM PreviewsAreForgotten ==
  ASSUME ~OrphanLog
  PROVE  Spec => PreviewNeverCommits
  <1>1. ASSUME StoreInv, [Next]_vars PROVE [preview => Content'.n = Content.n]_vars
    <2> SUFFICES ASSUME preview, Next PROVE Content'.n = Content.n
      BY <1>1
    <2> USE <1>1 DEF StoreInv, TypeOK, Content
    <2>0. Content \in Db /\ (Content.kind = "db" <=> file.kind = "db")
      BY ContentTypes
    <2>1. CASE QuarantineLog
      BY <2>1 DEF QuarantineLog
    <2>2. CASE Migrate
      BY <2>2, <2>0 DEF Migrate, Log, Db, Kinds
    <2>3. CASE Close
      BY <2>3, <2>0 DEF Close, Absent
    <2>4. CASE Kill \/ PromoteFails
      BY <2>4 DEF Kill, PromoteFails, disk
    <2>5. CASE Migrated \/ Write
      BY <2>5 DEF Migrated, Write, disk
    <2> QED
      BY <2>1, <2>2, <2>3, <2>4, <2>5
      DEF Next, LoseFile, OpenMissing, OpenTorn, OpenRefused, vars, OpenFile,
          Commit, PromoteBegin, Copy, Rename, Reconnect
  <1> QED
    BY <1>1, Invariance, PTL DEF Spec, PreviewNeverCommits

(* The store implements the atomic one, step by step: what was staged is     *)
(* made durable whole, by a commit or by the rename of a promotion, or it is *)
(* forgotten.                                                                *)
THEOREM StoreIsAtomic ==
  ASSUME ~OrphanLog
  PROVE  Spec => ImplementsAtomicStore
  <1> DEFINE stagedBar == IF pc \in {"open", "copy", "rename", "reconnect"}
                          THEN view.n ELSE MaxWrites + 1
  <1>1. Init => Promised!Init
    <2> SUFFICES ASSUME Init PROVE Promised!Init
      OBVIOUS
    <2>1. StoreInv /\ pc = "closed"
      BY InitInv DEF Init
    <2>2. Content.n \in 0..MaxWrites
      BY <2>1 DEF StoreInv, TypeOK
    <2> QED
      BY <2>1, <2>2 DEF Promised!Init, Promised!Closed
  <1>2. ASSUME StoreInv, [Next]_vars
        PROVE  [Promised!Next]_<<Content.n, stagedBar>>
    <2> USE <1>2 DEF StoreInv, TypeOK
    <2>0. Content \in Db /\ (Content.kind = "db" <=> file.kind = "db")
      BY ContentTypes
    <2>a. view.n \in 0..MaxWrites /\ Content.n \in 0..MaxWrites
      BY <2>0 DEF Db
    <2> USE DEF Promised!Next, Promised!Closed, Content
    <2>1. CASE LoseFile
      BY <2>1, <2>0 DEF LoseFile, Promised!Destroy, Absent, Torn
    <2>2. CASE OpenMissing
      BY <2>2 DEF OpenMissing, OnMemory, NewDb, disk, Promised!Open, Absent
    <2>3. CASE OpenTorn
      BY <2>3 DEF OpenTorn, Absent
    <2>4. CASE QuarantineLog
      BY <2>4 DEF QuarantineLog, OnMemory, NewDb, Promised!Open, Absent
    <2>5. CASE OpenFile
      BY <2>5 DEF OpenFile, disk
    <2>6. CASE Migrate
      BY <2>6, <2>0 DEF Migrate, Log, Db, Kinds
    <2>7. CASE Migrated
      BY <2>7 DEF Migrated, disk, Promised!Open
    <2>8. CASE Write
      BY <2>8, <2>a DEF Write, disk, Promised!Write
    <2>9. CASE Commit
      BY <2>9, <2>a DEF Commit, Log, Promised!Save
    <2>10. CASE PromoteBegin \/ Copy
      BY <2>10 DEF PromoteBegin, Copy
    <2>11. CASE Rename
      BY <2>11, <2>a DEF Rename, Promised!Save
    <2>12. CASE Reconnect
      BY <2>12 DEF Reconnect, disk
    <2>13. CASE PromoteFails
      BY <2>13 DEF PromoteFails, Promised!Abandon
    <2>14. CASE Close
      BY <2>14, <2>0 DEF Close, Promised!Abandon, Absent
    <2>15. CASE Kill
      BY <2>15 DEF Kill, disk, Promised!Abandon
    <2>16. CASE OpenRefused \/ UNCHANGED vars
      BY <2>16 DEF OpenRefused, vars
    <2> QED
      BY <2>1, <2>2, <2>3, <2>4, <2>5, <2>6, <2>7, <2>8, <2>9, <2>10, <2>11,
         <2>12, <2>13, <2>14, <2>15, <2>16 DEF Next
  <1> QED
    BY <1>1, <1>2, Invariance, PTL DEF Spec, ImplementsAtomicStore, Promised!Spec
=============================================================================
