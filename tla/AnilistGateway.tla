--------------------------- MODULE AnilistGateway ---------------------------
(* The AniList gateway (anilist_gateway.py) over its client's breaker        *)
(* (anilist_client.py) and the anilist_meta rows of cache.db, leg after leg. *)
(* A leg loads every row, asks for the missing and the aged ones in chunks,  *)
(* saves what it fetched and evicts what is past the refresh age, then       *)
(* resolves its titles.  An unanswered request (retries exhausted, or an     *)
(* answer without data) trips the breaker for the leg.                       *)
EXTENDS Naturals, FiniteSets

CONSTANTS
  MediaIds,  \* AniList ids
  BatchSize, \* ids in one batch
  MaxLegs    \* bound

ASSUME AnilistGatewayAssumption ==
  MediaIds \subseteq Nat /\ BatchSize \in Nat \ {0} /\ MaxLegs \in Nat

VARIABLES
  known,    \* the ids AniList knows
  meta,     \* the stored row of an id
  alCache,  \* the leg's answer for an id
  stale,    \* loaded past the refresh age
  fetched,  \* fetched since the last save
  alOutage, alPreview,
  alTodo,   \* the ids of the batches still to ask
  alStep,   \* "idle", "batch" or "scan"
  legs

alVars == <<known, meta, alCache, stale, fetched, alOutage, alPreview, alTodo, alStep, legs>>

AnilistTypeOK ==
  /\ known \in SUBSET MediaIds
  /\ meta \in [MediaIds -> {"none", "fresh", "aged"}]
  /\ alCache \in [MediaIds -> {"absent", "body", "empty"}]
  /\ stale \in SUBSET MediaIds /\ fetched \in SUBSET MediaIds /\ alTodo \in SUBSET MediaIds
  /\ alOutage \in BOOLEAN /\ alPreview \in BOOLEAN
  /\ alStep \in {"idle", "batch", "scan"} /\ legs \in 0..MaxLegs

AnilistInit ==
  /\ known \in SUBSET MediaIds
  /\ meta \in [MediaIds -> {"none", "fresh", "aged"}]
  /\ alCache = [i \in MediaIds |-> "absent"]
  /\ stale = {} /\ fetched = {} /\ alTodo = {}
  /\ alOutage = FALSE /\ alPreview = FALSE /\ alStep = "idle" /\ legs = 0

Aged == {i \in MediaIds : meta[i] = "aged"}
Rows == {i \in MediaIds : meta[i] # "none"}

\* load_cache, then prefetch of the leg's ids: nothing to ask for ends it, unsaved.
StartLeg(wanted, preview) ==
  /\ alStep = "idle" /\ legs < MaxLegs
  /\ legs' = legs + 1 /\ alPreview' = preview /\ alOutage' = FALSE
  /\ alCache' = [i \in MediaIds |-> IF i \in Rows THEN "body" ELSE "absent"]
  /\ stale' = Aged /\ fetched' = {}
  /\ alTodo' = wanted \ (Rows \ Aged)
  /\ alStep' = IF wanted \subseteq Rows \ Aged THEN "scan" ELSE "batch"
  /\ UNCHANGED <<known, meta>>

Batch(todo) == {i \in todo : Cardinality({j \in todo : j < i}) < BatchSize}

Stored(got) ==
  /\ alCache' = [i \in MediaIds |-> IF i \in got THEN "body" ELSE alCache[i]]
  /\ stale' = stale \ got
  /\ fetched' = fetched \cup got

\* An id AniList does not know is absent from the answer.
BatchAnswered ==
  /\ alStep = "batch" /\ alTodo # {} /\ ~alOutage
  /\ Stored(Batch(alTodo) \cap known)
  /\ alTodo' = alTodo \ Batch(alTodo)
  /\ UNCHANGED <<known, meta, alOutage, alPreview, alStep, legs>>

\* The breaker trips: no later batch is asked.
BatchFails ==
  /\ alStep = "batch" /\ alTodo # {} /\ ~alOutage
  /\ alOutage' = TRUE /\ alTodo' = {}
  /\ UNCHANGED <<known, meta, alCache, stale, fetched, alPreview, alStep, legs>>

SaveStep == alStep = "batch" /\ alTodo = {} /\ alStep' = "scan"

\* Mutant: the eviction does not look at the breaker.
SaveCacheEvicting ==
  /\ SaveStep
  /\ meta' = [i \in MediaIds |-> IF alPreview THEN meta[i]
                            ELSE IF i \in fetched THEN "fresh"
                            ELSE IF i \in Aged THEN "none" ELSE meta[i]]
  /\ fetched' = IF alPreview THEN fetched ELSE {}
  /\ UNCHANGED <<known, alCache, stale, alOutage, alPreview, alTodo, legs>>

\* save_cache: a preview persists nothing; the fetched rows are stamped now; the
\* rows past the refresh age go, unless AniList is down.
SaveCache ==
  /\ SaveStep
  /\ meta' = [i \in MediaIds |-> IF alPreview THEN meta[i]
                            ELSE IF i \in fetched THEN "fresh"
                            ELSE IF i \in Aged /\ ~alOutage THEN "none" ELSE meta[i]]
  /\ fetched' = IF alPreview THEN fetched ELSE {}
  /\ UNCHANGED <<known, alCache, stale, alOutage, alPreview, alTodo, legs>>

\* _media on an id the leg has nothing of: one live query; an unknown id is
\* remembered as empty, an unanswered one is not.
MediaAnswered(i) ==
  /\ alStep = "scan" /\ alCache[i] = "absent" /\ ~alOutage
  /\ IF i \in known THEN Stored({i})
     ELSE alCache' = [alCache EXCEPT ![i] = "empty"] /\ UNCHANGED <<stale, fetched>>
  /\ UNCHANGED <<known, meta, alOutage, alPreview, alTodo, alStep, legs>>

MediaFails(i) ==
  /\ alStep = "scan" /\ alCache[i] = "absent" /\ ~alOutage
  /\ alOutage' = TRUE
  /\ UNCHANGED <<known, meta, alCache, stale, fetched, alPreview, alTodo, alStep, legs>>

EndLeg == alStep = "scan" /\ alStep' = "idle"
  /\ UNCHANGED <<known, meta, alCache, stale, fetched, alOutage, alPreview, alTodo, legs>>

\* Days pass between two legs.
MetaAges(i) ==
  /\ alStep = "idle" /\ meta[i] = "fresh"
  /\ meta' = [meta EXCEPT ![i] = "aged"]
  /\ UNCHANGED <<known, alCache, stale, fetched, alOutage, alPreview, alTodo, alStep, legs>>

AnilistNext ==
  \/ \E wanted \in SUBSET MediaIds, preview \in BOOLEAN : StartLeg(wanted, preview)
  \/ BatchAnswered \/ BatchFails \/ SaveCache \/ EndLeg
  \/ \E i \in MediaIds : MediaAnswered(i) \/ MediaFails(i) \/ MetaAges(i)

AnilistSpec == AnilistInit /\ [][AnilistNext]_alVars

\* While AniList is down no stored row is lost and every row keeps answering for
\* its title; nothing is remembered of an id AniList was not heard on (save_cache,
\* _media).
OutageKeepsMeta ==
  [][/\ alOutage' => \A i \in MediaIds : meta[i] # "none" => meta'[i] # "none"
     /\ alStep = "batch" => \A i \in MediaIds : alCache[i] = "body" => alCache'[i] = "body"
     /\ \A i \in MediaIds : alCache'[i] = "empty" => i \notin known]_alVars

\* A row goes only when AniList was asked for it in that leg and did not know it.
\* Not so: the leg's save evicts the aged rows of every other title too.
EvictedOnlyWhenGone ==
  [][\A i \in MediaIds : meta[i] # "none" /\ meta'[i] = "none" => i \notin known]_alVars
=============================================================================
