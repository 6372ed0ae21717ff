--------------------------- MODULE SeadexGateway ---------------------------
(* One leg's SeaDex gateway (seadex_gateway.py): the prefetch of the leg's  *)
(* ids in chunks, then the lookups of the titles one by one.  A request is  *)
(* answered or fails, twice in a row for it to count; after that SeaDex is  *)
(* down for the leg.                                                        *)
EXTENDS Naturals, FiniteSets

CONSTANTS
  Ids,       \* AniList ids
  ChunkSize  \* ids in one prefetch request

ASSUME SeadexGatewayAssumption == Ids \subseteq Nat /\ ChunkSize \in Nat \ {0}

VARIABLES
  listed,     \* the ids SeaDex has an entry for
  entryCache, \* _entry_cache: the ids it holds an entry of
  prefetched, \* the ids of the answered chunks
  sdOutage,
  sdTodo,     \* the ids of the chunks still to fetch
  sdStep,     \* "boot", "prefetch" or "scan"
  answers     \* what the last lookup of an id said

sdVars == <<listed, entryCache, prefetched, sdOutage, sdTodo, sdStep, answers>>

SeadexAnswers == {"unasked", "entry", "NO_ENTRY", "OUTAGE"}

SeadexTypeOK ==
  /\ listed \in SUBSET Ids /\ entryCache \in SUBSET Ids /\ prefetched \in SUBSET Ids
  /\ sdOutage \in BOOLEAN /\ sdTodo \in SUBSET Ids
  /\ sdStep \in {"boot", "prefetch", "scan"}
  /\ answers \in [Ids -> SeadexAnswers]

SeadexInit ==
  /\ listed \in SUBSET Ids
  /\ entryCache = {} /\ prefetched = {} /\ sdOutage = FALSE
  /\ sdTodo = {} /\ sdStep = "boot"
  /\ answers = [i \in Ids |-> "unasked"]

\* prefetch: of the leg's ids, the ones neither cached nor known absent.
SeadexPrefetch(wanted) ==
  /\ sdStep = "boot"
  /\ sdTodo' = wanted \ (entryCache \cup prefetched)
  /\ sdStep' = "prefetch"
  /\ UNCHANGED <<listed, entryCache, prefetched, sdOutage, answers>>

\* The next chunk: the lowest ids of the sorted rest.
Chunk(todo) == {i \in todo : Cardinality({j \in todo : j < i}) < ChunkSize}

NextChunk ==
  /\ sdStep = "prefetch" /\ sdTodo # {}
  /\ sdTodo' = sdTodo \ Chunk(sdTodo)
  /\ UNCHANGED <<listed, sdStep, answers>>

ChunkAnswered ==
  /\ NextChunk /\ ~sdOutage
  /\ entryCache' = entryCache \cup (Chunk(sdTodo) \cap listed)
  /\ prefetched' = prefetched \cup Chunk(sdTodo)
  /\ UNCHANGED sdOutage

\* Mutant: the ids of a failed chunk count as fetched.
ChunkFailsFetched ==
  /\ NextChunk /\ ~sdOutage
  /\ sdOutage' = TRUE
  /\ prefetched' = prefetched \cup Chunk(sdTodo)
  /\ UNCHANGED entryCache

\* The chunk fails twice: its ids stay unknown.
ChunkFails ==
  /\ NextChunk /\ ~sdOutage
  /\ sdOutage' = TRUE
  /\ UNCHANGED <<entryCache, prefetched>>

ChunkSkipped ==
  /\ NextChunk /\ sdOutage
  /\ UNCHANGED <<entryCache, prefetched, sdOutage>>

PrefetchDone ==
  /\ sdStep = "prefetch" /\ sdTodo = {}
  /\ sdStep' = "scan"
  /\ UNCHANGED <<listed, entryCache, prefetched, sdOutage, sdTodo, answers>>

Answered(i, answer) == answers' = [answers EXCEPT ![i] = answer]

\* entry, from what the leg holds.
EntryHeld(i) ==
  /\ sdStep = "scan"
  /\ \/ i \in entryCache /\ Answered(i, "entry")
     \/ i \notin entryCache /\ i \in prefetched /\ Answered(i, "NO_ENTRY")
     \/ i \notin entryCache \cup prefetched /\ sdOutage /\ Answered(i, "OUTAGE")
  /\ UNCHANGED <<listed, entryCache, prefetched, sdOutage, sdTodo, sdStep>>

Unknown(i) == sdStep = "scan" /\ i \notin entryCache \cup prefetched /\ ~sdOutage

\* _entry_single: SeaDex has an entry, or says it has none, at the first or the second try.
EntryFetched(i) ==
  /\ Unknown(i)
  /\ Answered(i, IF i \in listed THEN "entry" ELSE "NO_ENTRY")
  /\ UNCHANGED <<listed, entryCache, prefetched, sdOutage, sdTodo, sdStep>>

EntryFails(i) ==
  /\ Unknown(i)
  /\ Answered(i, "OUTAGE")
  /\ sdOutage' = TRUE
  /\ UNCHANGED <<listed, entryCache, prefetched, sdTodo, sdStep>>

SeadexNext ==
  \/ \E wanted \in SUBSET Ids : SeadexPrefetch(wanted)
  \/ ChunkAnswered \/ ChunkFails \/ ChunkSkipped \/ PrefetchDone
  \/ \E i \in Ids : EntryHeld(i) \/ EntryFetched(i) \/ EntryFails(i)

SeadexSpec == SeadexInit /\ [][SeadexNext]_sdVars

\* A title SeaDex has an entry for is never reported to have none: an outage is
\* never read as an answer (SeaDexGateway.prefetch, entry).
EntryNeverDenied ==
  \A i \in Ids : (answers[i] = "NO_ENTRY" => i \notin listed)
              /\ (answers[i] = "entry" => i \in listed)
=============================================================================
