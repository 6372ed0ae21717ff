---------------------------- MODULE GrabPipeline ----------------------------
(***************************************************************************)
(* The grab side of a run (grab_pipeline.py): each AniList id of each arr  *)
(* item is planned, its flagged urls are screened, held, added to          *)
(* qBittorrent (torrents.py) and registered as pending imports             *)
(* (pending_records.py), and the id is cached as done or reported.  The    *)
(* store is saved after each item (run_loop.py).                           *)
(*                                                                         *)
(* A url is a torrent: one infohash, listed by one url of a title.  What   *)
(* the planner and the placement decide of it is data here; what happens   *)
(* to a record after the scan is the business of PendingImports.           *)
(***************************************************************************)
EXTENDS Integers, FiniteSets

CONSTANTS
  Titles,       \* the AniList ids, numbered in the order an item lists them
  Items,        \* the arr items: sets of titles, scanned one item at a time
  Torrents,     \* numbered in the order an entry lists their urls
  Lists,        \* the torrents the planner selects of each title's entry
  Private,      \* torrents on a private tracker
  Unsupported,  \* torrents on a tracker without a parser
  Cap,          \* max_torrents_to_add, 0 for no cap
  Settings,     \* the settings to check: private_releases is fallback,
                \* use_torrent_hash_to_filter; with them what the placement
                \* holds, and the torrents without a video file: never seeded
  MaxUpsets     \* bound on failed calls, raises, removals by the user and kills

ASSUME GrabPipelineAssumption ==
  /\ Titles \subseteq Nat /\ Torrents \subseteq Nat
  /\ Items \subseteq SUBSET Titles /\ UNION Items = Titles
  /\ Lists \in [Titles -> SUBSET Torrents]
  /\ Private \subseteq Torrents /\ Unsupported \subseteq Torrents
  /\ Settings \subseteq [fallback : BOOLEAN, byHash : BOOLEAN,
                          holds : [Titles -> SUBSET Torrents],
                          videoless : SUBSET Torrents]
  /\ Cap \in Nat
  /\ MaxUpsets \in Nat

VARIABLES
  \* the world
  qbit,      \* a torrent is absent, young, or old: past pending_max_age_days
  owned,     \* the torrents whose files the arr holds for a title
  \* the store, as committed and as the run's connection sees it
  durable, staged,
  set,       \* the settings
  \* the run
  pc,
  rescan,    \* cached entries are re-checked: settings moved, or files changed
  todo,      \* items left to scan
  ids,       \* titles left of the item
  title,     \* the title in hand
  wanted,    \* its flagged urls
  left,      \* those the add loop has still to visit
  seeds,     \* the records read when its seeds were built
  per,       \* ctx.per_title
  added,     \* ctx.torrents_added
  tally,     \* stats.held_by_cap
  needs,     \* titles with a needs-action row
  \* history and bounds
  done,      \* titles this run wrote to the cache
  tooOld,    \* torrents it met too old to track for the title in hand
  real,      \* how many torrents this run put in qBittorrent
  hidden,    \* how many of them it could not count
  capped,    \* it has held some grabbable url
  ever,      \* torrents ever put in qBittorrent
  reported,  \* titles in the needs-action summary of a finished run
  upsets

world    == <<qbit, owned>>
scan     == <<pc, rescan, todo, ids>>
inHand   == <<title, wanted, left, seeds, per, tooOld>>
counts   == <<added, tally, needs, done, real, hidden, capped>>
past     == <<ever, reported>>
vars     == <<world, durable, staged, set, scan, inHand, counts, past, upsets>>

NoTitle == -1

First(n, S) == n \in S /\ \A m \in S : n <= m

\* A record's claims, and those past pending_max_age_days.
NoRecord == [claims |-> {}, aged |-> {}]
Record   == {r \in [claims : SUBSET Titles, aged : SUBSET Titles] : r.aged \subseteq r.claims}
Stored(r) == r.claims # {}

Store == [records : [Torrents -> Record],
          cached  : SUBSET Titles,
          hashes  : [Titles -> SUBSET Torrents]]

PerTitle == [capped : BOOLEAN, failed : SUBSET Torrents, held : SUBSET Torrents,
             private : SUBSET Torrents, unsupported : SUBSET Torrents,
             misread : BOOLEAN, unread : BOOLEAN, added : Nat]

NewTitle == [capped |-> FALSE, failed |-> {}, held |-> {}, private |-> {},
             unsupported |-> {}, misread |-> FALSE, unread |-> FALSE, added |-> 0]

\* with_claim: an entry already claiming keeps its first clock.
WithClaim(r, t) == [r EXCEPT !.claims = @ \cup {t}]

\* A fresh add starts every clock.
Fresh(r, t) == [claims |-> r.claims \cup {t}, aged |-> {}]

PutRecord(u, r) == staged' = [staged EXCEPT !.records[u] = r]

Upset == upsets < MaxUpsets /\ upsets' = upsets + 1

Init ==
  /\ qbit = [u \in Torrents |-> "absent"]
  /\ owned = [t \in Titles |-> {}]
  /\ durable = [records |-> [u \in Torrents |-> NoRecord], cached |-> {},
                hashes |-> [t \in Titles |-> {}]]
  /\ staged = durable
  /\ set \in Settings
  /\ pc = "idle" /\ rescan = FALSE /\ todo = {} /\ ids = {}
  /\ title = NoTitle /\ wanted = {} /\ left = {} /\ per = NewTitle /\ tooOld = {}
  /\ seeds = [u \in Torrents |-> NoRecord]
  /\ added = 0 /\ tally = 0 /\ needs = {} /\ done = {}
  /\ real = 0 /\ hidden = 0 /\ capped = FALSE
  /\ ever = {} /\ reported = {}
  /\ upsets = 0

-----------------------------------------------------------------------------
(* The world.                                                                *)

\* The arr imports a title's files of a torrent, on its own or driven by a run.
FilesLand(t, u) ==
  /\ pc = "idle"
  /\ u \in Lists[t] \ owned[t] /\ qbit[u] # "absent"
  /\ owned' = [owned EXCEPT ![t] = @ \cup {u}]
  /\ UNCHANGED <<qbit, durable, staged, set, scan, inHand, counts, past, upsets>>

\* The days pass for a torrent and for the claims on it.
Aged(r) == [r EXCEPT !.aged = @ \cup r.claims]

Ages(u) ==
  /\ pc = "idle"
  /\ qbit[u] = "young" \/ durable.records[u] # Aged(durable.records[u])
  /\ qbit' = [qbit EXCEPT ![u] = IF @ = "young" THEN "old" ELSE @]
  /\ durable' = [durable EXCEPT !.records[u] = Aged(@)]
  /\ staged' = durable'
  /\ UNCHANGED <<owned, set, scan, inHand, counts, past, upsets>>

UserRemoves(u) ==
  /\ qbit[u] # "absent"
  /\ Upset
  /\ qbit' = [qbit EXCEPT ![u] = "absent"]
  /\ UNCHANGED <<owned, durable, staged, set, scan, inHand, counts, past>>

-----------------------------------------------------------------------------
(* The scan.                                                                 *)

NoneInHand ==
  /\ title' = NoTitle /\ wanted' = {} /\ left' = {} /\ per' = NewTitle /\ tooOld' = {}
  /\ seeds' = [u \in Torrents |-> NoRecord]

NoRun ==
  /\ pc' = "idle" /\ rescan' = FALSE /\ todo' = {} /\ ids' = {}
  /\ NoneInHand
  /\ added' = 0 /\ tally' = 0 /\ needs' = {} /\ done' = {}
  /\ real' = 0 /\ hidden' = 0 /\ capped' = FALSE

\* prune_expired_pending: a record goes with its newest claim.
Expire(r) == IF r.aged = r.claims THEN NoRecord ELSE r

(* A run begins: records all of whose claims have aged are pruned; the       *)
(* prefetch saves when it fetched.                                           *)
StartRun(items) ==
  /\ pc = "idle"
  /\ pc' = "items" /\ todo' = items
  /\ rescan' \in BOOLEAN
  /\ staged' = [staged EXCEPT !.records = [u \in Torrents |-> Expire(@[u])]]
  /\ durable' \in {durable, staged'}
  /\ UNCHANGED <<world, set, ids, inHand, counts, past, upsets>>

NextItem(i) ==
  /\ pc = "items" /\ i \in todo
  /\ pc' = "ids" /\ todo' = todo \ {i} /\ ids' = i
  /\ UNCHANGED <<world, durable, staged, set, rescan, inHand, counts, past, upsets>>

\* cached_entry_skip.
SkipCached(t) ==
  /\ pc = "ids" /\ First(t, ids)
  /\ t \in staged.cached /\ ~rescan
  /\ ids' = ids \ {t}
  /\ UNCHANGED <<world, durable, staged, set, pc, rescan, todo, inHand, counts, past,
                 upsets>>

\* A SeaDex outage, an unread episode list, an exception before the add loop.
MissTitle(t) ==
  /\ pc = "ids" /\ First(t, ids)
  /\ t \in staged.cached => rescan
  /\ ids' = ids \ {t}
  /\ Upset
  /\ UNCHANGED <<world, durable, staged, set, pc, rescan, todo, inHand, counts, past>>

\* The urls the plan flags: by the hashes cached for the title, or by what the
\* arr holds.
Flags(t) == Lists[t] \ (IF set.byHash THEN staged.hashes[t] ELSE owned[t])

(* process_al_id up to grab_and_cache.  The planner drops private urls in    *)
(* favour of a public release, holding the title for them or not; a read the *)
(* placement or the episode orders need may have failed.                     *)
PlanFrom(t, records) ==
  /\ pc = "ids" /\ First(t, ids)
  /\ t \in staged.cached => rescan
  /\ pc' = "urls" /\ ids' = ids \ {t}
  /\ title' = t
  /\ \E dropped \in SUBSET (Flags(t) \cap Private), misread, unread, notice \in BOOLEAN :
       /\ notice => dropped # {}
       /\ wanted' = Flags(t) \ dropped
       /\ per' = [NewTitle EXCEPT !.private = IF notice THEN dropped ELSE {},
                                  !.misread = misread, !.unread = unread]
       /\ IF misread \/ unread THEN Upset ELSE UNCHANGED upsets
  /\ left' = wanted'
  /\ seeds' = [u \in Torrents |-> IF u \in wanted' THEN records[u] ELSE NoRecord]
  /\ tooOld' = {}
  /\ UNCHANGED <<world, durable, staged, set, rescan, todo, counts, past>>

Plan(t) == PlanFrom(t, staged.records)

-----------------------------------------------------------------------------
(* The add loop, url by url.                                                 *)

(* What per_title and the seeds hold is not read again once the title is     *)
(* through; it is cleared here, not at the next title's prologue.            *)
LeaveTitle == pc' = "ids" /\ NoneInHand

AtUrl(u)  == pc = "urls" /\ First(u, left)

Visits(u) == AtUrl(u) /\ left' = left \ {u}

Screened(u) == u \notin Private \cup Unsupported \cup set.holds[title]

\* Mutant: one past the cap.
CapPassed == Cap # 0 /\ added > Cap

CapReached == Cap # 0 /\ added >= Cap

\* _screen_url refuses: the first of private, unparseable and held decides.
ScreenedOut(u) ==
  /\ Visits(u)
  /\ \/ u \in Private /\ per' = [per EXCEPT !.private = @ \cup {u}]
     \/ u \in Unsupported \ Private
        /\ per' = [per EXCEPT !.unsupported = @ \cup {u}]
     \/ u \in set.holds[title] \ (Private \cup Unsupported)
        /\ per' = [per EXCEPT !.held = @ \cup {u}]
  /\ UNCHANGED <<world, durable, staged, set, scan, title, wanted, seeds, tooOld, counts,
                 past, upsets>>

\* A seed exists for a torrent with a video file; it accretes to a stored record.
Accretes(u) == u \notin set.videoless /\ Stored(seeds[u])

Tallied ==
  /\ tally' = IF per.capped THEN tally ELSE tally + 1
  /\ capped' = TRUE
  /\ UNCHANGED <<added, needs, done, real, hidden>>

\* _hold_capped: a resident torrent's record still takes the claim.
HoldCapped(u) ==
  /\ Visits(u) /\ Screened(u) /\ CapReached
  /\ Tallied /\ per' = [per EXCEPT !.capped = TRUE]
  /\ IF Accretes(u) THEN PutRecord(u, WithClaim(seeds[u], title)) ELSE UNCHANGED staged
  /\ UNCHANGED <<world, durable, set, scan, title, wanted, seeds, tooOld, past, upsets>>

\* The hold's save raises: the title's loop unwinds, its tally stands.
HoldRaises(u) ==
  /\ AtUrl(u) /\ Screened(u) /\ CapReached /\ Accretes(u)
  /\ Tallied
  /\ LeaveTitle
  /\ Upset
  /\ UNCHANGED <<world, durable, staged, set, rescan, todo, ids, past>>

MayAdd(u) == Screened(u) /\ ~CapReached

Adds(u) == Visits(u) /\ MayAdd(u)

\* Mutant: only a stored record takes the claim.
AddPresentStored(u) ==
  /\ Adds(u) /\ qbit[u] # "absent"
  /\ IF Accretes(u) THEN PutRecord(u, WithClaim(seeds[u], title)) ELSE UNCHANGED staged
  /\ UNCHANGED <<world, durable, set, scan, title, wanted, seeds, per, tooOld, counts,
                 past, upsets>>

(* _register_pending_import, ALREADY_ADDED: a stored record takes the claim; *)
(* a record-less torrent is reacquired on its own add time, unless too old.  *)
AddPresent(u) ==
  /\ Adds(u) /\ qbit[u] # "absent"
  /\ LET old == qbit[u] = "old" /\ u \notin set.videoless /\ ~Accretes(u) IN
     /\ IF u \in set.videoless \/ old THEN UNCHANGED staged
                                  ELSE PutRecord(u, WithClaim(seeds[u], title))
     /\ tooOld' = IF old THEN tooOld \cup {u} ELSE tooOld
  /\ UNCHANGED <<world, durable, set, scan, title, wanted, seeds, per, counts, past,
                 upsets>>

\* torrents_add answered "Ok.".
InQbit(u) ==
  /\ qbit[u] = "absent"
  /\ qbit' = [qbit EXCEPT ![u] = "young"]
  /\ real' = real + 1 /\ ever' = ever \cup {u}

Registers(u) ==
  IF u \in set.videoless THEN UNCHANGED staged ELSE PutRecord(u, Fresh(seeds[u], title))

\* ADDED: registered, then counted by the loop and by the title.
AddNew(u) ==
  /\ Adds(u) /\ InQbit(u)
  /\ Registers(u)
  /\ added' = added + 1 /\ per' = [per EXCEPT !.added = @ + 1]
  /\ UNCHANGED <<owned, durable, set, scan, title, wanted, seeds, tooOld, tally, needs,
                 done, hidden, capped, reported, upsets>>

\* A GRAB_FAILURES exception: the tracker, or qBittorrent before the add.
AddFails(u) ==
  /\ Adds(u)
  /\ per' = [per EXCEPT !.failed = @ \cup {u}]
  /\ Upset
  /\ UNCHANGED <<world, durable, staged, set, scan, title, wanted, seeds, tooOld, counts,
                 past>>

\* The same from torrents_info after the add: the torrent is there, uncounted.
AddUnanswered(u) ==
  /\ Adds(u) /\ InQbit(u)
  /\ per' = [per EXCEPT !.failed = @ \cup {u}]
  /\ hidden' = hidden + 1
  /\ Upset
  /\ UNCHANGED <<owned, durable, staged, set, scan, title, wanted, seeds, tooOld, added,
                 tally, needs, done, capped, reported>>

(* The registration raises, before or after the record's row was put: the    *)
(* title's loop unwinds with the torrent uncounted.                          *)
AddRaises(u) ==
  /\ AtUrl(u) /\ MayAdd(u) /\ InQbit(u)
  /\ UNCHANGED staged \/ Registers(u)
  /\ LeaveTitle
  /\ hidden' = hidden + 1
  /\ Upset
  /\ UNCHANGED <<owned, durable, set, rescan, todo, ids, added, tally, needs, done, capped,
                 reported>>

-----------------------------------------------------------------------------
(* The title's outcome.                                                      *)

\* Mutant: a partial grab counts as done.
CacheWhenSomeAdded ==
  /\ ~per.capped
  /\ ~(set.fallback /\ per.private # {})
  /\ \/ per.added > 0
     \/ /\ per.failed = {} /\ per.held = {} /\ ~per.misread /\ ~per.unread
        /\ per.private = {} /\ per.unsupported = {}

\* _should_cache_as_done, of a run that is not interactive.
ShouldCacheAsDone ==
  /\ ~per.capped
  /\ ~(set.fallback /\ per.private # {})
  /\ per.failed = {} /\ per.held = {} /\ ~per.misread /\ ~per.unread
  /\ per.added > 0 \/ (per.private = {} /\ per.unsupported = {})

\* The plan's hashes.
AllHashes == IF set.byHash THEN Lists[title] ELSE (wanted \ Private) \cup staged.hashes[title]

\* Less the unsupported ones, so that a later parser finds its release wanted.
Cacheable == AllHashes \ per.unsupported

\* Mutant: only private and failed releases are worth a row.
NeedsActionFew == per.private # {} \/ per.failed # {}

\* _classify_needs_action finds a row; a cap hold or unread orders alone have none.
NeedsAction ==
  per.private # {} \/ per.unsupported # {} \/ per.failed # {} \/ per.held # {} \/ per.misread

Settle ==
  /\ pc = "urls" /\ left = {}
  /\ LeaveTitle
  /\ IF ShouldCacheAsDone
     THEN /\ staged' = [staged EXCEPT !.cached = @ \cup {title},
                                      !.hashes[title] = Cacheable]
          /\ done' = done \cup {title}
          /\ UNCHANGED needs
     ELSE /\ needs' = IF NeedsAction THEN needs \cup {title} ELSE needs
          /\ UNCHANGED <<staged, done>>
  /\ UNCHANGED <<world, durable, set, rescan, todo, ids, added, tally, real, hidden, capped,
                 past, upsets>>

\* process_al_id raises elsewhere, a notification or the cache write among it.
TitleRaises ==
  /\ pc = "urls"
  /\ LeaveTitle
  /\ Upset
  /\ UNCHANGED <<world, durable, staged, set, rescan, todo, ids, counts, past>>

-----------------------------------------------------------------------------
(* Saves and ends.                                                           *)

\* The item's titles are through, those that raised too: the item's save.
ItemSave ==
  /\ pc = "ids" /\ ids = {}
  /\ pc' = "items"
  /\ durable' = staged
  /\ UNCHANGED <<world, staged, set, rescan, todo, ids, inHand, counts, past, upsets>>

\* The tail: records whose claims have all landed retire, those of torrents that
\* are gone drop, each or not this time; then the summary and the save.
Finalize ==
  /\ pc = "items" /\ todo = {}
  /\ \E ended \in SUBSET {u \in Torrents :
          /\ Stored(staged.records[u])
          /\ qbit[u] = "absent" \/ \A t \in staged.records[u].claims : u \in owned[t]} :
       durable' = [staged EXCEPT !.records =
                     [u \in Torrents |-> IF u \in ended THEN NoRecord ELSE @[u]]]
  /\ staged' = durable'
  /\ reported' = reported \cup needs
  /\ NoRun
  /\ UNCHANGED <<world, set, ever, upsets>>

\* The process is killed: what it staged is gone, what qBittorrent took stays.
Kill ==
  /\ pc # "idle"
  /\ Upset
  /\ staged' = durable
  /\ NoRun
  /\ UNCHANGED <<world, durable, set, past>>

FullRun == StartRun(Items)

Visit == \E u \in Torrents :
  \/ ScreenedOut(u) \/ HoldCapped(u) \/ HoldRaises(u) \/ AddPresent(u) \/ AddNew(u)
  \/ AddFails(u) \/ AddUnanswered(u) \/ AddRaises(u)

RunStep ==
  \/ \E i \in Items : NextItem(i)
  \/ \E t \in Titles : SkipCached(t) \/ MissTitle(t) \/ Plan(t)
  \/ Visit \/ Settle \/ TitleRaises \/ ItemSave \/ Finalize

World ==
  \/ \E t \in Titles, u \in Torrents : FilesLand(t, u)
  \/ \E u \in Torrents : Ages(u) \/ UserRemoves(u)

Next ==
  \/ World
  \/ FullRun \/ \E i \in Items : StartRun({i})
  \/ RunStep
  \/ Kill

Spec == Init /\ [][Next]_vars

\* A started run goes on, and full runs keep being started.
FairSpec == Spec /\ WF_vars(RunStep) /\ SF_vars(FullRun)

-----------------------------------------------------------------------------
WorldOK == qbit \in [Torrents -> {"absent", "young", "old"}] /\ owned \in [Titles -> SUBSET Torrents]

StoreOK == durable \in Store /\ staged \in Store

ScanOK ==
  /\ set \in Settings
  /\ pc \in {"idle", "items", "ids", "urls"} /\ rescan \in BOOLEAN
  /\ todo \subseteq Items /\ ids \subseteq Titles

InHandOK ==
  /\ title \in Titles \cup {NoTitle} /\ (pc = "urls" => title \in Titles)
  /\ wanted \subseteq Torrents /\ left \subseteq wanted /\ tooOld \subseteq Torrents
  /\ seeds \in [Torrents -> Record]
  /\ per \in PerTitle

CountsOK ==
  /\ added \in Nat /\ tally \in Nat /\ real \in Nat /\ hidden \in Nat
  /\ needs \subseteq Titles /\ done \subseteq Titles /\ capped \in BOOLEAN

PastOK == ever \subseteq Torrents /\ reported \subseteq Titles /\ upsets \in 0..MaxUpsets

TypeOK == WorldOK /\ StoreOK /\ ScanOK /\ InHandOK /\ CountsOK /\ PastOK

(* A run puts no more torrents in qBittorrent than max_torrents_to_add says, *)
(* not counting the adds whose answer it never got.                          *)
CapRespected == Cap # 0 => real <= Cap + hidden

(* A title written to the cache has nothing left to grab: each flagged url   *)
(* the pipeline may grab has a pending record with the title's claim, but    *)
(* for a torrent without a seed or too old to track, of which it warned.     *)
(* grab_pipeline.py:345-370.                                                 *)
DoneIsTracked ==
  [][\A t \in done' \ done : \A u \in wanted :
       \/ u \in Private \cup Unsupported
       \/ t \in staged'.records[u].claims
       \/ u \in set.videoless \cup tooOld]_vars

(* By the end of its scan a title has its claim on every record of a torrent *)
(* it could have grabbed, held by the cap or not, so the import of a torrent *)
(* already downloading knows the title's files: _hold_capped's "a resident   *)
(* torrent keeps its claim".                                                 *)
ResidentKeepsClaim ==
  pc = "urls" =>
    \A u \in wanted \ (left \cup per.failed \cup set.videoless) :
      Screened(u) /\ Stored(staged.records[u]) => title \in staged.records[u].claims

\* While a run scans, no title loses its claim to another's grab of the torrent.
ClaimsAccumulate ==
  [][(pc \in {"ids", "urls"} /\ pc' # "idle") =>
       \A u \in Torrents : staged.records[u].claims \subseteq staged'.records[u].claims]_vars

(* A run that held any grabbable url past the cap knows it when it asks      *)
(* whether it was a full pass, a raise in between or not: "The tally lands   *)
(* before the save".                                                         *)
HeldRunIsTallied == capped => tally > 0

(* A stored hash is of a torrent that was grabbed, or of a private release:  *)
(* filtering by hash never skips one that was not, an unsupported tracker's  *)
(* among them.                                                               *)
HashedWasGrabbed ==
  \A t \in Titles : durable.hashes[t] \subseteq ever \cup Private

(* A run stays under its cap, knows when it held something back, and never   *)
(* stores a hash that would hide what it did not grab.                       *)
NothingHidden == CapRespected /\ HeldRunIsTallied /\ HashedWasGrabbed

(* A torrent's claims: each title that wants it has one once its url is past,*)
(* a title cached as done has them all, and no other title's save drops one. *)
ClaimsLast == []ResidentKeepsClaim /\ DoneIsTracked /\ ClaimsAccumulate

(* A title settled but not cached is in the summary's needs-action rows, or  *)
(* is counted as held by the cap, or waits for its TVDB orders only.         *)
NoSilentTitle ==
  [][(pc = "urls" /\ left = {} /\ pc' = "ids" /\ upsets' = upsets /\ title \notin done') =>
       title \in needs' \/ (per.capped /\ tally' > 0) \/ per.unread]_vars

(* Every title is cached as done in the end, or reported to the user by a    *)
(* run that finishes: what the cap holds is grabbed by a later run.          *)
TitlesSettle == \A t \in Titles : <>(t \in durable.cached \cup reported)

(* A torrent the pipeline put in qBittorrent and forgot, in a kill or a lost *)
(* answer, gets its record as long as its title is not done and it is young. *)
OrphansReacquired ==
  \A t \in Titles : \A u \in Lists[t] \ (Private \cup Unsupported) :
    (qbit[u] = "young" /\ t \notin durable.cached) ~>
      \/ t \in durable.records[u].claims \/ u \in owned[t]
      \/ qbit[u] # "young" \/ u \in set.holds[t] \cup set.videoless

(* Nothing is left hanging: every title settles, every orphan is taken back. *)
PipelineSettles == TitlesSettle /\ OrphansReacquired
=============================================================================
