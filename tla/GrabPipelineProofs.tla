------------------------- MODULE GrabPipelineProofs -------------------------
(***************************************************************************)
(* The safety of the grab pipeline, for any titles, items and torrents,    *)
(* any cap, any settings and any number of upsets.                         *)
(***************************************************************************)
EXTENDS GrabPipeline, TLAPS

USE GrabPipelineAssumption DEF GrabPipelineAssumption

-----------------------------------------------------------------------------
(* The operators on records and on the store.                                *)

LEMMA RecordOps ==
  ASSUME NEW r \in Record, NEW t \in Titles
  PROVE  /\ NoRecord \in Record
         /\ WithClaim(r, t) \in Record
         /\ WithClaim(r, t).claims = r.claims \cup {t}
         /\ Fresh(r, t) \in Record
         /\ Fresh(r, t).claims = r.claims \cup {t}
         /\ Expire(r) \in Record
         /\ Aged(r) \in Record
  BY DEF Record, NoRecord, WithClaim, Fresh, Expire, Aged

\* A record's put leaves every other record, and the entries, alone.
LEMMA PutIsLocal ==
  ASSUME staged \in Store, NEW u \in Torrents, NEW r \in Record, PutRecord(u, r)
  PROVE  /\ staged' \in Store
         /\ staged'.records[u] = r
         /\ \A v \in Torrents : v # u => staged'.records[v] = staged.records[v]
         /\ staged'.cached = staged.cached
         /\ staged'.hashes = staged.hashes
  BY DEF PutRecord, Store

\* A cached entry leaves the records alone.
LEMMA EntryIsLocal ==
  ASSUME staged \in Store, NEW t \in Titles, NEW h \in SUBSET Torrents,
         staged' = [staged EXCEPT !.cached = @ \cup {t}, !.hashes[t] = h]
  PROVE  /\ staged' \in Store
         /\ staged'.records = staged.records
         /\ staged'.hashes = [staged.hashes EXCEPT ![t] = h]
  <1>1. /\ staged.records \in [Torrents -> Record] /\ staged.cached \subseteq Titles
        /\ staged.hashes \in [Titles -> SUBSET Torrents]
    BY DEF Store
  <1>2. staged' = [records |-> staged.records, cached |-> staged.cached \cup {t},
                   hashes |-> [staged.hashes EXCEPT ![t] = h]]
    BY DEF Store
  <1> QED
    BY <1>1, <1>2 DEF Store

LEMMA NoRecordType == NoRecord \in Record
  BY DEF NoRecord, Record

LEMMA NewTitleType == NewTitle \in PerTitle
  BY DEF NewTitle, PerTitle

-----------------------------------------------------------------------------
(* Types.                                                                    *)

LEMMA InitTypes == Init => TypeOK
  <1> SUFFICES ASSUME Init PROVE TypeOK
    OBVIOUS
  <1>1. InHandOK
    BY NewTitleType DEF Init, InHandOK, Record, NoRecord
  <1>2. StoreOK
    BY DEF Init, StoreOK, Store, Record, NoRecord
  <1>3. WorldOK
    BY DEF Init, WorldOK
  <1>4. ScanOK
    BY DEF Init, ScanOK
  <1>5. CountsOK
    BY DEF Init, CountsOK
  <1>6. PastOK
    BY DEF Init, PastOK
  <1> QED
    BY <1>1, <1>2, <1>3, <1>4, <1>5, <1>6 DEF TypeOK

\* What ends a title ends with nothing in hand.
LEMMA NoneInHandTypes ==
  ASSUME NoneInHand
  PROVE  /\ title' = NoTitle /\ wanted' = {} /\ left' = {} /\ tooOld' = {}
         /\ seeds' \in [Torrents -> Record]
         /\ per' \in PerTitle
  BY NewTitleType DEF NoneInHand, Record, NoRecord

\* What a step leaves alone stays well-typed.
LEMMA Frames ==
  ASSUME TypeOK
  PROVE  /\ UNCHANGED world => WorldOK'
         /\ UNCHANGED <<durable, staged>> => StoreOK'
         /\ UNCHANGED <<set, scan>> => ScanOK'
         /\ UNCHANGED <<pc, inHand>> => InHandOK'
         /\ UNCHANGED counts => CountsOK'
         /\ UNCHANGED past /\ (UNCHANGED upsets \/ Upset) => PastOK'
  <1>1. UNCHANGED world => WorldOK'
    BY DEF TypeOK, WorldOK, world
  <1>2. UNCHANGED <<durable, staged>> => StoreOK'
    BY DEF TypeOK, StoreOK
  <1>3. UNCHANGED <<set, scan>> => ScanOK'
    BY DEF TypeOK, ScanOK, scan
  <1>4. UNCHANGED <<pc, inHand>> => InHandOK'
    BY DEF TypeOK, InHandOK, inHand
  <1>5. UNCHANGED counts => CountsOK'
    BY DEF TypeOK, CountsOK, counts
  <1>6. UNCHANGED past /\ (UNCHANGED upsets \/ Upset) => PastOK'
    BY DEF TypeOK, PastOK, past, Upset
  <1> QED
    BY <1>1, <1>2, <1>3, <1>4, <1>5, <1>6

LEMMA StepTypes ==
  ASSUME TypeOK, [Next]_vars
  PROVE  TypeOK'
  <1> USE DEF TypeOK, WorldOK, StoreOK, ScanOK, InHandOK, CountsOK, PastOK,
              world, scan, inHand, counts, past
  <1>1. ASSUME NEW t \in Titles, NEW u \in Torrents, FilesLand(t, u)
        PROVE  TypeOK'
    BY <1>1 DEF FilesLand
  <1>2. ASSUME NEW u \in Torrents, Ages(u)
        PROVE  TypeOK'
    <2>1. durable.records[u] \in Record
      BY DEF Store
    <2>2. Aged(durable.records[u]) \in Record
      BY <2>1 DEF Aged, Record
    <2>3. StoreOK'
      BY <1>2, <2>2 DEF Ages, Store
    <2>4. WorldOK'
      BY <1>2 DEF Ages
    <2> QED
      BY <1>2, <2>3, <2>4, Frames DEF Ages
  <1>3. ASSUME NEW u \in Torrents, UserRemoves(u)
        PROVE  TypeOK'
    BY <1>3 DEF UserRemoves, Upset
  <1>4. ASSUME NEW items \in SUBSET Items, StartRun(items)
        PROVE  TypeOK'
    <2>1. staged' \in Store
      BY <1>4 DEF StartRun, Store, Record, Expire, NoRecord
    <2> QED
      BY <1>4, <2>1 DEF StartRun
  <1>5. ASSUME NEW i \in Items, NextItem(i)
        PROVE  TypeOK'
    BY <1>5 DEF NextItem
  <1>6. ASSUME NEW t \in Titles, SkipCached(t) \/ MissTitle(t)
        PROVE  TypeOK'
    <2>1. ScanOK'
      BY <1>6 DEF SkipCached, MissTitle
    <2>2. InHandOK'
      BY <1>6 DEF SkipCached, MissTitle
    <2> QED
      BY <1>6, <2>1, <2>2, Frames DEF SkipCached, MissTitle
  <1>7. ASSUME NEW t \in Titles, Plan(t)
        PROVE  TypeOK'
    <2>1. PICK dropped \in SUBSET (Flags(t) \cap Private),
               misread \in BOOLEAN, unread \in BOOLEAN, notice \in BOOLEAN :
            /\ wanted' = Flags(t) \ dropped
            /\ per' = [NewTitle EXCEPT !.private = IF notice THEN dropped ELSE {},
                                       !.misread = misread, !.unread = unread]
            /\ IF misread \/ unread THEN Upset ELSE UNCHANGED upsets
      BY <1>7 DEF Plan, PlanFrom
    <2>2. wanted' \subseteq Torrents
      BY <2>1 DEF Flags
    <2>3. per' \in PerTitle
      BY <2>1, NewTitleType DEF PerTitle
    <2>4. seeds' \in [Torrents -> Record]
      BY <1>7 DEF Plan, PlanFrom, Store, Record, NoRecord
    <2>5. upsets' \in 0..MaxUpsets
      BY <2>1 DEF Upset
    <2> QED
      BY <1>7, <2>2, <2>3, <2>4, <2>5 DEF Plan, PlanFrom
  <1>8. ASSUME NEW u \in Torrents, ScreenedOut(u)
        PROVE  TypeOK'
    BY <1>8 DEF ScreenedOut, Visits, AtUrl, PerTitle
  <1>9. ASSUME NEW u \in Torrents, HoldCapped(u)
        PROVE  TypeOK'
    <2>1. staged' \in Store
      BY <1>9, RecordOps, PutIsLocal DEF HoldCapped, Visits, AtUrl
    <2>2. InHandOK'
      BY <1>9 DEF HoldCapped, Visits, AtUrl, PerTitle
    <2>3. CountsOK'
      BY <1>9 DEF HoldCapped, Tallied
    <2> QED
      BY <1>9, <2>1, <2>2, <2>3, Frames DEF HoldCapped, Visits, AtUrl
  <1>10. ASSUME NEW u \in Torrents, HoldRaises(u)
         PROVE  TypeOK'
    BY <1>10, NoneInHandTypes DEF HoldRaises, Tallied, LeaveTitle, Upset
  <1>11. ASSUME NEW u \in Torrents, AddPresent(u)
         PROVE  TypeOK'
    <2>1. staged' \in Store
      BY <1>11, RecordOps, PutIsLocal DEF AddPresent, Adds, Visits, AtUrl
    <2> QED
      BY <1>11, <2>1 DEF AddPresent, Adds, Visits, AtUrl
  <1>12. ASSUME NEW u \in Torrents, AddNew(u)
         PROVE  TypeOK'
    <2>1. staged' \in Store
      BY <1>12, RecordOps, PutIsLocal DEF AddNew, Registers, Adds, Visits, AtUrl
    <2> QED
      BY <1>12, <2>1 DEF AddNew, InQbit, Adds, Visits, AtUrl, PerTitle
  <1>13. ASSUME NEW u \in Torrents, AddFails(u)
         PROVE  TypeOK'
    BY <1>13 DEF AddFails, Adds, Visits, AtUrl, Upset, PerTitle
  <1>14. ASSUME NEW u \in Torrents, AddUnanswered(u)
         PROVE  TypeOK'
    BY <1>14 DEF AddUnanswered, InQbit, Adds, Visits, AtUrl, Upset, PerTitle
  <1>15. ASSUME NEW u \in Torrents, AddRaises(u)
         PROVE  TypeOK'
    <2>1. staged' \in Store
      BY <1>15, RecordOps, PutIsLocal DEF AddRaises, Registers, AtUrl
    <2>2. WorldOK' /\ PastOK'
      BY <1>15 DEF AddRaises, InQbit, Upset
    <2>3. ScanOK'
      BY <1>15 DEF AddRaises, LeaveTitle
    <2>4. InHandOK'
      BY <1>15, NoneInHandTypes DEF AddRaises, LeaveTitle
    <2>5. CountsOK'
      BY <1>15 DEF AddRaises, InQbit
    <2> QED
      BY <1>15, <2>1, <2>2, <2>3, <2>4, <2>5 DEF AddRaises, InQbit, AtUrl, LeaveTitle, Upset
  <1>16. CASE Settle
    <2>1. title \in Titles
      BY <1>16 DEF Settle
    <2>2. staged.hashes[title] \subseteq Torrents /\ Lists[title] \subseteq Torrents
      BY <2>1 DEF Store
    <2>3. Cacheable \subseteq Torrents
      BY <2>2 DEF Cacheable, AllHashes
    <2>4. staged' \in Store
      <3>1. CASE ShouldCacheAsDone
        <4>1. staged' = [staged EXCEPT !.cached = @ \cup {title},
                                       !.hashes[title] = Cacheable]
          BY <1>16, <3>1 DEF Settle
        <4> QED
          BY <4>1, <2>1, <2>3, EntryIsLocal
      <3>2. CASE ~ShouldCacheAsDone
        BY <1>16, <3>2 DEF Settle
      <3> QED
        BY <3>1, <3>2
    <2>5. CountsOK'
      BY <1>16, <2>1 DEF Settle
    <2>6. ScanOK' /\ InHandOK'
      BY <1>16, NoneInHandTypes DEF Settle, LeaveTitle
    <2> QED
      BY <1>16, <2>4, <2>5, <2>6, Frames DEF Settle
  <1>17. CASE TitleRaises
    BY <1>17, NoneInHandTypes DEF TitleRaises, LeaveTitle, Upset
  <1>18. CASE ItemSave
    BY <1>18 DEF ItemSave
  <1>19. CASE Finalize
    <2>1. durable' \in Store
      <3>1. PICK ended \in SUBSET Torrents :
              durable' = [staged EXCEPT !.records =
                            [u \in Torrents |-> IF u \in ended THEN NoRecord ELSE @[u]]]
        BY <1>19 DEF Finalize
      <3> QED
        BY <3>1, NoRecordType DEF Store
    <2>2. ScanOK' /\ InHandOK'
      BY <1>19, NoneInHandTypes DEF Finalize, NoRun
    <2>3. CountsOK' /\ PastOK'
      BY <1>19 DEF Finalize, NoRun
    <2> QED
      BY <1>19, <2>1, <2>2, <2>3, Frames DEF Finalize
  <1>20. CASE Kill
    <2>1. ScanOK' /\ InHandOK'
      BY <1>20, NoneInHandTypes DEF Kill, NoRun
    <2>2. StoreOK' /\ CountsOK'
      BY <1>20 DEF Kill, NoRun
    <2> QED
      BY <1>20, <2>1, <2>2, Frames DEF Kill
  <1>21. CASE UNCHANGED vars
    BY <1>21, Frames DEF vars
  <1>22. CASE World
    BY <1>1, <1>2, <1>3, <1>22 DEF World
  <1>23. CASE Visit
    BY <1>8, <1>9, <1>10, <1>11, <1>12, <1>13, <1>14, <1>15, <1>23 DEF Visit
  <1>24. CASE FullRun \/ \E i \in Items : StartRun({i})
    BY <1>4, <1>24 DEF FullRun
  <1>25. CASE RunStep
    BY <1>5, <1>6, <1>7, <1>16, <1>17, <1>18, <1>19, <1>23, <1>25 DEF RunStep
  <1> QED
    BY <1>20, <1>21, <1>22, <1>24, <1>25 DEF Next

(* Type correctness of the whole state.                                      *)
THEOREM PipelineTypes == Spec => []TypeOK
  BY InitTypes, StepTypes, PTL DEF Spec

-----------------------------------------------------------------------------
(* The cap.                                                                  *)

(* What went into qBittorrent is counted or hidden, the count stops at the   *)
(* cap, and a hold is tallied before anything can raise.                     *)
CountInv ==
  /\ real = added + hidden
  /\ Cap # 0 => added <= Cap
  /\ per.capped => tally > 0
  /\ capped => tally > 0

LEMMA InitCounts == Init => CountInv
  BY DEF Init, CountInv, NewTitle

\* The counts of a run that starts from nothing.
LEMMA NoRunCounts ==
  ASSUME NoRun
  PROVE  CountInv'
  BY DEF NoRun, NoneInHand, NewTitle, CountInv

LEMMA StepCounts ==
  ASSUME TypeOK, CountInv, [Next]_vars
  PROVE  CountInv'
  <1> /\ added \in Nat /\ tally \in Nat /\ hidden \in Nat /\ real \in Nat
      /\ per \in PerTitle
    BY DEF TypeOK, CountsOK, InHandOK
  <1> USE DEF CountInv, world, scan, inHand, counts, past
  <1>1. CASE World
    BY <1>1 DEF World, FilesLand, Ages, UserRemoves
  <1>2. CASE FullRun \/ \E i \in Items : StartRun({i})
    BY <1>2 DEF FullRun, StartRun
  <1>3. CASE \E i \in Items : NextItem(i)
    BY <1>3 DEF NextItem
  <1>4. CASE \E t \in Titles : SkipCached(t) \/ MissTitle(t)
    BY <1>4 DEF SkipCached, MissTitle
  <1>5. ASSUME NEW t \in Titles, Plan(t)
        PROVE  CountInv'
    <2>1. per'.capped = FALSE
      BY <1>5, NewTitleType DEF Plan, PlanFrom, NewTitle
    <2> QED
      BY <1>5, <2>1 DEF Plan, PlanFrom
  <1>6. ASSUME NEW u \in Torrents, ScreenedOut(u) \/ AddFails(u)
        PROVE  CountInv'
    <2>1. per'.capped = per.capped
      BY <1>6 DEF ScreenedOut, AddFails, PerTitle
    <2> QED
      BY <1>6, <2>1 DEF ScreenedOut, AddFails
  <1>7. ASSUME NEW u \in Torrents, HoldCapped(u)
        PROVE  CountInv'
    <2>1. tally' > 0
      BY <1>7 DEF HoldCapped, Tallied
    <2> QED
      BY <1>7, <2>1 DEF HoldCapped, Tallied
  <1>8. ASSUME NEW u \in Torrents, HoldRaises(u)
        PROVE  CountInv'
    <2>1. tally' > 0
      BY <1>8 DEF HoldRaises, Tallied
    <2> QED
      BY <1>8, <2>1 DEF HoldRaises, Tallied
  <1>9. ASSUME NEW u \in Torrents, AddPresent(u)
        PROVE  CountInv'
    BY <1>9 DEF AddPresent
  <1>10. ASSUME NEW u \in Torrents, AddNew(u)
         PROVE  CountInv'
    <2>1. per'.capped = per.capped
      BY <1>10 DEF AddNew, PerTitle
    <2> QED
      BY <1>10, <2>1 DEF AddNew, InQbit, Adds, MayAdd, CapReached
  <1>11. ASSUME NEW u \in Torrents, AddUnanswered(u)
         PROVE  CountInv'
    <2>1. per'.capped = per.capped
      BY <1>11 DEF AddUnanswered, PerTitle
    <2> QED
      BY <1>11, <2>1 DEF AddUnanswered, InQbit
  <1>12. ASSUME NEW u \in Torrents, AddRaises(u)
         PROVE  CountInv'
    BY <1>12 DEF AddRaises, InQbit, LeaveTitle, NoneInHand, NewTitle
  <1>13. CASE Settle \/ TitleRaises \/ ItemSave
    BY <1>13 DEF Settle, TitleRaises, ItemSave, LeaveTitle, NoneInHand, NewTitle
  <1>14. CASE Finalize \/ Kill
    BY <1>14, NoRunCounts DEF Finalize, Kill
  <1>15. CASE UNCHANGED vars
    BY <1>15 DEF vars
  <1>16. CASE Visit
    BY <1>6, <1>7, <1>8, <1>9, <1>10, <1>11, <1>12, <1>16 DEF Visit
  <1>17. CASE RunStep
    BY <1>3, <1>4, <1>5, <1>13, <1>14, <1>16, <1>17 DEF RunStep
  <1> QED
    BY <1>1, <1>2, <1>14, <1>15, <1>17 DEF Next

(* A run puts no more torrents in qBittorrent than the cap says, but for     *)
(* those whose answer it never got: add_torrent counts across titles.        *)
THEOREM CapIsRespected == Spec => []CapRespected
  <1>1. TypeOK /\ CountInv => CapRespected
    BY DEF TypeOK, CountsOK, CountInv, CapRespected
  <1> QED
    BY <1>1, InitTypes, InitCounts, StepTypes, StepCounts, PTL DEF Spec

(* A run that held anything past the cap has tallied it: _hold_capped.       *)
THEOREM HoldsAreTallied == Spec => []HeldRunIsTallied
  <1>1. CountInv => HeldRunIsTallied
    BY DEF CountInv, HeldRunIsTallied
  <1> QED
    BY <1>1, InitTypes, InitCounts, StepTypes, StepCounts, PTL DEF Spec

-----------------------------------------------------------------------------
(* The add loop.                                                             *)

(* What the loop leaves of a url it has visited: a record with the title's   *)
(* claim if there is one, and a reason for every way not to have grabbed it. *)
Claimed(u) == title \in staged.records[u].claims

KeptOut(u) == per.capped \/ u \in per.failed \cup per.held

Outcome(u) ==
  /\ (Screened(u) /\ u \notin per.failed \cup set.videoless /\ Stored(staged.records[u]))
       => Claimed(u)
  /\ u \in Private \cup Unsupported \cup set.videoless \cup tooOld \/ Claimed(u) \/ KeptOut(u)
  /\ u \in Private \cup per.unsupported \cup ever \/ KeptOut(u)

(* While it runs the seeds of the urls ahead are the stored records, and the *)
(* plan's flags are in it but for private ones.                              *)
LoopInv ==
  pc = "urls" =>
    /\ \A u \in left : seeds[u] = staged.records[u]
    /\ \A u \in wanted \ left : Outcome(u)
    /\ Flags(title) \subseteq wanted \cup Private

\* Nothing is in qBittorrent, or among the cached hashes, that no run put there.
EverInv ==
  /\ \A u \in Torrents : qbit[u] # "absent" => u \in ever
  /\ \A t \in Titles : staged.hashes[t] \cup durable.hashes[t] \subseteq ever \cup Private

GrabInv == LoopInv /\ EverInv

LEMMA InitGrabs == Init => GrabInv
  BY DEF Init, GrabInv, LoopInv, EverInv

\* The outcome of a visited url stands while the loop goes on.
LEMMA OutcomeKept ==
  ASSUME NEW u \in Torrents, Outcome(u),
         title' = title, set' = set, staged'.records[u] = staged.records[u],
         per.failed \subseteq per'.failed, per.held \subseteq per'.held,
         per.unsupported \subseteq per'.unsupported, per.capped => per'.capped,
         tooOld \subseteq tooOld', ever \subseteq ever'
  PROVE  Outcome(u)'
  BY DEF Outcome, Claimed, KeptOut, Screened, Stored

\* A record that takes the title's claim.
LEMMA PutClaims ==
  ASSUME TypeOK, NEW u \in Torrents, title \in Titles, title' = title,
         PutRecord(u, WithClaim(seeds[u], title)) \/ PutRecord(u, Fresh(seeds[u], title))
  PROVE  /\ Claimed(u)'
         /\ \A v \in Torrents : v # u => staged'.records[v] = staged.records[v]
         /\ staged'.hashes = staged.hashes
  <1>1. staged \in Store /\ seeds[u] \in Record
    BY DEF TypeOK, StoreOK, InHandOK
  <1>2. WithClaim(seeds[u], title) \in Record /\ Fresh(seeds[u], title) \in Record
    BY <1>1, RecordOps
  <1>3. /\ title \in WithClaim(seeds[u], title).claims
        /\ title \in Fresh(seeds[u], title).claims
    BY <1>1, RecordOps
  <1> QED
    BY <1>1, <1>2, <1>3, PutIsLocal DEF Claimed

VisitOf(u) ==
  ScreenedOut(u) \/ HoldCapped(u) \/ AddPresent(u) \/ AddNew(u) \/ AddFails(u) \/ AddUnanswered(u)

\* What a visit moves, and what it only adds to.
LEMMA VisitFrame ==
  ASSUME TypeOK, NEW u \in Torrents, VisitOf(u)
  PROVE  /\ u \in left /\ left' = left \ {u}
         /\ pc = "urls" /\ title \in Titles
         /\ UNCHANGED <<pc, title, set, wanted, seeds, owned, durable>>
         /\ per.failed \subseteq per'.failed /\ per.held \subseteq per'.held
         /\ per.unsupported \subseteq per'.unsupported /\ (per.capped => per'.capped)
         /\ tooOld \subseteq tooOld' /\ ever \subseteq ever'
         /\ \A v \in Torrents : v # u => staged'.records[v] = staged.records[v]
         /\ staged'.hashes = staged.hashes
  <1> per \in PerTitle
    BY DEF TypeOK, InHandOK
  <1>1. /\ u \in left /\ left' = left \ {u} /\ pc = "urls" /\ title \in Titles
    BY DEF VisitOf, ScreenedOut, HoldCapped, AddPresent, AddNew, AddFails, AddUnanswered,
           Adds, Visits, AtUrl, First, TypeOK, InHandOK
  <1>2. UNCHANGED <<pc, title, set, wanted, seeds, owned, durable>>
    BY DEF VisitOf, ScreenedOut, HoldCapped, AddPresent, AddNew, AddFails, AddUnanswered,
           world, scan
  <1>3. CASE ScreenedOut(u) \/ AddFails(u) \/ AddUnanswered(u)
    BY <1>1, <1>2, <1>3 DEF ScreenedOut, AddFails, AddUnanswered, InQbit, PerTitle, past
  <1>4. CASE HoldCapped(u)
    <2>1. per'.capped /\ per'.failed = per.failed /\ per'.held = per.held
          /\ per'.unsupported = per.unsupported
      BY <1>4 DEF HoldCapped, PerTitle
    <2> QED
      BY <1>1, <1>2, <1>4, <2>1, PutClaims DEF HoldCapped, past
  <1>5. CASE AddPresent(u)
    BY <1>1, <1>2, <1>5, PutClaims DEF AddPresent, past
  <1>6. CASE AddNew(u)
    <2>1. per'.capped = per.capped /\ per'.failed = per.failed /\ per'.held = per.held
          /\ per'.unsupported = per.unsupported
      BY <1>6 DEF AddNew, PerTitle
    <2> QED
      BY <1>1, <1>2, <1>6, <2>1, PutClaims DEF AddNew, InQbit, Registers
  <1> QED
    BY <1>3, <1>4, <1>5, <1>6 DEF VisitOf

\* Each way through the loop body leaves the url it visits with an outcome.
LEMMA VisitOutcome ==
  ASSUME TypeOK, GrabInv, NEW u \in Torrents, VisitOf(u)
  PROVE  Outcome(u)'
  <1> per \in PerTitle /\ u \in left
    BY VisitFrame DEF TypeOK, InHandOK
  <1>1. seeds[u] = staged.records[u] /\ title \in Titles /\ title' = title /\ set' = set
    BY VisitFrame DEF GrabInv, LoopInv
  <1>2. CASE ScreenedOut(u)
    <2>1. CASE u \in Private \cup Unsupported
      BY <1>1, <1>2, <2>1 DEF ScreenedOut, Outcome, Screened, PerTitle
    <2>2. CASE u \notin Private \cup Unsupported
      <3>1. u \in set.holds[title] /\ u \in per'.held
        BY <1>2, <2>2 DEF ScreenedOut, PerTitle
      <3> QED
        BY <1>1, <3>1 DEF Outcome, Screened, KeptOut
    <2> QED
      BY <2>1, <2>2
  <1>3. CASE HoldCapped(u)
    <2>1. per'.capped
      BY <1>3 DEF HoldCapped, PerTitle
    <2>2. Accretes(u) => Claimed(u)'
      BY <1>1, <1>3, PutClaims DEF HoldCapped
    <2>3. ~Accretes(u) => u \in set.videoless \/ ~Stored(staged'.records[u])
      BY <1>1, <1>3 DEF HoldCapped, Accretes
    <2> QED
      BY <1>1, <2>1, <2>2, <2>3 DEF Outcome, KeptOut
  <1>4. CASE AddPresent(u)
    <2>1. u \in ever /\ ever' = ever
      BY <1>4 DEF AddPresent, GrabInv, EverInv, past
    <2>2. CASE u \in set.videoless
      BY <1>1, <2>1, <2>2 DEF Outcome
    <2>3. CASE qbit[u] = "old" /\ u \notin set.videoless /\ ~Accretes(u)
      <3>1. u \in tooOld' /\ ~Stored(staged'.records[u])
        BY <1>1, <1>4, <2>3 DEF AddPresent, Accretes
      <3> QED
        BY <1>1, <2>1, <3>1 DEF Outcome
    <2>4. CASE u \notin set.videoless /\ ~(qbit[u] = "old" /\ ~Accretes(u))
      <3>1. Claimed(u)'
        BY <1>1, <1>4, <2>4, PutClaims DEF AddPresent
      <3> QED
        BY <2>1, <3>1 DEF Outcome
    <2> QED
      BY <2>2, <2>3, <2>4
  <1>5. CASE AddNew(u)
    <2>1. u \in ever'
      BY <1>5 DEF AddNew, InQbit
    <2>2. u \in set.videoless \/ Claimed(u)'
      BY <1>1, <1>5, PutClaims DEF AddNew, Registers
    <2> QED
      BY <1>1, <2>1, <2>2 DEF Outcome
  <1>6. CASE AddFails(u) \/ AddUnanswered(u)
    <2>1. u \in per'.failed
      BY <1>6 DEF AddFails, AddUnanswered, PerTitle
    <2> QED
      BY <2>1 DEF Outcome, KeptOut
  <1> QED
    BY <1>2, <1>3, <1>4, <1>5, <1>6 DEF VisitOf

LEMMA VisitGrabs ==
  ASSUME TypeOK, GrabInv, NEW u \in Torrents, VisitOf(u)
  PROVE  GrabInv'
  <1>1. left \subseteq Torrents /\ wanted \subseteq Torrents
    BY DEF TypeOK, InHandOK
  <1>2. \A v \in left' : seeds'[v] = staged'.records[v]
    BY <1>1, VisitFrame DEF GrabInv, LoopInv
  <1>3. ASSUME NEW v \in wanted' \ left'
        PROVE  Outcome(v)'
    <2>1. CASE v = u
      BY <2>1, VisitOutcome
    <2>2. CASE v # u
      <3>1. v \in Torrents /\ v \in wanted \ left
        BY <1>1, <1>3, <2>2, VisitFrame
      <3>2. Outcome(v)
        BY <3>1, VisitFrame DEF GrabInv, LoopInv
      <3> QED
        BY <2>2, <3>1, <3>2, VisitFrame, OutcomeKept
    <2> QED
      BY <2>1, <2>2
  <1>4. Flags(title)' \subseteq wanted' \cup Private
    BY VisitFrame DEF GrabInv, LoopInv, Flags
  <1>5. \A v \in Torrents : qbit'[v] # "absent" => v \in ever'
    BY DEF VisitOf, ScreenedOut, HoldCapped, AddPresent, AddNew, AddFails, AddUnanswered,
           InQbit, world, past, GrabInv, EverInv, TypeOK, WorldOK
  <1>6. \A t \in Titles : staged'.hashes[t] \cup durable'.hashes[t] \subseteq ever' \cup Private
    BY VisitFrame DEF GrabInv, EverInv
  <1> QED
    BY <1>2, <1>3, <1>4, <1>5, <1>6 DEF GrabInv, LoopInv, EverInv

\* What a title cached as done stores was grabbed, or is private.
LEMMA CacheableWasGrabbed ==
  ASSUME TypeOK, GrabInv, Settle, ShouldCacheAsDone
  PROVE  Cacheable \subseteq ever \cup Private
  <1>1. /\ title \in Titles /\ Lists[title] \subseteq Torrents /\ wanted \subseteq Torrents
        /\ staged.hashes[title] \subseteq ever \cup Private
    BY DEF Settle, TypeOK, InHandOK, GrabInv, EverInv
  <1>2. \A u \in wanted : u \in Private \cup per.unsupported \cup ever
    BY DEF Settle, ShouldCacheAsDone, GrabInv, LoopInv, Outcome, KeptOut
  <1>3. CASE set.byHash
    <2>1. \A u \in Lists[title] : u \in staged.hashes[title] \/ u \in wanted \cup Private
      BY <1>3 DEF Settle, GrabInv, LoopInv, Flags
    <2> QED
      BY <1>1, <1>2, <1>3, <2>1 DEF Cacheable, AllHashes
  <1>4. CASE ~set.byHash
    BY <1>1, <1>2, <1>4 DEF Cacheable, AllHashes
  <1> QED
    BY <1>3, <1>4

LEMMA StepGrabs ==
  ASSUME TypeOK, GrabInv, [Next]_vars
  PROVE  GrabInv'
  <1> USE DEF GrabInv, EverInv, LoopInv, world, scan, inHand, counts, past
  <1> staged \in Store /\ durable \in Store
    BY DEF TypeOK, StoreOK
  <1>1. ASSUME NEW t \in Titles, NEW u \in Torrents, FilesLand(t, u)
        PROVE  GrabInv'
    BY <1>1 DEF FilesLand
  <1>2. ASSUME NEW u \in Torrents, Ages(u)
        PROVE  GrabInv'
    <2>1. durable'.hashes = durable.hashes
      BY <1>2 DEF Ages, Store
    <2> QED
      BY <1>2, <2>1 DEF Ages, TypeOK, WorldOK
  <1>3. ASSUME NEW u \in Torrents, UserRemoves(u)
        PROVE  GrabInv'
    <2>1. EverInv'
      BY <1>3 DEF UserRemoves, TypeOK, WorldOK
    <2>2. LoopInv'
      BY <1>3 DEF UserRemoves, Outcome, Claimed, KeptOut, Screened, Flags
    <2> QED
      BY <2>1, <2>2
  <1>4. ASSUME NEW items, StartRun(items)
        PROVE  GrabInv'
    <2>1. staged'.hashes = staged.hashes
      BY <1>4 DEF StartRun, Store
    <2> QED
      BY <1>4, <2>1 DEF StartRun
  <1>5. CASE \E i \in Items : NextItem(i)
    BY <1>5 DEF NextItem
  <1>6. CASE \E t \in Titles : SkipCached(t) \/ MissTitle(t)
    BY <1>6 DEF SkipCached, MissTitle
  <1>7. ASSUME NEW t \in Titles, Plan(t)
        PROVE  GrabInv'
    <2>1. left' = wanted' /\ staged' = staged /\ title' = t
      BY <1>7 DEF Plan, PlanFrom
    <2>2. \A u \in Torrents : u \in wanted' => seeds'[u] = staged.records[u]
      BY <1>7 DEF Plan, PlanFrom
    <2>3. wanted' \subseteq Torrents /\ Flags(t) \subseteq wanted' \cup Private
      BY <1>7 DEF Plan, PlanFrom, Flags
    <2>4. Flags(title)' = Flags(t)
      BY <1>7 DEF Plan, PlanFrom, Flags
    <2>5. EverInv'
      BY <1>7 DEF Plan, PlanFrom
    <2> QED
      BY <2>1, <2>2, <2>3, <2>4, <2>5
  <1>8. ASSUME NEW u \in Torrents, VisitOf(u)
        PROVE  GrabInv'
    BY <1>8, VisitGrabs
  <1>9. ASSUME NEW u \in Torrents, HoldRaises(u)
        PROVE  GrabInv'
    BY <1>9 DEF HoldRaises, LeaveTitle
  <1>10. ASSUME NEW u \in Torrents, AddRaises(u)
         PROVE  GrabInv'
    <2>1. pc = "urls"
      BY <1>10 DEF AddRaises, AtUrl
    <2>2. seeds[u] \in Record /\ title \in Titles
      BY <2>1 DEF TypeOK, InHandOK
    <2>3. Fresh(seeds[u], title) \in Record
      BY <2>2, RecordOps
    <2>4. staged'.hashes = staged.hashes
      BY <1>10, <2>3, PutIsLocal DEF AddRaises, Registers
    <2> QED
      BY <1>10, <2>4 DEF AddRaises, LeaveTitle, InQbit, TypeOK, WorldOK
  <1>11. CASE Settle
    <2>1. CASE ShouldCacheAsDone
      <3>1. staged' = [staged EXCEPT !.cached = @ \cup {title},
                                     !.hashes[title] = Cacheable]
        BY <1>11, <2>1 DEF Settle
      <3>2. title \in Titles /\ staged.hashes[title] \subseteq Torrents
            /\ Lists[title] \subseteq Torrents /\ wanted \subseteq Torrents
        BY <1>11 DEF Settle, TypeOK, InHandOK, Store
      <3>3. Cacheable \in SUBSET Torrents
        BY <3>2 DEF Cacheable, AllHashes
      <3>4. staged'.hashes = [staged.hashes EXCEPT ![title] = Cacheable]
        BY <3>1, <3>2, <3>3, EntryIsLocal
      <3>5. staged.hashes \in [Titles -> SUBSET Torrents]
        BY DEF Store
      <3>6. Cacheable \subseteq ever \cup Private
        BY <1>11, <2>1, CacheableWasGrabbed
      <3>7. \A t \in Titles : staged'.hashes[t] \subseteq ever \cup Private
        BY <3>4, <3>5, <3>6
      <3> QED
        BY <1>11, <3>7 DEF Settle, LeaveTitle
    <2>2. CASE ~ShouldCacheAsDone
      BY <1>11, <2>2 DEF Settle, LeaveTitle
    <2> QED
      BY <2>1, <2>2
  <1>12. CASE TitleRaises \/ ItemSave
    BY <1>12 DEF TitleRaises, ItemSave, LeaveTitle
  <1>13. CASE Finalize
    <2>1. durable'.hashes = staged.hashes
      BY <1>13 DEF Finalize, Store
    <2> QED
      BY <1>13, <2>1 DEF Finalize, NoRun
  <1>14. CASE Kill
    BY <1>14 DEF Kill, NoRun
  <1>15. CASE UNCHANGED vars
    BY <1>15 DEF vars, Outcome, Claimed, KeptOut, Screened, Flags
  <1>16. CASE World
    BY <1>1, <1>2, <1>3, <1>16 DEF World
  <1>17. CASE Visit
    BY <1>8, <1>9, <1>10, <1>17 DEF Visit, VisitOf
  <1>18. CASE RunStep
    BY <1>5, <1>6, <1>7, <1>11, <1>12, <1>13, <1>17, <1>18 DEF RunStep
  <1> QED
    BY <1>4, <1>14, <1>15, <1>16, <1>18 DEF Next, FullRun

(* Once the loop is past a url, the record its torrent has carries the       *)
(* title's claim, held by the cap or not: _hold_capped.                      *)
THEOREM ResidentsKeepClaims == Spec => []ResidentKeepsClaim
  <1>1. GrabInv => ResidentKeepsClaim
    BY DEF GrabInv, LoopInv, Outcome, Claimed, ResidentKeepsClaim
  <1> QED
    BY <1>1, InitTypes, InitGrabs, StepTypes, StepGrabs, PTL DEF Spec

(* Filtering by hash never hides a release no run has grabbed.               *)
THEOREM HashesWereGrabbed == Spec => []HashedWasGrabbed
  <1>1. GrabInv => HashedWasGrabbed
    BY DEF GrabInv, EverInv, HashedWasGrabbed
  <1> QED
    BY <1>1, InitTypes, InitGrabs, StepTypes, StepGrabs, PTL DEF Spec

(* What a title cached as done leaves behind: each url the pipeline may grab *)
(* has a record with its claim, unless it was warned of: _should_cache_as_done. *)
THEOREM DoneTitlesAreTracked == Spec => DoneIsTracked
  <1>1. ASSUME TypeOK, GrabInv, [Next]_vars
        PROVE  [\A t \in done' \ done : \A u \in wanted :
                  \/ u \in Private \cup Unsupported
                  \/ t \in staged'.records[u].claims
                  \/ u \in set.videoless \cup tooOld]_vars
    <2> SUFFICES ASSUME Next, NEW t \in done' \ done, NEW u \in wanted
                 PROVE  \/ u \in Private \cup Unsupported
                        \/ t \in staged'.records[u].claims
                        \/ u \in set.videoless \cup tooOld
      BY <1>1
    <2>1. Settle
      <3>1. CASE World
        BY <3>1 DEF World, FilesLand, Ages, UserRemoves, counts
      <3>2. CASE Visit
        BY <3>2 DEF Visit, ScreenedOut, HoldCapped, HoldRaises, AddPresent, AddNew, AddFails,
                    AddUnanswered, AddRaises, Tallied, counts
      <3>3. CASE RunStep /\ ~Settle
        BY <3>2, <3>3 DEF RunStep, NextItem, SkipCached, MissTitle, Plan, PlanFrom,
                          TitleRaises, ItemSave, Finalize, NoRun, counts
      <3> QED
        BY <3>1, <3>3 DEF Next, FullRun, StartRun, Kill, NoRun, counts
    <2>2. ShouldCacheAsDone /\ t = title /\ left = {} /\ pc = "urls"
      BY <2>1 DEF Settle
    <2>3. staged' = [staged EXCEPT !.cached = @ \cup {title}, !.hashes[title] = Cacheable]
      BY <2>1, <2>2 DEF Settle
    <2>4. staged'.records = staged.records
      BY <2>3 DEF TypeOK, StoreOK, Store
    <2>5. Outcome(u) /\ ~KeptOut(u)
      BY <1>1, <2>2 DEF GrabInv, LoopInv, ShouldCacheAsDone, KeptOut
    <2> QED
      BY <2>2, <2>4, <2>5 DEF Outcome, Claimed
  <1> QED
    BY <1>1, InitTypes, InitGrabs, StepTypes, StepGrabs, PTL DEF Spec, DoneIsTracked

(* The seed a title saves a torrent's record from was read before its loop,  *)
(* and still is the stored one when the url's turn comes: no claim is lost.  *)
THEOREM ClaimsOnlyGrow == Spec => ClaimsAccumulate
  <1>1. ASSUME TypeOK, GrabInv, [Next]_vars
        PROVE  [(pc \in {"ids", "urls"} /\ pc' # "idle") =>
                  \A u \in Torrents :
                    staged.records[u].claims \subseteq staged'.records[u].claims]_vars
    <2> SUFFICES ASSUME Next, pc \in {"ids", "urls"}, pc' # "idle", NEW u \in Torrents
                 PROVE  staged.records[u].claims \subseteq staged'.records[u].claims
      BY <1>1
    <2> staged \in Store /\ seeds \in [Torrents -> Record]
      BY <1>1 DEF TypeOK, StoreOK, InHandOK
    <2> USE DEF world, scan, inHand, counts, past
    <2>1. ASSUME NEW v \in Torrents, pc = "urls", title \in Titles, v \in left,
                 \/ PutRecord(v, WithClaim(seeds[v], title))
                 \/ PutRecord(v, Fresh(seeds[v], title))
          PROVE  staged.records[u].claims \subseteq staged'.records[u].claims
      <3>1. seeds[v] = staged.records[v] /\ seeds[v] \in Record
        BY <1>1, <2>1 DEF GrabInv, LoopInv
      <3>2. /\ WithClaim(seeds[v], title) \in Record /\ Fresh(seeds[v], title) \in Record
            /\ WithClaim(seeds[v], title).claims = seeds[v].claims \cup {title}
            /\ Fresh(seeds[v], title).claims = seeds[v].claims \cup {title}
        BY <2>1, <3>1, RecordOps
      <3>3. CASE v = u
        BY <2>1, <3>1, <3>2, <3>3, PutIsLocal
      <3>4. CASE v # u
        BY <2>1, <3>2, <3>4, PutIsLocal
      <3> QED
        BY <3>3, <3>4
    <2>2. ASSUME NEW v \in Torrents,
                 ScreenedOut(v) \/ HoldCapped(v) \/ HoldRaises(v) \/ AddPresent(v) \/ AddNew(v)
                 \/ AddFails(v) \/ AddUnanswered(v) \/ AddRaises(v)
          PROVE  staged.records[u].claims \subseteq staged'.records[u].claims
      <3>1. pc = "urls" /\ v \in left
        BY <2>2 DEF ScreenedOut, HoldCapped, HoldRaises, AddPresent, AddNew, AddFails,
                    AddUnanswered, AddRaises, Adds, Visits, AtUrl, First
      <3>2. title \in Titles
        BY <1>1, <3>1 DEF TypeOK, InHandOK
      <3>3. \/ staged' = staged
            \/ PutRecord(v, WithClaim(seeds[v], title))
            \/ PutRecord(v, Fresh(seeds[v], title))
        BY <2>2 DEF ScreenedOut, HoldCapped, HoldRaises, AddPresent, AddNew, AddFails,
                    AddUnanswered, AddRaises, Registers
      <3> QED
        BY <2>1, <3>1, <3>2, <3>3
    <2>3. CASE Settle
      <3>1. staged'.records = staged.records
        BY <2>3 DEF Settle, Store
      <3> QED
        BY <3>1
    <2>4. CASE World
      BY <2>4 DEF World, FilesLand, Ages, UserRemoves
    <2>5. CASE Visit
      BY <2>2, <2>5 DEF Visit
    <2>6. CASE RunStep
      BY <2>3, <2>5, <2>6 DEF RunStep, NextItem, SkipCached, MissTitle, Plan, PlanFrom,
                              TitleRaises, ItemSave, Finalize
    <2> QED
      BY <2>4, <2>6 DEF Next, FullRun, StartRun, Kill, NoRun
  <1> QED
    BY <1>1, InitTypes, InitGrabs, StepTypes, StepGrabs, PTL DEF Spec, ClaimsAccumulate

(* A title that is not cached as done is accounted for: the rows of          *)
(* _classify_needs_action cover every veto of _should_cache_as_done but the  *)
(* cap's, which is tallied, and the missing orders'.                         *)
THEOREM NoTitleIsSilent == Spec => NoSilentTitle
  <1>1. ASSUME TypeOK, CountInv, [Next]_vars
        PROVE  [(pc = "urls" /\ left = {} /\ pc' = "ids" /\ upsets' = upsets
                   /\ title \notin done') =>
                  title \in needs' \/ (per.capped /\ tally' > 0) \/ per.unread]_vars
    <2> SUFFICES ASSUME Next, pc = "urls", left = {}, pc' = "ids", upsets' = upsets,
                        title \notin done'
                 PROVE  title \in needs' \/ (per.capped /\ tally' > 0) \/ per.unread
      BY <1>1
    <2> per \in PerTitle /\ upsets \in Nat
      BY <1>1 DEF TypeOK, InHandOK, PastOK
    <2>1. Settle
      <3>1. ~World
        BY DEF World, FilesLand, Ages, UserRemoves, scan
      <3>2. ~Visit
        BY DEF Visit, ScreenedOut, HoldCapped, HoldRaises, AddPresent, AddNew, AddFails,
               AddUnanswered, AddRaises, Adds, Visits, AtUrl, First
      <3>3. ~TitleRaises /\ ~Kill
        BY DEF TitleRaises, Kill, Upset
      <3> QED
        BY <3>1, <3>2, <3>3 DEF Next, FullRun, StartRun, RunStep, NextItem, SkipCached,
                                MissTitle, Plan, PlanFrom, ItemSave, Finalize
    <2>2. ~ShouldCacheAsDone
      BY <2>1 DEF Settle
    <2>3. NeedsAction => title \in needs'
      BY <2>1, <2>2 DEF Settle
    <2>4. tally' = tally
      BY <2>1 DEF Settle
    <2> QED
      BY <1>1, <2>2, <2>3, <2>4 DEF ShouldCacheAsDone, NeedsAction, CountInv, PerTitle
  <1> QED
    BY <1>1, InitTypes, InitCounts, StepTypes, StepCounts, PTL DEF Spec, NoSilentTitle


(* The cap, its tally and the stored hashes, for every cap and any upsets.   *)
THEOREM NothingIsHidden == Spec => []NothingHidden
  BY CapIsRespected, HoldsAreTallied, HashesWereGrabbed, PTL DEF NothingHidden

(* A torrent's claims, for any titles that share it.                         *)
THEOREM ClaimsAreKept == Spec => ClaimsLast
  BY ResidentsKeepClaims, DoneTitlesAreTracked, ClaimsOnlyGrow, PTL DEF ClaimsLast
=============================================================================
