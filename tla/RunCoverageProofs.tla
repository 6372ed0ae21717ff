------------------------- MODULE RunCoverageProofs -------------------------
(***************************************************************************)
(* Nothing is written off, for any titles, window, number of edits, file   *)
(* changes, cut-short runs and kills: the checkpoint never passes a change *)
(* of a title whose stored verdict is older, and the store never vouches   *)
(* for settings a stored verdict was not reached under.                    *)
(***************************************************************************)
EXTENDS RunCoverage, SequenceTheorems, WellFoundedInduction, TLAPS

-----------------------------------------------------------------------------
(* The history.                                                              *)

\* Records come in the order of their days.
InOrder(h, today) ==
  /\ h \in Seq([item : Titles \cup {Other}, day : Nat]) /\ today \in Nat
  /\ \A i \in 1..Len(h) : h[i].day <= today
  /\ \A i, j \in 1..Len(h) : i <= j => h[i].day <= h[j].day

\* A checkpoint is a record of the history.
AtRecord(cursor, h) == cursor.id \in 1..Len(h) /\ cursor.day = h[cursor.id].day

\* h was g once.
Extends(h, g) == Len(g) <= Len(h) /\ \A i \in 1..Len(g) : h[i] = g[i]

\* The changes of a title up to a record have been seen.
SeenUpTo(seen, h, t, n) == \A i \in 1..n : h[i].item = t => i <= seen

LEMMA LongerIsSeen ==
  ASSUME NEW h, NEW g, Len(g) \in Nat, Extends(h, g),
         NEW t, NEW seen, NEW n \in 1..Len(g), SeenUpTo(seen, g, t, n)
  PROVE  SeenUpTo(seen, h, t, n)
  BY DEF Extends, SeenUpTo

LEMMA LongerHasRecord ==
  ASSUME NEW h, NEW g, Len(g) \in Nat, Len(h) \in Nat, Extends(h, g), NEW cursor, AtRecord(cursor, g)
  PROVE  AtRecord(cursor, h)
  BY DEF Extends, AtRecord

LEMMA SeenAtStart == InOrder(history, day) => Extends(history, history) /\ Len(history) \in Nat
  BY DEF InOrder, Extends

\* The world only adds records, of its own day.
LEMMA WorldKeepsOrder ==
  ASSUME InOrder(history, day), World
  PROVE  InOrder(history', day') /\ Extends(history', history) /\ Len(history') \in Nat
<1> DEFINE Records == [item : Titles \cup {Other}, day : Nat]
<1>1. /\ history \in Seq(Records) /\ day \in Nat /\ Len(history) \in Nat
      /\ \A i \in 1..Len(history) : history[i].day \in Nat /\ history[i].day <= day
  <2>1. history \in Seq(Records) /\ day \in Nat /\ Len(history) \in Nat
    BY DEF InOrder
  <2>2. \A i \in 1..Len(history) : history[i] \in Records
    BY <2>1, ElementOfSeq
  <2>3. \A i \in 1..Len(history) : history[i].day \in Nat
    BY <2>2
  <2>4. \A i \in 1..Len(history) : history[i].day <= day
    BY DEF InOrder
  <2> QED
    BY <2>1, <2>3, <2>4
<1>2. CASE HistoryGrows
  <2>1. PICK t \in Titles \cup {Other} : history' = Append(history, [item |-> t, day |-> day])
    BY <1>2 DEF HistoryGrows
  <2> DEFINE new == [item |-> t, day |-> day]
  <2>2. day' = day /\ new \in Records /\ new.day = day
    BY <1>1, <1>2 DEF HistoryGrows
  <2> HIDE DEF new, Records
  <2>3. /\ history' \in Seq(Records)
        /\ Len(history') = Len(history) + 1
        /\ \A i \in 1..Len(history) : history'[i] = history[i]
        /\ history'[Len(history) + 1] = new
    BY <1>1, <2>1, <2>2, AppendProperties DEF new
  <2>4. \A i \in 1..Len(history') :
          \/ i \in 1..Len(history) /\ history'[i] = history[i]
          \/ i = Len(history) + 1 /\ history'[i] = new
    BY <1>1, <2>3
  <2>5. \A i, j \in 1..Len(history) : i <= j => history[i].day <= history[j].day
    BY DEF InOrder
  <2>6. \A i \in 1..Len(history') : history'[i].day <= day'
    BY <1>1, <2>2, <2>4
  <2>7. \A i, j \in 1..Len(history') : i <= j => history'[i].day <= history'[j].day
    BY <1>1, <2>2, <2>3, <2>4, <2>5
  <2>8. Extends(history', history)
    BY <1>1, <2>3 DEF Extends
  <2> QED
    BY <1>1, <2>2, <2>3, <2>6, <2>7, <2>8 DEF InOrder, Records
<1>3. CASE DayPasses
  <2>1. day' = day + 1 /\ history' = history
    BY <1>3 DEF DayPasses
  <2> QED
    BY <1>1, <2>1 DEF InOrder, Extends
<1>4. CASE UNCHANGED <<history, day>>
  BY <1>4, SeenAtStart DEF InOrder
<1> QED
  BY <1>2, <1>3, <1>4 DEF World, EditSettings, SeaDexUpdates, ToggleMonitored

-----------------------------------------------------------------------------
(* The store.  A row is sound, for a checkpoint at record `n` and a vouched    *)
(* digest, if it may not be skipped, or has seen the changes up to there and   *)
(* was judged under the settings vouched for, if they are still those on disk. *)

SoundRow(row, h, t, current, n, vouchedFor, set) ==
  row.updated = current /\ row.owed = "no" =>
    SeenUpTo(row.seen, h, t, n) /\ (vouchedFor = set => row.under = set)

SoundStore(S, h, upd, set) ==
  /\ S \in Store
  /\ S.vouched \in Nat /\ S.vouched <= set /\ set \in Nat
  /\ AtRecord(S.cursor, h)
  /\ upd \in [Titles -> Nat]
  /\ \A t \in Titles :
       /\ S.rows[t].updated <= upd[t]
       /\ SoundRow(S.rows[t], h, t, upd[t], S.cursor.id, S.vouched, set)

LEMMA SoundIsNothingWrittenOff ==
  ASSUME InOrder(history, day), SoundStore(durable, history, updated, settings)
  PROVE  NothingWrittenOff
<1>1. ASSUME NEW t \in Titles, Trusted(t), ~Owed(t)
      PROVE  /\ SeenUpTo(durable.rows[t].seen, history, t, durable.cursor.id)
             /\ durable.vouched = settings => durable.rows[t].under = settings
  BY <1>1 DEF SoundStore, SoundRow, Trusted, Owed
<1>2. NoChangeSwallowed
  BY <1>1 DEF NoChangeSwallowed, Changes, SeenUpTo, InOrder, SoundStore, AtRecord
<1>3. VerdictsMatchSettings
  BY <1>1 DEF VerdictsMatchSettings
<1> QED
  BY <1>2, <1>3 DEF NothingWrittenOff

\* The digest on disk, the updates and the history only move on.
LEMMA WorldMovesOn ==
  ASSUME InOrder(history, day), World, settings \in Nat, updated \in [Titles -> Nat]
  PROVE  /\ settings' \in Nat /\ (settings' = settings \/ settings' > settings)
         /\ updated' \in [Titles -> Nat]
         /\ \A t \in Titles : updated'[t] = updated[t] \/ updated'[t] > updated[t]
  BY DEF World, EditSettings, HistoryGrows, DayPasses, SeaDexUpdates, ToggleMonitored

LEMMA WorldKeepsRow ==
  ASSUME InOrder(history, day), World, settings \in Nat, updated \in [Titles -> Nat],
         NEW t \in Titles, NEW row, row.updated \in Nat, row.updated <= updated[t],
         NEW n \in 1..Len(history), NEW v \in Nat, v <= settings,
         SoundRow(row, history, t, updated[t], n, v, settings)
  PROVE  /\ row.updated <= updated'[t]
         /\ SoundRow(row, history', t, updated'[t], n, v, settings')
<1>1. /\ row.updated <= updated'[t]
      /\ row.updated = updated'[t] => row.updated = updated[t]
      /\ v = settings' => settings' = settings
  BY WorldMovesOn
<1>2. SeenUpTo(row.seen, history, t, n) => SeenUpTo(row.seen, history', t, n)
  BY WorldKeepsOrder, SeenAtStart, LongerIsSeen
<1> QED
  BY <1>1, <1>2 DEF SoundRow

LEMMA WorldKeepsStore ==
  ASSUME NEW S, InOrder(history, day), World, SoundStore(S, history, updated, settings)
  PROVE  SoundStore(S, history', updated', settings')
<1>1. /\ S.cursor.id \in 1..Len(history) /\ S.vouched \in Nat /\ S.vouched <= settings
      /\ settings \in Nat /\ updated \in [Titles -> Nat]
  BY DEF SoundStore, AtRecord
<1>2. AtRecord(S.cursor, history')
  BY WorldKeepsOrder, SeenAtStart, LongerHasRecord DEF SoundStore
<1>3. S.vouched <= settings'
  BY <1>1, WorldMovesOn
<1>4. ASSUME NEW t \in Titles
      PROVE  /\ S.rows[t].updated <= updated'[t]
             /\ SoundRow(S.rows[t], history', t, updated'[t], S.cursor.id, S.vouched, settings')
  <2>1. /\ S.rows[t].updated \in Nat /\ S.rows[t].updated <= updated[t]
        /\ SoundRow(S.rows[t], history, t, updated[t], S.cursor.id, S.vouched, settings)
    BY DEF SoundStore, Store, Row
  <2> QED
    BY <1>1, <2>1, WorldKeepsRow
<1> QED
  BY <1>1, <1>2, <1>3, <1>4, WorldMovesOn DEF SoundStore

-----------------------------------------------------------------------------
(* The run.                                                                  *)

\* The record the checkpoint moves to if the pass turns out a full one.
Reach == IF stash = None THEN staged.cursor.id ELSE stash.id

\* No change of the title since the checkpoint.
Quiet(t) == SeenUpTo(staged.cursor.id, history, t, Reach)

\* The title may be written off with this run's checkpoint and settings.
Judged(t) == SoundRow(staged.rows[t], history, t, updated[t], Reach, config, settings)

Running == pc \in {"scan", "items", "save"}

RunTypes ==
  /\ stash \in [id : Nat, day : Nat] \cup {None} /\ todo \subseteq Titles
  /\ stash # None => AtRecord(stash, history)
  /\ Running => config \in Nat /\ config <= settings

\* A run starts with nothing in its hands, and a full one with every title to do.
StartsClean ==
  /\ pc \in {"idle", "scan"} => stash = None /\ ~capped /\ ~outage
  /\ pc = "scan" /\ single = NoItem => todo = Titles

\* The settings of the run are no older than the vouched ones, and the same if it may skip.
Vouching == Running => staged.vouched <= config /\ (~stale => staged.vouched = config)

\* What is yet to do and not dirty is quiet; of a full pass, what is done is judged.
PassSound ==
  pc \in {"items", "save"} =>
    /\ \A t \in todo \ dirty : Quiet(t)
    /\ FullPass => \A t \in Titles \ todo : Judged(t)

CoverageInv ==
  /\ InOrder(history, day)
  /\ SoundStore(durable, history, updated, settings)
  /\ SoundStore(staged, history, updated, settings)
  /\ RunTypes /\ StartsClean /\ Vouching /\ PassSound

LEMMA InitSound == Init => CoverageInv
<1> SUFFICES ASSUME Init PROVE CoverageInv
  OBVIOUS
<1>1. InOrder(history, day)
  BY DEF Init, InOrder
<1>2. FirstPass \in Store /\ FirstPass.vouched = 0 /\ FirstPass.cursor = [id |-> 1, day |-> 0]
      /\ \A t \in Titles : FirstPass.rows[t].updated = 1 /\ FirstPass.rows[t].seen = 1
                           /\ FirstPass.rows[t].under = 0
  BY DEF FirstPass, Store, Row, NoRow, Owings
<1>3. SoundStore(FirstPass, history, updated, settings)
  BY <1>2 DEF Init, SoundStore, SoundRow, SeenUpTo, AtRecord
<1> QED
  BY <1>1, <1>3 DEF Init, CoverageInv, RunTypes, StartsClean, Vouching, PassSound, Running

-----------------------------------------------------------------------------
(* Every step.                                                               *)

LEMMA WorldSound ==
  ASSUME CoverageInv, World
  PROVE  CoverageInv'
<1>1. UNCHANGED <<durable, staged, pc, run>>
  BY DEF World
<1>2. /\ InOrder(history, day) /\ Len(history) \in Nat /\ Len(history') \in Nat
      /\ InOrder(history', day') /\ Extends(history', history)
  BY WorldKeepsOrder, SeenAtStart DEF CoverageInv
<1>3. /\ SoundStore(durable, history', updated', settings')
      /\ SoundStore(staged, history', updated', settings')
  BY WorldKeepsStore DEF CoverageInv
<1>4. settings \in Nat /\ updated \in [Titles -> Nat] /\ staged.cursor.id \in 1..Len(history)
      /\ \A t \in Titles : staged.rows[t].updated \in Nat /\ staged.rows[t].updated <= updated[t]
  BY DEF CoverageInv, SoundStore, AtRecord, Store, Row
<1>5. settings' \in Nat /\ (settings' = settings \/ settings' > settings)
  BY <1>2, <1>4, WorldMovesOn
<1>6. RunTypes'
  <2>1. stash # None => AtRecord(stash, history')
    BY <1>2, LongerHasRecord DEF CoverageInv, RunTypes
  <2>2. Running => config \in Nat /\ config <= settings'
    BY <1>4, <1>5 DEF CoverageInv, RunTypes
  <2> QED
    BY <1>1, <2>1, <2>2 DEF CoverageInv, RunTypes, Running, run
<1>7. Reach \in 1..Len(history) /\ Reach' = Reach
  BY <1>1, <1>4 DEF Reach, run, CoverageInv, RunTypes, AtRecord
<1>8. PassSound'
  <2>1. ASSUME NEW t, Quiet(t) PROVE SeenUpTo(staged.cursor.id, history', t, Reach)
    BY <1>2, <1>7, <2>1, LongerIsSeen DEF Quiet
  <2>2. ASSUME NEW t \in Titles, Judged(t), Running
        PROVE  SoundRow(staged.rows[t], history', t, updated'[t], Reach, config, settings')
    BY <1>2, <1>4, <1>7, <2>2, WorldKeepsRow DEF Judged, CoverageInv, RunTypes
  <2> QED
    BY <1>1, <1>7, <2>1, <2>2 DEF CoverageInv, PassSound, Quiet, Judged, Running, FullPass, run
<1> QED
  BY <1>1, <1>2, <1>3, <1>6, <1>8 DEF CoverageInv, StartsClean, Vouching, Running, run

LEMMA StartSound ==
  ASSUME CoverageInv, StartRun
  PROVE  CoverageInv'
<1>1. /\ UNCHANGED <<world, durable, staged, stash, capped, outage>> /\ pc' = "scan" /\ pc = "idle"
      /\ config' = settings
      /\ ~stale' => staged.vouched = NoVouch \/ staged.vouched = settings
      /\ todo' = (IF single' = NoItem THEN Titles ELSE {single'}) /\ single' \in Titles \cup {NoItem}
  BY DEF StartRun
<1>2. staged.vouched \in Nat /\ staged.vouched <= settings /\ settings \in Nat
  BY DEF CoverageInv, SoundStore
<1>3. RunTypes' /\ StartsClean'
  BY <1>1, <1>2 DEF CoverageInv, RunTypes, StartsClean, Running, world
<1>4. Vouching' /\ PassSound'
  BY <1>1, <1>2 DEF Vouching, Running, PassSound, NoVouch
<1> QED
  BY <1>1, <1>3, <1>4 DEF CoverageInv, world

\* A nonempty set of records has a last one.
LEMMA LastRecord ==
  ASSUME NEW n \in Nat, NEW T \in SUBSET (1..n), T # {}
  PROVE  \E i \in T : \A j \in T : j <= i
<1> DEFINE back == {k \in 0..n : n - k \in T}
<1>1. back \subseteq Nat /\ back # {}
  <2>1. PICK i \in T : TRUE
    OBVIOUS
  <2>2. PICK k \in 0..n : n - k = i
    <3>1. n - i \in 0..n /\ n - (n - i) = i
      BY <2>1
    <3> QED
      BY <3>1
  <2>3. k \in back
    BY <2>1, <2>2
  <2> QED
    BY <2>3
<1>2. PICK m \in back : \A k \in back : ~(<<k, m>> \in OpToRel(<, Nat))
  <2> HIDE DEF back
  <2> QED
    BY <1>1, WFMin, NatLessThanWellFounded
<1>3. \A k \in back : ~(k < m)
  BY <1>1, <1>2 DEF OpToRel
<1>4. n - m \in T /\ m \in 0..n
  OBVIOUS
<1>5. ASSUME NEW j \in T PROVE j <= n - m
  <2>1. n - j \in back /\ n - j \in Nat
    <3>1. j \in 1..n /\ n - j \in 0..n /\ n - (n - j) = j
      OBVIOUS
    <3> QED
      BY <3>1
  <2>2. ~(n - j < m)
    BY <1>3, <2>1
  <2> QED
    BY <1>4, <2>1, <2>2
<1> QED
  BY <1>4, <1>5

LEMMA NewestIsLast ==
  ASSUME InOrder(history, day), Fresh # {}
  PROVE  Newest \in Fresh /\ \A j \in Fresh : j <= Newest
<1>1. Fresh \in SUBSET (1..Len(history)) /\ Len(history) \in Nat
  BY DEF Fresh, InOrder
<1>2. \E i \in Fresh : \A j \in Fresh : j <= i
  BY <1>1, LastRecord
<1> QED
  BY <1>2 DEF Newest

\* A change past the checkpoint is within the window unless that was cut.
LEMMA WindowReaches ==
  ASSUME InOrder(history, day), AtRecord(staged.cursor, history), ~Truncated,
         NEW i \in 1..Len(history), i > staged.cursor.id
  PROVE  i \in Fresh
<1>1. /\ staged.cursor.id \in 1..Len(history) /\ Len(history) \in Nat
      /\ staged.cursor.day = history[staged.cursor.id].day
  BY SeenAtStart DEF AtRecord
<1>2. staged.cursor.day \in Nat /\ history[i].day \in Nat
  <2> DEFINE Records == [item : Titles \cup {Other}, day : Nat]
  <2>1. history \in Seq(Records)
    BY DEF InOrder
  <2>2. history[i] \in Records /\ history[staged.cursor.id] \in Records
    BY <1>1, <2>1, ElementOfSeq
  <2> QED
    BY <1>1, <2>2
<1>3. history[i].day >= staged.cursor.day
  BY <1>1 DEF InOrder
<1>4. staged.cursor # None
  BY <1>1 DEF None
<1>5. history[i].day >= QueryDay
  BY <1>2, <1>3, <1>4, RunCoverageAssumption DEF QueryDay, Since
<1>6. DOMAIN history = 1..Len(history)
  BY DEF InOrder
<1> QED
  BY <1>5, <1>6 DEF Fresh

LEMMA ScanSound ==
  ASSUME CoverageInv, ActivityScan
  PROVE  CoverageInv'
<1>1. /\ UNCHANGED <<world, durable, staged, single, config, stale, todo, capped, outage>>
      /\ pc = "scan" /\ pc' = "items"
      /\ stash' = IF Fresh = {} THEN None ELSE [id |-> Newest, day |-> history[Newest].day]
      /\ dirty' = IF Truncated THEN todo ELSE {t \in todo : \E i \in Fresh : history[i].item = t}
  BY DEF ActivityScan
<1>2. /\ InOrder(history, day) /\ AtRecord(staged.cursor, history) /\ todo \subseteq Titles
      /\ stash = None /\ (single = NoItem => todo = Titles)
  BY <1>1 DEF CoverageInv, SoundStore, RunTypes, StartsClean
<1>3. Fresh # {} => /\ Newest \in 1..Len(history) /\ \A j \in Fresh : j <= Newest
                    /\ history[Newest].day \in Nat
  <2>1. SUFFICES ASSUME Fresh # {} PROVE /\ Newest \in 1..Len(history) /\ \A j \in Fresh : j <= Newest
                                         /\ history[Newest].day \in Nat
    OBVIOUS
  <2>2. Newest \in 1..Len(history) /\ \A j \in Fresh : j <= Newest
    BY <1>2, <2>1, NewestIsLast DEF Fresh, InOrder
  <2> DEFINE Records == [item : Titles \cup {Other}, day : Nat]
  <2>3. history[Newest] \in Records
    BY <1>2, <2>2, ElementOfSeq DEF InOrder
  <2> QED
    BY <2>2, <2>3
<1>4. RunTypes'
  <2>1. stash' \in [id : Nat, day : Nat] \cup {None} /\ (stash' # None => AtRecord(stash', history))
    BY <1>1, <1>2, <1>3, SeenAtStart DEF AtRecord
  <2> QED
    BY <1>1, <2>1 DEF CoverageInv, RunTypes, Running, world
<1>5. ASSUME NEW t \in todo, t \notin dirty', NEW i \in 1..Len(history), history[i].item = t,
             i <= Reach'
      PROVE  i <= staged.cursor.id
  <2>1. ~Truncated /\ \A j \in Fresh : history[j].item # t
    BY <1>1, <1>5
  <2>2. i \notin Fresh
    BY <1>5, <2>1
  <2> QED
    BY <1>2, <2>1, <2>2, WindowReaches DEF AtRecord
<1>6. Reach' \in 1..Len(history)
  BY <1>1, <1>2, <1>3 DEF Reach, AtRecord, None
<1>7. \A t \in todo' \ dirty' : Quiet(t)'
  BY <1>1, <1>2, <1>5, <1>6, SeenAtStart DEF Quiet, SeenUpTo, world, AtRecord
<1>8. PassSound'
  BY <1>1, <1>2, <1>7 DEF PassSound, FullPass
<1> QED
  BY <1>1, <1>4, <1>8 DEF CoverageInv, StartsClean, Vouching, Running, world

LEMMA NoScanSound ==
  ASSUME CoverageInv, NoActivityScan
  PROVE  CoverageInv'
<1>1. UNCHANGED <<world, durable, staged, run>> /\ pc = "scan" /\ pc' = "items"
  BY DEF NoActivityScan
<1>2. stash = None /\ (single = NoItem => todo = Titles)
  BY <1>1 DEF CoverageInv, StartsClean
<1>3. \A t \in todo : Quiet(t)'
  BY <1>1, <1>2 DEF Quiet, SeenUpTo, Reach, run, CoverageInv, SoundStore, AtRecord
<1>4. PassSound'
  BY <1>1, <1>2, <1>3 DEF PassSound, FullPass, run
<1> QED
  BY <1>1, <1>4 DEF CoverageInv, RunTypes, StartsClean, Vouching, Running, world, run

\* The scan of a title rewrites its own row and nothing else.
OneRow(t, row) == staged' = [staged EXCEPT !.rows[t] = row]
SameRun == UNCHANGED <<world, durable, single, config, stale, stash, dirty>>

\* A title that is taken leaves the pass sound if its row is, for the store and
\* for the run.
LEMMA TakeSound ==
  ASSUME CoverageInv, NEW t \in Titles, Take(t), SameRun,
         NEW row \in Row, OneRow(t, row), row.updated <= updated[t],
         SoundRow(row, history, t, updated[t], staged.cursor.id, staged.vouched, settings),
         FullPass' => FullPass,
         FullPass' /\ (\A u \in todo \ dirty : Quiet(u)) =>
           SoundRow(row, history, t, updated[t], Reach, config, settings)
  PROVE  CoverageInv'
<1>1. pc = "items" /\ pc' = "save" /\ todo' = todo \ {t} /\ t \in todo
  BY DEF Take
<1>2. staged \in Store /\ staged.rows \in [Titles -> Row]
  BY DEF CoverageInv, SoundStore, Store
<1>3. /\ staged' \in Store /\ staged'.vouched = staged.vouched /\ staged'.cursor = staged.cursor
      /\ staged'.rows = [staged.rows EXCEPT ![t] = row]
  BY <1>2 DEF OneRow, Store
<1>4. SoundStore(staged, history, updated, settings)' 
  <2>1. \A u \in Titles : u # t => staged'.rows[u] = staged.rows[u]
    BY <1>2, <1>3
  <2>2. staged'.rows[t] = row
    BY <1>2, <1>3
  <2> QED
    BY <1>3, <2>1, <2>2 DEF CoverageInv, SoundStore, SameRun, world
<1>5. Reach' = Reach
  BY <1>3 DEF Reach, SameRun
<1>6. PassSound'
  <2>1. \A u \in todo' \ dirty' : Quiet(u)'
    BY <1>1, <1>3, <1>5 DEF CoverageInv, PassSound, Quiet, SameRun, world
  <2>2. ASSUME FullPass', NEW u \in Titles, u \notin todo' PROVE Judged(u)'
    <3>1. CASE u = t
      <4>1. SoundRow(row, history, t, updated[t], Reach, config, settings)
        BY <1>1, <2>2 DEF CoverageInv, PassSound
      <4> QED
        BY <1>2, <1>3, <1>5, <3>1, <4>1 DEF Judged, SameRun, world
    <3>2. CASE u # t
      <4>1. Judged(u)
        BY <1>1, <2>2, <3>2 DEF CoverageInv, PassSound
      <4>2. staged'.rows[u] = staged.rows[u]
        BY <1>2, <1>3, <3>2
      <4> QED
        BY <1>5, <4>1, <4>2 DEF Judged, SameRun, world
    <3> QED
      BY <3>1, <3>2
  <2> QED
    BY <2>1, <2>2 DEF PassSound
<1>7. RunTypes' /\ StartsClean' /\ Vouching'
  BY <1>1, <1>3 DEF CoverageInv, RunTypes, StartsClean, Vouching, Running, SameRun, world
<1> QED
  BY <1>4, <1>6, <1>7 DEF CoverageInv, SameRun, world

\* What a skip leaves in the row, and what a verdict writes.
RowTyped(t) == staged.rows[t] \in Row /\ staged.rows[t].updated <= updated[t]

LEMMA RowsTyped == ASSUME CoverageInv, NEW t \in Titles PROVE RowTyped(t)
  BY DEF CoverageInv, SoundStore, Store, RowTyped

LEMMA OwedSound ==
  ASSUME CoverageInv, NEW t \in Titles, Take(t), SameRun,
         NEW why \in {"held", "ignored"}, Owe(t, why), UNCHANGED <<capped, outage>>
  PROVE  CoverageInv'
<1> DEFINE row == [staged.rows[t] EXCEPT !.owed = why]
<1>1. RowTyped(t) /\ staged.rows \in [Titles -> Row] /\ staged \in Store
  BY RowsTyped DEF CoverageInv, SoundStore, Store
<1>2. row \in Row /\ row.updated = staged.rows[t].updated /\ row.owed # "no"
  BY <1>1 DEF RowTyped, Row, Owings
<1>3. OneRow(t, row)
  BY <1>1 DEF Owe, OneRow, Store
<1>4. FullPass' => FullPass
  BY DEF SameRun, FullPass
<1> HIDE DEF row
<1> QED
  BY <1>1, <1>2, <1>3, <1>4, TakeSound DEF RowTyped, SoundRow, FullPass, CoverageInv

\* A title is passed over only if nothing moved since the vouched-for verdict.
LEMMA SkipSound ==
  ASSUME CoverageInv, NEW t \in Titles, Take(t), SameRun, Skippable(t),
         UNCHANGED <<staged, capped, outage>>
  PROVE  CoverageInv'
<1> DEFINE row == staged.rows[t]
<1>1. RowTyped(t) /\ staged.rows \in [Titles -> Row] /\ staged \in Store
  BY RowsTyped DEF CoverageInv, SoundStore, Store
<1>2. OneRow(t, row)
  BY <1>1 DEF OneRow, Store
<1>3. SoundRow(row, history, t, updated[t], staged.cursor.id, staged.vouched, settings)
  BY DEF CoverageInv, SoundStore
<1>4. t \in todo \ dirty /\ staged.vouched = config
  BY DEF Skippable, Take, CoverageInv, Vouching, Running
<1>5. Quiet(t) => SoundRow(row, history, t, updated[t], Reach, config, settings)
  BY <1>3, <1>4 DEF Quiet, SeenUpTo, SoundRow
<1>6. FullPass' => FullPass
  BY DEF SameRun, FullPass
<1> HIDE DEF row
<1> QED
  BY <1>1, <1>2, <1>3, <1>4, <1>5, <1>6, TakeSound DEF RowTyped, row

\* A verdict has seen the whole history, under the settings of the run.
LEMMA VerdictSound ==
  ASSUME CoverageInv, NEW t \in Titles, CacheVerdict(t)
  PROVE  CoverageInv'
<1> DEFINE row == [updated |-> updated[t], under |-> config, seen |-> Len(history), owed |-> "no"]
<1>1. /\ Take(t) /\ SameRun /\ OneRow(t, row) /\ FullPass' = FullPass
  BY DEF CacheVerdict, SameRun, OneRow, FullPass
<1>2. /\ updated[t] \in Nat /\ config \in Nat /\ config <= settings /\ settings \in Nat
      /\ staged.vouched <= config /\ staged.vouched \in Nat
      /\ Len(history) \in Nat /\ staged.cursor.id \in 1..Len(history)
  BY <1>1, SeenAtStart DEF CoverageInv, SoundStore, RunTypes, Vouching, Running, Take, AtRecord
<1>3. row \in Row /\ row.updated <= updated[t]
  BY <1>2 DEF Row, Owings
<1>4. Reach \in 1..Len(history)
  BY <1>2 DEF Reach, CoverageInv, RunTypes, AtRecord
<1>5. ASSUME NEW n \in 1..Len(history) PROVE SeenUpTo(row.seen, history, t, n)
  BY <1>2 DEF SeenUpTo
<1>6. /\ SoundRow(row, history, t, updated[t], staged.cursor.id, staged.vouched, settings)
      /\ SoundRow(row, history, t, updated[t], Reach, config, settings)
  BY <1>2, <1>4, <1>5 DEF SoundRow
<1> HIDE DEF row
<1> QED
  BY <1>1, <1>3, <1>6, TakeSound

\* A title held back by the cap or an outage costs the pass its checkpoint.
LEMMA CutSound ==
  ASSUME CoverageInv, NEW t \in Titles, Take(t), SameRun, UNCHANGED staged, ~FullPass'
  PROVE  CoverageInv'
<1> DEFINE row == staged.rows[t]
<1>1. RowTyped(t) /\ staged.rows \in [Titles -> Row] /\ staged \in Store
  BY RowsTyped DEF CoverageInv, SoundStore, Store
<1>2. OneRow(t, row)
  BY <1>1 DEF OneRow, Store
<1>3. SoundRow(row, history, t, updated[t], staged.cursor.id, staged.vouched, settings)
  BY DEF CoverageInv, SoundStore
<1> HIDE DEF row
<1> QED
  BY <1>1, <1>2, <1>3, TakeSound DEF RowTyped, row

LEMMA TitleSound ==
  ASSUME CoverageInv, NEW t \in Titles,
         \/ SkipUnmonitored(t) \/ SkipOutage(t) \/ SkipCached(t)
         \/ CacheVerdict(t) \/ HoldCapped(t) \/ LeaveUncached(t)
  PROVE  CoverageInv'
<1>1. CASE SkipUnmonitored(t)
  <2>1. Take(t) /\ SameRun /\ Owe(t, "ignored") /\ UNCHANGED <<capped, outage>>
    BY <1>1 DEF SkipUnmonitored, SameRun
  <2> QED
    BY <2>1, OwedSound
<1>2. CASE LeaveUncached(t)
  <2>1. Take(t) /\ SameRun /\ Owe(t, "held") /\ UNCHANGED <<capped, outage>>
    BY <1>2 DEF LeaveUncached, SameRun
  <2> QED
    BY <2>1, OwedSound
<1>3. CASE SkipOutage(t)
  BY <1>3, CutSound DEF SkipOutage, SameRun, FullPass
<1>4. CASE HoldCapped(t)
  BY <1>4, CutSound DEF HoldCapped, SameRun, FullPass
<1>5. CASE SkipCached(t)
  BY <1>5, SkipSound DEF SkipCached, SameRun
<1>6. CASE CacheVerdict(t)
  BY <1>6, VerdictSound
<1> QED
  BY <1>1, <1>2, <1>3, <1>4, <1>5, <1>6

LEMMA SaveSound ==
  ASSUME CoverageInv, SaveItem
  PROVE  CoverageInv'
<1>1. /\ UNCHANGED <<world, staged, run>> /\ pc = "save" /\ pc' = "items"
      /\ durable' = durable \/ durable' = staged
  BY DEF SaveItem
<1>2. SoundStore(durable, history, updated, settings)'
  BY <1>1 DEF CoverageInv, world
<1>3. SoundStore(staged, history, updated, settings)'
  BY <1>1 DEF CoverageInv, world
<1>4. RunTypes' /\ StartsClean' /\ Vouching'
  BY <1>1 DEF CoverageInv, RunTypes, StartsClean, Vouching, Running, world, run
<1>5. PassSound'
  BY <1>1 DEF CoverageInv, PassSound, Quiet, Judged, Reach, FullPass, world, run
<1> QED
  BY <1>1, <1>2, <1>3, <1>4, <1>5 DEF CoverageInv, world

\* A full pass has judged every title: what it moves the checkpoint past, each
\* row has seen.
LEMMA EndSound ==
  ASSUME CoverageInv, EndScan
  PROVE  CoverageInv'
<1>1. /\ UNCHANGED <<world, durable, run>> /\ pc = "items" /\ todo = {} /\ pc' = "final"
      /\ ~FullPass => staged' = staged
      /\ FullPass => staged' = [staged EXCEPT !.cursor = IF stash = None THEN @ ELSE stash,
                                              !.vouched = config]
  BY DEF EndScan
<1>2. SoundStore(staged, history, updated, settings)'
  <2>1. CASE ~FullPass
    BY <1>1, <2>1 DEF CoverageInv, world
  <2>2. CASE FullPass
    <3>1. /\ staged \in Store /\ settings \in Nat /\ updated \in [Titles -> Nat]
          /\ config \in Nat /\ config <= settings /\ AtRecord(staged.cursor, history)
          /\ \A t \in Titles : staged.rows[t].updated <= updated[t] /\ Judged(t)
      BY <1>1, <2>2 DEF CoverageInv, SoundStore, RunTypes, Running, PassSound
    <3> DEFINE next == IF stash = None THEN staged.cursor ELSE stash
    <3>2. next \in [id : Nat, day : Nat] \cup {None} /\ AtRecord(next, history) /\ next.id = Reach
      BY <3>1 DEF CoverageInv, RunTypes, Reach, Store
    <3>3. staged' = [staged EXCEPT !.cursor = next, !.vouched = config]
      BY <1>1, <2>2
    <3> HIDE DEF next
    <3>4. /\ staged' \in Store /\ staged'.rows = staged.rows
          /\ staged'.cursor = next /\ staged'.vouched = config
      BY <3>1, <3>2, <3>3 DEF Store
    <3> QED
      BY <1>1, <3>1, <3>2, <3>4 DEF SoundStore, Judged, world
  <2> QED
    BY <2>1, <2>2
<1>3. RunTypes' /\ StartsClean' /\ Vouching' /\ PassSound'
  BY <1>1 DEF CoverageInv, RunTypes, StartsClean, Vouching, PassSound, Running, world, run
<1> QED
  BY <1>1, <1>2, <1>3 DEF CoverageInv, world

LEMMA CloseSound ==
  ASSUME CoverageInv, NEW saved \in {durable, staged}, Close(saved), UNCHANGED world
  PROVE  CoverageInv'
<1>1. SoundStore(saved, history, updated, settings)
  BY DEF CoverageInv
<1>2. SoundStore(durable, history, updated, settings)' /\ SoundStore(staged, history, updated, settings)'
  BY <1>1 DEF Close, world
<1> QED
  BY <1>2 DEF CoverageInv, Close, RunTypes, StartsClean, Vouching, PassSound, Running, world

LEMMA CoverageInvKept == CoverageInv /\ [Next]_vars => CoverageInv'
<1> SUFFICES ASSUME CoverageInv, [Next]_vars PROVE CoverageInv'
  OBVIOUS
<1>1. CASE World
  BY <1>1, WorldSound
<1>2. CASE StartRun
  BY <1>2, StartSound
<1>3. CASE ActivityScan \/ NoActivityScan
  BY <1>3, ScanSound, NoScanSound
<1>4. ASSUME NEW t \in Titles,
             \/ SkipUnmonitored(t) \/ SkipOutage(t) \/ SkipCached(t)
             \/ CacheVerdict(t) \/ HoldCapped(t) \/ LeaveUncached(t)
      PROVE  CoverageInv'
  BY <1>4, TitleSound
<1>5. CASE SaveItem \/ EndScan
  BY <1>5, SaveSound, EndSound
<1>6. CASE FinalSave
  BY <1>6, CloseSound DEF FinalSave
<1>7. CASE Kill
  BY <1>7, CloseSound DEF Kill
<1>8. CASE UNCHANGED vars
  BY <1>8 DEF vars, world, run, CoverageInv, SoundStore, RunTypes, StartsClean, Vouching, PassSound,
              Running, Quiet, Judged, Reach, FullPass
<1> QED
  BY <1>1, <1>2, <1>3, <1>4, <1>5, <1>6, <1>7, <1>8 DEF Next, RunStep

(* For any titles, lookback, edits, file changes and runs cut short in any way: *)
(* a title a run may skip was judged after every change the checkpoint has      *)
(* passed and under the settings the store vouches for (run_loop.py,            *)
(* run_services.py, arr_activity.py).                                           *)
THEOREM NothingIsWrittenOff == Spec => []NothingWrittenOff
<1>1. CoverageInv => NothingWrittenOff
  BY SoundIsNothingWrittenOff DEF CoverageInv
<1> QED
  BY <1>1, InitSound, CoverageInvKept, PTL DEF Spec
=============================================================================
