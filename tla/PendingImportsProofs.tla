------------------------ MODULE PendingImportsProofs ------------------------
(***************************************************************************)
(* What a run does to the pending records it does once, for any arrs,      *)
(* torrents, grabs and kills: an import is counted once, a cleanup is      *)
(* tried once per run, and both of its effects have happened when every    *)
(* record of a torrent has retired.                                        *)
(***************************************************************************)
EXTENDS PendingImports, TLAPS

(* Where the category untracks a download, every arr has one: the last       *)
(* retire of a torrent is then its move.                                     *)
UntrackingArrs ==
  Sonarr \in CategoryArrs /\ TRUE \in MoveUntracks => CategoryArrs = Arrs

-----------------------------------------------------------------------------
(* Types, in the groups of variables that change together.                    *)

WorldOK ==
  /\ torrent \in [Torrents -> {"absent", "downloading", "complete"}]
  /\ moved \in [Torrents -> BOOLEAN] /\ entry \in [Torrents -> BOOLEAN]

CountOK ==
  /\ landed \in [Arrs -> [Torrents -> 0..MaxGrabs]] /\ credit \in [Arrs -> [Torrents -> Nat]]
  /\ grabs \in 0..MaxGrabs /\ kills \in 0..MaxKills /\ untracks \in MoveUntracks

StoreOK == durable \in [Arrs -> [Torrents -> Row]] /\ staged \in [Arrs -> [Torrents -> Row]]

PlaceOK ==
  /\ leg \in Arrs /\ mode \in {"hybrid", "deferred"} /\ (mode = "hybrid" => leg = Sonarr)
  /\ pc \in {"idle", "prune", "items", "grab", "snapshot", "itemsave", "move", "close",
             "settle", "heal", "pass", "finalsave"}
  /\ todo \subseteq Torrents /\ item \in Torrents \cup {NoItem}
  /\ back \in {"idle", "itemsave", "heal", "pass"} /\ failed \in BOOLEAN

SetsOK ==
  /\ fresh \subseteq Torrents /\ reacquired \subseteq Torrents /\ kept \subseteq Torrents
  /\ states \in [Torrents -> States]

TallyOK ==
  /\ results \in [Torrents -> Nat] /\ tally \in [Torrents -> Nat] /\ attempts \in [Torrents -> Nat]

LEMMA TypeParts == TypeOK <=> WorldOK /\ CountOK /\ StoreOK /\ PlaceOK /\ SetsOK /\ TallyOK
  BY DEF TypeOK, WorldOK, CountOK, StoreOK, PlaceOK, SetsOK, TallyOK

LEMMA TypePartsNext ==
  TypeOK' <=> WorldOK' /\ CountOK' /\ StoreOK' /\ PlaceOK' /\ SetsOK' /\ TallyOK'
  BY DEF TypeOK, WorldOK, CountOK, StoreOK, PlaceOK, SetsOK, TallyOK

LEMMA RowsMade ==
  /\ \A how \in Left : NoRow(how) \in Row
  /\ \A row \in Row, st \in {"active", "flagged"} : [row EXCEPT !.st = st] \in Row
  /\ \A row \in Row : [row EXCEPT !.old = TRUE] \in Row
  /\ \A old \in BOOLEAN, n \in 0..MaxGrabs : [st |-> "active", old |-> old, claim |-> n] \in Row
  /\ \A row \in Row : row.st \in {"active", "flagged"} \cup Left /\ row.old \in BOOLEAN
                      /\ row.claim \in 0..MaxGrabs
<1>1. \A how \in Left : NoRow(how) \in Row
  BY PendingImportsAssumption DEF PendingImportsAssumption, Row, NoRow, Left
<1>2. \A row \in Row, st \in {"active", "flagged"} : [row EXCEPT !.st = st] \in Row
  BY DEF Row, Left
<1>3. \A row \in Row : [row EXCEPT !.old = TRUE] \in Row
  BY DEF Row, Left
<1>4. \A old \in BOOLEAN, n \in 0..MaxGrabs : [st |-> "active", old |-> old, claim |-> n] \in Row
  BY DEF Row
<1>5. \A row \in Row : row.st \in {"active", "flagged"} \cup Left /\ row.old \in BOOLEAN
                        /\ row.claim \in 0..MaxGrabs
  BY DEF Row
<1> QED
  BY <1>1, <1>2, <1>3, <1>4, <1>5

LEMMA TypesInit == Init => TypeOK
<1> SUFFICES ASSUME Init PROVE TypeOK
  OBVIOUS
<1> USE PendingImportsAssumption DEF PendingImportsAssumption, Init
<1>1. WorldOK
  BY DEF WorldOK
<1>2. CountOK
  BY DEF CountOK
<1>3. StoreOK
  BY RowsMade DEF StoreOK, Left
<1>4. PlaceOK
  BY DEF PlaceOK
<1>5. SetsOK /\ TallyOK
  BY DEF SetsOK, TallyOK, States
<1> QED
  BY <1>1, <1>2, <1>3, <1>4, <1>5, TypeParts

\* The steps of a run that leave the store, the world and the counts alone.
Quiet ==
  \/ \E t \in Torrents : NextItem(t) \/ HealFinish(t) \/ HealNothing(t) \/ RowImported(t) \/ RowLeft(t)
  \/ NoGrab \/ SkipSnapshot \/ ItemRaises \/ TailStops \/ ObservePending \/ ObserveImported
  \/ RetireRaises \/ EndScan \/ BeginPass \/ InterruptPass \/ EndPass
  \/ \E a \in Arrs : StartRun(a)

LEMMA QuietStep == Quiet => UNCHANGED <<worldVars, durable, staged, credit, bounds>>
<1>1. ASSUME NEW t \in Torrents,
             NextItem(t) \/ HealFinish(t) \/ HealNothing(t) \/ RowImported(t) \/ RowLeft(t)
      PROVE  UNCHANGED <<worldVars, durable, staged, credit, bounds>>
  BY <1>1 DEF NextItem, HealFinish, HealNothing, RowImported, RowLeft
<1>2. CASE NoGrab \/ SkipSnapshot \/ ItemRaises \/ TailStops \/ ObservePending \/ ObserveImported
  BY <1>2 DEF NoGrab, SkipSnapshot, ItemRaises, TailStops, ObservePending, ObserveImported
<1>3. CASE RetireRaises \/ EndScan \/ BeginPass \/ InterruptPass \/ EndPass
  BY <1>3 DEF RetireRaises, EndScan, BeginPass, InterruptPass, EndPass
<1>4. ASSUME NEW a \in Arrs, StartRun(a) PROVE UNCHANGED <<worldVars, durable, staged, credit, bounds>>
  BY <1>4 DEF StartRun
<1> QED
  BY <1>1, <1>2, <1>3, <1>4 DEF Quiet

LEMMA WorldTypes == ASSUME TypeOK, Next PROVE WorldOK'
<1> USE TypeParts DEF WorldOK
<1>1. ASSUME NEW t \in Torrents, TorrentMoves(t) PROVE WorldOK'
  BY <1>1 DEF TorrentMoves
<1>2. ASSUME NEW a \in Arrs, NEW t \in Torrents, FilesLand(a, t) \/ FilesVanish(a, t) \/ Ages(a, t)
      PROVE  WorldOK'
  BY <1>2 DEF FilesLand, FilesVanish, Ages, worldVars
<1>3. CASE GrabAdded
  BY <1>3 DEF GrabAdded
<1>4. CASE GrabAlreadyAdded \/ HoldCapped \/ ObserveMissing \/ ItemSave \/ Prune
  BY <1>4 DEF GrabAlreadyAdded, HoldCapped, ObserveMissing, ItemSave, Prune, worldVars
<1>5. CASE CategoryMove
  BY <1>5 DEF CategoryMove
<1>6. CASE CloseTracked
  BY <1>6 DEF CloseTracked
<1>7. CASE Retired \/ KeptForCleanup \/ FinalSave \/ Kill
  BY <1>7 DEF Retired, KeptForCleanup, FinalSave, Kill, worldVars
<1>8. ASSUME NEW t \in Torrents, HealDemote(t) \/ RowMissing(t) PROVE WorldOK'
  BY <1>8 DEF HealDemote, RowMissing, worldVars
<1>9. CASE Quiet
  BY <1>9, QuietStep DEF worldVars
<1> QED
  BY <1>1, <1>2, <1>3, <1>4, <1>5, <1>6, <1>7, <1>8, <1>9 DEF Next, World, Run, Scan, Retire, Tail, Quiet

LEMMA CountTypes == ASSUME TypeOK, Next PROVE CountOK'
<1> USE TypeParts, PendingImportsAssumption DEF PendingImportsAssumption, CountOK
<1>1. ASSUME NEW a \in Arrs, NEW t \in Torrents, FilesLand(a, t) PROVE CountOK'
  <2>1. staged[a][t].claim \in 0..MaxGrabs
    BY RowsMade DEF StoreOK
  <2> QED
    BY <1>1, <2>1 DEF FilesLand, bounds
<1>2. ASSUME NEW a \in Arrs, NEW t \in Torrents, FilesVanish(a, t) PROVE CountOK'
  <2>1. landed' = [landed EXCEPT ![a][t] = 0] /\ UNCHANGED <<credit, bounds>>
    BY <1>2 DEF FilesVanish
  <2>2. 0 \in 0..MaxGrabs
    OBVIOUS
  <2> QED
    BY <2>1, <2>2 DEF bounds
<1>11. ASSUME NEW a \in Arrs, NEW t \in Torrents, Ages(a, t) \/ TorrentMoves(t)
      PROVE  CountOK'
  BY <1>11 DEF Ages, TorrentMoves, worldVars, bounds
<1>3. CASE GrabAdded
  BY <1>3 DEF GrabAdded
<1>4. CASE GrabAlreadyAdded \/ HoldCapped
  BY <1>4 DEF GrabAlreadyAdded, HoldCapped, Claim
<1>5. CASE ObserveMissing \/ ItemSave \/ Prune \/ CategoryMove \/ CloseTracked
  BY <1>5 DEF ObserveMissing, ItemSave, Prune, CategoryMove, CloseTracked, worldVars, bounds
<1>6. CASE Retired \/ KeptForCleanup
  BY <1>6 DEF Retired, KeptForCleanup, worldVars, bounds
<1>7. CASE FinalSave
  <2>1. tally \in [Torrents -> Nat] /\ leg \in Arrs /\ credit \in [Arrs -> [Torrents -> Nat]]
    BY DEF TallyOK, PlaceOK
  <2>2. [t \in Torrents |-> credit[leg][t] + tally[t]] \in [Torrents -> Nat]
    BY <2>1
  <2>3. credit' = [credit EXCEPT ![leg] = [t \in Torrents |-> credit[leg][t] + tally[t]]]
    BY <1>7 DEF FinalSave
  <2>4. credit' \in [Arrs -> [Torrents -> Nat]]
    BY <2>1, <2>2, <2>3
  <2> QED
    BY <1>7, <2>4 DEF FinalSave, worldVars, bounds
<1>8. CASE Kill
  BY <1>8 DEF Kill, worldVars
<1>9. ASSUME NEW t \in Torrents, HealDemote(t) \/ RowMissing(t) PROVE CountOK'
  BY <1>9 DEF HealDemote, RowMissing, worldVars, bounds
<1>10. CASE Quiet
  BY <1>10, QuietStep DEF worldVars, bounds
<1> HIDE TypeParts, PendingImportsAssumption DEF CountOK, PendingImportsAssumption
<1>12. CASE World
  <2>1. ASSUME NEW t \in Torrents, TorrentMoves(t) PROVE CountOK'
    BY <2>1, <1>11, PendingImportsAssumption DEF PendingImportsAssumption
  <2>2. ASSUME NEW a \in Arrs, NEW t \in Torrents, FilesLand(a, t) \/ FilesVanish(a, t) PROVE CountOK'
    BY <2>2, <1>1, <1>2
  <2> QED
    BY <1>12, <2>1, <2>2 DEF World
<1>13. CASE Scan
  BY <1>13, <1>3, <1>4, <1>5, <1>10 DEF Scan, Quiet
<1>14. CASE Retire
  BY <1>14, <1>5, <1>6, <1>10 DEF Retire, Quiet
<1>15. CASE Tail
  BY <1>15, <1>7, <1>9, <1>10 DEF Tail, Quiet
<1>16. ASSUME NEW a \in Arrs, StartRun(a) PROVE CountOK'
  BY <1>16, <1>10 DEF Quiet
<1> QED
  BY <1>12, <1>13, <1>14, <1>15, <1>16, <1>8, <1>11 DEF Next, Run

\* A store whose one row is replaced by a row is a store of rows.
LEMMA OneRow ==
  ASSUME NEW rows \in [Arrs -> [Torrents -> Row]], NEW a \in Arrs, NEW t \in Torrents, NEW row \in Row
  PROVE  [rows EXCEPT ![a][t] = row] \in [Arrs -> [Torrents -> Row]]
  OBVIOUS

LEMMA AnewRows ==
  ASSUME NEW rows \in [Arrs -> [Torrents -> Row]]
  PROVE  Anew(rows) \in [Arrs -> [Torrents -> Row]]
  BY RowsMade DEF Anew, Left

\* Drop and Put replace one row of the leg.
LEMMA OneDropped ==
  ASSUME staged \in [Arrs -> [Torrents -> Row]], leg \in Arrs, NEW t \in Torrents,
         NEW how \in Left, Drop(t, how)
  PROVE  /\ staged' = [staged EXCEPT ![leg][t] = NoRow(how)]
         /\ staged' \in [Arrs -> [Torrents -> Row]]
<1>1. staged' = [staged EXCEPT ![leg][t] = NoRow(how)] /\ NoRow(how) \in Row
  BY RowsMade DEF Drop
<1> QED
  BY <1>1, OneRow

LEMMA OnePut ==
  ASSUME staged \in [Arrs -> [Torrents -> Row]], leg \in Arrs, NEW t \in Torrents,
         NEW st \in {"active", "flagged"}, Put(t, st)
  PROVE  /\ staged' = [staged EXCEPT ![leg][t] = [staged[leg][t] EXCEPT !.st = st]]
         /\ staged' \in [Arrs -> [Torrents -> Row]]
<1>1. staged' = [staged EXCEPT ![leg][t] = [staged[leg][t] EXCEPT !.st = st]]
  BY DEF Put
<1>2. staged[leg][t] \in Row
  OBVIOUS
<1>3. [staged[leg][t] EXCEPT !.st = st] \in Row
  BY <1>2, RowsMade
<1> QED
  BY <1>1, <1>3, OneRow

Retiring == pc \in {"move", "close", "settle"}

\* An item, or a row, is being worked on.
Busy == Retiring \/ pc \in {"grab", "snapshot"}

\* The work in hand is on a torrent, which the work to come leaves out.
ItemInHand ==
  /\ Busy => item \in Torrents /\ item \notin todo
  /\ Retiring => back \in {"itemsave", "heal", "pass"}

LEMMA StoreTypes == ASSUME TypeOK, ItemInHand, Next PROVE StoreOK'
<1> USE TypeParts DEF StoreOK
<1>1. ASSUME NEW a \in Arrs, NEW t \in Torrents, FilesLand(a, t) \/ FilesVanish(a, t) \/ TorrentMoves(t)
      PROVE  StoreOK'
  BY <1>1 DEF FilesLand, FilesVanish, TorrentMoves
<1>2. ASSUME NEW a \in Arrs, NEW t \in Torrents, Ages(a, t) PROVE StoreOK'
  BY <1>2, RowsMade DEF Ages
<1>3. CASE GrabAdded
  <2>1. grabs' \in 0..MaxGrabs /\ leg \in Arrs /\ item \in Torrents
    BY <1>3, CountTypes DEF GrabAdded, PlaceOK, CountOK, ItemInHand, Busy, Retiring
  <2> QED
    BY <1>3, <2>1, AnewRows, OneRow, RowsMade DEF GrabAdded
<1>4. CASE GrabAlreadyAdded \/ HoldCapped
  <2>1. grabs' \in 0..MaxGrabs /\ leg \in Arrs /\ item \in Torrents
    BY <1>4, CountTypes DEF GrabAlreadyAdded, HoldCapped, PlaceOK, CountOK, ItemInHand, Busy, Retiring
  <2>2. PICK old \in BOOLEAN : Claim(old) /\ UNCHANGED durable
    BY <1>4, <2>1, RowsMade DEF GrabAlreadyAdded, HoldCapped
  <2> QED
    BY <2>1, <2>2, OneRow, RowsMade DEF Claim
<1>5. CASE ItemSave \/ CategoryMove \/ CloseTracked \/ FinalSave \/ Kill
  BY <1>5 DEF ItemSave, CategoryMove, CloseTracked, FinalSave, Kill
<1>6. CASE Prune
  <2> DEFINE legRows == [t \in Torrents |-> IF staged[leg][t].old THEN NoRow("dropped") ELSE staged[leg][t]]
  <2>1. leg \in Arrs /\ staged \in [Arrs -> [Torrents -> Row]]
    BY DEF PlaceOK
  <2>2. legRows \in [Torrents -> Row]
    BY <2>1, RowsMade DEF Left
  <2>3. staged' = [staged EXCEPT ![leg] = legRows]
    BY <1>6 DEF Prune
  <2> HIDE DEF legRows
  <2>4. staged' \in [Arrs -> [Torrents -> Row]]
    BY <2>1, <2>2, <2>3
  <2>5. durable' = durable \/ durable' = staged'
    BY <1>6 DEF Prune
  <2> QED
    BY <2>4, <2>5
<1>7. CASE ObserveMissing \/ Retired
  <2>1. leg \in Arrs /\ item \in Torrents
    BY <1>7 DEF ObserveMissing, Retired, PlaceOK, ItemInHand, Busy, Retiring
  <2>2. PICK how \in Left : Drop(item, how) /\ UNCHANGED durable
    BY <1>7 DEF ObserveMissing, Retired, Left
  <2> QED
    BY <2>1, <2>2, OneDropped
<1>8. CASE KeptForCleanup
  <2>1. leg \in Arrs /\ item \in Torrents /\ Put(item, "flagged") /\ UNCHANGED durable
    BY <1>8 DEF KeptForCleanup, PlaceOK, ItemInHand, Busy, Retiring
  <2> QED
    BY <2>1, OnePut
<1>10. ASSUME NEW t \in Torrents, HealDemote(t) PROVE StoreOK'
  <2>1. leg \in Arrs /\ Put(t, "active") /\ UNCHANGED durable
    BY <1>10 DEF HealDemote, PlaceOK
  <2> QED
    BY <2>1, OnePut
<1>11. ASSUME NEW t \in Torrents, RowMissing(t) PROVE StoreOK'
  <2>1. leg \in Arrs /\ Drop(t, "dropped") /\ UNCHANGED durable /\ "dropped" \in Left
    BY <1>11 DEF RowMissing, PlaceOK, Left
  <2> QED
    BY <2>1, OneDropped
<1>9. CASE Quiet
  BY <1>9, QuietStep
<1> HIDE TypeParts DEF StoreOK
<1>12. CASE World
  <2>1. ASSUME NEW t \in Torrents, TorrentMoves(t) PROVE StoreOK'
    BY <2>1, <1>1, PendingImportsAssumption DEF PendingImportsAssumption
  <2>2. ASSUME NEW a \in Arrs, NEW t \in Torrents, FilesLand(a, t) \/ FilesVanish(a, t) PROVE StoreOK'
    BY <2>2, <1>1
  <2> QED
    BY <1>12, <2>1, <2>2 DEF World
<1>13. CASE Scan
  BY <1>13, <1>3, <1>4, <1>5, <1>6, <1>7, <1>9 DEF Scan, Quiet
<1>14. CASE Retire
  BY <1>14, <1>5, <1>7, <1>8, <1>9 DEF Retire, Quiet
<1>15. CASE Tail
  BY <1>15, <1>5, <1>9, <1>10, <1>11 DEF Tail, Quiet
<1>16. ASSUME NEW a \in Arrs, StartRun(a) PROVE StoreOK'
  BY <1>16, <1>9 DEF Quiet
<1> QED
  BY <1>12, <1>13, <1>14, <1>15, <1>16, <1>2, <1>5 DEF Next, Run

LEMMA PlaceTypes == ASSUME TypeOK, ItemInHand, Next PROVE PlaceOK' /\ ItemInHand'
<1> USE TypeParts DEF PlaceOK, ItemInHand, Busy, Retiring
<1>1. ASSUME NEW t \in Torrents, TorrentMoves(t) PROVE PlaceOK' /\ ItemInHand'
  BY <1>1 DEF TorrentMoves, runVars
<1>2. ASSUME NEW a \in Arrs, NEW t \in Torrents, FilesLand(a, t) \/ FilesVanish(a, t) \/ Ages(a, t)
      PROVE  PlaceOK' /\ ItemInHand'
  BY <1>2 DEF FilesLand, FilesVanish, Ages, runVars
<1>3. ASSUME NEW a \in Arrs, StartRun(a) PROVE PlaceOK' /\ ItemInHand'
  BY <1>3 DEF StartRun
<1>4. ASSUME NEW t \in Torrents, NextItem(t) PROVE PlaceOK' /\ ItemInHand'
  BY <1>4 DEF NextItem
<1>5. CASE Prune \/ NoGrab \/ SkipSnapshot \/ ItemRaises \/ TailStops
  BY <1>5 DEF Prune, NoGrab, SkipSnapshot, ItemRaises, TailStops, runVars
<1>6. CASE GrabAdded \/ GrabAlreadyAdded \/ HoldCapped
  BY <1>6 DEF GrabAdded, GrabAlreadyAdded, HoldCapped, Claim
<1>7. CASE ObservePending \/ ObserveMissing \/ ObserveImported \/ ItemSave
  BY <1>7 DEF ObservePending, ObserveMissing, ObserveImported, ItemSave, BeginRetire
<1>8. CASE CategoryMove \/ CloseTracked
  BY <1>8 DEF CategoryMove, CloseTracked
<1>9. CASE Retired \/ KeptForCleanup \/ RetireRaises
  BY <1>9 DEF Retired, KeptForCleanup, RetireRaises, AfterRetire, Returned
<1>10. ASSUME NEW t \in Torrents, HealFinish(t) \/ RowImported(t) PROVE PlaceOK' /\ ItemInHand'
  BY <1>10 DEF HealFinish, RowImported, BeginRetire
<1>11. ASSUME NEW t \in Torrents, HealDemote(t) \/ HealNothing(t) \/ RowMissing(t) \/ RowLeft(t)
       PROVE  PlaceOK' /\ ItemInHand'
  BY <1>11 DEF HealDemote, HealNothing, RowMissing, RowLeft
<1>12. CASE EndScan \/ BeginPass \/ InterruptPass \/ EndPass
  <2>1. fresh \subseteq Torrents
    BY DEF SetsOK
  <2> QED
    BY <1>12, <2>1 DEF EndScan, BeginPass, InterruptPass, EndPass, Flagged, Active
<1>13. CASE FinalSave \/ Kill
  BY <1>13, PendingImportsAssumption DEF FinalSave, Kill, NoContext, PendingImportsAssumption
<1> HIDE TypeParts DEF PlaceOK, ItemInHand, Busy, Retiring
<1> QED
  BY <1>1, <1>2, <1>3, <1>4, <1>5, <1>6, <1>7, <1>8, <1>9, <1>10, <1>11, <1>12, <1>13
     DEF Next, World, Run, Scan, Retire, Tail

LEMMA SetTypes == ASSUME TypeOK, ItemInHand, Next PROVE SetsOK'
<1> USE TypeParts DEF SetsOK
<1>1. CASE World \/ CategoryMove \/ CloseTracked \/ RetireRaises
  BY <1>1 DEF World, TorrentMoves, FilesLand, FilesVanish, CategoryMove, CloseTracked, RetireRaises, runVars
<1>2. ASSUME NEW a \in Arrs, (\E t \in Torrents : Ages(a, t)) \/ StartRun(a) PROVE SetsOK'
  BY <1>2 DEF Ages, StartRun, runVars
<1>3. CASE Prune \/ NoGrab \/ SkipSnapshot \/ ItemRaises \/ TailStops
  BY <1>3 DEF Prune, NoGrab, SkipSnapshot, ItemRaises, TailStops, runVars
<1>4. CASE (\E t \in Torrents : NextItem(t)) \/ ItemSave \/ ObserveImported
  BY <1>4 DEF NextItem, ItemSave, ObserveImported
<1>5. CASE GrabAdded \/ GrabAlreadyAdded \/ HoldCapped
  BY <1>5 DEF GrabAdded, GrabAlreadyAdded, HoldCapped, Claim, ItemInHand, Busy
<1>6. CASE ObservePending \/ ObserveMissing
  <2>1. "seen" \in States /\ item \in Torrents
    BY <1>6 DEF States, ObservePending, ObserveMissing, ItemInHand, Busy
  <2> QED
    BY <1>6, <2>1 DEF ObservePending, ObserveMissing, Drop
<1>7. CASE Retired \/ KeptForCleanup
  <2>1. "imported" \in States /\ item \in Torrents
    BY <1>7 DEF States, Retired, KeptForCleanup, ItemInHand, Busy, Retiring
  <2>2. (IF back = "itemsave" THEN "imported" ELSE states[item]) \in States
    BY <2>1
  <2>3. states' \in [Torrents -> States]
    BY <1>7, <2>1, <2>2 DEF Retired, KeptForCleanup, AfterRetire
  <2>4. fresh' \subseteq Torrents /\ reacquired' \subseteq Torrents /\ kept' \subseteq Torrents
    BY <1>7, <2>1 DEF Retired, KeptForCleanup, Drop
  <2> QED
    BY <2>3, <2>4
<1>8. ASSUME NEW t \in Torrents, HealDemote(t) \/ RowLeft(t) PROVE SetsOK'
  <2>1. "seen" \in States
    BY DEF States
  <2>2. states' \in [Torrents -> States]
    BY <1>8, <2>1 DEF HealDemote, RowLeft
  <2> QED
    BY <1>8, <2>2 DEF HealDemote, RowLeft
<1>9. ASSUME NEW t \in Torrents, HealFinish(t) \/ HealNothing(t) \/ RowImported(t) \/ RowMissing(t)
      PROVE  SetsOK'
  BY <1>9 DEF HealFinish, HealNothing, RowImported, RowMissing, Drop
<1>10. CASE EndScan \/ BeginPass \/ InterruptPass \/ EndPass
  BY <1>10 DEF EndScan, BeginPass, InterruptPass, EndPass
<1>11. CASE FinalSave \/ Kill
  <2>1. "unset" \in States
    BY DEF States
  <2> QED
    BY <1>11, <2>1 DEF FinalSave, Kill, NoContext
<1> HIDE TypeParts DEF SetsOK
<1> QED
  BY <1>1, <1>2, <1>3, <1>4, <1>5, <1>6, <1>7, <1>8, <1>9, <1>10, <1>11 DEF Next, Run, Scan, Retire, Tail

LEMMA TallyTypes == ASSUME TypeOK, ItemInHand, Next PROVE TallyOK'
<1> USE TypeParts DEF TallyOK
<1>1. CASE World \/ CategoryMove \/ CloseTracked \/ RetireRaises
  BY <1>1 DEF World, TorrentMoves, FilesLand, FilesVanish, CategoryMove, CloseTracked, RetireRaises, runVars
<1>2. ASSUME NEW a \in Arrs, (\E t \in Torrents : Ages(a, t)) \/ StartRun(a) PROVE TallyOK'
  BY <1>2 DEF Ages, StartRun, runVars
<1>3. CASE Prune \/ NoGrab \/ SkipSnapshot \/ ItemRaises \/ TailStops
  BY <1>3 DEF Prune, NoGrab, SkipSnapshot, ItemRaises, TailStops, runVars
<1>4. CASE (\E t \in Torrents : NextItem(t)) \/ ItemSave \/ ObserveImported
  BY <1>4 DEF NextItem, ItemSave, ObserveImported
<1>5. CASE GrabAdded \/ GrabAlreadyAdded \/ HoldCapped \/ ObservePending \/ ObserveMissing
  BY <1>5 DEF GrabAdded, GrabAlreadyAdded, HoldCapped, Claim, ObservePending, ObserveMissing
<1>6. CASE Retired \/ KeptForCleanup
  <2>1. /\ attempts' = [attempts EXCEPT ![item] = @ + 1] /\ UNCHANGED tally
        /\ results' = [results EXCEPT ![item] = IF back = "pass" /\ item \notin fresh THEN @ + 1 ELSE @]
    BY <1>6 DEF Retired, KeptForCleanup, AfterRetire
  <2>2. item \in Torrents
    BY <1>6 DEF Retired, KeptForCleanup, ItemInHand, Busy, Retiring
  <2>3. attempts[item] + 1 \in Nat /\ results[item] + 1 \in Nat /\ results[item] \in Nat
    BY <2>2
  <2>4. (IF back = "pass" /\ item \notin fresh THEN results[item] + 1 ELSE results[item]) \in Nat
    BY <2>3
  <2>5. attempts' \in [Torrents -> Nat]
    BY <2>1, <2>3
  <2>6. results' \in [Torrents -> Nat]
    BY <2>1, <2>4
  <2> QED
    BY <2>1, <2>5, <2>6
<1>7. ASSUME NEW t \in Torrents,
             HealFinish(t) \/ HealDemote(t) \/ HealNothing(t) \/ RowImported(t) \/ RowMissing(t) \/ RowLeft(t)
      PROVE  TallyOK'
  BY <1>7 DEF HealFinish, HealDemote, HealNothing, RowImported, RowMissing, RowLeft
<1>8. CASE EndScan \/ InterruptPass
  BY <1>8 DEF EndScan, InterruptPass
<1>9. CASE BeginPass
  <2>1. SnapshotImports \in [Torrents -> Nat]
    BY DEF SnapshotImports
  <2>2. tally' \in [Torrents -> Nat]
    BY <1>9, <2>1 DEF BeginPass
  <2> QED
    BY <1>9, <2>2 DEF BeginPass
<1>10. CASE EndPass
  <2>1. \A t \in Torrents :
           tally[t] + results[t] + (IF Waits THEN 0 ELSE SnapshotImports[t]) \in Nat
    BY DEF SnapshotImports
  <2>2. tally' \in [Torrents -> Nat]
    BY <1>10, <2>1 DEF EndPass
  <2> QED
    BY <1>10, <2>2 DEF EndPass
<1>11. CASE FinalSave \/ Kill
  BY <1>11 DEF FinalSave, Kill, NoContext
<1> HIDE TypeParts DEF TallyOK
<1> QED
  BY <1>1, <1>2, <1>3, <1>4, <1>5, <1>6, <1>7, <1>8, <1>9, <1>10, <1>11 DEF Next, Run, Scan, Retire, Tail

LEMMA Types == Spec => [](TypeOK /\ ItemInHand)
<1>1. Init => TypeOK /\ ItemInHand
  BY TypesInit DEF Init, ItemInHand, Busy, Retiring
<1>2. TypeOK /\ ItemInHand /\ [Next]_vars => (TypeOK /\ ItemInHand)'
  <2> SUFFICES ASSUME TypeOK, ItemInHand, [Next]_vars PROVE (TypeOK /\ ItemInHand)'
    OBVIOUS
  <2>1. CASE Next
    BY <2>1, WorldTypes, CountTypes, StoreTypes, PlaceTypes, SetTypes, TallyTypes, TypePartsNext
  <2>2. CASE UNCHANGED vars
    BY <2>2 DEF vars, worldVars, runVars, bounds, TypeOK, ItemInHand, Busy, Retiring
  <2> QED
    BY <2>1, <2>2
<1> QED
  BY <1>1, <1>2, PTL DEF Spec

(* The records of PendingImports have the types it states, through every     *)
(* save, every rollback and every kill.                                      *)
THEOREM TypeCorrect == Spec => []TypeOK
  BY Types, PTL

-----------------------------------------------------------------------------
(* What the writers of the store leave, row by row.                          *)

LEMMA AfterDrop ==
  ASSUME TypeOK, NEW t \in Torrents, NEW how \in Left, Drop(t, how)
  PROVE  /\ staged'[leg][t] = NoRow(how)
         /\ \A a \in Arrs, u \in Torrents : ~(a = leg /\ u = t) => staged'[a][u] = staged[a][u]
<1>1. staged \in [Arrs -> [Torrents -> Row]] /\ leg \in Arrs
  BY TypeParts DEF StoreOK, PlaceOK
<1> QED
  BY <1>1 DEF Drop

LEMMA AfterPut ==
  ASSUME TypeOK, NEW t \in Torrents, NEW st \in {"active", "flagged"}, Put(t, st)
  PROVE  /\ staged'[leg][t].st = st /\ staged'[leg][t].claim = staged[leg][t].claim
         /\ \A a \in Arrs, u \in Torrents : ~(a = leg /\ u = t) => staged'[a][u] = staged[a][u]
<1>1. staged \in [Arrs -> [Torrents -> Row]] /\ leg \in Arrs
  BY TypeParts DEF StoreOK, PlaceOK
<1>2. staged' = [staged EXCEPT ![leg][t] = [staged[leg][t] EXCEPT !.st = st]]
  BY <1>1, OnePut
<1>3. staged'[leg][t] = [staged[leg][t] EXCEPT !.st = st]
  BY <1>1, <1>2
<1>4. \A a \in Arrs, u \in Torrents : ~(a = leg /\ u = t) => staged'[a][u] = staged[a][u]
  BY <1>1, <1>2
<1>5. staged[leg][t] \in Row
  BY <1>1
<1>6. staged'[leg][t].st = st /\ staged'[leg][t].claim = staged[leg][t].claim
  BY <1>3, <1>5 DEF Row
<1> QED
  BY <1>4, <1>6

LEMMA AfterClaim ==
  ASSUME TypeOK, item \in Torrents, NEW old, Claim(old)
  PROVE  /\ staged'[leg][item].st = "active" /\ staged'[leg][item].claim = grabs + 1
         /\ \A a \in Arrs, u \in Torrents : ~(a = leg /\ u = item) => staged'[a][u] = staged[a][u]
<1>1. staged \in [Arrs -> [Torrents -> Row]] /\ leg \in Arrs
  BY TypeParts DEF StoreOK, PlaceOK
<1> QED
  BY <1>1 DEF Claim

\* Claims by a grab of a torrent that is there.
LEMMA AfterReclaim ==
  ASSUME TypeOK, item \in Torrents, GrabAlreadyAdded \/ HoldCapped
  PROVE  /\ \E old \in BOOLEAN : Claim(old)
         /\ UNCHANGED <<torrent, moved, entry, durable, fresh>> /\ pc = "grab"
<1>1. leg \in Arrs /\ staged \in [Arrs -> [Torrents -> Row]]
  BY TypeParts DEF StoreOK, PlaceOK
<1>2. staged[leg][item].old \in BOOLEAN
  BY <1>1, RowsMade
<1> QED
  BY <1>2 DEF GrabAlreadyAdded, HoldCapped

LEMMA AfterAnew ==
  ASSUME NEW rows \in [Arrs -> [Torrents -> Row]], item \in Torrents
  PROVE  \A a \in Arrs, u \in Torrents :
           Anew(rows)[a][u] = IF u = item /\ ~Stored(rows[a][u]) THEN NoRow("never") ELSE rows[a][u]
<1> TAKE a \in Arrs, u \in Torrents
<1> DEFINE new == IF Stored(rows[a][item]) THEN rows[a][item] ELSE NoRow("never")
<1>1. Anew(rows)[a] = [rows[a] EXCEPT ![item] = new]
  BY DEF Anew
<1>2. rows[a] \in [Torrents -> Row]
  OBVIOUS
<1> HIDE DEF new
<1>3. Anew(rows)[a][u] = IF u = item THEN new ELSE rows[a][u]
  BY <1>1, <1>2
<1> QED
  BY <1>3 DEF new

LEMMA AfterAdded ==
  ASSUME TypeOK, item \in Torrents, GrabAdded
  PROVE  /\ staged'[leg][item].st = "active" /\ staged'[leg][item].claim = grabs + 1
         /\ \A a \in Arrs, u \in Torrents : ~(a = leg /\ u = item) =>
              staged'[a][u] = IF u = item /\ ~Stored(staged[a][u]) THEN NoRow("never") ELSE staged[a][u]
         /\ \A a \in Arrs, u \in Torrents :
              durable'[a][u] = IF u = item /\ ~Stored(durable[a][u]) THEN NoRow("never") ELSE durable[a][u]
<1>1. staged \in [Arrs -> [Torrents -> Row]] /\ durable \in [Arrs -> [Torrents -> Row]] /\ leg \in Arrs
  BY TypeParts DEF StoreOK, PlaceOK
<1>2. Anew(staged) \in [Arrs -> [Torrents -> Row]]
  BY <1>1, AnewRows
<1>3. staged' = [Anew(staged) EXCEPT ![leg][item] = [st |-> "active", old |-> FALSE, claim |-> grabs + 1]]
  BY DEF GrabAdded
<1>4. staged'[leg][item] = [st |-> "active", old |-> FALSE, claim |-> grabs + 1]
  BY <1>1, <1>2, <1>3
<1>5. \A a \in Arrs, u \in Torrents : ~(a = leg /\ u = item) => staged'[a][u] = Anew(staged)[a][u]
  BY <1>1, <1>2, <1>3
<1>6. durable' = Anew(durable)
  BY DEF GrabAdded
<1> QED
  BY <1>1, <1>4, <1>5, <1>6, AfterAnew

LEMMA AfterPrune ==
  ASSUME TypeOK, Prune
  PROVE  /\ \A a \in Arrs, u \in Torrents :
              staged'[a][u] = IF a = leg /\ staged[a][u].old THEN NoRow("dropped") ELSE staged[a][u]
         /\ durable' = durable \/ durable' = staged'
<1>1. staged \in [Arrs -> [Torrents -> Row]] /\ leg \in Arrs
  BY TypeParts DEF StoreOK, PlaceOK
<1> QED
  BY <1>1 DEF Prune

LEMMA AfterAges ==
  ASSUME TypeOK, NEW a \in Arrs, NEW t \in Torrents, Ages(a, t)
  PROVE  \A b \in Arrs, u \in Torrents :
           /\ staged'[b][u].st = staged[b][u].st /\ staged'[b][u].claim = staged[b][u].claim
           /\ durable'[b][u].st = durable[b][u].st /\ durable'[b][u].claim = durable[b][u].claim
<1>1. ASSUME NEW rows \in [Arrs -> [Torrents -> Row]], NEW b \in Arrs, NEW u \in Torrents,
             NEW new, new = [rows EXCEPT ![a][t].old = TRUE]
      PROVE  new[b][u].st = rows[b][u].st /\ new[b][u].claim = rows[b][u].claim
  <2>1. rows[b][u] \in Row
    OBVIOUS
  <2>2. new[b][u] = rows[b][u] \/ new[b][u] = [rows[b][u] EXCEPT !.old = TRUE]
    BY <1>1
  <2> QED
    BY <2>1, <2>2 DEF Row
<1>2. staged \in [Arrs -> [Torrents -> Row]] /\ durable \in [Arrs -> [Torrents -> Row]]
  BY TypeParts DEF StoreOK
<1>3. staged' = [staged EXCEPT ![a][t].old = TRUE] /\ durable' = [durable EXCEPT ![a][t].old = TRUE]
  BY DEF Ages
<1> QED
  BY <1>1, <1>2, <1>3

-----------------------------------------------------------------------------
(* The inductive invariant.                                                  *)

HealPhase == pc = "heal" \/ (Retiring /\ back = "heal")

PassPhase == pc = "pass" \/ (Retiring /\ back = "pass")

\* Before the pass.
Early == pc \in {"idle", "prune", "items", "grab", "snapshot", "itemsave"} \/ HealPhase
         \/ (Retiring /\ back = "itemsave")

\* A run starts with nothing of an earlier one.
Blank ==
  pc \in {"idle", "prune"} =>
    /\ fresh = {} /\ kept = {}
    /\ states = [t \in Torrents |-> "unset"]
    /\ results = [t \in Torrents |-> 0] /\ tally = [t \in Torrents |-> 0]
    /\ attempts = [t \in Torrents |-> 0]

(* What the rows in line for work are: a run's own grabs are active until    *)
(* the pass, the heal works on flagged rows, the pass on active ones.        *)
InLine ==
  /\ Early => \A t \in fresh : staged[leg][t].st = "active"
  /\ Retiring /\ back # "pass" => item \notin fresh
  /\ HealPhase => \A t \in todo : staged[leg][t].st = "flagged"
  /\ PassPhase => \A t \in todo : staged[leg][t].st = "active"

\* A cleanup is tried once: whatever it left, no later step takes it up again.
Tried(t) ==
  /\ t \notin todo /\ (Busy => item # t)
  /\ staged[leg][t].st # "active"
  /\ staged[leg][t].st = "flagged" => t \in kept
  /\ Early => t \notin fresh

Once == \A t \in Torrents : attempts[t] \in {0, 1} /\ (attempts[t] = 1 => Tried(t))

\* A landing is counted by the run that retires its row, which was active.
Bounded ==
  \A a \in Arrs, t \in Torrents :
    landed[a][t] <= grabs /\ staged[a][t].claim <= grabs /\ durable[a][t].claim <= grabs

Uncounted(rows) ==
  \A a \in Arrs, t \in Torrents :
    credit[a][t] = 1 /\ rows[a][t].st = "active" => landed[a][t] < rows[a][t].claim

Counted(t) == results[t] = 1 \/ states[t] = "imported" \/ tally[t] = 1

Tallies ==
  /\ pc # "finalsave" /\ ~PassPhase => \A t \in Torrents : tally[t] = 0
  /\ PassPhase => \A t \in Torrents : tally[t] = IF Waits /\ states[t] = "imported" THEN 1 ELSE 0
  /\ \A t \in Torrents : results[t] \in {0, 1} /\ tally[t] \in {0, 1}
  /\ \A t \in Torrents : results[t] = 1 => states[t] # "imported"
  /\ \A t \in Torrents : Counted(t) => attempts[t] = 1 /\ credit[leg][t] = 0

Verified ==
  Retiring /\ back # "heal" => staged[leg][item].st = "active" /\ AllLanded(leg, item)

RetiredIn(rows, t) ==
  /\ \A a \in Arrs : rows[a][t].st \in {"never", "retired"}
  /\ \E a \in Arrs : rows[a][t].st = "retired"

Untracked == Sonarr \in CategoryArrs /\ untracks

SettledIn(rows) ==
  \A t \in Torrents :
    /\ RetiredIn(rows, t) /\ torrent[t] # "absent" /\ CategoryArrs = Arrs => moved[t]
    /\ RetiredIn(rows, t) /\ rows[Sonarr][t].st = "retired" /\ torrent[t] # "absent" => ~entry[t]
    /\ rows[Sonarr][t].st = "retired" /\ ~Untracked => ~entry[t]

\* Where the effects of the retire in hand stand.
Effects ==
  /\ pc \in {"close", "settle"} /\ ~failed /\ MoveApplies =>
       (torrent[item] = "absent" \/ moved[item]) /\ (untracks => ~entry[item])
  /\ pc = "settle" /\ ~failed /\ CloseApplies => ~entry[item]

SettledInv == SettledIn(staged) /\ SettledIn(durable) /\ Effects

LEMMA BlankStep ==
  ASSUME TypeOK, ItemInHand, Blank, Next
  PROVE  Blank'
<1>1. ASSUME pc \in {"idle", "prune"}, UNCHANGED <<fresh, kept, states, results, tally, attempts>>
      PROVE  Blank'
  BY <1>1 DEF Blank
<1>2. CASE World
  <2>1. UNCHANGED <<pc, runVars>>
    BY <1>2 DEF World, TorrentMoves, FilesLand, FilesVanish
  <2> QED
    BY <2>1 DEF Blank, runVars
<1>3. ASSUME NEW a \in Arrs, (\E t \in Torrents : Ages(a, t)) \/ StartRun(a) PROVE Blank'
  BY <1>1, <1>3 DEF Ages, StartRun, runVars
<1>4. ASSUME pc' \notin {"idle", "prune"} PROVE Blank'
  BY <1>4 DEF Blank
<1>5. CASE Scan
  BY <1>4, <1>5
     DEF Scan, Prune, NextItem, GrabAdded, GrabAlreadyAdded, HoldCapped, Claim, NoGrab, SkipSnapshot,
         ObservePending, ObserveMissing, ObserveImported, BeginRetire, ItemRaises, ItemSave
<1>6. CASE Retire
  BY <1>4, <1>6 DEF Retire, CategoryMove, CloseTracked, Retired, KeptForCleanup, RetireRaises,
                    AfterRetire, Returned, ItemInHand, Retiring
<1>7. CASE FinalSave \/ Kill
  BY <1>7 DEF FinalSave, Kill, NoContext, Blank
<1>8. CASE Tail /\ ~FinalSave
  BY <1>4, <1>8
     DEF Tail, EndScan, BeginPass, InterruptPass, EndPass, TailStops, HealFinish, HealDemote,
         HealNothing, RowImported, RowMissing, RowLeft, BeginRetire
<1> QED
  BY <1>2, <1>3, <1>5, <1>6, <1>7, <1>8 DEF Next, Run

LEMMA InLineStep ==
  ASSUME TypeOK, ItemInHand, Blank, InLine, Next
  PROVE  InLine'
<1> USE DEF InLine, Early, HealPhase, PassPhase, Retiring
<1>0. leg \in Arrs /\ todo \subseteq Torrents /\ fresh \subseteq Torrents
      /\ (Busy => item \in Torrents /\ item \notin todo)
  BY TypeParts DEF PlaceOK, SetsOK, ItemInHand
<1>1. CASE World
  BY <1>1 DEF World, TorrentMoves, FilesLand, FilesVanish, runVars
<1>2. ASSUME NEW a \in Arrs, NEW t \in Torrents, Ages(a, t) PROVE InLine'
  BY <1>2, <1>0, AfterAges DEF Ages, runVars, Blank
<1>3. ASSUME NEW a \in Arrs, StartRun(a) PROVE InLine'
  BY <1>3 DEF StartRun, Blank
<1>4. ASSUME NEW t \in Torrents, NextItem(t) PROVE InLine'
  BY <1>4 DEF NextItem
<1>5. CASE NoGrab \/ SkipSnapshot \/ ItemRaises \/ TailStops
  BY <1>5 DEF NoGrab, SkipSnapshot, ItemRaises, TailStops, runVars
<1>6. CASE ItemSave \/ ObservePending
  BY <1>6 DEF ItemSave, ObservePending
<1>7. CASE Prune
  BY <1>7 DEF Prune, runVars, Blank
<1>8. CASE GrabAdded
  BY <1>8, <1>0, AfterAdded DEF GrabAdded, Busy, NoRow
<1>9. CASE GrabAlreadyAdded \/ HoldCapped
  <2>1. pc = "grab" /\ item \in Torrents
    BY <1>9, <1>0 DEF GrabAlreadyAdded, HoldCapped, Busy
  <2>2. PICK old \in BOOLEAN : Claim(old)
    BY <1>9, <2>1, AfterReclaim
  <2>3. pc' = "snapshot" /\ leg' = leg /\ fresh' = fresh
    BY <1>9, <2>1, <2>2, AfterReclaim DEF Claim
  <2> QED
    BY <1>0, <2>1, <2>2, <2>3, AfterClaim
<1>10. CASE ObserveMissing
  <2>1. item \in Torrents /\ Drop(item, "dropped") /\ "dropped" \in Left
    BY <1>10, <1>0 DEF ObserveMissing, Busy, Left
  <2> QED
    BY <1>10, <2>1, <1>0, AfterDrop DEF ObserveMissing, Drop
<1>11. CASE ObserveImported
  BY <1>11 DEF ObserveImported, BeginRetire, Snapshots, Reported
<1>12. CASE CategoryMove \/ CloseTracked
  BY <1>12 DEF CategoryMove, CloseTracked
<1>13. CASE Retired
  <2>1. item \in Torrents /\ item \notin todo /\ Drop(item, "retired") /\ "retired" \in Left
    BY <1>13, <1>0 DEF Retired, Busy, Left
  <2>2. pc' = back /\ fresh' = fresh \ {item} /\ UNCHANGED <<leg, todo>>
        /\ back \in {"itemsave", "heal", "pass"} /\ pc = "settle"
    BY <1>13 DEF Retired, Drop, AfterRetire, Returned, ItemInHand
  <2> QED
    BY <2>1, <2>2, <1>0, AfterDrop
<1>14. CASE KeptForCleanup
  <2>1. item \in Torrents /\ item \notin todo /\ Put(item, "flagged")
    BY <1>14, <1>0 DEF KeptForCleanup, Busy
  <2>2. pc' = back /\ UNCHANGED <<leg, todo, fresh>>
        /\ back \in {"itemsave", "heal", "pass"} /\ pc = "settle"
    BY <1>14 DEF KeptForCleanup, AfterRetire, Returned, ItemInHand
  <2> QED
    BY <2>1, <2>2, <1>0, AfterPut
<1>15. CASE RetireRaises
  BY <1>15 DEF RetireRaises
<1>16. CASE EndScan
  BY <1>16 DEF EndScan, Flagged
<1>17. ASSUME NEW t \in Torrents, HealFinish(t) \/ RowImported(t) PROVE InLine'
  BY <1>17 DEF HealFinish, RowImported, BeginRetire
<1>18. ASSUME NEW t \in Torrents, HealDemote(t) PROVE InLine'
  BY <1>18, <1>0, AfterPut DEF HealDemote
<1>19. ASSUME NEW t \in Torrents, HealNothing(t) \/ RowLeft(t) PROVE InLine'
  BY <1>19 DEF HealNothing, RowLeft
<1>20. ASSUME NEW t \in Torrents, RowMissing(t) PROVE InLine'
  <2>1. Drop(t, "dropped") /\ "dropped" \in Left
    BY <1>20 DEF RowMissing, Left
  <2> QED
    BY <1>20, <2>1, <1>0, AfterDrop DEF RowMissing
<1>21. CASE BeginPass \/ InterruptPass \/ EndPass
  BY <1>21 DEF BeginPass, InterruptPass, EndPass, Active
<1>22. CASE FinalSave \/ Kill
  BY <1>22 DEF FinalSave, Kill, NoContext
<1> HIDE DEF InLine, Early, HealPhase, PassPhase, Retiring
<1>23. CASE Scan
  BY <1>23, <1>4, <1>5, <1>6, <1>7, <1>8, <1>9, <1>10, <1>11 DEF Scan
<1>24. CASE Retire
  BY <1>24, <1>12, <1>13, <1>14, <1>15 DEF Retire
<1>25. CASE Tail
  BY <1>25, <1>5, <1>16, <1>17, <1>18, <1>19, <1>20, <1>21, <1>22 DEF Tail
<1> QED
  BY <1>1, <1>2, <1>3, <1>22, <1>23, <1>24, <1>25 DEF Next, Run

LEMMA OnceStep ==
  ASSUME TypeOK, ItemInHand, Blank, InLine, Once, Next
  PROVE  Once'
<1>0. leg \in Arrs /\ todo \subseteq Torrents /\ fresh \subseteq Torrents
      /\ (Busy => item \in Torrents /\ item \notin todo)
      /\ attempts \in [Torrents -> Nat]
  BY TypeParts DEF PlaceOK, SetsOK, TallyOK, ItemInHand
\* A step that tries no cleanup keeps what was tried out of its way.
<1>1. ASSUME UNCHANGED attempts, \A u \in Torrents : attempts[u] = 1 => Tried(u)' PROVE Once'
  BY <1>1 DEF Once
<1>2. ASSUME UNCHANGED <<attempts, leg, kept, fresh>>, todo' \subseteq todo, Early' => Early,
             \A u \in Torrents : staged'[leg][u].st = staged[leg][u].st,
             Busy' => (Busy /\ item' = item) \/ item' \in todo \ todo'
      PROVE  Once'
  BY <1>1, <1>2, <1>0 DEF Once, Tried
<1> USE DEF Early, HealPhase, PassPhase, Retiring, Busy
<1>3. CASE World
  BY <1>2, <1>3 DEF World, TorrentMoves, FilesLand, FilesVanish, runVars
<1>4. ASSUME NEW a \in Arrs, NEW t \in Torrents, Ages(a, t) PROVE Once'
  BY <1>0, <1>4, AfterAges, <1>2 DEF Ages, runVars
<1>5. ASSUME NEW a \in Arrs, StartRun(a) PROVE Once'
  BY <1>5 DEF StartRun, Blank, Once
<1>6. ASSUME NEW t \in Torrents, NextItem(t) PROVE Once'
  BY <1>2, <1>6 DEF NextItem
<1>7. CASE NoGrab \/ SkipSnapshot \/ ItemRaises \/ TailStops \/ ObservePending \/ ItemSave
  BY <1>2, <1>7 DEF NoGrab, SkipSnapshot, ItemRaises, TailStops, ObservePending, ItemSave, runVars
<1>8. CASE Prune
  BY <1>8 DEF Prune, runVars, Blank, Once
<1>9. CASE GrabAdded \/ GrabAlreadyAdded \/ HoldCapped
  <2>1. pc = "grab" /\ item \in Torrents /\ attempts[item] # 1
    BY <1>9, <1>0 DEF GrabAdded, GrabAlreadyAdded, HoldCapped, Once, Tried
  <2>2. UNCHANGED <<attempts, leg, kept, todo, item>> /\ pc' = "snapshot"
        /\ fresh' \subseteq fresh \cup {item}
    BY <1>9 DEF GrabAdded, GrabAlreadyAdded, HoldCapped, Claim
  <2>3. \A u \in Torrents \ {item} :
          staged'[leg][u] = staged[leg][u]
    <3>1. CASE GrabAdded
      BY <3>1, <2>1, <1>0, AfterAdded
    <3>2. CASE GrabAlreadyAdded \/ HoldCapped
      BY <3>2, <2>1, <1>0, AfterReclaim, AfterClaim
    <3> QED
      BY <1>9, <3>1, <3>2
  <2> QED
    BY <1>1, <2>1, <2>2, <2>3 DEF Once, Tried
<1>10. CASE ObserveMissing
  <2>1. item \in Torrents /\ Drop(item, "dropped") /\ "dropped" \in Left /\ attempts[item] # 1
    BY <1>10, <1>0 DEF ObserveMissing, Left, Once, Tried
  <2>2. \A u \in Torrents \ {item} : staged'[leg][u] = staged[leg][u]
    BY <2>1, <1>0, AfterDrop
  <2>3. UNCHANGED <<attempts, leg, kept, todo, item>> /\ pc' = "itemsave" /\ fresh' \subseteq fresh
        /\ pc = "snapshot"
    BY <1>10 DEF ObserveMissing, Drop
  <2> QED
    BY <1>1, <2>1, <2>2, <2>3 DEF Once, Tried
<1>11. CASE ObserveImported
  BY <1>2, <1>11 DEF ObserveImported, BeginRetire
<1>12. CASE CategoryMove \/ CloseTracked
  BY <1>2, <1>12 DEF CategoryMove, CloseTracked
<1>13. CASE Retired \/ KeptForCleanup
  <2>1. item \in Torrents /\ item \notin todo /\ attempts[item] # 1 /\ pc = "settle"
    BY <1>13, <1>0 DEF Retired, KeptForCleanup, Once, Tried
  <2>2. attempts' = [attempts EXCEPT ![item] = @ + 1] /\ pc' = back /\ UNCHANGED <<leg, todo>>
        /\ back \in {"itemsave", "heal", "pass"}
    BY <1>13 DEF Retired, KeptForCleanup, AfterRetire, Returned, ItemInHand
  <2>3. attempts'[item] = 1 /\ \A u \in Torrents \ {item} : attempts'[u] = attempts[u]
    BY <2>1, <2>2, <1>0 DEF Once
  <2>4. \A u \in Torrents \ {item} : staged'[leg][u] = staged[leg][u]
    <3>1. CASE Retired
      BY <3>1, <2>1, <1>0, AfterDrop DEF Retired, Left
    <3>2. CASE KeptForCleanup
      BY <3>2, <2>1, <1>0, AfterPut DEF KeptForCleanup
    <3> QED
      BY <1>13, <3>1, <3>2
  <2>5. kept \subseteq kept' /\ fresh' \subseteq fresh
    BY <1>13 DEF Retired, KeptForCleanup, Drop
  <2>6. ASSUME NEW u \in Torrents \ {item}, attempts[u] = 1 PROVE Tried(u)'
    BY <2>1, <2>2, <2>4, <2>5, <2>6 DEF Once, Tried
  <2>7. ASSUME NEW u \in Torrents, u = item PROVE Tried(u)'
    <3>1. CASE Retired
      <4>1. staged'[leg][item] = NoRow("retired") /\ item \notin fresh'
        BY <3>1, <2>1, <1>0, AfterDrop DEF Retired, Left, Drop
      <4> QED
        BY <4>1, <2>1, <2>2, <2>7 DEF Tried, NoRow
    <3>2. CASE KeptForCleanup
      <4>1. staged'[leg][item].st = "flagged" /\ item \in kept' /\ fresh' = fresh
        BY <3>2, <2>1, <1>0, AfterPut DEF KeptForCleanup
      <4>2. Early' => item \notin fresh
        BY <2>1, <2>2 DEF InLine
      <4> QED
        BY <4>1, <4>2, <2>1, <2>2, <2>7 DEF Tried
    <3> QED
      BY <1>13, <3>1, <3>2
  <2>8. \A u \in Torrents : attempts'[u] \in {0, 1} /\ (attempts'[u] = 1 => Tried(u)')
    BY <2>3, <2>6, <2>7 DEF Once
  <2> QED
    BY <2>8 DEF Once
<1>14. CASE RetireRaises
  BY <1>2, <1>14 DEF RetireRaises
<1>15. CASE EndScan
  BY <1>1, <1>15 DEF EndScan, Flagged, Once, Tried
<1>16. ASSUME NEW t \in Torrents, HealFinish(t) \/ RowImported(t) PROVE Once'
  BY <1>2, <1>16 DEF HealFinish, RowImported, BeginRetire
<1>17. ASSUME NEW t \in Torrents, HealDemote(t) PROVE Once'
  <2>1. attempts[t] # 1 /\ UNCHANGED <<attempts, leg, kept, fresh, item, pc>> /\ todo' = todo \ {t}
    BY <1>17 DEF HealDemote, Once, Tried
  <2>2. \A u \in Torrents \ {t} : staged'[leg][u] = staged[leg][u]
    BY <1>17, <1>0, AfterPut DEF HealDemote
  <2>3. pc = "heal"
    BY <1>17 DEF HealDemote
  <2> QED
    BY <1>1, <2>1, <2>2, <2>3 DEF Once, Tried
<1>18. ASSUME NEW t \in Torrents, HealNothing(t) \/ RowLeft(t) PROVE Once'
  BY <1>2, <1>18 DEF HealNothing, RowLeft
<1>19. ASSUME NEW t \in Torrents, RowMissing(t) PROVE Once'
  <2>1. Drop(t, "dropped") /\ "dropped" \in Left /\ attempts[t] # 1 /\ pc = "pass"
    BY <1>19 DEF RowMissing, Left, Once, Tried
  <2>2. UNCHANGED <<attempts, leg, kept, item, pc>> /\ todo' = todo \ {t} /\ fresh' \subseteq fresh
    BY <1>19 DEF RowMissing, Drop
  <2>3. \A u \in Torrents \ {t} : staged'[leg][u] = staged[leg][u]
    BY <2>1, <1>0, AfterDrop
  <2> QED
    BY <1>1, <2>1, <2>2, <2>3 DEF Once, Tried
<1>20. CASE BeginPass
  BY <1>1, <1>20 DEF BeginPass, Active, Once, Tried
<1>21. CASE InterruptPass \/ EndPass
  BY <1>2, <1>21 DEF InterruptPass, EndPass
<1>22. CASE FinalSave \/ Kill
  BY <1>22 DEF FinalSave, Kill, NoContext, Once
<1> HIDE DEF Early, HealPhase, PassPhase, Retiring, Busy
<1>23. CASE Scan
  BY <1>23, <1>6, <1>7, <1>8, <1>9, <1>10, <1>11 DEF Scan
<1>24. CASE Retire
  BY <1>24, <1>12, <1>13, <1>14 DEF Retire
<1>25. CASE Tail
  BY <1>25, <1>7, <1>15, <1>16, <1>17, <1>18, <1>19, <1>20, <1>21, <1>22 DEF Tail
<1> QED
  BY <1>3, <1>4, <1>5, <1>22, <1>23, <1>24, <1>25 DEF Next, Run

-----------------------------------------------------------------------------
(* Counts.                                                                   *)

\* A row no more countable than one the store held.
FromOld(row, a, u) ==
  \/ row.claim = 0 /\ row.st # "active"
  \/ \E old \in {staged[a][u], durable[a][u]} :
       row.claim = old.claim /\ (row.st = "active" => old.st = "active")

Credits == CountedOnce /\ Bounded /\ Uncounted(staged) /\ Uncounted(durable)

LEMMA CountNumbers ==
  ASSUME TypeOK
  PROVE  /\ grabs \in Nat /\ leg \in Arrs
         /\ \A a \in Arrs, u \in Torrents :
              /\ landed[a][u] \in Nat /\ credit[a][u] \in Nat
              /\ staged[a][u].claim \in Nat /\ durable[a][u].claim \in Nat
<1>1. grabs \in 0..MaxGrabs /\ MaxGrabs \in Nat /\ leg \in Arrs
  BY TypeParts, PendingImportsAssumption DEF CountOK, PlaceOK, PendingImportsAssumption
<1>2. ASSUME NEW a \in Arrs, NEW u \in Torrents
      PROVE  staged[a][u].claim \in 0..MaxGrabs /\ durable[a][u].claim \in 0..MaxGrabs
  <2>1. staged[a][u] \in Row /\ durable[a][u] \in Row
    BY TypeParts DEF StoreOK
  <2> QED
    BY <2>1, RowsMade
<1>3. ASSUME NEW a \in Arrs, NEW u \in Torrents
      PROVE  landed[a][u] \in 0..MaxGrabs /\ credit[a][u] \in Nat
  BY TypeParts DEF CountOK
<1>4. 0..MaxGrabs \subseteq Nat
  BY <1>1
<1> QED
  BY <1>1, <1>2, <1>3, <1>4

LEMMA CreditsKept ==
  ASSUME TypeOK, Credits, UNCHANGED <<landed, credit, grabs>>,
         \A a \in Arrs, u \in Torrents :
           FromOld(staged'[a][u], a, u) /\ FromOld(durable'[a][u], a, u)
  PROVE  Credits'
<1> SUFFICES ASSUME NEW a \in Arrs, NEW u \in Torrents
             PROVE  /\ credit'[a][u] <= 1
                    /\ landed'[a][u] <= grabs' /\ staged'[a][u].claim <= grabs'
                    /\ durable'[a][u].claim <= grabs'
                    /\ credit'[a][u] = 1 /\ staged'[a][u].st = "active"
                         => landed'[a][u] < staged'[a][u].claim
                    /\ credit'[a][u] = 1 /\ durable'[a][u].st = "active"
                         => landed'[a][u] < durable'[a][u].claim
  BY DEF Credits, CountedOnce, Bounded, Uncounted
<1>1. /\ credit[a][u] <= 1 /\ landed[a][u] <= grabs /\ grabs \in Nat
      /\ \A old \in {staged[a][u], durable[a][u]} :
           old.claim <= grabs
           /\ (credit[a][u] = 1 /\ old.st = "active" => landed[a][u] < old.claim)
  BY CountNumbers DEF Credits, CountedOnce, Bounded, Uncounted
<1>2. ASSUME NEW row, FromOld(row, a, u)
      PROVE  row.claim <= grabs /\ (credit[a][u] = 1 /\ row.st = "active" => landed[a][u] < row.claim)
  BY <1>1, <1>2 DEF FromOld
<1> QED
  BY <1>1, <1>2

LEMMA CreditsStep ==
  ASSUME TypeOK, ItemInHand, Once, Tallies, Credits, Next
  PROVE  Credits'
<1>0. leg \in Arrs /\ (Busy => item \in Torrents)
  BY TypeParts DEF PlaceOK, ItemInHand
<1>1. CASE Quiet \/ (\E t \in Torrents : TorrentMoves(t)) \/ CategoryMove \/ CloseTracked
  <2>1. UNCHANGED <<landed, credit, grabs, staged, durable>>
    BY <1>1, QuietStep DEF TorrentMoves, CategoryMove, CloseTracked, worldVars, bounds
  <2> QED
    BY <2>1, CreditsKept DEF FromOld
<1>2. CASE ItemSave \/ Kill
  <2>1. UNCHANGED <<landed, credit, grabs>> /\ staged' \in {staged, durable} /\ durable' \in {staged, durable}
    BY <1>2 DEF ItemSave, Kill, worldVars, bounds
  <2> QED
    BY <2>1, CreditsKept DEF FromOld
<1>3. CASE Prune
  <2>1. UNCHANGED <<landed, credit, grabs>>
    BY <1>3 DEF Prune, worldVars, bounds
  <2>2. NoRow("dropped").claim = 0 /\ NoRow("dropped").st # "active"
    BY DEF NoRow
  <2> QED
    BY <1>3, <2>1, <2>2, AfterPrune, CreditsKept DEF FromOld
<1>4. ASSUME NEW a \in Arrs, NEW t \in Torrents, Ages(a, t) PROVE Credits'
  <2>1. UNCHANGED <<landed, credit, grabs>>
    BY <1>4 DEF Ages, worldVars, bounds
  <2> QED
    BY <1>4, <2>1, AfterAges, CreditsKept DEF FromOld
<1>5. ASSUME NEW t \in Torrents, NEW how \in Left, Drop(t, how),
             UNCHANGED <<landed, credit, grabs, durable>>
      PROVE  Credits'
  <2>1. NoRow(how).claim = 0 /\ NoRow(how).st # "active"
    BY DEF NoRow, Left
  <2> QED
    BY <1>5, <2>1, AfterDrop, CreditsKept DEF FromOld
<1>6. CASE ObserveMissing \/ Retired
  BY <1>0, <1>5, <1>6 DEF ObserveMissing, Retired, Left, Busy, Retiring, worldVars, bounds
<1>7. ASSUME NEW t \in Torrents, RowMissing(t) PROVE Credits'
  BY <1>5, <1>7 DEF RowMissing, Left, worldVars, bounds
<1>8. CASE KeptForCleanup
  <2>1. item \in Torrents /\ Put(item, "flagged") /\ UNCHANGED <<landed, credit, grabs, durable>>
    BY <1>0, <1>8 DEF KeptForCleanup, Busy, Retiring, worldVars, bounds
  <2> QED
    BY <2>1, AfterPut, CreditsKept DEF FromOld
<1>9. ASSUME NEW t \in Torrents, HealDemote(t) PROVE Credits'
  <2>1. Put(t, "active") /\ UNCHANGED <<landed, credit, grabs, durable>>
        /\ ~(landed[leg][t] >= staged[leg][t].claim)
    BY <1>9 DEF HealDemote, AllLanded, worldVars, bounds
  <2> QED
    BY <2>1, <1>0, AfterPut, CountNumbers DEF Credits, CountedOnce, Bounded, Uncounted
<1>10. CASE GrabAdded
  <2>1. item \in Torrents /\ UNCHANGED <<landed, credit>> /\ grabs' = grabs + 1
    BY <1>0, <1>10 DEF GrabAdded, Busy
  <2>2. NoRow("never").claim = 0 /\ NoRow("never").st # "active"
    BY DEF NoRow
  <2> QED
    BY <1>0, <1>10, <2>1, <2>2, AfterAdded, CountNumbers DEF Credits, CountedOnce, Bounded, Uncounted
<1>11. CASE GrabAlreadyAdded \/ HoldCapped
  <2>1. item \in Torrents
    BY <1>0, <1>11 DEF GrabAlreadyAdded, HoldCapped, Busy
  <2>2. PICK old \in BOOLEAN : Claim(old) /\ UNCHANGED durable
    BY <1>11, <2>1, AfterReclaim
  <2>3. UNCHANGED <<landed, credit>> /\ grabs' = grabs + 1
    BY <2>2 DEF Claim
  <2> QED
    BY <1>0, <2>1, <2>2, <2>3, AfterClaim, CountNumbers DEF Credits, CountedOnce, Bounded, Uncounted
<1>12. ASSUME NEW a \in Arrs, NEW t \in Torrents, FilesLand(a, t) PROVE Credits'
  <2>1. /\ landed'[a][t] = staged[a][t].claim /\ credit'[a][t] = 0
        /\ \A b \in Arrs, u \in Torrents : ~(b = a /\ u = t) =>
             landed'[b][u] = landed[b][u] /\ credit'[b][u] = credit[b][u]
        /\ UNCHANGED <<staged, durable, grabs>>
    BY <1>12, TypeParts DEF FilesLand, CountOK, bounds
  <2> QED
    BY <2>1, CountNumbers DEF Credits, CountedOnce, Bounded, Uncounted
<1>13. ASSUME NEW a \in Arrs, NEW t \in Torrents, FilesVanish(a, t) PROVE Credits'
  <2>1. /\ landed'[a][t] = 0
        /\ \A b \in Arrs, u \in Torrents : ~(b = a /\ u = t) => landed'[b][u] = landed[b][u]
        /\ UNCHANGED <<staged, durable, credit, grabs>>
    BY <1>13, TypeParts DEF FilesVanish, CountOK, bounds
  <2> QED
    BY <2>1, CountNumbers DEF Credits, CountedOnce, Bounded, Uncounted
<1>14. CASE FinalSave
  <2>1. /\ \A u \in Torrents : credit'[leg][u] = credit[leg][u] + tally[u]
        /\ \A b \in Arrs, u \in Torrents : b # leg => credit'[b][u] = credit[b][u]
        /\ UNCHANGED <<landed, staged, grabs>> /\ durable' = staged
    BY <1>14, <1>0, TypeParts DEF FinalSave, CountOK, worldVars, bounds
  <2>2. \A u \in Torrents : tally[u] = 0 \/
          (tally[u] = 1 /\ credit[leg][u] = 0 /\ staged[leg][u].st # "active")
    BY DEF Tallies, Counted, Once, Tried
  <2> QED
    BY <2>1, <2>2, CountNumbers DEF Credits, CountedOnce, Bounded, Uncounted
<1>15. CASE World
  <2>1. ASSUME NEW a \in Arrs, NEW t \in Torrents, FilesLand(a, t) \/ FilesVanish(a, t) PROVE Credits'
    BY <2>1, <1>12, <1>13
  <2> QED
    BY <1>15, <1>1, <2>1 DEF World
<1>16. CASE Scan
  BY <1>16, <1>1, <1>2, <1>3, <1>6, <1>10, <1>11 DEF Scan, Quiet
<1>17. CASE Retire
  BY <1>17, <1>1, <1>6, <1>8 DEF Retire, Quiet
<1>18. CASE Tail
  BY <1>18, <1>1, <1>7, <1>9, <1>14 DEF Tail, Quiet
<1>19. ASSUME NEW a \in Arrs, StartRun(a) PROVE Credits'
  BY <1>19, <1>1 DEF Quiet
<1> QED
  BY <1>2, <1>4, <1>15, <1>16, <1>17, <1>18, <1>19 DEF Next, Run

LEMMA VerifiedStep ==
  ASSUME TypeOK, ItemInHand, InLine, Verified, Next
  PROVE  Verified'
<1> USE DEF Verified, Retiring, AllLanded
<1>1. ASSUME NEW a \in Arrs, NEW t \in Torrents, FilesLand(a, t) PROVE Verified'
  <2>1. /\ landed'[a][t] = staged[a][t].claim
        /\ \A b \in Arrs, u \in Torrents : ~(b = a /\ u = t) => landed'[b][u] = landed[b][u]
        /\ UNCHANGED <<staged, pc, runVars>>
    BY <1>1, TypeParts DEF FilesLand, CountOK
  <2>2. leg \in Arrs /\ (Retiring => item \in Torrents)
    BY TypeParts DEF PlaceOK, ItemInHand, Busy
  <2>3. landed'[leg][item] = landed[leg][item] \/ landed'[leg][item] = staged[leg][item].claim
        \/ ~Retiring
    BY <2>1, <2>2
  <2>4. Retiring => staged[leg][item].claim \in Nat
    BY <2>2, CountNumbers
  <2> QED
    BY <2>1, <2>3, <2>4 DEF runVars
<1>2. ASSUME NEW a \in Arrs, NEW t \in Torrents, FilesVanish(a, t) \/ Ages(a, t) PROVE Verified'
  BY <1>2 DEF FilesVanish, Ages
<1>3. ASSUME NEW t \in Torrents, TorrentMoves(t) PROVE Verified'
  BY <1>3 DEF TorrentMoves, runVars
<1>4. CASE ObserveImported
  BY <1>4 DEF ObserveImported, BeginRetire, Snapshots, worldVars
<1>5. ASSUME NEW t \in Torrents, HealFinish(t) \/ RowImported(t) PROVE Verified'
  BY <1>5 DEF HealFinish, RowImported, BeginRetire, InLine, PassPhase, worldVars
<1>6. CASE CategoryMove \/ CloseTracked
  BY <1>6 DEF CategoryMove, CloseTracked
<1>7. CASE Scan /\ ~ObserveImported
  BY <1>7 DEF Scan, Prune, NextItem, GrabAdded, GrabAlreadyAdded, HoldCapped, Claim, NoGrab,
              SkipSnapshot, ObservePending, ObserveMissing, ItemRaises, ItemSave
<1>8. CASE Retired \/ KeptForCleanup \/ RetireRaises
  BY <1>8 DEF Retired, KeptForCleanup, RetireRaises, AfterRetire, Returned, ItemInHand
<1>9. CASE EndScan \/ BeginPass \/ InterruptPass \/ EndPass \/ TailStops \/ FinalSave \/ Kill
  BY <1>9 DEF EndScan, BeginPass, InterruptPass, EndPass, TailStops, FinalSave, Kill
<1>10. ASSUME NEW t \in Torrents, HealDemote(t) \/ HealNothing(t) \/ RowMissing(t) \/ RowLeft(t)
       PROVE  Verified'
  BY <1>10 DEF HealDemote, HealNothing, RowMissing, RowLeft
<1>11. ASSUME NEW a \in Arrs, StartRun(a) PROVE Verified'
  BY <1>11 DEF StartRun
<1> HIDE DEF Verified, Retiring, AllLanded
<1>12. CASE World
  <2>1. ASSUME NEW a \in Arrs, NEW t \in Torrents, FilesLand(a, t) \/ FilesVanish(a, t) PROVE Verified'
    BY <2>1, <1>1, <1>2
  <2> QED
    BY <1>12, <1>3, <2>1 DEF World
<1> QED
  BY <1>2, <1>4, <1>5, <1>6, <1>7, <1>8, <1>9, <1>10, <1>11, <1>12 DEF Next, Run, Retire, Tail

\* The run's tallies and what its retires counted, between the passes.
TallyOf(t) ==
  /\ pc # "finalsave" /\ ~PassPhase => tally[t] = 0
  /\ PassPhase => tally[t] = IF Waits /\ states[t] = "imported" THEN 1 ELSE 0
  /\ results[t] \in {0, 1} /\ tally[t] \in {0, 1}
  /\ results[t] = 1 => states[t] # "imported"
  /\ Counted(t) => attempts[t] = 1 /\ credit[leg][t] = 0

LEMMA TalliesByTorrent == Tallies <=> \A t \in Torrents : TallyOf(t)
  BY DEF Tallies, TallyOf

LEMMA TalliesByTorrentNext == Tallies' <=> \A t \in Torrents : TallyOf(t)'
  BY DEF Tallies, TallyOf

LEMMA TalliesStep ==
  ASSUME TypeOK, ItemInHand, Blank, InLine, Once, Credits, Verified, Tallies, Next
  PROVE  Tallies'
<1> SUFFICES ASSUME NEW u \in Torrents PROVE TallyOf(u)'
  BY TalliesByTorrentNext
<1>0. /\ TallyOf(u) /\ attempts[u] \in {0, 1} /\ leg \in Arrs /\ (u \in todo => attempts[u] # 1)
      /\ (Busy => item \in Torrents) /\ states \in [Torrents -> States]
  BY TalliesByTorrent, TypeParts DEF Once, Tried, PlaceOK, SetsOK, ItemInHand
<1> USE DEF TallyOf, Counted, Waits, PassPhase, Retiring
<1>1. ASSUME NEW a \in Arrs, NEW t \in Torrents, FilesLand(a, t) PROVE TallyOf(u)'
  <2>1. UNCHANGED <<pc, runVars>> /\ (credit'[leg][u] = credit[leg][u] \/ credit'[leg][u] = 0)
    BY <1>1, <1>0, TypeParts DEF FilesLand, CountOK
  <2> QED
    BY <2>1, <1>0 DEF runVars
<1>2. ASSUME NEW a \in Arrs, NEW t \in Torrents, FilesVanish(a, t) \/ Ages(a, t) PROVE TallyOf(u)'
  BY <1>2, <1>0 DEF FilesVanish, Ages, runVars
<1>3. ASSUME NEW t \in Torrents, TorrentMoves(t) PROVE TallyOf(u)'
  BY <1>3, <1>0 DEF TorrentMoves, runVars
<1>4. ASSUME NEW a \in Arrs, StartRun(a) PROVE TallyOf(u)'
  BY <1>4, <1>0 DEF StartRun, Blank
<1>5. CASE Prune \/ NoGrab \/ SkipSnapshot \/ ItemRaises
  BY <1>5, <1>0 DEF Prune, NoGrab, SkipSnapshot, ItemRaises, runVars
<1>6. CASE GrabAdded \/ GrabAlreadyAdded \/ HoldCapped
  BY <1>6, <1>0 DEF GrabAdded, GrabAlreadyAdded, HoldCapped, Claim
<1>7. CASE ObservePending \/ ObserveMissing
  <2>1. states'[u] = states[u] \/ states'[u] = "seen"
    BY <1>7, <1>0 DEF ObservePending, ObserveMissing
  <2> QED
    BY <1>7, <1>0, <2>1 DEF ObservePending, ObserveMissing
<1>8. CASE ObserveImported \/ ItemSave \/ (\E t \in Torrents : NextItem(t))
  BY <1>8, <1>0 DEF ObserveImported, ItemSave, NextItem, BeginRetire
<1>9. CASE CategoryMove \/ CloseTracked
  BY <1>9, <1>0 DEF CategoryMove, CloseTracked
<1>10. CASE Retired \/ KeptForCleanup
  <2>1. /\ pc = "settle" /\ item \in Torrents /\ pc' = back /\ back \in {"itemsave", "heal", "pass"}
        /\ UNCHANGED <<leg, mode, tally, credit>>
    BY <1>10, <1>0 DEF Retired, KeptForCleanup, AfterRetire, Returned, ItemInHand, Busy
  <2>2. /\ states' = [states EXCEPT ![item] = IF back = "itemsave" THEN "imported" ELSE @]
        /\ results' = [results EXCEPT ![item] = IF back = "pass" /\ item \notin fresh THEN @ + 1 ELSE @]
        /\ attempts' = [attempts EXCEPT ![item] = @ + 1]
    BY <1>10 DEF Retired, KeptForCleanup, AfterRetire
  <2>3. states \in [Torrents -> States] /\ results \in [Torrents -> Nat] /\ attempts \in [Torrents -> Nat]
    BY TypeParts DEF SetsOK, TallyOK
  <2>4. CASE u # item
    <3>1. states'[u] = states[u] /\ results'[u] = results[u] /\ attempts'[u] = attempts[u]
      BY <2>1, <2>2, <2>3, <2>4
    <3> QED
      BY <3>1, <2>1, <1>0
  <2>5. CASE u = item
    <3>1. attempts[u] = 0
      BY <2>1, <2>5, <1>0 DEF Once, Tried, Busy
    <3>2. results[u] = 0 /\ states[u] # "imported" /\ tally[u] = 0
      BY <3>1, <1>0
    <3>3. attempts'[u] = 1
      BY <2>2, <2>3, <2>5, <3>1
    <3>4. /\ states'[u] = (IF back = "itemsave" THEN "imported" ELSE states[u])
          /\ results'[u] = IF back = "pass" /\ u \notin fresh THEN 1 ELSE 0
      BY <2>2, <2>3, <2>5, <3>2
    <3>5. back # "heal" => credit[leg][u] = 0
      <4>1. back # "heal" => staged[leg][u].st = "active" /\ landed[leg][u] >= staged[leg][u].claim
        BY <2>1, <2>5 DEF Verified, AllLanded
      <4> QED
        BY <4>1, <1>0, CountNumbers DEF Credits, CountedOnce, Uncounted
    <3> QED
      BY <2>1, <3>2, <3>3, <3>4, <3>5
  <2> QED
    BY <2>4, <2>5
<1>11. CASE RetireRaises
  BY <1>11, <1>0 DEF RetireRaises
<1>12. CASE EndScan \/ InterruptPass
  BY <1>12, <1>0 DEF EndScan, InterruptPass
<1>13. ASSUME NEW t \in Torrents, HealFinish(t) \/ HealNothing(t) \/ RowImported(t) \/ RowMissing(t)
       PROVE  TallyOf(u)'
  BY <1>13, <1>0 DEF HealFinish, HealNothing, RowImported, RowMissing, BeginRetire
<1>14. ASSUME NEW t \in Torrents, HealDemote(t) \/ RowLeft(t) PROVE TallyOf(u)'
  <2>1. states'[u] = states[u] \/ (u = t /\ states'[u] = "seen")
    BY <1>14, <1>0 DEF HealDemote, RowLeft
  <2>2. t \in todo /\ UNCHANGED <<pc, leg, mode, back, results, tally, attempts, credit>>
    BY <1>14 DEF HealDemote, RowLeft
  <2> QED
    BY <1>0, <2>1, <2>2
<1>15. CASE BeginPass
  <2>1. tally'[u] = (IF Waits THEN (IF states[u] = "imported" THEN 1 ELSE 0) ELSE tally[u])
    BY <1>15 DEF BeginPass, SnapshotImports
  <2> QED
    BY <1>15, <1>0, <2>1 DEF BeginPass
<1>16. CASE EndPass
  <2>1. tally'[u] = tally[u] + results[u] + IF Waits THEN 0 ELSE (IF states[u] = "imported" THEN 1 ELSE 0)
    BY <1>16 DEF EndPass, SnapshotImports
  <2> QED
    BY <1>16, <1>0, <2>1 DEF EndPass
<1>17. CASE TailStops
  BY <1>17, <1>0 DEF TailStops, runVars
<1>18. CASE FinalSave \/ Kill
  BY <1>18, <1>0 DEF FinalSave, Kill, NoContext
<1> HIDE DEF TallyOf, Counted, Waits, PassPhase, Retiring
<1>19. CASE World
  <2>1. ASSUME NEW a \in Arrs, NEW t \in Torrents, FilesLand(a, t) \/ FilesVanish(a, t) PROVE TallyOf(u)'
    BY <2>1, <1>1, <1>2
  <2> QED
    BY <1>19, <1>3, <2>1 DEF World
<1>20. CASE Scan
  BY <1>20, <1>5, <1>6, <1>7, <1>8 DEF Scan
<1>21. CASE Retire
  BY <1>21, <1>9, <1>10, <1>11 DEF Retire
<1>22. CASE Tail
  BY <1>22, <1>12, <1>13, <1>14, <1>15, <1>16, <1>17, <1>18 DEF Tail
<1> QED
  BY <1>2, <1>4, <1>18, <1>19, <1>20, <1>21, <1>22 DEF Next, Run

-----------------------------------------------------------------------------
(* Effects.                                                                  *)

SettledAt(rows, t) ==
  /\ RetiredIn(rows, t) /\ torrent[t] # "absent" /\ CategoryArrs = Arrs => moved[t]
  /\ RetiredIn(rows, t) /\ rows[Sonarr][t].st = "retired" /\ torrent[t] # "absent" => ~entry[t]
  /\ rows[Sonarr][t].st = "retired" /\ ~Untracked => ~entry[t]

\* The world goes on, and no row of the torrent says retired that did not.
LEMMA SettledKept ==
  ASSUME NEW t \in Torrents, NEW rows, SettledAt(rows, t), UNCHANGED untracks,
         torrent[t] = "absent" => torrent'[t] = "absent",
         moved[t] => moved'[t] \/ torrent'[t] = "absent",
         entry'[t] => entry[t],
         NEW new,
         \A a \in Arrs : new[a][t].st \in {"never", "retired"} => new[a][t].st = rows[a][t].st
  PROVE  /\ RetiredIn(new, t) /\ torrent'[t] # "absent" /\ CategoryArrs = Arrs => moved'[t]
         /\ RetiredIn(new, t) /\ new[Sonarr][t].st = "retired" /\ torrent'[t] # "absent" => ~entry'[t]
         /\ new[Sonarr][t].st = "retired" /\ ~Untracked' => ~entry'[t]
<1>1. RetiredIn(new, t) => RetiredIn(rows, t)
  BY DEF RetiredIn
<1>2. new[Sonarr][t].st = "retired" => rows[Sonarr][t].st = "retired"
  BY PendingImportsAssumption DEF PendingImportsAssumption
<1>3. Untracked' = Untracked
  BY DEF Untracked
<1> QED
  BY <1>1, <1>2, <1>3 DEF SettledAt

Settled(t) == SettledAt(staged, t) /\ SettledAt(durable, t)

LEMMA SettledByTorrent ==
  /\ SettledInv <=> (\A t \in Torrents : Settled(t)) /\ Effects
  /\ SettledInv' <=> (\A t \in Torrents : Settled(t)') /\ Effects'
<1>1. SettledInv <=> (\A t \in Torrents : Settled(t)) /\ Effects
  BY DEF SettledInv, SettledIn, SettledAt, Settled
<1>2. SettledInv' <=> (\A t \in Torrents : Settled(t)') /\ Effects'
  BY DEF SettledInv, SettledIn, SettledAt, Settled, RetiredIn
<1> QED
  BY <1>1, <1>2

\* A step of the world or of a retire leaves the rows; a step of the store leaves the world.
LEMMA SettledRows ==
  ASSUME NEW t \in Torrents, Settled(t), UNCHANGED untracks,
         torrent[t] = "absent" => torrent'[t] = "absent",
         moved[t] => moved'[t] \/ torrent'[t] = "absent",
         entry'[t] => entry[t],
         \E rows \in {staged, durable} : \A a \in Arrs :
           staged'[a][t].st \in {"never", "retired"} => staged'[a][t].st = rows[a][t].st,
         \E rows \in {staged, durable} : \A a \in Arrs :
           durable'[a][t].st \in {"never", "retired"} => durable'[a][t].st = rows[a][t].st
  PROVE  Settled(t)'
<1>1. PICK rows \in {staged, durable} : \A a \in Arrs :
        staged'[a][t].st \in {"never", "retired"} => staged'[a][t].st = rows[a][t].st
  OBVIOUS
<1>2. PICK saved \in {staged, durable} : \A a \in Arrs :
        durable'[a][t].st \in {"never", "retired"} => durable'[a][t].st = saved[a][t].st
  OBVIOUS
<1>3. SettledAt(rows, t) /\ SettledAt(saved, t)
  BY DEF Settled
<1>4. /\ RetiredIn(staged', t) /\ torrent'[t] # "absent" /\ CategoryArrs = Arrs => moved'[t]
      /\ RetiredIn(staged', t) /\ staged'[Sonarr][t].st = "retired" /\ torrent'[t] # "absent" => ~entry'[t]
      /\ staged'[Sonarr][t].st = "retired" /\ ~Untracked' => ~entry'[t]
  BY <1>1, <1>3, SettledKept
<1>5. /\ RetiredIn(durable', t) /\ torrent'[t] # "absent" /\ CategoryArrs = Arrs => moved'[t]
      /\ RetiredIn(durable', t) /\ durable'[Sonarr][t].st = "retired" /\ torrent'[t] # "absent" => ~entry'[t]
      /\ durable'[Sonarr][t].st = "retired" /\ ~Untracked' => ~entry'[t]
  BY <1>2, <1>3, SettledKept
<1> QED
  BY <1>4, <1>5 DEF Settled, SettledAt, RetiredIn

LEMMA SettledStep ==
  ASSUME UntrackingArrs, TypeOK, ItemInHand, Next, SettledInv
  PROVE  \A u \in Torrents : Settled(u)'
<1> SUFFICES ASSUME NEW u \in Torrents PROVE Settled(u)'
  OBVIOUS
<1>0. /\ Settled(u) /\ Effects /\ leg \in Arrs /\ (Busy => item \in Torrents)
      /\ entry \in [Torrents -> BOOLEAN] /\ torrent \in [Torrents -> {"absent", "downloading", "complete"}]
      /\ moved \in [Torrents -> BOOLEAN]
  BY SettledByTorrent, TypeParts DEF PlaceOK, WorldOK, ItemInHand
<1>1. ASSUME UNCHANGED <<worldVars, untracks>>,
             \A a \in Arrs : staged'[a][u].st = staged[a][u].st
                             \/ staged'[a][u].st \notin {"never", "retired"},
             UNCHANGED durable \/ durable' = staged'
      PROVE  Settled(u)'
  BY <1>0, <1>1, SettledRows DEF worldVars
<1>2. ASSUME UNCHANGED <<staged, durable, untracks>>,
             torrent[u] = "absent" => torrent'[u] = "absent",
             moved[u] => moved'[u] \/ torrent'[u] = "absent",
             entry'[u] => entry[u]
      PROVE  Settled(u)'
  BY <1>0, <1>2, SettledRows
<1>3. CASE Quiet
  BY <1>1, <1>3, QuietStep DEF bounds
<1>4. ASSUME NEW t \in Torrents, TorrentMoves(t) PROVE Settled(u)'
  BY <1>0, <1>2, <1>4 DEF TorrentMoves, bounds
<1>5. ASSUME NEW a \in Arrs, NEW t \in Torrents, FilesLand(a, t) \/ FilesVanish(a, t) PROVE Settled(u)'
  BY <1>0, <1>2, <1>5 DEF FilesLand, FilesVanish, bounds
<1>6. ASSUME NEW a \in Arrs, NEW t \in Torrents, Ages(a, t) PROVE Settled(u)'
  <2>1. UNCHANGED <<worldVars, untracks>>
    BY <1>6 DEF Ages, bounds
  <2> QED
    BY <1>0, <1>6, <2>1, AfterAges, SettledRows DEF worldVars
<1>7. CASE CategoryMove
  <2>1. UNCHANGED <<staged, durable, untracks, torrent>>
    BY <1>7 DEF CategoryMove, bounds
  <2>2. moved[u] => moved'[u] \/ torrent[u] = "absent"
    BY <1>0, <1>7 DEF CategoryMove
  <2>3. entry'[u] => entry[u]
    BY <1>0, <1>7 DEF CategoryMove
  <2> QED
    BY <1>2, <2>1, <2>2, <2>3
<1>8. CASE CloseTracked
  <2>1. UNCHANGED <<staged, durable, untracks, torrent, moved>> /\ (entry'[u] => entry[u])
    BY <1>0, <1>8 DEF CloseTracked, bounds
  <2> QED
    BY <1>2, <2>1
<1>9. CASE ItemSave \/ FinalSave \/ Kill
  <2>1. UNCHANGED <<worldVars, untracks>>
        /\ staged' \in {staged, durable} /\ durable' \in {staged, durable}
    BY <1>9 DEF ItemSave, FinalSave, Kill, bounds
  <2> QED
    BY <1>0, <2>1, SettledRows DEF worldVars
<1>10. CASE Prune
  <2>1. UNCHANGED <<worldVars, untracks>> /\ NoRow("dropped").st = "dropped"
    BY <1>10 DEF Prune, bounds, NoRow
  <2> QED
    BY <1>1, <1>10, <2>1, AfterPrune
<1>11. ASSUME NEW t \in Torrents, Drop(t, "dropped"), UNCHANGED <<worldVars, untracks, durable>>
       PROVE  Settled(u)'
  <2>1. "dropped" \in Left /\ NoRow("dropped").st = "dropped"
    BY DEF Left, NoRow
  <2> QED
    BY <1>1, <1>11, <2>1, AfterDrop
<1>12. CASE ObserveMissing
  BY <1>0, <1>11, <1>12 DEF ObserveMissing, Busy, bounds
<1>13. ASSUME NEW t \in Torrents, RowMissing(t) PROVE Settled(u)'
  BY <1>11, <1>13 DEF RowMissing, bounds
<1>14. CASE KeptForCleanup
  <2>1. item \in Torrents /\ Put(item, "flagged") /\ UNCHANGED <<worldVars, untracks, durable>>
    BY <1>0, <1>14 DEF KeptForCleanup, Busy, Retiring, bounds
  <2> QED
    BY <1>1, <2>1, AfterPut
<1>15. ASSUME NEW t \in Torrents, HealDemote(t) PROVE Settled(u)'
  <2>1. Put(t, "active") /\ UNCHANGED <<worldVars, untracks, durable>>
    BY <1>15 DEF HealDemote, bounds
  <2> QED
    BY <1>1, <2>1, AfterPut
<1>16. CASE GrabAlreadyAdded \/ HoldCapped
  <2>1. item \in Torrents
    BY <1>0, <1>16 DEF GrabAlreadyAdded, HoldCapped, Busy
  <2>2. PICK old \in BOOLEAN : Claim(old) /\ UNCHANGED <<torrent, moved, entry, durable>>
    BY <1>16, <2>1, AfterReclaim
  <2>3. UNCHANGED <<worldVars, untracks>>
    BY <2>2 DEF Claim, worldVars
  <2> QED
    BY <1>1, <2>1, <2>2, <2>3, AfterClaim
<1>17. CASE GrabAdded
  <2>1. item \in Torrents /\ UNCHANGED untracks
    BY <1>0, <1>17 DEF GrabAdded, Busy
  <2>2. CASE u = item
    <3>1. \A a \in Arrs : staged'[a][u].st # "retired" /\ durable'[a][u].st # "retired"
      BY <1>0, <1>17, <2>1, <2>2, AfterAdded DEF NoRow, Stored, Left
    <3> QED
      BY <3>1, PendingImportsAssumption DEF Settled, SettledAt, RetiredIn, PendingImportsAssumption
  <2>3. CASE u # item
    <3>1. torrent'[u] = torrent[u] /\ moved'[u] = moved[u] /\ entry'[u] = entry[u]
      BY <1>0, <1>17, <2>1, <2>3 DEF GrabAdded
    <3>2. \A a \in Arrs : staged'[a][u] = staged[a][u] /\ durable'[a][u] = durable[a][u]
      BY <1>17, <2>1, <2>3, AfterAdded
    <3> QED
      BY <1>0, <2>1, <3>1, <3>2, SettledRows
  <2> QED
    BY <2>2, <2>3
<1>18. CASE Retired
  <2>1. /\ item \in Torrents /\ Drop(item, "retired") /\ "retired" \in Left
        /\ UNCHANGED <<worldVars, untracks, durable>> /\ pc = "settle" /\ ~failed
    BY <1>0, <1>18 DEF Retired, Busy, Retiring, Left, bounds
  <2>2. staged'[leg][item].st = "retired"
        /\ \A a \in Arrs, t \in Torrents : ~(a = leg /\ t = item) => staged'[a][t] = staged[a][t]
    <3>1. staged'[leg][item] = NoRow("retired") /\ NoRow("retired").st = "retired"
      BY <2>1, AfterDrop DEF NoRow
    <3>2. \A a \in Arrs, t \in Torrents : ~(a = leg /\ t = item) => staged'[a][t] = staged[a][t]
      BY <2>1, AfterDrop
    <3> QED
      BY <3>1, <3>2
  <2>3. CASE u # item
    BY <1>1, <2>1, <2>2, <2>3
  <2>4. CASE u = item
    <3>1. ~OtherArrHolds(item) \/ ~RetiredIn(staged', u)
      BY <2>2, <2>4 DEF OtherArrHolds, Held, Stored, Left, RetiredIn
    <3>2. leg \in CategoryArrs /\ RetiredIn(staged', u) =>
            (torrent[u] = "absent" \/ moved[u]) /\ (untracks => ~entry[u])
      BY <1>0, <2>1, <2>4, <3>1 DEF Effects, MoveApplies
    <3>3. CloseApplies => ~entry[u]
      BY <1>0, <2>1, <2>4 DEF Effects
    <3>4. UNCHANGED <<torrent, moved, entry, untracks>>
      BY <2>1 DEF worldVars
    <3>5. RetiredIn(staged', u) /\ torrent[u] # "absent" /\ CategoryArrs = Arrs => moved[u]
      BY <1>0, <3>2
    <3>6. staged'[Sonarr][u].st = "retired" /\ ~Untracked => ~entry[u]
      <4>1. CASE leg = Sonarr
        BY <3>3, <4>1 DEF CloseApplies, Untracked
      <4>2. CASE leg # Sonarr
        BY <1>0, <2>2, <4>2, PendingImportsAssumption
           DEF Settled, SettledAt, PendingImportsAssumption
      <4> QED
        BY <4>1, <4>2
    <3>7. RetiredIn(staged', u) /\ Untracked => ~entry[u]
      <4>1. Untracked => leg \in CategoryArrs /\ untracks
        BY <1>0, TypeParts DEF Untracked, UntrackingArrs, CountOK
      <4> QED
        BY <4>1, <3>2
    <3>8. SettledAt(staged, u)'
      BY <3>4, <3>5, <3>6, <3>7 DEF SettledAt, RetiredIn, Untracked
    <3>9. SettledAt(durable, u)'
      BY <1>0, <2>1, <3>4 DEF Settled, SettledAt, RetiredIn, Untracked
    <3> QED
      BY <3>8, <3>9 DEF Settled
  <2> QED
    BY <2>3, <2>4
<1>19. CASE World
  BY <1>19, <1>4, <1>5 DEF World
<1>20. CASE Scan
  BY <1>20, <1>3, <1>9, <1>10, <1>12, <1>16, <1>17 DEF Scan, Quiet
<1>21. CASE Retire
  BY <1>21, <1>3, <1>7, <1>8, <1>14, <1>18 DEF Retire, Quiet
<1>22. CASE Tail
  BY <1>22, <1>3, <1>9, <1>13, <1>15 DEF Tail, Quiet
<1>23. ASSUME NEW a \in Arrs, StartRun(a) PROVE Settled(u)'
  BY <1>23, <1>3 DEF Quiet
<1> QED
  BY <1>6, <1>9, <1>19, <1>20, <1>21, <1>22, <1>23 DEF Next, Run

LEMMA EffectsStep ==
  ASSUME TypeOK, ItemInHand, Next, SettledInv
  PROVE  Effects'
<1>0. /\ Effects /\ (Busy => item \in Torrents)
      /\ entry \in [Torrents -> BOOLEAN] /\ torrent \in [Torrents -> {"absent", "downloading", "complete"}]
      /\ moved \in [Torrents -> BOOLEAN]
  BY SettledByTorrent, TypeParts DEF WorldOK, ItemInHand
<1>1. ASSUME pc' \notin {"close", "settle"} PROVE Effects'
  BY <1>1 DEF Effects
<1>2. ASSUME NEW t \in Torrents, TorrentMoves(t) PROVE Effects'
  <2>1. UNCHANGED <<pc, leg, item, failed, moved, entry, staged, untracks>>
        /\ (Busy /\ torrent[item] = "absent" => torrent'[item] = "absent")
    BY <1>0, <1>2 DEF TorrentMoves, runVars, bounds
  <2> QED
    BY <1>0, <2>1 DEF Effects, MoveApplies, CloseApplies, OtherArrHolds, Held, Busy, Retiring
<1>3. ASSUME NEW a \in Arrs, NEW t \in Torrents, FilesLand(a, t) PROVE Effects'
  <2>1. UNCHANGED <<pc, leg, item, failed, moved, torrent, staged, untracks>>
        /\ (Busy => (entry'[item] => entry[item]))
    BY <1>0, <1>3 DEF FilesLand, runVars, bounds
  <2> QED
    BY <1>0, <2>1 DEF Effects, MoveApplies, CloseApplies, OtherArrHolds, Held, Busy, Retiring
<1>4. ASSUME NEW a \in Arrs, NEW t \in Torrents, FilesVanish(a, t) \/ Ages(a, t) PROVE Effects'
  BY <1>1, <1>4 DEF FilesVanish, Ages
<1>5. CASE CategoryMove
  <2>1. item \in Torrents /\ UNCHANGED <<leg, item, torrent, staged, untracks>> /\ pc' = "close"
    BY <1>0, <1>5 DEF CategoryMove, Busy, Retiring, bounds
  <2>2. MoveApplies' = MoveApplies
    BY <2>1 DEF MoveApplies, OtherArrHolds, Held
  <2>3. MoveApplies /\ ~failed' =>
          (torrent[item] = "absent" \/ moved'[item]) /\ (untracks => ~entry'[item])
    BY <1>0, <1>5, <2>1 DEF CategoryMove
  <2> QED
    BY <2>1, <2>2, <2>3 DEF Effects
<1>6. CASE CloseTracked
  <2>1. item \in Torrents /\ UNCHANGED <<leg, item, torrent, moved, staged, untracks>> /\ pc' = "settle"
        /\ pc = "close"
    BY <1>0, <1>6 DEF CloseTracked, Busy, Retiring, bounds
  <2>2. MoveApplies' = MoveApplies /\ CloseApplies' = CloseApplies
    BY <2>1 DEF MoveApplies, OtherArrHolds, Held, CloseApplies
  <2>3. (~failed' => ~failed) /\ (entry'[item] => entry[item])
        /\ (CloseApplies /\ ~failed' => ~entry'[item])
    BY <1>0, <1>6, <2>1 DEF CloseTracked
  <2> QED
    BY <1>0, <2>1, <2>2, <2>3 DEF Effects
<1>7. CASE Scan
  BY <1>1, <1>7
     DEF Scan, Prune, NextItem, GrabAdded, GrabAlreadyAdded, HoldCapped, Claim, NoGrab, SkipSnapshot,
         ObservePending, ObserveMissing, ObserveImported, BeginRetire, ItemRaises, ItemSave
<1>8. CASE Retired \/ KeptForCleanup \/ RetireRaises
  BY <1>1, <1>8 DEF Retired, KeptForCleanup, RetireRaises, AfterRetire, Returned, ItemInHand, Retiring
<1>9. CASE Tail
  BY <1>1, <1>9
     DEF Tail, EndScan, BeginPass, InterruptPass, EndPass, TailStops, FinalSave, HealFinish, HealDemote,
         HealNothing, RowImported, RowMissing, RowLeft, BeginRetire
<1>10. ASSUME NEW a \in Arrs, StartRun(a) PROVE Effects'
  BY <1>1, <1>10 DEF StartRun
<1>11. CASE Kill
  BY <1>1, <1>11 DEF Kill
<1>12. CASE World
  <2>1. ASSUME NEW a \in Arrs, NEW t \in Torrents, FilesLand(a, t) \/ FilesVanish(a, t) PROVE Effects'
    BY <2>1, <1>3, <1>4
  <2> QED
    BY <1>12, <1>2, <2>1 DEF World
<1> QED
  BY <1>4, <1>5, <1>6, <1>7, <1>8, <1>9, <1>10, <1>11, <1>12 DEF Next, Run, Retire

-----------------------------------------------------------------------------
(* The theorems.                                                             *)

RunInv == TypeOK /\ ItemInHand /\ Blank /\ InLine /\ Once /\ Credits /\ Tallies /\ Verified

LEMMA RunInvHolds == Spec => []RunInv
<1>1. Init => RunInv
  <2> SUFFICES ASSUME Init PROVE RunInv
    OBVIOUS
  <2>1. TypeOK /\ ItemInHand
    BY TypesInit DEF Init, ItemInHand, Busy, Retiring
  <2>2. Blank /\ InLine /\ Verified
    BY DEF Init, Blank, InLine, Verified, Early, HealPhase, PassPhase, Retiring
  <2>3. Once /\ Tallies
    BY DEF Init, Once, Tallies, Counted, PassPhase, Retiring
  <2>4. Credits
    BY PendingImportsAssumption
       DEF Init, Credits, CountedOnce, Bounded, Uncounted, NoRow, PendingImportsAssumption
  <2> QED
    BY <2>1, <2>2, <2>3, <2>4 DEF RunInv
<1>2. RunInv /\ [Next]_vars => RunInv'
  <2> SUFFICES ASSUME RunInv, [Next]_vars PROVE RunInv'
    OBVIOUS
  <2>1. CASE Next
    <3>1. TypeOK' /\ ItemInHand'
      BY <2>1, WorldTypes, CountTypes, StoreTypes, PlaceTypes, SetTypes, TallyTypes, TypePartsNext DEF RunInv
    <3>2. Blank' /\ InLine' /\ Once'
      BY <2>1, BlankStep, InLineStep, OnceStep DEF RunInv
    <3>3. Credits' /\ Verified' /\ Tallies'
      BY <2>1, CreditsStep, VerifiedStep, TalliesStep DEF RunInv
    <3> QED
      BY <3>1, <3>2, <3>3 DEF RunInv
  <2>2. CASE UNCHANGED vars
    <3>1. UNCHANGED <<torrent, landed, moved, entry, durable, staged, pc, leg, mode, todo, item, back,
                      failed, fresh, reacquired, states, kept, results, tally, attempts, credit,
                      untracks, grabs, kills>>
      BY <2>2 DEF vars, worldVars, runVars, bounds
    <3>2. TypeOK' /\ ItemInHand' /\ Blank' /\ InLine'
      BY <3>1 DEF RunInv, TypeOK, ItemInHand, Blank, InLine, Early, HealPhase, PassPhase, Busy, Retiring
    <3>3. Once' /\ Verified'
      BY <3>1 DEF RunInv, Once, Tried, Verified, AllLanded, Early, HealPhase, Busy, Retiring
    <3>4. Credits' /\ Tallies'
      BY <3>1 DEF RunInv, Credits, CountedOnce, Bounded, Uncounted, Tallies, Counted, Waits, PassPhase,
                  Retiring
    <3> QED
      BY <3>2, <3>3, <3>4 DEF RunInv
  <2> QED
    BY <2>1, <2>2
<1> QED
  BY <1>1, <1>2, PTL DEF Spec

(* The no-phantom-count contract of run_loop._finalize_run and the "never    *)
(* retried in its own run" of PostImportCleanup: over every mix of snapshot, *)
(* heal, check and monitor, every failed effect and every kill, one landing  *)
(* is counted once and one run completes one cleanup of a torrent.           *)
THEOREM EffectsHappenOnce == Spec => []EffectsOnce
<1>1. RunInv => EffectsOnce
  <2> SUFFICES ASSUME RunInv PROVE CountedOnce /\ OneCleanupPerRun
    BY DEF EffectsOnce
  <2> QED
    BY DEF RunInv, Credits, Once, OneCleanupPerRun
<1> QED
  BY <1>1, RunInvHolds, PTL

LEMMA SettledHolds == ASSUME UntrackingArrs PROVE Spec => []SettledInv
<1>1. Init => SettledInv
  <2> SUFFICES ASSUME Init PROVE SettledInv
    OBVIOUS
  <2>1. \A t \in Torrents, a \in Arrs : staged[a][t].st = "never" /\ durable[a][t].st = "never"
    BY DEF Init, NoRow
  <2> QED
    BY <2>1, PendingImportsAssumption
       DEF Init, SettledInv, SettledIn, RetiredIn, Effects, PendingImportsAssumption
<1>2. TypeOK /\ ItemInHand /\ SettledInv /\ [Next]_vars => SettledInv'
  <2> SUFFICES ASSUME TypeOK, ItemInHand, SettledInv, [Next]_vars PROVE SettledInv'
    OBVIOUS
  <2>1. CASE Next
    BY <2>1, SettledStep, EffectsStep, SettledByTorrent
  <2>2. CASE UNCHANGED vars
    <3>1. UNCHANGED <<torrent, moved, entry, durable, staged, pc, leg, item, failed, untracks>>
      BY <2>2 DEF vars, worldVars, runVars, bounds
    <3>2. Effects'
      BY <3>1 DEF SettledInv, Effects, MoveApplies, CloseApplies, OtherArrHolds, Held
    <3>3. SettledIn(staged)' /\ SettledIn(durable)'
      BY <3>1 DEF SettledInv, SettledIn, RetiredIn, Untracked
    <3> QED
      BY <3>2, <3>3 DEF SettledInv
  <2> QED
    BY <2>1, <2>2
<1> QED
  BY <1>1, <1>2, Types, PTL DEF Spec

(* "A torrent both arrs grabbed moves once the last of them imports", and    *)
(* remove_from_queue's "once every record on it has imported": whatever      *)
(* order the records retire in and whatever fails or is killed on the way,   *)
(* where an untracking category is every arr's.                              *)
THEOREM SettledWhenAllRetire == ASSUME UntrackingArrs PROVE Spec => []SettledOnceAllRetired
<1>1. TypeOK /\ SettledInv => SettledOnceAllRetired
  <2> SUFFICES ASSUME TypeOK, SettledInv PROVE MovedOnceAllRetired /\ QueueClearedOnceAllRetired
    BY DEF SettledOnceAllRetired
  <2>1. \A t \in Torrents : AllRetired(t) => RetiredIn(staged, t)
    BY DEF AllRetired, RetiredIn
  <2> QED
    BY <2>1 DEF SettledInv, SettledIn, MovedOnceAllRetired, QueueClearedOnceAllRetired
<1> QED
  BY <1>1, SettledHolds, Types, PTL
=============================================================================
