---------------------------- MODULE StepInProofs ----------------------------
(***************************************************************************)
(* One download's import polls, for any files, episodes and records, any   *)
(* number of upsets and of commands: Sonarr is never given our import      *)
(* twice, and what a poll decides holds at the moment it decides it,       *)
(* whatever Sonarr's own commands do between two requests of the poll.     *)
(***************************************************************************)
EXTENDS StepIn, TLAPS

-----------------------------------------------------------------------------
(* The inductive invariant, in parts.                                        *)

Kinds == {"ours", "by hand", "pass", "other"}
Statuses == {"queued", "started", "ended"}

\* The commands are records, of which one at a time runs, a pass while one of the
\* download's files is being imported by Sonarr itself.
CommandInv ==
  /\ \E P : commands \subseteq [id : Int, kind : Kinds, status : Statuses, plan : P]
  /\ \A c, d \in commands : (c.status = "started" /\ d.status = "started") => c = d
  /\ row = "importing" => \E c \in commands : c.status = "started" /\ c.kind = "pass"

\* None of ours is in flight when one is posted.
OursInv ==
  /\ OneImportOfOurs
  /\ pc = "post" => \A c \in Running : c.kind # "ours"

\* What the poll goes by was work.
WorkInv ==
  /\ (pc \notin {"idle", "retired"} /\ commands # {}) => work
  /\ view.block # "none" => work
  /\ baseline.block # "none" => work
  /\ pc \in {"rescan", "rescanning"} => view.row # "importing"
  /\ pc = "idle" => view.block = "none"
  /\ pc = "idle" => baseline.block = "none"

\* Sonarr has moved since the baseline, in a way the guard sees.
Trace == rescans = "none" \/ \E c \in commands : <<c.id, c.status>> \notin baseline.listed
PlanNeeded == \A fe \in plan : ~Recommended(fe[2]) \/ OwnCopy(fe[2])

\* A baseline without work tells every later command; until Sonarr moves the plan
\* is what the episodes need.
GuardInv ==
  /\ (pc \in {"files", "guard"} /\ baseline.block = "none") =>
       /\ \A l \in baseline.listed : l[2] \notin {"queued", "started"}
       /\ \A c \in Running, l \in baseline.listed : c.id # l[1]
  /\ pc = "guard" => (baseline.block = "none" /\ (Trace \/ PlanNeeded))

PollInv == CommandInv /\ OursInv /\ WorkInv /\ GuardInv

LEMMA PollInvStarts == Init => PollInv
<1> SUFFICES ASSUME Init PROVE PollInv
  OBVIOUS
<1>1. /\ commands = {} /\ pc = "idle" /\ row # "importing"
      /\ view.block = "none" /\ baseline.block = "none"
  BY DEF Init, NoView, NoBaseline
<1>2. commands \subseteq [id : Int, kind : Kinds, status : Statuses, plan : {}]
  BY <1>1
<1> QED
  BY <1>1, <1>2 DEF PollInv, CommandInv, OursInv, OneImportOfOurs, Running, WorkInv, GuardInv

-----------------------------------------------------------------------------
(* Commands come, start and end.                                             *)

LEMMA FreshIdIsNew ==
  ASSUME Room
  PROVE  /\ FreshId \in Int
         /\ \A c \in commands : c.id # FreshId
         /\ \A l \in baseline.listed : l[1] # FreshId
<1>1. PICK i \in 1..MaxCommands : /\ \A c \in commands : c.id # i
                                  /\ \A l \in baseline.listed : l[1] # i
  BY DEF Room
<1>2. /\ FreshId \in 1..MaxCommands
      /\ \A c \in commands : c.id # FreshId
      /\ \A l \in baseline.listed : FreshId # l[1]
  BY <1>1 DEF FreshId
<1> QED
  BY <1>2

\* A command that starts keeps its id and its kind.
LEMMA CommandMoves ==
  ASSUME NEW P, NEW c \in [id : Int, kind : Kinds, status : Statuses, plan : P], NEW p \in P
  PROVE  /\ Started(c, p) \in [id : Int, kind : Kinds, status : Statuses, plan : P]
         /\ Started(c, p).id = c.id
         /\ Started(c, p).kind = c.kind
         /\ Started(c, p).status = "started"
  BY DEF Started, Statuses

LEMMA CommandIsNew ==
  ASSUME Room, NEW kind \in Kinds, NEW pairs
  PROVE  /\ Command(kind, pairs) \in [id : Int, kind : Kinds, status : Statuses, plan : {pairs}]
         /\ Command(kind, pairs).id = FreshId
         /\ Command(kind, pairs).kind = kind
         /\ Command(kind, pairs).status = "queued"
  BY FreshIdIsNew DEF Command, Statuses

\* One command more, queued: of what kind.
Adds(kind) ==
  \E c, P : /\ commands' = commands \cup {c}
            /\ c \in [id : Int, kind : Kinds, status : Statuses, plan : P]
            /\ c.kind = kind
            /\ c.status = "queued"
            /\ \A l \in baseline.listed : c.id # l[1]

\* A command of them moves on to a status.
Turns(c, d, status) ==
  /\ commands' = (commands \ {c}) \cup {d}
  /\ \E P : d \in [id : Int, kind : Kinds, status : Statuses, plan : P]
  /\ d.id = c.id
  /\ d.kind = c.kind
  /\ d.status = status

LEMMA CommandAdds ==
  ASSUME Room, NEW kind \in Kinds, NEW pairs, commands' = commands \cup {Command(kind, pairs)}
  PROVE  Adds(kind)
<1> DEFINE c == Command(kind, pairs)
<1>1. /\ c \in [id : Int, kind : Kinds, status : Statuses, plan : {pairs}]
      /\ c.id = FreshId
      /\ c.kind = kind
      /\ c.status = "queued"
  BY CommandIsNew
<1>2. \A l \in baseline.listed : c.id # l[1]
  BY <1>1, FreshIdIsNew
<1>3. commands' = commands \cup {c}
  OBVIOUS
<1> HIDE DEF c
<1> QED
  BY <1>1, <1>2, <1>3 DEF Adds

LEMMA CommandsAdded ==
  ASSUME CommandInv, NEW kind \in Kinds, Adds(kind), row' = "importing" => row = "importing"
  PROVE  CommandInv'
<1>1. PICK P : commands \subseteq [id : Int, kind : Kinds, status : Statuses, plan : P]
  BY DEF CommandInv
<1>2. PICK c, Q : /\ commands' = commands \cup {c}
                  /\ c \in [id : Int, kind : Kinds, status : Statuses, plan : Q]
                  /\ c.status = "queued"
  BY DEF Adds
<1>3. commands' \subseteq [id : Int, kind : Kinds, status : Statuses, plan : P \cup Q]
  BY <1>1, <1>2
<1>4. \E R : commands' \subseteq [id : Int, kind : Kinds, status : Statuses, plan : R]
  BY <1>3
<1>5. \A a, b \in commands' : (a.status = "started" /\ b.status = "started") => a = b
  BY <1>2 DEF CommandInv
<1>6. row' = "importing" => \E e \in commands' : e.status = "started" /\ e.kind = "pass"
  BY <1>2 DEF CommandInv
<1> QED
  BY <1>4, <1>5, <1>6 DEF CommandInv

LEMMA CommandTurned ==
  ASSUME CommandInv, NEW c \in commands, NEW d, NEW status \in Statuses, Turns(c, d, status),
         status = "started" => \A e \in commands : e.status # "started",
         row' = "importing" => \E e \in commands' : e.status = "started" /\ e.kind = "pass"
  PROVE  CommandInv'
<1>1. PICK P : commands \subseteq [id : Int, kind : Kinds, status : Statuses, plan : P]
  BY DEF CommandInv
<1>2. PICK Q : d \in [id : Int, kind : Kinds, status : Statuses, plan : Q]
  BY DEF Turns
<1>3. commands' = (commands \ {c}) \cup {d} /\ d.status = status
  BY DEF Turns
<1>4. commands' \subseteq [id : Int, kind : Kinds, status : Statuses, plan : P \cup Q]
  BY <1>1, <1>2, <1>3
<1>5. \E R : commands' \subseteq [id : Int, kind : Kinds, status : Statuses, plan : R]
  BY <1>4
<1>6. \A a, b \in commands' : (a.status = "started" /\ b.status = "started") => a = b
  BY <1>3 DEF CommandInv
<1> QED
  BY <1>5, <1>6 DEF CommandInv

LEMMA CommandsLeft ==
  ASSUME CommandInv, commands' \subseteq commands,
         row' = "importing" => \E e \in commands' : e.status = "started" /\ e.kind = "pass"
  PROVE  CommandInv'
  BY DEF CommandInv

LEMMA StartTurns ==
  ASSUME CommandInv, NEW c \in commands, WorkStarts(c)
  PROVE  /\ \E d : Turns(c, d, "started")
         /\ c.status = "queued"
         /\ \A e \in commands : e.status # "started"
         /\ row' = "importing" => (row = "importing" \/ c.kind = "pass")
<1>1. PICK P : commands \subseteq [id : Int, kind : Kinds, status : Statuses, plan : P]
  BY DEF CommandInv
<1>2. PICK pairs : commands' = (commands \ {c}) \cup {Started(c, pairs)}
  BY DEF WorkStarts
<1> DEFINE d == Started(c, pairs)
           Q == P \cup {pairs}
<1>3. c \in [id : Int, kind : Kinds, status : Statuses, plan : Q] /\ pairs \in Q
  BY <1>1
<1>4. /\ d \in [id : Int, kind : Kinds, status : Statuses, plan : Q]
      /\ d.id = c.id
      /\ d.kind = c.kind
      /\ d.status = "started"
  <2> HIDE DEF Q
  <2> QED
    BY <1>3, CommandMoves
<1>5. commands' = (commands \ {c}) \cup {d}
  BY <1>2
<1>6. Turns(c, d, "started")
  <2> HIDE DEF d
  <2> QED
    BY <1>4, <1>5 DEF Turns
<1> QED
  BY <1>6 DEF WorkStarts

LEMMA EndTurns ==
  ASSUME CommandInv, NEW c \in commands, WorkEnds(c)
  PROVE  /\ pc \in {"files", "guard"} => \E d : Turns(c, d, "ended")
         /\ pc \notin {"files", "guard"} => commands' = commands \ {c}
         /\ c.status = "started"
         /\ row' = "importing" => (row = "importing" /\ c.kind # "pass")
<1>1. PICK P : commands \subseteq [id : Int, kind : Kinds, status : Statuses, plan : P]
  BY DEF CommandInv
<1>2. commands' = Ended(c)
  BY DEF WorkEnds
<1>3. ASSUME pc \in {"files", "guard"} PROVE \E d : Turns(c, d, "ended")
  <2> DEFINE d == [c EXCEPT !.status = "ended"]
  <2>1. commands' = (commands \ {c}) \cup {d}
    BY <1>2, <1>3 DEF Ended
  <2>2. c \in [id : Int, kind : Kinds, status : Statuses, plan : P] /\ "ended" \in Statuses
    BY <1>1 DEF Statuses
  <2>3. /\ d \in [id : Int, kind : Kinds, status : Statuses, plan : P]
        /\ d.id = c.id /\ d.kind = c.kind /\ d.status = "ended"
    BY <2>2
  <2> HIDE DEF d
  <2> QED
    BY <2>1, <2>3 DEF Turns
<1>4. pc \notin {"files", "guard"} => commands' = commands \ {c}
  BY <1>2 DEF Ended
<1>5. row' = "importing" => (row = "importing" /\ c.kind # "pass")
  BY DEF WorkEnds
<1> QED
  BY <1>3, <1>4, <1>5 DEF WorkEnds

-----------------------------------------------------------------------------
(* Sonarr's steps, by what they do to its commands.                          *)

\* What a step of Sonarr leaves to the poll.
LEMMA SonarrKeeps ==
  ASSUME Sonarr
  PROVE  /\ UNCHANGED <<settings, scratch, pc, locals, probe>>
         /\ rescans' = rescans \/ rescans' = "none" \/ RescanEnds
         /\ \/ disk' = disk
            \/ \E c \in commands : c.status = "started" /\ (FileLands(c) \/ WorkEnds(c))
<1>1. CASE WorkQueued \/ RescanScheduled
  BY <1>1 DEF WorkQueued, RescanScheduled
<1>2. CASE RescanEnds
  BY <1>2 DEF RescanEnds
<1>3. CASE Restarts
  BY <1>3 DEF Restarts
<1>4. ASSUME NEW c \in commands, WorkStarts(c)
      PROVE  UNCHANGED <<settings, scratch, pc, locals, probe>> /\ rescans' = rescans /\ disk' = disk
  BY <1>4 DEF WorkStarts
<1>5. ASSUME NEW c \in commands, FileLands(c)
      PROVE  /\ UNCHANGED <<settings, scratch, pc, locals, probe>> /\ rescans' = rescans
             /\ c.status = "started"
  BY <1>5 DEF FileLands
<1>6. ASSUME NEW c \in commands, WorkEnds(c)
      PROVE  /\ UNCHANGED <<settings, scratch, pc, locals, probe>> /\ rescans' = rescans
             /\ c.status = "started"
  BY <1>6 DEF WorkEnds
<1> QED
  BY <1>1, <1>2, <1>3, <1>4, <1>5, <1>6 DEF Sonarr

\* And what it does to the commands: one is queued, starts, ends, or some are gone.
SonarrTurns ==
  \/ \E kind \in Kinds \ {"ours"} : Adds(kind) /\ (work' = (work \/ pc # "idle"))
  \/ \E c \in commands : \E d : Turns(c, d, "started") /\ c.status = "queued" /\ work' = work
  \/ \E c \in commands : \E d : Turns(c, d, "ended") /\ c.status = "started" /\ work' = work
  \/ commands' \subseteq commands /\ work' = work

LEMMA SonarrDoes ==
  ASSUME CommandInv, Sonarr
  PROVE  SonarrTurns /\ CommandInv'
<1>1. CASE WorkQueued
  <2>1. Room /\ row' = row /\ \E kind \in {"pass", "other", "by hand"} : \E pairs : Queues(Command(kind, pairs))
    BY <1>1 DEF WorkQueued
  <2>2. PICK kind \in {"pass", "other", "by hand"} : \E pairs : Queues(Command(kind, pairs))
    BY <2>1
  <2>a. PICK pairs : Queues(Command(kind, pairs))
    BY <2>2
  <2>3. /\ commands' = commands \cup {Command(kind, pairs)} /\ work' = (work \/ pc # "idle")
        /\ kind \in Kinds \ {"ours"}
    BY <2>a DEF Queues, Kinds
  <2>4. Adds(kind)
    BY <2>1, <2>3, CommandAdds
  <2>5. CommandInv'
    BY <2>1, <2>3, <2>4, CommandsAdded
  <2> QED
    BY <2>3, <2>4, <2>5 DEF SonarrTurns
<1>2. CASE RescanScheduled
  BY <1>2, CommandsLeft DEF RescanScheduled, SonarrTurns, CommandInv
<1>3. CASE RescanEnds
  <2>1. row' = "importing" => row = "importing"
    BY <1>3 DEF RescanEnds
  <2>2. CASE commands' = commands /\ work' = work
    BY <2>1, <2>2, CommandsLeft DEF SonarrTurns, CommandInv
  <2>3. CASE Room /\ Queues(Command("pass", {}))
    <3>1. commands' = commands \cup {Command("pass", {})} /\ work' = (work \/ pc # "idle")
      BY <2>3 DEF Queues
    <3>2. Adds("pass")
      BY <2>3, <3>1, CommandAdds DEF Kinds
    <3>3. CommandInv'
      BY <2>1, <3>2, CommandsAdded DEF Kinds
    <3> QED
      BY <3>1, <3>2, <3>3 DEF SonarrTurns, Kinds
  <2> QED
    BY <1>3, <2>2, <2>3 DEF RescanEnds
<1>4. CASE Restarts
  <2>1. commands' \subseteq commands /\ row' = "none" /\ work' = work
    BY <1>4 DEF Restarts
  <2> QED
    BY <2>1, CommandsLeft DEF SonarrTurns
<1>5. ASSUME NEW c \in commands, WorkStarts(c) PROVE SonarrTurns /\ CommandInv'
  <2>1. /\ \E d : Turns(c, d, "started")
        /\ c.status = "queued"
        /\ \A e \in commands : e.status # "started"
        /\ row' = "importing" => (row = "importing" \/ c.kind = "pass")
    BY <1>5, StartTurns
  <2>2. PICK d : Turns(c, d, "started")
    BY <2>1
  <2>3. row # "importing"
    BY <2>1 DEF CommandInv
  <2>4. d \in commands' /\ d.status = "started" /\ d.kind = c.kind
    BY <2>2 DEF Turns
  <2>5. CommandInv'
    BY <2>1, <2>2, <2>3, <2>4, CommandTurned DEF Statuses
  <2> QED
    BY <1>5, <2>1, <2>2, <2>5 DEF SonarrTurns, WorkStarts
<1>6. ASSUME NEW c \in commands, FileLands(c) PROVE SonarrTurns /\ CommandInv'
  <2>1. UNCHANGED <<commands, row, work>>
    BY <1>6 DEF FileLands
  <2> QED
    BY <2>1, CommandsLeft DEF SonarrTurns, CommandInv
<1>7. ASSUME NEW c \in commands, WorkEnds(c) PROVE SonarrTurns /\ CommandInv'
  <2>1. /\ pc \in {"files", "guard"} => \E d : Turns(c, d, "ended")
        /\ pc \notin {"files", "guard"} => commands' = commands \ {c}
        /\ c.status = "started"
        /\ row' = "importing" => (row = "importing" /\ c.kind # "pass")
    BY <1>7, EndTurns
  <2>2. row' # "importing"
    BY <2>1 DEF CommandInv
  <2>3. work' = work
    BY <1>7 DEF WorkEnds
  <2>4. CASE pc \in {"files", "guard"}
    <3>1. PICK d : Turns(c, d, "ended")
      BY <2>1, <2>4
    <3>2. CommandInv'
      BY <2>2, <3>1, CommandTurned DEF Statuses
    <3> QED
      BY <2>1, <2>3, <3>1, <3>2 DEF SonarrTurns
  <2>5. CASE pc \notin {"files", "guard"}
    BY <2>1, <2>2, <2>3, <2>5, CommandsLeft DEF SonarrTurns
  <2> QED
    BY <2>4, <2>5
<1> QED
  BY <1>1, <1>2, <1>3, <1>4, <1>5, <1>6, <1>7 DEF Sonarr

-----------------------------------------------------------------------------
(* The poll's steps, by what they leave.                                     *)

\* The poll is over.
Stops(deferral) ==
  /\ pc' \in {"idle", "retired"}
  /\ view' = NoView
  /\ baseline' = NoBaseline
  /\ probe'.deferral = deferral

LEMMA ReturnStops ==
  ASSUME NEW kind, NEW deferral, Return(kind, deferral)
  PROVE  Stops(deferral)
<1>1. probe' = [kind |-> kind, deferral |-> deferral] /\ view' = NoView /\ baseline' = NoBaseline
  BY DEF Return, ClearLocals
<1>2. pc' \in {"idle", "retired"}
  BY DEF Return
<1> QED
  BY <1>1, <1>2 DEF Stops

LEMMA DecideDoes ==
  ASSUME NEW v, Decide(v)
  PROVE  \/ Stops("none")
         \/ Stops("import") /\ v.row = "importing"
         \/ Stops(v.block) /\ v.block # "none"
         \/ /\ pc' \in {"baseline", "scan"}
            /\ view'.block = "none"
            /\ UNCHANGED <<baseline, plan, work>>
<1>1. CASE v.row = "motion" /\ Wait("none")
  BY <1>1, ReturnStops DEF Wait
<1>2. CASE v.row = "importing" /\ Wait("import")
  BY <1>2, ReturnStops DEF Wait
<1>3. CASE v.block # "none" /\ Wait(v.block)
  BY <1>3, ReturnStops DEF Wait
<1>4. CASE Wait("none")
  BY <1>4, ReturnStops DEF Wait
<1>5. CASE TakeKeptScan(v)
  <2>1. pc' \in {"baseline", "scan"} /\ UNCHANGED <<baseline, plan, work>>
    BY <1>5 DEF TakeKeptScan
  <2>2. view' = [NoView EXCEPT !.untracked = v.untracked]
    BY <1>5 DEF TakeKeptScan
  <2>3. view'.block = "none"
    BY <2>2 DEF NoView
  <2> QED
    BY <2>1, <2>3
<1> QED
  BY <1>1, <1>2, <1>3, <1>4, <1>5 DEF Decide

LEMMA ImportDoes ==
  ASSUME Import
  PROVE  \/ Stops("none")
         \/ /\ pc' = "guard"
            /\ plan' = PlanFor(scan.files)
            /\ UNCHANGED <<view, baseline, work>>
<1>1. \/ \E kind : Return(kind, "none")
      \/ plan' = PlanFor(scan.files) /\ pc' = "guard" /\ UNCHANGED <<view, baseline, work>>
  BY DEF Import, Wait
<1>2. CASE \E kind : Return(kind, "none")
  BY <1>2, ReturnStops
<1> QED
  BY <1>1, <1>2

LEMMA FilesDo ==
  ASSUME ReadFiles
  PROVE  \/ Stops("none")
         \/ Stops(baseline.block) /\ baseline.block # "none"
         \/ /\ pc' = "guard"
            /\ baseline.block = "none"
            /\ plan' = PlanFor(scan.files)
            /\ UNCHANGED <<view, baseline, work>>
<1>1. CASE Return("imported", "none") \/ Wait("none")
  BY <1>1, ReturnStops DEF Wait
<1>2. CASE WaitKeeping(baseline.block) /\ baseline.block # "none"
  <2>1. Wait(baseline.block)
    BY <1>2 DEF WaitKeeping
  <2> QED
    BY <1>2, <2>1, ReturnStops DEF Wait
<1>3. CASE Import /\ baseline.block = "none"
  BY <1>3, ImportDoes
<1> QED
  BY <1>1, <1>2, <1>3 DEF ReadFiles

LEMMA BlockTellsRunning == Block # "none" <=> Running # {}
  BY DEF Block, Covering

LEMMA GuardDoes ==
  ASSUME Guard
  PROVE  \/ Stops("none")
         \/ Stops(Block) /\ Block # "none"
         \/ Stops("busy") /\ DiskCommandsChanged
         \/ /\ pc' = "post"
            /\ Running = {}
            /\ ~SonarrRestarted /\ ~DiskCommandsChanged
            /\ UNCHANGED <<view, baseline, plan, work>>
<1>1. CASE Wait("none")
  BY <1>1, ReturnStops DEF Wait
<1>2. CASE WaitKeeping(Block) /\ Block # "none"
  <2>1. Wait(Block)
    BY <1>2 DEF WaitKeeping
  <2> QED
    BY <1>2, <2>1, ReturnStops DEF Wait
<1>3. CASE WaitKeeping("busy") /\ DiskCommandsChanged
  <2>1. Wait("busy")
    BY <1>3 DEF WaitKeeping
  <2> QED
    BY <1>3, <2>1, ReturnStops DEF Wait
<1>4. CASE /\ Block = "none" /\ ~SonarrRestarted /\ ~DiskCommandsChanged
           /\ pc' = "post"
           /\ UNCHANGED <<locals, probe, work, kept>>
  BY <1>4, BlockTellsRunning DEF locals
<1> QED
  BY <1>1, <1>2, <1>3, <1>4 DEF Guard

\* Only Post of the poll's steps touches Sonarr's side of it.
LEMMA StepKeeps ==
  ASSUME Step
  PROVE  /\ UNCHANGED <<disk, row, rescans, record, cdh>>
         /\ Post \/ commands' = commands
  BY DEF Step, Poll, ReadCommands, ReadQueue, PostRescan, AwaitRescan, ScanById, ScanFolder,
         ReadBaseline, ReadFiles, Guard, Post, sonarrVars, settings

-----------------------------------------------------------------------------
(* The parts are kept.                                                       *)

LEMMA CommandInvKept == CommandInv /\ [Next]_vars => CommandInv'
<1> SUFFICES ASSUME CommandInv, [Next]_vars PROVE CommandInv'
  OBVIOUS
<1>1. CASE Sonarr
  BY <1>1, SonarrDoes
<1>2. CASE Post
  <2>1. Room /\ row' = row
    BY <1>2 DEF Post
  <2>2. commands' = commands \/ commands' = commands \cup {Command("ours", plan)}
    BY <1>2 DEF Post
  <2>3. CASE commands' = commands
    BY <2>1, <2>3, CommandsLeft DEF CommandInv
  <2>4. CASE commands' = commands \cup {Command("ours", plan)}
    <3>1. Adds("ours")
      BY <2>1, <2>4, CommandAdds DEF Kinds
    <3> QED
      BY <2>1, <3>1, CommandsAdded DEF Kinds
  <2> QED
    BY <2>2, <2>3, <2>4
<1>3. CASE Step /\ ~Post
  <2>1. commands' = commands /\ row' = row
    BY <1>3, StepKeeps
  <2> QED
    BY <2>1, CommandsLeft DEF CommandInv
<1>4. CASE NewRun
  <2>1. commands' = Running /\ row' = row
    BY <1>4 DEF NewRun
  <2>2. row = "importing" => \E e \in Running : e.status = "started" /\ e.kind = "pass"
    BY DEF CommandInv, Running, InFlight
  <2>3. Running \subseteq commands
    BY DEF Running
  <2> QED
    BY <2>1, <2>2, <2>3, CommandsLeft
<1>5. CASE UNCHANGED vars
  <2>1. commands' = commands /\ row' = row
    BY <1>5 DEF vars, sonarrVars
  <2> QED
    BY <2>1, CommandsLeft DEF CommandInv
<1> QED
  BY <1>1, <1>2, <1>3, <1>4, <1>5 DEF Next, Retired

\* What a step of Sonarr has in flight was so before, or is none of ours.
LEMMA OursUnderSonarr ==
  ASSUME CommandInv, OursInv, Sonarr
  PROVE  OursInv'
<1>1. pc' = pc
  BY SonarrKeeps
<1>2. SonarrTurns
  BY SonarrDoes
<1>3. ASSUME NEW kind \in Kinds \ {"ours"}, Adds(kind) PROVE OursInv'
  <2>1. PICK c : commands' = commands \cup {c} /\ c.kind # "ours"
    BY <1>3 DEF Adds
  <2> QED
    BY <1>1, <2>1 DEF OursInv, OneImportOfOurs, Running
<1>4. ASSUME NEW c \in commands, NEW d, Turns(c, d, "started"), c.status = "queued" PROVE OursInv'
  <2>1. commands' = (commands \ {c}) \cup {d} /\ d.kind = c.kind /\ InFlight(c)
    BY <1>4 DEF Turns, InFlight
  <2> QED
    BY <1>1, <2>1 DEF OursInv, OneImportOfOurs, Running
<1>5. ASSUME NEW c \in commands, NEW d, Turns(c, d, "ended") PROVE OursInv'
  <2>1. commands' = (commands \ {c}) \cup {d} /\ ~InFlight(d)
    BY <1>5 DEF Turns, InFlight
  <2> QED
    BY <1>1, <2>1 DEF OursInv, OneImportOfOurs, Running
<1>6. CASE commands' \subseteq commands
  BY <1>1, <1>6 DEF OursInv, OneImportOfOurs, Running
<1> QED
  BY <1>2, <1>3, <1>4, <1>5, <1>6 DEF SonarrTurns

\* Only the guard lets an import be posted.
LEMMA StepGoes ==
  ASSUME Step
  PROVE  \/ pc' \notin {"files", "guard", "post"}
         \/ ReadBaseline /\ pc' = "files"
         \/ ReadFiles /\ pc' = "guard"
         \/ Guard /\ pc' = "post"
<1>1. CASE Poll \/ ReadCommands \/ ScanById \/ ScanFolder \/ Post
  BY <1>1 DEF Poll, ReadCommands, ScanById, ScanFolder, Post, Wait, Return
<1>2. ASSUME NEW v, Decide(v) PROVE pc' \notin {"files", "guard", "post"}
  BY <1>2, DecideDoes DEF Stops
<1>3. CASE ReadQueue \/ PostRescan \/ AwaitRescan
  <2>1. (\E v : Decide(v)) \/ pc' \in {"rescan", "rescanning", "commands", "idle"}
    BY <1>3 DEF ReadQueue, PostRescan, AwaitRescan, Wait, Return
  <2> QED
    BY <1>2, <2>1
<1>4. CASE ReadBaseline
  BY <1>4 DEF ReadBaseline, Wait, Return
<1>5. CASE ReadFiles
  BY <1>5, FilesDo DEF Stops
<1>6. CASE Guard
  BY <1>6, GuardDoes DEF Stops
<1> QED
  BY <1>1, <1>3, <1>4, <1>5, <1>6 DEF Step

LEMMA OursInvKept == CommandInv /\ OursInv /\ [Next]_vars => OursInv'
<1> SUFFICES ASSUME CommandInv, OursInv, [Next]_vars PROVE OursInv'
  OBVIOUS
<1>1. CASE Sonarr
  BY <1>1, OursUnderSonarr
<1>2. CASE Post
  <2>1. /\ pc = "post" /\ pc' = "idle" /\ Room
        /\ commands' = commands \/ commands' = commands \cup {Command("ours", plan)}
    BY <1>2 DEF Post, Wait, Return
  <2> QED
    BY <2>1 DEF OursInv, OneImportOfOurs, Running
<1>3. CASE Step /\ ~Post
  <2>1. commands' = commands
    BY <1>3, StepKeeps
  <2>2. pc' = "post" => Running = {}
    BY <1>3, StepGoes, GuardDoes DEF Stops
  <2> QED
    BY <2>1, <2>2 DEF OursInv, OneImportOfOurs, Running
<1>4. CASE NewRun
  <2>1. commands' = Running /\ pc' = "idle"
    BY <1>4 DEF NewRun
  <2> QED
    BY <2>1 DEF OursInv, OneImportOfOurs, Running
<1>5. CASE UNCHANGED vars
  BY <1>5 DEF vars, sonarrVars, OursInv, OneImportOfOurs, Running
<1> QED
  BY <1>1, <1>2, <1>3, <1>4, <1>5 DEF Next, Retired

-----------------------------------------------------------------------------
(* Waits are credited for work.                                              *)

Credited ==
  (pc # "idle" /\ pc' = "idle" /\ probe'.deferral \in {"busy", "import"}) => work

\* The next state's WorkInv, whatever the poll goes on with.
LEMMA StopsKeepWork ==
  ASSUME NEW deferral, Stops(deferral)
  PROVE  WorkInv'
  BY DEF Stops, WorkInv, NoView, NoBaseline

LEMMA DecideWorks ==
  ASSUME WorkInv, NEW v, Decide(v), commands' = commands, pc \notin {"idle", "retired"},
         (v.row = "importing" \/ v.block # "none") => work
  PROVE  WorkInv' /\ Credited
<1>1. CASE Stops("none")
  BY <1>1, StopsKeepWork DEF Stops, Credited
<1>2. CASE Stops("import") /\ v.row = "importing"
  BY <1>2, StopsKeepWork DEF Stops, Credited
<1>3. CASE Stops(v.block) /\ v.block # "none"
  BY <1>3, StopsKeepWork DEF Stops, Credited
<1>4. CASE /\ pc' \in {"baseline", "scan"}
           /\ view'.block = "none"
           /\ UNCHANGED <<baseline, plan, work>>
  BY <1>4 DEF WorkInv, Credited
<1> QED
  BY <1>1, <1>2, <1>3, <1>4, DecideDoes

LEMMA StepWorks ==
  ASSUME CommandInv, WorkInv, Step
  PROVE  WorkInv' /\ Credited
<1> DEFINE Here == pc \notin {"idle", "retired"}
<1>1. CASE Poll
  <2>1. pc = "idle" /\ commands' = commands
    BY <1>1 DEF Poll, sonarrVars
  <2>2. CASE Return("imported", "none")
    BY <2>1, <2>2, ReturnStops, StopsKeepWork DEF Credited
  <2>3. CASE /\ pc' = "commands" /\ work' = (commands # {})
             /\ UNCHANGED <<second, view, scan, reused, baseline, plan>>
    BY <2>1, <2>3 DEF WorkInv, Credited
  <2> QED
    BY <1>1, <2>2, <2>3 DEF Poll
<1>2. CASE ReadCommands
  <2>1. pc = "commands" /\ commands' = commands
    BY <1>2 DEF ReadCommands, sonarrVars
  <2>2. CASE Wait("none")
    BY <2>1, <2>2, ReturnStops, StopsKeepWork DEF Wait, Credited, Stops
  <2>3. CASE /\ pc' = "queue" /\ view' = [view EXCEPT !.block = Block, !.rescans = rescans]
             /\ UNCHANGED <<baseline, work>>
    <3>1. view'.block # "none" => commands # {}
      BY <2>3, BlockTellsRunning DEF Running
    <3> QED
      BY <2>1, <2>3, <3>1 DEF WorkInv, Credited
  <2> QED
    BY <1>2, <2>2, <2>3 DEF ReadCommands
<1>3. CASE ReadQueue
  <2>1. pc = "queue" /\ commands' = commands
    BY <1>3 DEF ReadQueue, sonarrVars
  <2> DEFINE v == [view EXCEPT !.row = row, !.untracked = row = "none" /\ view.rescans = "after"]
  <2>2. (v.row = "importing" \/ v.block # "none") => work
    <3>1. v.row = "importing" => commands # {}
      BY DEF CommandInv
    <3> QED
      BY <2>1, <3>1 DEF WorkInv
  <2>3. CASE Decide(v)
    <3> HIDE DEF v
    <3> QED
      BY <2>1, <2>2, <2>3, DecideWorks
  <2>4. CASE Wait("none")
    BY <2>1, <2>4, ReturnStops, StopsKeepWork DEF Wait, Credited, Stops
  <2>5. CASE /\ pc' = "rescan" /\ view' = v /\ v.row \in {"motion", "none"}
             /\ UNCHANGED <<baseline, work>>
    <3>1. v.block # "none" => work
      BY <2>2
    <3> HIDE DEF v
    <3> QED
      BY <2>1, <2>5, <3>1 DEF WorkInv, Credited
  <2> QED
    BY <1>3, <2>3, <2>4, <2>5 DEF ReadQueue
<1>4. CASE PostRescan
  <2>1. pc = "rescan" /\ commands' = commands
    BY <1>4 DEF PostRescan
  <2>2. CASE Decide(view)
    BY <2>1, <2>2, DecideWorks DEF WorkInv
  <2>3. CASE pc' = "rescanning" /\ UNCHANGED <<locals, probe, work>>
    BY <2>1, <2>3 DEF locals, WorkInv, Credited
  <2> QED
    BY <1>4, <2>2, <2>3 DEF PostRescan
<1>5. CASE AwaitRescan
  <2>1. pc = "rescanning" /\ commands' = commands
    BY <1>5 DEF AwaitRescan
  <2>2. CASE Decide(view)
    BY <2>1, <2>2, DecideWorks DEF WorkInv
  <2>3. CASE UNCHANGED <<locals, pc, probe, work>>
    BY <2>1, <2>3 DEF locals, WorkInv, Credited
  <2>4. CASE pc' = "commands" /\ view' = NoView /\ UNCHANGED <<baseline, work>>
    BY <2>1, <2>4 DEF WorkInv, Credited, NoView
  <2> QED
    BY <1>5, <2>2, <2>3, <2>4 DEF AwaitRescan
<1>6. CASE ScanById
  <2>1. pc = "scan" /\ pc' \in {"folder", "baseline"} /\ UNCHANGED <<commands, view, baseline, work>>
    BY <1>6 DEF ScanById, sonarrVars
  <2> QED
    BY <2>1 DEF WorkInv, Credited
<1>7. CASE ScanFolder
  <2>1. pc = "folder" /\ commands' = commands
    BY <1>7 DEF ScanFolder, sonarrVars
  <2>2. CASE Wait("none")
    BY <2>1, <2>2, ReturnStops, StopsKeepWork DEF Wait, Credited, Stops
  <2>3. CASE pc' = "baseline" /\ UNCHANGED <<view, baseline, work>>
    BY <2>1, <2>3 DEF WorkInv, Credited
  <2> QED
    BY <1>7, <2>2, <2>3 DEF ScanFolder
<1>8. CASE ReadBaseline
  <2>1. pc = "baseline" /\ commands' = commands
    BY <1>8 DEF ReadBaseline, sonarrVars
  <2>2. CASE Wait("none")
    BY <2>1, <2>2, ReturnStops, StopsKeepWork DEF Wait, Credited, Stops
  <2>3. CASE /\ pc' = "files" /\ baseline' = [listed |-> Listed, block |-> Block]
             /\ UNCHANGED <<view, work>>
    <3>1. baseline'.block # "none" => commands # {}
      BY <2>3, BlockTellsRunning DEF Running
    <3> QED
      BY <2>1, <2>3, <3>1 DEF WorkInv, Credited
  <2> QED
    BY <1>8, <2>2, <2>3 DEF ReadBaseline
<1>9. CASE ReadFiles
  <2>1. pc = "files" /\ commands' = commands
    BY <1>9 DEF ReadFiles, sonarrVars
  <2>2. ASSUME NEW deferral, Stops(deferral), deferral = "none" \/ deferral = baseline.block
        PROVE  WorkInv' /\ Credited
    BY <2>2, StopsKeepWork DEF Stops, WorkInv, Credited
  <2>3. CASE pc' = "guard" /\ UNCHANGED <<view, baseline, work>>
    BY <2>1, <2>3 DEF WorkInv, Credited
  <2> QED
    BY <1>9, <2>2, <2>3, FilesDo
<1>10. CASE Guard
  <2>1. pc = "guard" /\ commands' = commands
    BY <1>10 DEF Guard, sonarrVars
  <2>2. ASSUME NEW deferral, Stops(deferral), deferral # "none" => commands # {}
        PROVE  WorkInv' /\ Credited
    BY <2>1, <2>2, StopsKeepWork DEF Stops, WorkInv, Credited
  <2>3. DiskCommandsChanged => commands # {}
    BY DEF DiskCommandsChanged, Listed
  <2>4. Block # "none" => commands # {}
    BY BlockTellsRunning DEF Running
  <2>5. CASE pc' = "post" /\ UNCHANGED <<view, baseline, plan, work>>
    BY <2>1, <2>5 DEF WorkInv, Credited
  <2> QED
    BY <1>10, <2>2, <2>3, <2>4, <2>5, GuardDoes
<1>11. CASE Post
  <2>1. Wait("none") \/ Wait("issued")
    BY <1>11 DEF Post
  <2> QED
    BY <2>1, ReturnStops, StopsKeepWork DEF Wait, Credited, Stops
<1> QED
  BY <1>1, <1>2, <1>3, <1>4, <1>5, <1>6, <1>7, <1>8, <1>9, <1>10, <1>11 DEF Step

LEMMA WorkInvKept == CommandInv /\ WorkInv /\ [Next]_vars => WorkInv' /\ (Credited \/ UNCHANGED vars)
<1> SUFFICES ASSUME CommandInv, WorkInv, [Next]_vars PROVE WorkInv' /\ (Credited \/ UNCHANGED vars)
  OBVIOUS
<1>1. CASE Step
  BY <1>1, StepWorks
<1>2. CASE Sonarr
  <2>1. UNCHANGED <<pc, view, baseline>>
    BY <1>2, SonarrKeeps DEF locals
  <2>2. /\ (pc \notin {"idle", "retired"} /\ commands' # {}) => work'
        /\ work => work'
    <3>1. SonarrTurns
      BY <1>2, SonarrDoes
    <3> QED
      BY <3>1 DEF SonarrTurns, WorkInv
  <2> QED
    BY <2>1, <2>2 DEF WorkInv, Credited
<1>3. CASE NewRun
  <2>1. pc' = "idle" /\ probe' = NoProbe /\ view' = NoView /\ baseline' = NoBaseline
    BY <1>3 DEF NewRun, ClearLocals
  <2> QED
    BY <2>1 DEF WorkInv, Credited, NoProbe, NoView, NoBaseline
<1>4. CASE UNCHANGED vars
  BY <1>4 DEF vars, sonarrVars, locals, WorkInv
<1> QED
  BY <1>1, <1>2, <1>3, <1>4 DEF Next, Retired

-----------------------------------------------------------------------------
(* The guard sees what Sonarr has done.                                      *)

\* With a baseline that found no work, a command in flight is one it did not list.
LEMMA RunningIsTrace ==
  ASSUME NEW c \in Running, \A l \in baseline.listed : c.id # l[1]
  PROVE  /\ \A s : <<c.id, s>> \notin baseline.listed
         /\ Trace
  BY DEF Running, Trace

LEMMA GuardUnderSonarr ==
  ASSUME CommandInv, GuardInv, Sonarr
  PROVE  GuardInv'
<1>1. UNCHANGED <<pc, baseline, plan, record>>
  BY SonarrKeeps DEF locals, settings
<1>2. SonarrTurns
  BY SonarrDoes
<1> DEFINE Quiet == pc \in {"files", "guard"} /\ baseline.block = "none"
<1>3. ASSUME Quiet PROVE \A c \in Running', l \in baseline.listed : c.id # l[1]
  <2>1. \A c \in Running, l \in baseline.listed : c.id # l[1]
    BY <1>3 DEF GuardInv
  <2>2. ASSUME NEW kind \in Kinds, Adds(kind) PROVE \A c \in Running', l \in baseline.listed : c.id # l[1]
    BY <2>1, <2>2 DEF Adds, Running
  <2>3. ASSUME NEW c \in commands, NEW d, Turns(c, d, "started"), c.status = "queued"
        PROVE  \A e \in Running', l \in baseline.listed : e.id # l[1]
    <3>1. commands' = (commands \ {c}) \cup {d} /\ d.id = c.id /\ c \in Running
      BY <2>3 DEF Turns, Running, InFlight
    <3> QED
      BY <2>1, <3>1 DEF Running
  <2>4. ASSUME NEW c \in commands, NEW d, Turns(c, d, "ended")
        PROVE  \A e \in Running', l \in baseline.listed : e.id # l[1]
    <3>1. commands' = (commands \ {c}) \cup {d} /\ ~InFlight(d)
      BY <2>4 DEF Turns, InFlight
    <3> QED
      BY <2>1, <3>1 DEF Running
  <2>5. CASE commands' \subseteq commands
    BY <2>1, <2>5 DEF Running
  <2> QED
    BY <1>2, <2>2, <2>3, <2>4, <2>5 DEF SonarrTurns
<1>4. ASSUME Quiet, Trace PROVE Trace'
  <2>1. \A c \in Running : \A s : <<c.id, s>> \notin baseline.listed
    BY <1>4, RunningIsTrace DEF GuardInv
  <2>2. CASE RescanEnds /\ rescans' # rescans
    <3>1. \/ \E c \in Running : c.kind = "pass" /\ commands' = commands
          \/ Room /\ commands' = commands \cup {Command("pass", {})}
      BY <2>2 DEF RescanEnds, Queues
    <3>2. CASE \E c \in Running : commands' = commands
      BY <1>1, <2>1, <3>2 DEF Trace, Running
    <3>3. CASE Room /\ commands' = commands \cup {Command("pass", {})}
      <4>1. Adds("pass")
        BY <3>3, CommandAdds DEF Kinds
      <4>2. PICK c \in commands' : \A l \in baseline.listed : c.id # l[1]
        BY <4>1 DEF Adds
      <4>3. <<c.id, c.status>> \notin baseline.listed
        BY <4>2
      <4> QED
        BY <1>1, <4>2, <4>3 DEF Trace
    <3> QED
      BY <3>1, <3>2, <3>3
  <2>3. CASE rescans' = "none"
    BY <2>3 DEF Trace
  <2>4. CASE rescans' = rescans
    <3>1. CASE rescans = "none"
      BY <2>4, <3>1 DEF Trace
    <3>2. ASSUME NEW e \in commands, <<e.id, e.status>> \notin baseline.listed PROVE Trace'
      <4>1. ASSUME NEW kind \in Kinds, Adds(kind) PROVE Trace'
        BY <1>1, <3>2, <4>1 DEF Adds, Trace
      <4>2. ASSUME NEW c \in commands, NEW d, NEW s, Turns(c, d, s), InFlight(c) PROVE Trace'
        <5>1. /\ commands' = (commands \ {c}) \cup {d}
              /\ d.id = c.id
              /\ c \in Running
          BY <4>2 DEF Turns, Running
        <5>2. <<d.id, d.status>> \notin baseline.listed
          BY <2>1, <5>1
        <5> QED
          BY <1>1, <5>1, <5>2 DEF Trace
      <4>3. CASE Restarts
        BY <4>3 DEF Restarts, Trace
      <4>4. CASE commands' = commands
        BY <1>1, <3>2, <4>4 DEF Trace
      <4>5. CASE WorkQueued \/ RescanScheduled \/ RescanEnds
        <5>1. commands \subseteq commands'
          BY <4>5 DEF WorkQueued, RescanScheduled, RescanEnds, Queues
        <5> QED
          BY <1>1, <3>2, <5>1 DEF Trace
      <4>6. ASSUME NEW c \in commands, WorkStarts(c) PROVE Trace'
        BY <4>2, <4>6, StartTurns DEF InFlight
      <4>7. ASSUME NEW c \in commands, WorkEnds(c) PROVE Trace'
        BY <1>4, <4>2, <4>7, EndTurns DEF InFlight
      <4>8. ASSUME NEW c \in commands, FileLands(c) PROVE Trace'
        BY <4>4, <4>8 DEF FileLands
      <4> QED
        BY <4>3, <4>5, <4>6, <4>7, <4>8 DEF Sonarr
    <3> QED
      BY <1>4, <3>1, <3>2 DEF Trace
  <2> QED
    BY <2>2, <2>3, <2>4, SonarrKeeps
<1>5. ASSUME Quiet, PlanNeeded PROVE Trace' \/ PlanNeeded'
  <2>1. CASE disk' = disk
    <3>1. UNCHANGED <<disk, record, plan>>
      BY <1>1, <2>1
    <3> QED
      BY <1>5, <3>1 DEF PlanNeeded, Recommended, Misplaced, OwnCopy, Intended, Mapped, With
  <2>2. ASSUME NEW c \in commands, c.status = "started" PROVE Trace'
    <3>1. c \in Running
      BY <2>2 DEF Running, InFlight
    <3> QED
      BY <1>3, <1>4, <1>5, <3>1, RunningIsTrace DEF GuardInv
  <2> QED
    BY <2>1, <2>2, SonarrKeeps
<1> QED
  BY <1>1, <1>3, <1>4, <1>5 DEF GuardInv

\* The plan is made of episodes that need it.
LEMMA PlanIsNeeded == \A seen : \A fe \in PlanFor(seen) : ~Recommended(fe[2]) \/ OwnCopy(fe[2])
  BY DEF PlanFor, ImportIds

LEMMA GuardInvKept == CommandInv /\ GuardInv /\ [Next]_vars => GuardInv'
<1> SUFFICES ASSUME CommandInv, GuardInv, [Next]_vars PROVE GuardInv'
  OBVIOUS
<1>1. CASE Sonarr
  BY <1>1, GuardUnderSonarr
<1>2. CASE Step
  <2>1. CASE pc' \notin {"files", "guard", "post"}
    BY <2>1 DEF GuardInv
  <2>2. CASE ReadBaseline /\ pc' = "files"
    <3>1. commands' = commands /\ baseline' = [listed |-> Listed, block |-> Block]
      BY <2>2 DEF ReadBaseline, sonarrVars, Wait, Return
    <3>2. baseline'.listed = Listed /\ baseline'.block = Block
      BY <3>1
    <3>3. ASSUME Block = "none"
          PROVE  Running = {} /\ \A l \in Listed : l[2] \notin {"queued", "started"}
      BY <3>3, BlockTellsRunning DEF Running, InFlight, Listed
    <3>4. Running' = {c \in commands' : InFlight(c)}
      BY DEF Running
    <3> QED
      BY <2>2, <3>1, <3>2, <3>3, <3>4 DEF GuardInv, Running
  <2>3. CASE ReadFiles /\ pc' = "guard"
    <3>1. /\ pc = "files"
          /\ UNCHANGED <<commands, disk, record, baseline>>
          /\ baseline.block = "none"
          /\ plan' = PlanFor(scan.files)
      BY <2>3, FilesDo DEF ReadFiles, sonarrVars, settings, Stops
    <3>2. \A fe \in PlanFor(scan.files) : ~Recommended(fe[2]) \/ OwnCopy(fe[2])
      BY PlanIsNeeded
    <3>3. PlanNeeded'
      BY <3>1, <3>2 DEF PlanNeeded, Recommended, Misplaced, OwnCopy, Intended, Mapped, With
    <3> QED
      BY <3>1, <3>3 DEF GuardInv, Running
  <2>4. CASE pc' = "post"
    BY <2>4 DEF GuardInv
  <2> QED
    BY <1>2, <2>1, <2>2, <2>3, <2>4, StepGoes
<1>3. CASE NewRun
  <2>1. pc' = "idle"
    BY <1>3 DEF NewRun
  <2> QED
    BY <2>1 DEF GuardInv
<1>4. CASE UNCHANGED vars
  BY <1>4 DEF vars, sonarrVars, settings, locals, GuardInv, Running, Trace, PlanNeeded,
              Recommended, Misplaced, OwnCopy, Intended, Mapped, With
<1> QED
  BY <1>1, <1>2, <1>3, <1>4 DEF Next, Retired

LEMMA PollInvKept == PollInv /\ [Next]_vars => PollInv'
  BY CommandInvKept, OursInvKept, WorkInvKept, GuardInvKept DEF PollInv

-----------------------------------------------------------------------------

LEMMA PollInvariance == Spec => []PollInv
  BY PollInvStarts, PollInvKept, PTL DEF Spec

(* However answers are lost and however Sonarr and the run restart, Sonarr     *)
(* never holds two imports of the download posted by us (_guard_before_post).  *)
THEOREM OneImportIsPosted == Spec => []OneImportOfOurs
<1>1. PollInv => OneImportOfOurs
  BY DEF PollInv, OursInv
<1> QED
  BY <1>1, PollInvariance, PTL

LEMMA NothingOverRecommended == Spec => NeverOverRecommended
<1>1. PollInv /\ [Next]_vars =>
        [pc # "post" /\ pc' = "post" => \A fe \in plan' : ~Recommended(fe[2]) \/ OwnCopy(fe[2])]_vars
  <2> SUFFICES ASSUME PollInv, [Next]_vars, pc # "post", pc' = "post"
               PROVE  \A fe \in plan' : ~Recommended(fe[2]) \/ OwnCopy(fe[2])
    OBVIOUS
  <2>1. Guard
    <3>1. ~Sonarr /\ ~NewRun /\ ~(UNCHANGED vars)
      <4>1. Sonarr => pc' = pc
        BY SonarrKeeps
      <4>2. NewRun => pc' = "idle"
        BY DEF NewRun
      <4>3. UNCHANGED vars => pc' = pc
        BY DEF vars
      <4> QED
        BY <4>1, <4>2, <4>3
    <3>2. Step
      BY <3>1 DEF Next, Retired
    <3> QED
      BY <3>2, StepGoes
  <2>2. /\ plan' = plan
        /\ ~SonarrRestarted
        /\ ~DiskCommandsChanged
    BY <2>1, GuardDoes DEF Stops
  <2>3. pc = "guard"
    BY <2>1 DEF Guard
  <2>4. ~Trace
    BY <2>2 DEF Trace, SonarrRestarted, DiskCommandsChanged, Listed
  <2> QED
    BY <2>2, <2>3, <2>4 DEF PollInv, GuardInv, PlanNeeded
<1> QED
  BY <1>1, PollInvariance, PTL DEF Spec, NeverOverRecommended

LEMMA CreditsAreForWork == Spec => CreditedForWork
<1>1. PollInv /\ [Next]_vars =>
        [pc # "idle" /\ pc' = "idle" /\ probe'.deferral \in {"busy", "import"} => work]_vars
  BY WorkInvKept DEF PollInv, Credited
<1> QED
  BY <1>1, PollInvariance, PTL DEF Spec, CreditedForWork

\* Where no mapped file is read as a sample, an empty plan over all of them means
\* that their episodes are in.
LEMMA NothingLeftIsAllDone ==
  ASSUME SampleFiles = {}, record \in Records, Mapped # {}, NEW seen, Verifies(seen)
  PROVE  AllDone
<1>1. PlanFor(seen) = {} /\ Mapped \subseteq seen
  BY DEF Verifies
<1>2. ASSUME NEW f \in Mapped, NEW e \in record.eps[f] PROVE Recommended(e)
  <2>1. SUFFICES ASSUME ~Recommended(e) PROVE FALSE
    OBVIOUS
  <2>2. e \in ImportIds(f)
    BY <1>2, <2>1 DEF ImportIds
  <2>3. <<f, e>> \in {f} \X ImportIds(f)
    BY <2>2
  <2>4. f \in (Mapped \cap seen) \ SampleFiles
    BY <1>1
  <2> QED
    BY <1>1, <2>3, <2>4 DEF PlanFor
<1>3. PICK f \in Mapped : record.eps[f] # {}
  BY StepInAssumption DEF StepInAssumption, Mapped, With
<1> QED
  BY <1>2, <1>3 DEF AllDone, Targets

LEMMA ReturnRetires ==
  ASSUME NEW kind, NEW deferral, Return(kind, deferral), pc' = "retired"
  PROVE  kind = "imported"
  BY DEF Return

LEMMA StepRetires ==
  ASSUME SampleFiles = {}, record \in Records, Step, pc' = "retired"
  PROVE  AllDone \/ FilledByHand
<1> DEFINE Good == AllDone \/ FilledByHand
<1>1. ASSUME NEW deferral, Wait(deferral) PROVE FALSE
  BY <1>1, ReturnRetires DEF Wait
<1>2. ASSUME NEW v, Decide(v) PROVE FALSE
  BY <1>1, <1>2 DEF Decide, TakeKeptScan
<1>3. CASE Poll
  BY <1>3 DEF Poll, AlreadyImported
<1>4. CASE ReadCommands \/ ScanById \/ ScanFolder \/ ReadBaseline \/ Post
  BY <1>1, <1>4 DEF ReadCommands, ScanById, ScanFolder, ReadBaseline, Post
<1>5. CASE ReadQueue
  BY <1>1, <1>2, <1>5 DEF ReadQueue
<1>6. CASE PostRescan
  BY <1>2, <1>6 DEF PostRescan
<1>7. CASE AwaitRescan
  BY <1>2, <1>7 DEF AwaitRescan
<1>8. CASE ReadFiles
  <2>1. CASE AlreadyImported
    BY <2>1 DEF AlreadyImported
  <2>2. CASE Import
    <3>1. ~Return("hand import", "none") /\ ~Return("unmatched", "none")
      BY ReturnRetires
    <3>2. CASE Mapped = {}
      BY <1>1, <2>2, <3>1, <3>2 DEF Import
    <3>3. CASE Mapped # {} /\ ~AllDone /\ ~Verifies(scan.files)
      BY <1>1, <2>2, <3>3 DEF Import
    <3>4. CASE Mapped # {} /\ Verifies(scan.files)
      BY <3>4, NothingLeftIsAllDone
    <3> QED
      BY <3>2, <3>3, <3>4
  <2> QED
    BY <1>1, <1>8, <2>1, <2>2 DEF ReadFiles, WaitKeeping
<1>9. CASE Guard
  BY <1>1, <1>9 DEF Guard, WaitKeeping
<1> QED
  BY <1>3, <1>4, <1>5, <1>6, <1>7, <1>8, <1>9 DEF Step

LEMMA RecordStays == Spec => [](record \in Records)
<1>1. Init => record \in Records
  BY DEF Init
<1>2. record \in Records /\ [Next]_vars => (record \in Records)'
  <2> SUFFICES ASSUME record \in Records, [Next]_vars PROVE record' \in Records
    OBVIOUS
  <2>1. Sonarr => record' = record
    BY SonarrKeeps DEF settings
  <2>2. Step => record' = record
    BY StepKeeps
  <2>3. (NewRun \/ UNCHANGED vars) => record' = record
    BY DEF NewRun, vars, settings
  <2> QED
    BY <2>1, <2>2, <2>3 DEF Next, Retired
<1> QED
  BY <1>1, <1>2, PTL DEF Spec

LEMMA ImportedStaysTrue ==
  ASSUME SampleFiles = {}
  PROVE  Spec => ImportedIsTrue
<1>1. record \in Records /\ [Next]_vars =>
        [pc # "retired" /\ pc' = "retired" => AllDone \/ FilledByHand]_vars
  <2> SUFFICES ASSUME record \in Records, [Next]_vars, pc # "retired", pc' = "retired"
               PROVE  AllDone \/ FilledByHand
    OBVIOUS
  <2>1. Sonarr => pc' = pc
    BY SonarrKeeps
  <2>2. NewRun => pc' = "idle"
    BY DEF NewRun
  <2>3. UNCHANGED vars => pc' = pc
    BY DEF vars
  <2> QED
    BY <2>1, <2>2, <2>3, StepRetires DEF Next, Retired
<1> QED
  BY <1>1, RecordStays, PTL DEF Spec, ImportedIsTrue

(* What a poll may do, whatever Sonarr does meanwhile: it posts nothing over a *)
(* recommended file, credits no wait in which nothing was done, and, where no  *)
(* mapped file is refused as a sample, retires no record that is not in        *)
(* (ImportReconciler, ImportExecutor; a sample breaks the last: see README).   *)
THEOREM PollsStaySound ==
  ASSUME SampleFiles = {}
  PROVE  Spec => PollsAreSound
  BY NothingOverRecommended, CreditsAreForWork, ImportedStaysTrue DEF PollsAreSound
=============================================================================
