----------------------------- MODULE MCPlanner -----------------------------
(* The two halves of planning a grab: which of an entry's releases are       *)
(* grabbed, and onto which episodes the files of a grabbed release go.  They *)
(* share no state: the choice reads the placement's outcome as an input, so  *)
(* a behaviour follows one of them and the run explores both.                *)
EXTENDS MCReleaseChoice, MCPlacement

VARIABLE half

\* Where the half that is not looked at stands.
NoTitle   == Title(<<Torrent(1, "A", "best", {1}, TRUE), Torrent(2, "A", "best", {1}, TRUE)>>,
                   Disk(NoFile, NoFile), FALSE)
NoTorrent == TorrentOf(<<Count("Show", 1, {}), Count("Show", 2, {}), Count("Show", 3, {})>>, Seasons, Entries, {}, {})

Init ==
  /\ half \in {"choice", "placement"}
  /\ half = "choice" \/ (half # "choice" /\ title = NoTitle)
  /\ half = "placement" \/ (half # "placement" /\ torrent = NoTorrent)
  /\ ChoiceInit /\ PlacementInit

Next ==
  /\ UNCHANGED half
  /\ \/ half = "choice" /\ ChoiceNext /\ UNCHANGED placementVars
     \/ half = "placement" /\ PlacementNext /\ UNCHANGED choiceVars

Spec == Init /\ [][Next]_<<half, choiceVars, placementVars>>
=============================================================================
