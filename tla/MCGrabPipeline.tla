--------------------------- MODULE MCGrabPipeline ---------------------------
(* An arr item with two AniList ids that share torrent 11; 13 is private and *)
(* 14 on a tracker without a parser.                                         *)
EXTENDS GrabPipeline

MCLists == <<{11, 14}, {11, 12, 13}>>

\* The placement holds nothing, or the shared release of the second title, whose
\* other one then lists no video.
MCSettings == {
  [fallback |-> FALSE, byHash |-> FALSE, holds |-> <<{}, {}>>, videoless |-> {}],
  [fallback |-> TRUE, byHash |-> TRUE, holds |-> <<{}, {11}>>, videoless |-> {12}]}
=============================================================================
