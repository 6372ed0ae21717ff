--------------------------- MODULE MCRunCoverage ---------------------------
(* RunCoverage for TLC: the titles are interchangeable.                      *)
EXTENDS RunCoverage, TLC

Symmetry == Permutations(Titles)
=============================================================================
