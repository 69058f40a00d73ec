----------------------------- MODULE MCManifest ------------------------------
(* Constants for model checking Manifest.                                  *)
EXTENDS Manifest, TLC

CONSTANTS g1, g2, g3, p1, p2, p3, r1

MCGuids     == {g1, g2, g3}
MCPaths     == {p1, p2, p3}
MCTwoPaths  == {p1, p2}
MCRevisions == {r1}
=============================================================================
