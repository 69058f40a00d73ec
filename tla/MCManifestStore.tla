--------------------------- MODULE MCManifestStore ---------------------------
(* Constants for model checking ManifestStore.                             *)
EXTENDS ManifestStore, TLC

CONSTANTS tA, tB, g1, g2, p1, p2, r1

MCTools     == {tA, tB}
MCGuids     == {g1}
MCPaths     == {p1, p2}
MCRevisions == {r1}
MCSymmetry  == Permutations(MCTools) \cup Permutations(MCGuids) \cup Permutations(MCPaths)
=============================================================================
