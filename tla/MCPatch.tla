------------------------------ MODULE MCPatch --------------------------------
(* Constants for model checking Patch.                                     *)
EXTENDS Patch, TLC

CONSTANTS p1, p2, b1, b2, h1, h2, h3

MCPaths   == {p1, p2}
MCBodies  == {b1, b2}
MCPackage == p1 :> b1 @@ p2 :> b1
MCSums    == {h1, h2, h3}

\* The copy's first bytes have a checksum of their own.
MCSum == b1 :> h1 @@ b2 :> h2 @@ Partial :> h3

\* Up to three entries: files deleted, put with the right checksum, a wrong
\* one or none, and paths named twice.
MCEntries ==
    [path : MCPaths, op : {"Delete"}, checksum : {Unchecked}]
        \cup [path : MCPaths, op : {"Put"}, checksum : {Unchecked, h1, h2}]
MCManifests == UNION {[1 .. n -> MCEntries] : n \in 0 .. 3}
=============================================================================
