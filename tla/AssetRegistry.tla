---------------------------- MODULE AssetRegistry ----------------------------
(***************************************************************************)
(* What the manifest is for, without its indexes: at most one asset per    *)
(* path, registering an asset replaces what was at its path, removing      *)
(* takes one asset away.                                                   *)
(***************************************************************************)
CONSTANTS Paths,
          Assets,   \* the assets, each with its .path
          None

VARIABLE asset      \* path -> the asset registered there, or None

Init == asset = [p \in Paths |-> None]

Register(a) == asset' = [asset EXCEPT ![a.path] = a]

Remove(p) == asset[p] # None /\ asset' = [asset EXCEPT ![p] = None]

Next == \/ \E a \in Assets : Register(a)
        \/ \E p \in Paths : Remove(p)

Spec == Init /\ [][Next]_asset
=============================================================================
