------------------------------ MODULE Manifest -------------------------------
(***************************************************************************)
(* atlas_pipeline: one Manifest object used by one tool.                   *)
(***************************************************************************)
EXTENDS ManifestOps

ASSUME NoneAssumption == None \notin Record

VARIABLE m              \* the manifest

\* Type invariant: the Vec holds records, guid_index has guids for keys and
\* path_index paths.
TypeOK ==
    /\ m.records \in Seq(Record)
    /\ DOMAIN m.guid_index \subseteq Guids
    /\ DOMAIN m.path_index \subseteq Paths

Init == m = New

\* register_asset.  An empty guid is replaced by generate_guid, whose value
\* (derived from the clock's nanoseconds) may be any guid, a used one included.
RegisterAsset(r) ==
    /\ Len(m.records) < MaxRecords \/ r.path \in DOMAIN m.path_index
    /\ m' = Registered(m, r)

RemoveAsset(g) ==
    /\ g \in DOMAIN m.guid_index
    /\ m' = Removed(m, g)

Next ==
    \/ \E r \in Record : RegisterAsset(r)
    \/ \E g \in Guids : RemoveAsset(g)

Spec == Init /\ [][Next]_m

-----------------------------------------------------------------------------
(* Properties.                                                             *)

\* In every reachable manifest the indexes are in range (so that neither
\* register_asset nor remove_asset can panic), each path has one record that
\* find_by_path finds, and each record's guid is a key of guid_index.
IndexesSound == Sound(m)

\* The manifest implements the registry by path: whatever the guids do,
\* find_by_path answers as if there were no indexes and no positions.
Registry == INSTANCE AssetRegistry WITH
    Assets <- Record,
    asset  <- [p \in Paths |-> IF p \in DOMAIN m.path_index
                               THEN m.records[m.path_index[p]]
                               ELSE None]
ImplementsRegistry == Registry!Spec

\* remove_asset(g) costs at most the record it names by index; every other
\* path keeps its record through the shift of the Vec and the rebuild.
RemoveTakesOne ==
    [][\A g \in Guids : RemoveAsset(g) =>
         \A p \in Paths : p # m.records[m.guid_index[g]].path =>
             FindByPath(m', p) = FindByPath(m, p)
      ]_m

-----------------------------------------------------------------------------
(* What the repository says of the manifest and the code does not do.      *)

\* "GUID -> asset path registry": find_by_guid(g) returns the record of g.
GuidLookupExact == GuidsExact(m)
=============================================================================
