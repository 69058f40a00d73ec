----------------------------- MODULE ManifestOps -----------------------------
(***************************************************************************)
(* atlas_pipeline: the in-memory asset Manifest as a value.                *)
(*                                                                         *)
(* A manifest is a Vec of records with two hash maps into it, by guid and  *)
(* by path.  A record keeps its guid, its path and, standing for type,     *)
(* import date and checksum, a revision.  Positions count from 1 here and  *)
(* from 0 in the code.                                                     *)
(***************************************************************************)
EXTENDS Integers, Sequences, SequencesExt

CONSTANTS Guids, Paths, Revisions,
          None,         \* no asset, no manifest, no save under way
          MaxRecords    \* bound on the records of one manifest

ASSUME RecordBoundAssumption == MaxRecords \in Nat

Record == [guid : Guids, path : Paths, rev : Revisions]

\* HashMap::insert and HashMap::remove.
Insert(index, key, i) ==
    [k \in DOMAIN index \cup {key} |-> IF k = key THEN i ELSE index[k]]
Without(index, key) == [k \in DOMAIN index \ {key} |-> index[k]]

\* The index that pushing the records one by one builds: the last one with a
\* key wins.
LastWith(recs, key, field) ==
    CHOOSE i \in DOMAIN recs :
        /\ recs[i][field] = key
        /\ \A j \in DOMAIN recs : recs[j][field] = key => j <= i
IndexBy(recs, field) ==
    [key \in {recs[i][field] : i \in DOMAIN recs} |-> LastWith(recs, key, field)]

\* Manifest::load pushes the records of the file; remove_asset's rebuild_index
\* ends with the same two maps.
Rebuilt(recs) == [records    |-> recs,
                  guid_index |-> IndexBy(recs, "guid"),
                  path_index |-> IndexBy(recs, "path")]

New == Rebuilt(<<>>)

\* The slip of crossing the two keys, then the code.
PushedCrossed(m, r) ==
    LET idx == Len(m.records) + 1
    IN [records    |-> Append(m.records, r),
        guid_index |-> Insert(m.guid_index, r.path, idx),
        path_index |-> Insert(m.path_index, r.guid, idx)]

Pushed(m, r) ==
    LET idx == Len(m.records) + 1
    IN [records    |-> Append(m.records, r),
        guid_index |-> Insert(m.guid_index, r.guid, idx),
        path_index |-> Insert(m.path_index, r.path, idx)]

\* register_asset on a known path: the record is replaced in place and its new
\* guid indexed; the guid it had stays in guid_index.  The slip replaces the
\* record last pushed.
UpdatedLast(m, r) ==
    [m EXCEPT !.records[Len(m.records)] = r,
              !.guid_index = Insert(@, r.guid, m.path_index[r.path])]

Updated(m, r) ==
    LET idx == m.path_index[r.path]
    IN [records    |-> [m.records EXCEPT ![idx] = r],
        guid_index |-> Insert(m.guid_index, r.guid, idx),
        path_index |-> m.path_index]

Registered(m, r) ==
    IF r.path \in DOMAIN m.path_index THEN Updated(m, r) ELSE Pushed(m, r)

\* remove_asset: the record the index names, whatever its own guid is.  The
\* code drops the record's two keys and rebuilds both maps, which makes the
\* first step redundant.  The slips are to rely on it, and to be one position off.
RemovedUnshifted(m, g) ==
    IF g \in DOMAIN m.guid_index
    THEN LET idx == m.guid_index[g]
         IN [records    |-> RemoveAt(m.records, idx),
             guid_index |-> Without(m.guid_index, m.records[idx].guid),
             path_index |-> Without(m.path_index, m.records[idx].path)]
    ELSE m

RemovedBefore(m, g) ==
    IF g \in DOMAIN m.guid_index
    THEN Rebuilt(RemoveAt(m.records, LET i == m.guid_index[g]
                                     IN IF i = 1 THEN 1 ELSE i - 1))
    ELSE m

Removed(m, g) ==
    IF g \in DOMAIN m.guid_index
    THEN Rebuilt(RemoveAt(m.records, m.guid_index[g]))
    ELSE m

FindByGuid(m, g) ==
    IF g \in DOMAIN m.guid_index THEN {m.records[m.guid_index[g]]} ELSE {}
FindByPath(m, p) ==
    IF p \in DOMAIN m.path_index THEN {m.records[m.path_index[p]]} ELSE {}

-----------------------------------------------------------------------------
(* What the indexes promise.                                               *)

\* Every entry of an index is a position of the Vec: `records[idx]` and
\* `records.remove(idx)` cannot panic.
InRange(m) ==
    /\ \A g \in DOMAIN m.guid_index : m.guid_index[g] \in DOMAIN m.records
    /\ \A p \in DOMAIN m.path_index : m.path_index[p] \in DOMAIN m.records

\* path_index is exactly the inverse of the records' paths, so there is one
\* record for a path and find_by_path finds it.
PathsExact(m) ==
    /\ \A p \in DOMAIN m.path_index : m.records[m.path_index[p]].path = p
    /\ \A i \in DOMAIN m.records : /\ m.records[i].path \in DOMAIN m.path_index
                                   /\ m.path_index[m.records[i].path] = i

\* No record is out of reach of find_by_guid's keys.
GuidsKnown(m) ==
    \A i \in DOMAIN m.records : m.records[i].guid \in DOMAIN m.guid_index

Sound(m) == InRange(m) /\ PathsExact(m) /\ GuidsKnown(m)

\* find_by_guid(g) returns a record whose guid is g.
GuidsExact(m) ==
    \A g \in DOMAIN m.guid_index : m.records[m.guid_index[g]].guid = g
=============================================================================
