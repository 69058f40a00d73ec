------------------------------ MODULE Entities -------------------------------
(***************************************************************************)
(* atlas_engine: EntityManager, a pool of ids with a free list, beside     *)
(* ComponentStore, which keys components by id and is told nothing of the  *)
(* lives of entities.                                                      *)
(***************************************************************************)
EXTENDS Integers, Sequences

CONSTANTS Kinds,       \* the component types
          MaxId,       \* bound on the ids
          MaxFree,     \* bound on the free list
          MaxBirths    \* bound on the entities created

ASSUME BoundAssumption == MaxId \in Nat /\ MaxFree \in Nat /\ MaxBirths \in Nat

INVALID_ENTITY == 0
Ids == 0 .. MaxId

VARIABLES alive,    \* id -> its occurrences in the alive list, whose order
                    \* nothing uses
          free,     \* the free list, top last
          next_id,
          pools,    \* kind -> id -> the birth of the entity its component
                    \* was added to, 0 when it has none
          births,   \* entities created so far (history)
          born      \* id -> the birth that has it now or had it last (history)

entityVars == <<alive, free, next_id, pools, births, born>>

\* Type invariant; INVALID_ENTITY is never the next id.
EntityTypeOK ==
    /\ alive \in [Ids -> Nat]
    /\ free \in Seq(Ids)
    /\ next_id \in (INVALID_ENTITY + 1) .. MaxId + 1
    /\ pools \in [Kinds -> [Ids -> 0 .. MaxBirths]]
    /\ births \in 0 .. MaxBirths
    /\ born \in [Ids -> 0 .. MaxBirths]

\* The slip is to count ids from 0, which is INVALID_ENTITY.
FromZero == INVALID_ENTITY
FirstId == 1

EntityInit ==
    /\ alive = [id \in Ids |-> 0]
    /\ free = <<>>
    /\ next_id = FirstId
    /\ pools = [k \in Kinds |-> [id \in Ids |-> 0]]
    /\ births = 0
    /\ born = [id \in Ids |-> 0]

\* The slip is to reuse the top of the free list and leave it there.
Peeked == free
Popped == SubSeq(free, 1, Len(free) - 1)

Born(id) ==
    /\ births < MaxBirths
    /\ births' = births + 1
    /\ born' = [born EXCEPT ![id] = births + 1]
    /\ alive' = [alive EXCEPT ![id] = @ + 1]

CreateReused ==
    /\ free # <<>>
    /\ Born(free[Len(free)])
    /\ free' = Popped
    /\ UNCHANGED <<next_id, pools>>

CreateFresh ==
    /\ free = <<>>
    /\ next_id <= MaxId
    /\ Born(next_id)
    /\ next_id' = next_id + 1
    /\ UNCHANGED <<free, pools>>

\* destroy takes any id, live or not.
Destroy(id) ==
    /\ Len(free) < MaxFree
    /\ alive' = [alive EXCEPT ![id] = 0]
    /\ free' = Append(free, id)
    /\ UNCHANGED <<next_id, pools, births, born>>

\* The slip is to leave the free list, whose ids next_id then gives again.
FreeKept == free
FreeCleared == <<>>

ClearAll ==
    /\ alive' = [id \in Ids |-> 0]
    /\ free' = FreeCleared
    /\ next_id' = FirstId
    /\ UNCHANGED <<pools, births, born>>

Add(k, id) ==
    /\ pools' = [pools EXCEPT ![k][id] = born[id]]
    /\ UNCHANGED <<alive, free, next_id, births, born>>

RemoveComponent(k, id) ==
    /\ pools' = [pools EXCEPT ![k][id] = 0]
    /\ UNCHANGED <<alive, free, next_id, births, born>>

Alive(id) == alive[id] > 0
Has(k, id) == pools[k][id] # 0

\* Every call the types allow, with ids that some create has returned.
EntityNext ==
    \/ CreateReused
    \/ CreateFresh
    \/ ClearAll
    \/ \E id \in Ids : born[id] # 0 /\ Destroy(id)
    \/ \E k \in Kinds, id \in Ids : Alive(id) /\ Add(k, id)
    \/ \E k \in Kinds, id \in Ids : RemoveComponent(k, id)

EntitySpec == EntityInit /\ [][EntityNext]_entityVars

\* A caller that destroys live entities only, and strips an entity of its
\* components before destroying it, and every entity before clear.
Bare(id) == \A k \in Kinds : ~Has(k, id)

CarefulNext ==
    \/ CreateReused
    \/ CreateFresh
    \/ (\A id \in Ids : Bare(id)) /\ ClearAll
    \/ \E id \in Ids : Alive(id) /\ Bare(id) /\ Destroy(id)
    \/ \E k \in Kinds, id \in Ids : Alive(id) /\ Add(k, id)
    \/ \E k \in Kinds, id \in Ids : RemoveComponent(k, id)

CarefulSpec == EntityInit /\ [][CarefulNext]_entityVars

-----------------------------------------------------------------------------
(* Properties of the careful caller.                                       *)

Freed == {free[i] : i \in DOMAIN free}

\* Each id given out so far is live once or free once: none is shared by two
\* entities, none is lost, and INVALID_ENTITY is never given.
PoolPartition ==
    /\ \A id \in Ids : alive[id] <= 1 /\ (Alive(id) => id \notin Freed)
    /\ \A i, j \in DOMAIN free : free[i] = free[j] => i = j
    /\ {id \in Ids : Alive(id)} \cup Freed = 1 .. next_id - 1

\* A component found under an id was added to the entity that has the id now,
\* never to one that had it before.
OwnComponents ==
    \A k \in Kinds, id \in Ids : Has(k, id) => Alive(id) /\ pools[k][id] = born[id]

-----------------------------------------------------------------------------
(* What the repository says of the pool and the code does not do.          *)

\* "Pool of live entity IDs": entities created and not destroyed differ.
LiveIdsDiffer == \A id \in Ids : alive[id] <= 1
=============================================================================
