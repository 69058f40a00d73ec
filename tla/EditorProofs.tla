---------------------------- MODULE EditorProofs -----------------------------
(* TLAPS proofs about the two structures under the Rust editor: the entity *)
(* pool with its components, for any component types and bounds, and the   *)
(* undo stack, for any commands and any depth.                             *)
EXTENDS Entities, UndoStack, SequenceTheorems, TLAPS

-----------------------------------------------------------------------------
(* The invariant of the entity pool.                                       *)

\* An entity has its birth from the moment it gets its id.
BornOK == \A id \in Ids : Alive(id) => born[id] \in 1 .. births

EntityIInv == EntityTypeOK /\ PoolPartition /\ BornOK /\ OwnComponents

-----------------------------------------------------------------------------
(* The type invariant.                                                     *)

LEMMA EntityInitType == EntityInit => EntityTypeOK
BY BoundAssumption DEF EntityInit, EntityTypeOK, Ids, FirstId, INVALID_ENTITY

LEMMA FreePopped ==
    ASSUME EntityTypeOK, free # <<>>
    PROVE  /\ Popped \in Seq(Ids) /\ Len(Popped) = Len(free) - 1
           /\ Len(free) \in Nat \ {0} /\ free[Len(free)] \in Ids
           /\ \A i \in 1 .. Len(free) - 1 : Popped[i] = free[i]
           /\ DOMAIN free = 1 .. Len(free) /\ DOMAIN Popped = 1 .. Len(free) - 1
<1>1. free \in Seq(Ids) /\ Len(free) \in Nat \ {0} /\ DOMAIN free = 1 .. Len(free)
  BY DEF EntityTypeOK
<1>2. free[Len(free)] \in Ids
  BY <1>1
<1>3. Popped \in Seq(Ids) /\ Len(Popped) = Len(free) - 1
  BY <1>1 DEF Popped
<1>4. \A i \in 1 .. Len(free) - 1 : Popped[i] = free[i]
  BY <1>1 DEF Popped
<1>5. QED
  BY <1>1, <1>2, <1>3, <1>4

LEMMA BornType ==
    ASSUME EntityTypeOK, NEW id \in Ids, Born(id)
    PROVE  /\ alive' \in [Ids -> Nat]
           /\ births' \in 0 .. MaxBirths
           /\ born' \in [Ids -> 0 .. MaxBirths]
<1>1. births \in Nat /\ births + 1 \in 0 .. MaxBirths
  BY BoundAssumption DEF EntityTypeOK, Born
<1>2. QED
  BY <1>1 DEF EntityTypeOK, Born

LEMMA EntityNextType == EntityTypeOK /\ [CarefulNext]_entityVars => EntityTypeOK'
<1> SUFFICES ASSUME EntityTypeOK, [CarefulNext]_entityVars PROVE EntityTypeOK'
  OBVIOUS
<1>1. CASE CreateReused
  <2>1. Born(free[Len(free)]) /\ free' = Popped /\ next_id' = next_id /\ pools' = pools
    BY <1>1 DEF CreateReused
  <2>2. free[Len(free)] \in Ids /\ Popped \in Seq(Ids)
    BY <1>1, FreePopped DEF CreateReused
  <2>3. QED
    BY <2>1, <2>2, BornType DEF EntityTypeOK
<1>2. CASE CreateFresh
  <2>1. next_id \in Ids /\ next_id' \in (INVALID_ENTITY + 1) .. MaxId + 1
    BY <1>2, BoundAssumption DEF CreateFresh, EntityTypeOK, Ids, INVALID_ENTITY
  <2>2. QED
    BY <1>2, <2>1, BornType DEF CreateFresh, EntityTypeOK
<1>3. CASE ClearAll
  <2>1. next_id' \in (INVALID_ENTITY + 1) .. MaxId + 1
    BY <1>3, BoundAssumption DEF ClearAll, FirstId, INVALID_ENTITY
  <2>2. QED
    BY <1>3, <2>1 DEF ClearAll, FreeCleared, EntityTypeOK
<1>4. ASSUME NEW id \in Ids, Destroy(id) PROVE EntityTypeOK'
  BY <1>4 DEF Destroy, EntityTypeOK
<1>5. ASSUME NEW k \in Kinds, NEW id \in Ids, Add(k, id) PROVE EntityTypeOK'
  BY <1>5 DEF Add, EntityTypeOK
<1>6. ASSUME NEW k \in Kinds, NEW id \in Ids, RemoveComponent(k, id) PROVE EntityTypeOK'
  <2>1. 0 \in 0 .. MaxBirths
    BY BoundAssumption
  <2>2. QED
    BY <1>6, <2>1 DEF RemoveComponent, EntityTypeOK
<1>7. CASE UNCHANGED entityVars
  BY <1>7 DEF entityVars, EntityTypeOK
<1>8. QED
  BY <1>1, <1>2, <1>3, <1>4, <1>5, <1>6, <1>7 DEF CarefulNext

-----------------------------------------------------------------------------
(* The pool.                                                               *)

\* The new entity's id, and what becomes of the pool.
LEMMA CreateKeepsPool ==
    ASSUME EntityIInv, NEW id \in Ids, ~Alive(id), Born(id),
           id \notin {free'[i] : i \in DOMAIN free'},
           {free'[i] : i \in DOMAIN free'} \subseteq Freed,
           \A i, j \in DOMAIN free' : free'[i] = free'[j] => i = j,
           {x \in Ids : Alive(x)} \cup {id} \cup {free'[i] : i \in DOMAIN free'}
               = 1 .. next_id' - 1
    PROVE  PoolPartition'
<1>1. alive \in [Ids -> Nat] /\ alive[id] = 0
  BY DEF EntityIInv, EntityTypeOK, Alive
<1>2. alive' = [alive EXCEPT ![id] = 1]
  BY <1>1 DEF Born
<1>3. \A x \in Ids : (alive'[x] > 0) <=> (alive[x] > 0 \/ x = id)
  BY <1>1, <1>2
<1>4. \A x \in Ids : alive'[x] <= 1
  BY <1>1, <1>2 DEF EntityIInv, PoolPartition
<1>5. \A x \in Ids : alive'[x] > 0 => x \notin {free'[i] : i \in DOMAIN free'}
  BY <1>3 DEF EntityIInv, PoolPartition, Alive
<1>6. {x \in Ids : alive'[x] > 0} = {x \in Ids : alive[x] > 0} \cup {id}
  BY <1>3
<1>7. QED
  BY <1>4, <1>5, <1>6 DEF PoolPartition, Freed, Alive

LEMMA NextPool == EntityIInv /\ [CarefulNext]_entityVars => PoolPartition'
<1> SUFFICES ASSUME EntityIInv, [CarefulNext]_entityVars PROVE PoolPartition'
  OBVIOUS
<1>1. CASE CreateReused
  <2> DEFINE id == free[Len(free)]
  <2>1. Born(id) /\ free' = Popped /\ next_id' = next_id
    BY <1>1 DEF CreateReused
  <2>2. /\ Len(free) \in Nat \ {0} /\ id \in Ids
        /\ \A i \in 1 .. Len(free) - 1 : Popped[i] = free[i]
        /\ DOMAIN free = 1 .. Len(free) /\ DOMAIN Popped = 1 .. Len(free) - 1
    BY <1>1, FreePopped DEF CreateReused, EntityIInv
  <2>3. /\ \A i, j \in DOMAIN free : free[i] = free[j] => i = j
        /\ id \in Freed
    BY <2>2 DEF EntityIInv, PoolPartition, Freed
  <2>4. ~Alive(id)
    BY <2>2, <2>3 DEF EntityIInv, PoolPartition
  <2>5. /\ id \notin {free'[i] : i \in DOMAIN free'}
        /\ \A i, j \in DOMAIN free' : free'[i] = free'[j] => i = j
    BY <2>1, <2>2, <2>3
  <2>6. Freed = {id} \cup {free'[i] : i \in DOMAIN free'}
    <3>1. ASSUME NEW x \in Freed PROVE x \in {id} \cup {free'[i] : i \in DOMAIN free'}
      <4>1. PICK i \in 1 .. Len(free) : x = free[i]
        BY <2>2 DEF Freed
      <4>2. CASE i = Len(free)
        BY <4>1, <4>2
      <4>3. CASE i # Len(free)
        <5>1. Len(free) \in Nat
          BY <2>2
        <5>2. i \in 1 .. Len(free) - 1
          BY <4>1, <4>3, <5>1
        <5>3. free'[i] = x /\ i \in DOMAIN free'
          BY <2>1, <2>2, <4>1, <5>2
        <5>4. QED
          BY <5>3
      <4>4. QED
        BY <4>2, <4>3
    <3>2. {free'[i] : i \in DOMAIN free'} \subseteq Freed
      BY <2>1, <2>2 DEF Freed
    <3>3. QED
      BY <2>3, <3>1, <3>2
  <2>7. {x \in Ids : Alive(x)} \cup {id} \cup {free'[i] : i \in DOMAIN free'}
          = 1 .. next_id' - 1
    BY <2>1, <2>6 DEF EntityIInv, PoolPartition
  <2> HIDE DEF id
  <2>8. QED
    BY <2>1, <2>2, <2>4, <2>5, <2>6, <2>7, CreateKeepsPool
<1>2. CASE CreateFresh
  <2>1. /\ Born(next_id) /\ free' = free /\ next_id' = next_id + 1
        /\ free = <<>> /\ next_id <= MaxId
    BY <1>2 DEF CreateFresh
  <2>2. next_id \in Ids /\ next_id \in Nat \ {0}
    BY <2>1, BoundAssumption DEF EntityIInv, EntityTypeOK, Ids, INVALID_ENTITY
  <2>3. Freed = {} /\ {free'[i] : i \in DOMAIN free'} = {}
    BY <2>1 DEF Freed
  <2>4. {x \in Ids : Alive(x)} = 1 .. next_id - 1
    BY <2>3 DEF EntityIInv, PoolPartition
  <2>5. ~Alive(next_id)
    BY <2>2, <2>4
  <2>6. {x \in Ids : Alive(x)} \cup {next_id} = 1 .. (next_id + 1) - 1
    BY <2>2, <2>4
  <2>7. QED
    BY <2>1, <2>2, <2>3, <2>5, <2>6, CreateKeepsPool
<1>3. CASE ClearAll
  <2>1. /\ alive' = [id \in Ids |-> 0] /\ free' = <<>> /\ next_id' = 1
    BY <1>3 DEF ClearAll, FreeCleared, FirstId
  <2>2. QED
    BY <2>1 DEF PoolPartition, Freed, Alive
<1>4. ASSUME NEW id \in Ids, Alive(id), Destroy(id) PROVE PoolPartition'
  <2>1. /\ alive' = [alive EXCEPT ![id] = 0] /\ free' = Append(free, id)
        /\ next_id' = next_id
    BY <1>4 DEF Destroy
  <2>2. alive \in [Ids -> Nat] /\ free \in Seq(Ids) /\ Len(free) \in Nat
    BY DEF EntityIInv, EntityTypeOK
  <2>3. /\ DOMAIN free' = DOMAIN free \cup {Len(free) + 1}
        /\ free'[Len(free) + 1] = id
        /\ \A i \in DOMAIN free : free'[i] = free[i]
        /\ Len(free) + 1 \notin DOMAIN free
    BY <2>1, <2>2
  <2>4. id \notin Freed
    BY <1>4 DEF EntityIInv, PoolPartition
  <2>5. {free'[i] : i \in DOMAIN free'} = Freed \cup {id}
    BY <2>3 DEF Freed
  <2>6. \A i, j \in DOMAIN free' : free'[i] = free'[j] => i = j
    BY <2>3, <2>4 DEF EntityIInv, PoolPartition, Freed
  <2>7. \A x \in Ids : (alive'[x] > 0) <=> (alive[x] > 0 /\ x # id)
    BY <2>1, <2>2
  <2>8. \A x \in Ids : alive'[x] <= 1
    BY <2>1, <2>2 DEF EntityIInv, PoolPartition
  <2>9. {x \in Ids : alive'[x] > 0} \cup Freed \cup {id}
          = {x \in Ids : alive[x] > 0} \cup Freed
    BY <1>4, <2>7 DEF Alive
  <2>10. \A x \in Ids : alive'[x] > 0 => x \notin Freed \cup {id}
    BY <2>7 DEF EntityIInv, PoolPartition, Alive
  <2>11. {x \in Ids : alive[x] > 0} \cup Freed = 1 .. next_id - 1
    BY DEF EntityIInv, PoolPartition, Alive
  <2>12. {x \in Ids : alive'[x] > 0} \cup (Freed \cup {id}) = 1 .. next_id' - 1
    BY <2>1, <2>9, <2>11
  <2>13. QED
    BY <2>5, <2>6, <2>8, <2>10, <2>12 DEF PoolPartition, Freed, Alive
<1>5. CASE UNCHANGED <<alive, free, next_id>>
  BY <1>5 DEF EntityIInv, PoolPartition, Freed, Alive
<1>6. QED
  BY <1>1, <1>2, <1>3, <1>4, <1>5 DEF CarefulNext, Add, RemoveComponent, entityVars

-----------------------------------------------------------------------------
(* The components.                                                         *)

LEMMA CreateKeepsComponents ==
    ASSUME EntityIInv, NEW id \in Ids, ~Alive(id), Born(id), UNCHANGED pools
    PROVE  BornOK' /\ OwnComponents'
<1>1. /\ alive \in [Ids -> Nat] /\ born \in [Ids -> 0 .. MaxBirths]
      /\ births \in Nat
  BY BoundAssumption DEF EntityIInv, EntityTypeOK
<1>2. /\ births' = births + 1 /\ born' = [born EXCEPT ![id] = births + 1]
      /\ alive' = [alive EXCEPT ![id] = @ + 1]
  BY DEF Born
<1>3. BornOK'
  BY <1>1, <1>2 DEF EntityIInv, BornOK, Alive
<1>4. ASSUME NEW k \in Kinds, NEW x \in Ids, Has(k, x)
      PROVE  x # id /\ Alive(x)' /\ pools[k][x] = born'[x]
  <2>1. Alive(x) /\ pools[k][x] = born[x]
    BY <1>4 DEF EntityIInv, OwnComponents
  <2>2. QED
    BY <1>1, <1>2, <2>1 DEF Alive
<1>5. OwnComponents'
  BY <1>4 DEF OwnComponents, Has
<1>6. QED
  BY <1>3, <1>5

LEMMA NextComponents == EntityIInv /\ [CarefulNext]_entityVars => BornOK' /\ OwnComponents'
<1> SUFFICES ASSUME EntityIInv, [CarefulNext]_entityVars PROVE BornOK' /\ OwnComponents'
  OBVIOUS
<1>1. CASE CreateReused
  <2>1. free[Len(free)] \in Ids /\ Len(free) \in DOMAIN free
    BY <1>1, FreePopped DEF CreateReused, EntityIInv
  <2>2. ~Alive(free[Len(free)])
    BY <2>1 DEF EntityIInv, PoolPartition, Freed
  <2>3. QED
    BY <1>1, <2>1, <2>2, CreateKeepsComponents DEF CreateReused
<1>2. CASE CreateFresh
  <2>1. next_id \in Ids /\ next_id \in Nat
    BY <1>2, BoundAssumption DEF CreateFresh, EntityIInv, EntityTypeOK, Ids, INVALID_ENTITY
  <2>2. ~Alive(next_id)
    BY <2>1 DEF EntityIInv, PoolPartition
  <2>3. QED
    BY <1>2, <2>1, <2>2, CreateKeepsComponents DEF CreateFresh
<1>3. CASE ClearAll /\ \A id \in Ids : Bare(id)
  BY <1>3 DEF ClearAll, Bare, Has, Alive, BornOK, OwnComponents
<1>4. ASSUME NEW id \in Ids, Bare(id), Destroy(id) PROVE BornOK' /\ OwnComponents'
  <2>1. /\ alive' = [alive EXCEPT ![id] = 0] /\ alive \in [Ids -> Nat]
        /\ UNCHANGED <<pools, births, born>>
    BY <1>4 DEF Destroy, EntityIInv, EntityTypeOK
  <2>2. \A x \in Ids : x # id => alive'[x] = alive[x]
    BY <2>1
  <2>3. alive'[id] = 0
    BY <2>1
  <2>4. BornOK'
    BY <2>1, <2>2, <2>3 DEF EntityIInv, BornOK, Alive
  <2>5. OwnComponents'
    BY <1>4, <2>1, <2>2 DEF EntityIInv, OwnComponents, Has, Alive, Bare
  <2>6. QED
    BY <2>4, <2>5
<1>5. ASSUME NEW k \in Kinds, NEW id \in Ids, Alive(id), Add(k, id)
      PROVE  BornOK' /\ OwnComponents'
  <2>1. /\ pools' = [pools EXCEPT ![k][id] = born[id]]
        /\ UNCHANGED <<alive, births, born>>
        /\ pools \in [Kinds -> [Ids -> 0 .. MaxBirths]]
    BY <1>5 DEF Add, EntityIInv, EntityTypeOK
  <2>2. BornOK'
    BY <2>1 DEF EntityIInv, BornOK, Alive
  <2>3. ASSUME NEW l \in Kinds, NEW x \in Ids
        PROVE  pools'[l][x] = IF l = k /\ x = id THEN born[id] ELSE pools[l][x]
    BY <2>1
  <2>4. OwnComponents'
    BY <1>5, <2>1, <2>3 DEF EntityIInv, OwnComponents, Has, Alive
  <2>5. QED
    BY <2>2, <2>4
<1>6. ASSUME NEW k \in Kinds, NEW id \in Ids, RemoveComponent(k, id)
      PROVE  BornOK' /\ OwnComponents'
  <2>1. /\ pools' = [pools EXCEPT ![k][id] = 0]
        /\ UNCHANGED <<alive, births, born>>
        /\ pools \in [Kinds -> [Ids -> 0 .. MaxBirths]]
    BY <1>6 DEF RemoveComponent, EntityIInv, EntityTypeOK
  <2>2. BornOK'
    BY <2>1 DEF EntityIInv, BornOK, Alive
  <2>3. ASSUME NEW l \in Kinds, NEW x \in Ids
        PROVE  pools'[l][x] = IF l = k /\ x = id THEN 0 ELSE pools[l][x]
    BY <2>1
  <2>4. OwnComponents'
    BY <2>1, <2>3 DEF EntityIInv, OwnComponents, Has, Alive
  <2>5. QED
    BY <2>2, <2>4
<1>7. CASE UNCHANGED entityVars
  BY <1>7 DEF entityVars, EntityIInv, BornOK, OwnComponents, Has, Alive
<1>8. QED
  BY <1>1, <1>2, <1>3, <1>4, <1>5, <1>6, <1>7 DEF CarefulNext

-----------------------------------------------------------------------------
(* The theorems.                                                           *)

LEMMA EntityInitIInv == EntityInit => EntityIInv
<1> SUFFICES ASSUME EntityInit PROVE EntityIInv
  OBVIOUS
<1>1. PoolPartition
  BY DEF EntityInit, PoolPartition, Freed, Alive, FirstId
<1>2. BornOK /\ OwnComponents
  BY DEF EntityInit, BornOK, OwnComponents, Has, Alive
<1>3. QED
  BY <1>1, <1>2, EntityInitType DEF EntityIInv

LEMMA EntityNextIInv == EntityIInv /\ [CarefulNext]_entityVars => EntityIInv'
BY EntityNextType, NextPool, NextComponents DEF EntityIInv

\* A caller that destroys only live entities never sees an id twice: each id
\* ever given is live once or free once, and 0 is never given.
THEOREM PoolIsPartition == CarefulSpec => []PoolPartition
<1>1. EntityIInv => PoolPartition
  BY DEF EntityIInv
<1>2. QED
  BY EntityInitIInv, EntityNextIInv, <1>1, PTL DEF CarefulSpec

\* If it also strips entities of their components before destroying them, no
\* entity inherits a component from one that had its id before.
THEOREM NoInheritedComponent == CarefulSpec => []OwnComponents
<1>1. EntityIInv => OwnComponents
  BY DEF EntityIInv
<1>2. QED
  BY EntityInitIInv, EntityNextIInv, <1>1, PTL DEF CarefulSpec

-----------------------------------------------------------------------------
(* Lemmas on the stack operations.                                         *)

\* Popping keeps all but the last.
LEMMA StackPopped ==
    ASSUME NEW S, NEW s \in Seq(S), s # <<>>
    PROVE  /\ Pop(s) \in Seq(S)
           /\ Len(Pop(s)) = Len(s) - 1
           /\ \A i \in 1 .. Len(s) - 1 : Pop(s)[i] = s[i]
           /\ Last(s) = s[Len(s)] /\ Last(s) \in S
           /\ Len(s) \in Nat \ {0}
<1>1. Len(s) \in Nat \ {0} /\ DOMAIN s = 1 .. Len(s)
  OBVIOUS
<1>2. Last(s) = s[Len(s)] /\ Last(s) \in S
  BY <1>1 DEF Last
<1>3. Pop(s) \in Seq(S) /\ Len(Pop(s)) = Len(s) - 1
  BY <1>1 DEF Pop
<1>4. \A i \in 1 .. Len(s) - 1 : Pop(s)[i] = s[i]
  BY <1>1 DEF Pop
<1>5. QED
  BY <1>1, <1>2, <1>3, <1>4

\* Appending keeps all and adds the last.
LEMMA StackPushed ==
    ASSUME NEW S, NEW s \in Seq(S), NEW e \in S
    PROVE  /\ Append(s, e) \in Seq(S)
           /\ Len(Append(s, e)) = Len(s) + 1
           /\ \A i \in 1 .. Len(s) : Append(s, e)[i] = s[i]
           /\ Append(s, e)[Len(s) + 1] = e
           /\ Len(s) \in Nat
OBVIOUS

\* Trimming keeps the newest MaxDepth.
LEMMA TrimmedKeepsTop ==
    ASSUME NEW S, NEW s \in Seq(S)
    PROVE  /\ Trimmed(s) \in Seq(S)
           /\ Len(Trimmed(s)) <= MaxDepth /\ Len(Trimmed(s)) <= Len(s)
           /\ Len(Trimmed(s)) \in Nat
           /\ \A i \in 1 .. Len(Trimmed(s)) :
                  Trimmed(s)[i] = s[Len(s) - Len(Trimmed(s)) + i]
<1>1. Len(s) \in Nat /\ MaxDepth \in Nat
  BY DepthAssumption
<1>2. CASE Len(s) > MaxDepth
  <2>1. Trimmed(s) = SubSeq(s, Len(s) - MaxDepth + 1, Len(s))
    BY <1>2 DEF Trimmed
  <2>2. Trimmed(s) \in Seq(S) /\ Len(Trimmed(s)) = MaxDepth
    BY <1>1, <1>2, <2>1
  <2>3. \A i \in 1 .. MaxDepth : Trimmed(s)[i] = s[Len(s) - MaxDepth + i]
    BY <1>1, <1>2, <2>1
  <2>4. QED
    BY <1>1, <1>2, <2>2, <2>3
<1>3. CASE ~ (Len(s) > MaxDepth)
  <2>1. Trimmed(s) = SubSeq(s, 1, Len(s))
    BY <1>3 DEF Trimmed
  <2>2. Trimmed(s) \in Seq(S) /\ Len(Trimmed(s)) = Len(s)
    BY <1>1, <2>1
  <2>3. \A i \in 1 .. Len(s) : Trimmed(s)[i] = s[i]
    BY <1>1, <2>1
  <2>4. QED
    BY <1>1, <1>3, <2>2, <2>3
<1>4. QED
  BY <1>2, <1>3

-----------------------------------------------------------------------------
(* The invariant.                                                          *)

IInv == TypeOK /\ UndoesTheLast /\ DepthBounded

LEMMA InitIInv == Init => IInv
BY DepthAssumption DEF Init, IInv, TypeOK, UndoesTheLast, DepthBounded

LEMMA ExecuteIInv ==
    ASSUME IInv, NEW c \in Commands, Execute(c) PROVE IInv'
<1> DEFINE pushed == Append(undo, c)
<1>1. undo \in Seq(Commands) /\ doc \in Seq(Commands)
  BY DEF IInv, TypeOK
<1>2. doc' = Append(doc, c) /\ undo' = Trimmed(pushed) /\ redo' = <<>>
  BY DEF Execute, RedoCleared
<1>3. /\ pushed \in Seq(Commands) /\ Len(pushed) = Len(undo) + 1
      /\ \A i \in 1 .. Len(undo) : pushed[i] = undo[i]
      /\ pushed[Len(undo) + 1] = c /\ Len(undo) \in Nat
  BY <1>1, StackPushed
<1>4. /\ doc' \in Seq(Commands) /\ Len(doc') = Len(doc) + 1
      /\ \A i \in 1 .. Len(doc) : doc'[i] = doc[i]
      /\ doc'[Len(doc) + 1] = c /\ Len(doc) \in Nat
  BY <1>1, <1>2, StackPushed
<1> HIDE DEF pushed
<1>5. /\ undo' \in Seq(Commands)
      /\ Len(undo') <= MaxDepth /\ Len(undo') <= Len(pushed)
      /\ Len(undo') \in Nat
      /\ \A i \in 1 .. Len(undo') : undo'[i] = pushed[Len(pushed) - Len(undo') + i]
  BY <1>2, <1>3, TrimmedKeepsTop
<1>6. TypeOK'
  BY <1>2, <1>4, <1>5 DEF TypeOK
<1>7. \A i \in 1 .. Len(pushed) : pushed[i] = doc'[Len(doc') - Len(pushed) + i]
  <2>1. Len(undo) <= Len(doc)
    BY DEF IInv, UndoesTheLast
  <2>2. ASSUME NEW i \in 1 .. Len(pushed)
        PROVE  pushed[i] = doc'[Len(doc') - Len(pushed) + i]
    <3>1. Len(doc') - Len(pushed) = Len(doc) - Len(undo)
      BY <1>3, <1>4
    <3>2. CASE i = Len(undo) + 1
      BY <1>3, <1>4, <3>1, <3>2
    <3>3. CASE i \in 1 .. Len(undo)
      <4>1. undo[i] = doc[Len(doc) - Len(undo) + i]
        BY <3>3 DEF IInv, UndoesTheLast
      <4>2. Len(doc) - Len(undo) + i \in 1 .. Len(doc)
        BY <1>3, <1>4, <2>1, <3>3
      <4>3. QED
        BY <1>3, <1>4, <3>1, <3>3, <4>1, <4>2
    <3>4. QED
      BY <1>3, <3>2, <3>3
  <2>3. QED
    BY <2>2
<1>8. UndoesTheLast'
  <2>1. Len(undo') <= Len(doc')
    BY <1>3, <1>4, <1>5 DEF IInv, UndoesTheLast
  <2>2. ASSUME NEW i \in 1 .. Len(undo')
        PROVE  undo'[i] = doc'[Len(doc') - Len(undo') + i]
    <3> DEFINE k == Len(pushed) - Len(undo') + i
    <3>1. k \in 1 .. Len(pushed)
      BY <1>3, <1>5
    <3>2. Len(doc') - Len(pushed) + k = Len(doc') - Len(undo') + i
      BY <1>3, <1>4, <1>5
    <3>3. QED
      BY <1>5, <1>7, <3>1, <3>2
  <2>3. QED
    BY <2>1, <2>2 DEF UndoesTheLast
<1>9. DepthBounded'
  BY <1>2, <1>5, DepthAssumption DEF DepthBounded
<1>10. QED
  BY <1>6, <1>8, <1>9 DEF IInv

LEMMA UndoIInv ==
    ASSUME IInv, Undo PROVE IInv'
<1>1. /\ undo \in Seq(Commands) /\ doc \in Seq(Commands) /\ redo \in Seq(Commands)
      /\ undo # <<>>
      /\ doc' = Pop(doc) /\ redo' = Append(redo, Last(undo)) /\ undo' = Pop(undo)
  BY DEF IInv, TypeOK, Undo
<1>2. /\ undo' \in Seq(Commands) /\ Len(undo') = Len(undo) - 1
      /\ \A i \in 1 .. Len(undo) - 1 : undo'[i] = undo[i]
      /\ Last(undo) \in Commands /\ Len(undo) \in Nat \ {0}
  BY <1>1, StackPopped
<1>3. Len(undo) <= Len(doc) /\ doc # <<>>
  BY <1>1, <1>2 DEF IInv, UndoesTheLast
<1>4. /\ doc' \in Seq(Commands) /\ Len(doc') = Len(doc) - 1
      /\ \A i \in 1 .. Len(doc) - 1 : doc'[i] = doc[i]
      /\ Len(doc) \in Nat \ {0}
  BY <1>1, <1>3, StackPopped
<1>5. redo' \in Seq(Commands) /\ Len(redo') = Len(redo) + 1 /\ Len(redo) \in Nat
  BY <1>1, <1>2, StackPushed
<1>6. ASSUME NEW i \in 1 .. Len(undo')
      PROVE  undo'[i] = doc'[Len(doc') - Len(undo') + i]
  <2>1. undo[i] = doc[Len(doc) - Len(undo) + i]
    BY <1>2 DEF IInv, UndoesTheLast
  <2>2. Len(doc') - Len(undo') + i = Len(doc) - Len(undo) + i
    BY <1>2, <1>4
  <2>3. Len(doc) - Len(undo) + i \in 1 .. Len(doc) - 1
    BY <1>2, <1>3, <1>4
  <2>4. QED
    BY <1>2, <1>4, <2>1, <2>2, <2>3
<1>7. DepthBounded'
  BY <1>2, <1>5, DepthAssumption DEF IInv, DepthBounded
<1>8. QED
  BY <1>2, <1>3, <1>4, <1>5, <1>6, <1>7 DEF IInv, TypeOK, UndoesTheLast

LEMMA RedoIInv ==
    ASSUME IInv, Redo PROVE IInv'
<1>1. /\ undo \in Seq(Commands) /\ doc \in Seq(Commands) /\ redo \in Seq(Commands)
      /\ redo # <<>>
      /\ doc' = Append(doc, Last(redo)) /\ undo' = Append(undo, Last(redo))
      /\ redo' = Pop(redo)
  BY DEF IInv, TypeOK, Redo
<1>2. /\ redo' \in Seq(Commands) /\ Len(redo') = Len(redo) - 1
      /\ Last(redo) \in Commands /\ Len(redo) \in Nat \ {0}
  BY <1>1, StackPopped
<1>3. /\ undo' \in Seq(Commands) /\ Len(undo') = Len(undo) + 1
      /\ \A i \in 1 .. Len(undo) : undo'[i] = undo[i]
      /\ undo'[Len(undo) + 1] = Last(redo) /\ Len(undo) \in Nat
  BY <1>1, <1>2, StackPushed
<1>4. /\ doc' \in Seq(Commands) /\ Len(doc') = Len(doc) + 1
      /\ \A i \in 1 .. Len(doc) : doc'[i] = doc[i]
      /\ doc'[Len(doc) + 1] = Last(redo) /\ Len(doc) \in Nat
  BY <1>1, <1>2, StackPushed
<1>5. Len(undo) <= Len(doc)
  BY DEF IInv, UndoesTheLast
<1>6. ASSUME NEW i \in 1 .. Len(undo')
      PROVE  undo'[i] = doc'[Len(doc') - Len(undo') + i]
  <2>1. Len(doc') - Len(undo') + i = Len(doc) - Len(undo) + i
    BY <1>3, <1>4
  <2>2. CASE i = Len(undo) + 1
    BY <1>3, <1>4, <2>1, <2>2
  <2>3. CASE i \in 1 .. Len(undo)
    <3>1. undo[i] = doc[Len(doc) - Len(undo) + i]
      BY <2>3 DEF IInv, UndoesTheLast
    <3>2. Len(doc) - Len(undo) + i \in 1 .. Len(doc)
      BY <1>3, <1>4, <1>5, <2>3
    <3>3. QED
      BY <1>3, <1>4, <2>1, <2>3, <3>1, <3>2
  <2>4. QED
    BY <1>3, <2>2, <2>3
<1>7. DepthBounded'
  BY <1>2, <1>3, DepthAssumption DEF IInv, DepthBounded
<1>8. QED
  BY <1>2, <1>3, <1>4, <1>5, <1>6, <1>7 DEF IInv, TypeOK, UndoesTheLast

LEMMA NextIInv == IInv /\ [Next]_vars => IInv'
<1> SUFFICES ASSUME IInv, [Next]_vars PROVE IInv'
  OBVIOUS
<1>1. ASSUME NEW c \in Commands, Execute(c) PROVE IInv'
  BY <1>1, ExecuteIInv
<1>2. CASE Undo
  BY <1>2, UndoIInv
<1>3. CASE Redo
  BY <1>3, RedoIInv
<1>4. CASE Clear
  BY <1>4, DepthAssumption DEF Clear, IInv, TypeOK, UndoesTheLast, DepthBounded
<1>5. CASE UNCHANGED vars
  BY <1>5 DEF vars, IInv, TypeOK, UndoesTheLast, DepthBounded
<1>6. QED
  BY <1>1, <1>2, <1>3, <1>4, <1>5 DEF Next

\* undo() always reverts the command that was executed or redone last, however
\* executes, undos, redos, trims and clears follow one another.
THEOREM UndoRevertsTheLast == Spec => []UndoesTheLast
<1>1. IInv => UndoesTheLast
  BY DEF IInv
<1>2. QED
  BY InitIInv, NextIInv, <1>1, PTL DEF Spec

\* undo and redo together hold at most max_depth commands, for every max_depth,
\* zero included.
THEOREM StacksBounded == Spec => []DepthBounded
<1>1. IInv => DepthBounded
  BY DEF IInv
<1>2. QED
  BY InitIInv, NextIInv, <1>1, PTL DEF Spec
-----------------------------------------------------------------------------
(* The refinement: the line is what is in effect, then what can be redone,  *)
(* next first.                                                             *)

\* Reversing turns a sequence end for end.
LEMMA Reversed ==
    ASSUME NEW S, NEW s \in Seq(S)
    PROVE  /\ Reverse(s) \in Seq(S) /\ Len(Reverse(s)) = Len(s)
           /\ \A i \in 1 .. Len(s) : Reverse(s)[i] = s[Len(s) - i + 1]
BY DEF Reverse

\* A command that moves from the end of one sequence to the end of the other
\* stays where it is on the line.
LEMMA LineKept ==
    ASSUME NEW S, NEW d \in Seq(S), NEW r \in Seq(S), r # <<>>
    PROVE  Append(d, Last(r)) \o Reverse(Pop(r)) = d \o Reverse(r)
<1> DEFINE a == Append(d, Last(r))
           b == Reverse(Pop(r))
           c == Reverse(r)
<1>1. /\ Pop(r) \in Seq(S) /\ Len(Pop(r)) = Len(r) - 1
      /\ \A i \in 1 .. Len(r) - 1 : Pop(r)[i] = r[i]
      /\ Last(r) = r[Len(r)] /\ Last(r) \in S /\ Len(r) \in Nat \ {0}
  BY StackPopped
<1>2. /\ a \in Seq(S) /\ Len(a) = Len(d) + 1 /\ Len(d) \in Nat
      /\ \A i \in 1 .. Len(d) : a[i] = d[i]
      /\ a[Len(d) + 1] = r[Len(r)]
  BY <1>1, StackPushed
<1>3. /\ b \in Seq(S) /\ Len(b) = Len(r) - 1
      /\ \A i \in 1 .. Len(r) - 1 : b[i] = r[Len(r) - i]
  <2>1. /\ b \in Seq(S) /\ Len(b) = Len(r) - 1
        /\ \A i \in 1 .. Len(r) - 1 : b[i] = Pop(r)[Len(r) - 1 - i + 1]
    <3> DEFINE p == Pop(r)
    <3>1. p \in Seq(S) /\ Len(p) = Len(r) - 1
      BY <1>1
    <3> HIDE DEF p
    <3>2. /\ Reverse(p) \in Seq(S) /\ Len(Reverse(p)) = Len(p)
          /\ \A i \in 1 .. Len(p) : Reverse(p)[i] = p[Len(p) - i + 1]
      BY <3>1, Reversed, Zenon
    <3>3. QED
      BY <3>1, <3>2 DEF p
  <2>2. \A i \in 1 .. Len(r) - 1 : Len(r) - 1 - i + 1 = Len(r) - i /\ Len(r) - i \in 1 .. Len(r) - 1
    BY <1>1
  <2>3. QED
    BY <1>1, <2>1, <2>2
<1>4. /\ c \in Seq(S) /\ Len(c) = Len(r)
      /\ \A i \in 1 .. Len(r) : c[i] = r[Len(r) - i + 1]
  BY Reversed
<1> HIDE DEF a, b, c
<1>5. /\ a \o b \in Seq(S) /\ Len(a \o b) = Len(d) + Len(r)
      /\ \A i \in 1 .. Len(d) + Len(r) :
            (a \o b)[i] = IF i <= Len(d) + 1 THEN a[i] ELSE b[i - (Len(d) + 1)]
  <2>1. /\ a \o b \in Seq(S) /\ Len(a \o b) = Len(a) + Len(b)
        /\ \A i \in 1 .. Len(a) + Len(b) :
              (a \o b)[i] = IF i <= Len(a) THEN a[i] ELSE b[i - Len(a)]
    BY <1>2, <1>3, ConcatProperties, Zenon
  <2>2. Len(a) + Len(b) = Len(d) + Len(r) /\ Len(a) = Len(d) + 1
    BY <1>1, <1>2, <1>3
  <2>3. QED
    BY <2>1, <2>2, Zenon
<1>6. /\ d \o c \in Seq(S) /\ Len(d \o c) = Len(d) + Len(r)
      /\ \A i \in 1 .. Len(d) + Len(r) :
            (d \o c)[i] = IF i <= Len(d) THEN d[i] ELSE c[i - Len(d)]
  <2>1. /\ d \o c \in Seq(S) /\ Len(d \o c) = Len(d) + Len(c)
        /\ \A i \in 1 .. Len(d) + Len(c) :
              (d \o c)[i] = IF i <= Len(d) THEN d[i] ELSE c[i - Len(d)]
    <3>1. \A q \in Seq(S) :
             /\ d \o q \in Seq(S) /\ Len(d \o q) = Len(d) + Len(q)
             /\ \A i \in 1 .. Len(d) + Len(q) :
                   (d \o q)[i] = IF i <= Len(d) THEN d[i] ELSE q[i - Len(d)]
      BY ConcatProperties
    <3>2. QED
      BY <1>4, <3>1, Zenon
  <2>2. QED
    BY <1>4, <2>1, Zenon
<1>7. ASSUME NEW i \in 1 .. Len(d) + Len(r) PROVE (a \o b)[i] = (d \o c)[i]
  <2>1. CASE i <= Len(d)
    BY <1>1, <1>2, <1>5, <1>6, <2>1
  <2>2. CASE i = Len(d) + 1
    <3>1. (a \o b)[i] = r[Len(r)]
      BY <1>1, <1>2, <1>5, <2>2
    <3>2. (d \o c)[i] = c[1]
      BY <1>1, <1>2, <1>6, <2>2
    <3>3. QED
      BY <1>1, <1>4, <3>1, <3>2
  <2>3. CASE i > Len(d) + 1
    <3>1. (a \o b)[i] = b[i - (Len(d) + 1)] /\ i - (Len(d) + 1) \in 1 .. Len(r) - 1
      BY <1>1, <1>2, <1>5, <2>3
    <3>2. (d \o c)[i] = c[i - Len(d)] /\ i - Len(d) \in 1 .. Len(r)
      BY <1>1, <1>2, <1>6, <2>3
    <3>3. Len(r) - (i - (Len(d) + 1)) = Len(r) - (i - Len(d)) + 1
      BY <1>1, <1>2
    <3>4. QED
      BY <1>3, <1>4, <3>1, <3>2, <3>3
  <2>4. i <= Len(d) \/ i = Len(d) + 1 \/ i > Len(d) + 1
    BY <1>1, <1>2
  <2>5. QED
    BY <2>1, <2>2, <2>3, <2>4, Zenon
<1>8. a \o b = d \o c
  BY <1>5, <1>6, <1>7, SeqEqual
<1>9. QED
  BY <1>8 DEF a, b, c

\* A sequence is its beginning and its last.
LEMMA Rejoined ==
    ASSUME NEW S, NEW s \in Seq(S), s # <<>>
    PROVE  Append(Pop(s), Last(s)) = s
<1>1. /\ Pop(s) \in Seq(S) /\ Len(Pop(s)) = Len(s) - 1
      /\ \A i \in 1 .. Len(s) - 1 : Pop(s)[i] = s[i]
      /\ Last(s) = s[Len(s)] /\ Last(s) \in S /\ Len(s) \in Nat \ {0}
  BY StackPopped
<1>2. /\ Append(Pop(s), Last(s)) \in Seq(S) /\ Len(Append(Pop(s), Last(s))) = Len(s)
      /\ \A i \in 1 .. Len(s) : Append(Pop(s), Last(s))[i] = s[i]
  BY <1>1
<1>3. QED
  BY <1>2, SeqEqual

\* Popping what was appended.
LEMMA Unpushed ==
    ASSUME NEW S, NEW s \in Seq(S), NEW e \in S
    PROVE  /\ Append(s, e) \in Seq(S) /\ Append(s, e) # <<>>
           /\ Pop(Append(s, e)) = s /\ Last(Append(s, e)) = e
<1>1. /\ Append(s, e) \in Seq(S) /\ Len(Append(s, e)) = Len(s) + 1 /\ Len(s) \in Nat
      /\ \A i \in 1 .. Len(s) : Append(s, e)[i] = s[i]
      /\ Append(s, e)[Len(s) + 1] = e
  BY StackPushed
<1>2. Append(s, e) # <<>>
  BY <1>1
<1>3. /\ Pop(Append(s, e)) \in Seq(S) /\ Len(Pop(Append(s, e))) = Len(s)
      /\ \A i \in 1 .. Len(s) : Pop(Append(s, e))[i] = s[i]
      /\ Last(Append(s, e)) = e
  <2> DEFINE p == Append(s, e)
  <2>1. p \in Seq(S) /\ p # <<>> /\ Len(p) - 1 = Len(s) /\ p[Len(p)] = e
        /\ Len(s) \in Nat /\ \A i \in 1 .. Len(s) : p[i] = s[i]
    BY <1>1, <1>2
  <2> HIDE DEF p
  <2>2. /\ Pop(p) \in Seq(S) /\ Len(Pop(p)) = Len(p) - 1 /\ Last(p) = p[Len(p)]
        /\ \A i \in 1 .. Len(p) - 1 : Pop(p)[i] = p[i]
    BY <2>1, StackPopped
  <2>3. QED
    BY <2>1, <2>2 DEF p
<1>4. QED
  BY <1>1, <1>2, <1>3, SeqEqual

\* The line and its cursor.
LEMMA Line ==
    ASSUME TypeOK
    PROVE  /\ doc \o Reverse(redo) \in Seq(Commands)
           /\ Len(doc \o Reverse(redo)) = Len(doc) + Len(redo)
           /\ SubSeq(doc \o Reverse(redo), 1, Len(doc)) = doc
           /\ Len(doc) \in Nat /\ Len(redo) \in Nat /\ Len(undo) \in Nat
<1> DEFINE r == Reverse(redo)
<1>1. r \in Seq(Commands) /\ Len(r) = Len(redo) /\ doc \in Seq(Commands)
      /\ Len(doc) \in Nat /\ Len(redo) \in Nat /\ Len(undo) \in Nat
  BY Reversed DEF TypeOK
<1> HIDE DEF r
<1>2. /\ doc \o r \in Seq(Commands) /\ Len(doc \o r) = Len(doc) + Len(r)
      /\ \A i \in 1 .. Len(doc) + Len(r) : (doc \o r)[i] = IF i <= Len(doc) THEN doc[i] ELSE r[i - Len(doc)]
  BY <1>1, ConcatProperties
<1>3. /\ SubSeq(doc \o r, 1, Len(doc)) \in Seq(Commands)
      /\ Len(SubSeq(doc \o r, 1, Len(doc))) = Len(doc)
      /\ \A i \in 1 .. Len(doc) : SubSeq(doc \o r, 1, Len(doc))[i] = doc[i]
  BY <1>1, <1>2
<1>4. SubSeq(doc \o r, 1, Len(doc)) = doc
  BY <1>1, <1>3, SeqEqual
<1>5. QED
  BY <1>1, <1>2, <1>4 DEF r

\* With nothing to redo the line is what is in effect.
LEMMA NothingToRedo ==
    ASSUME NEW d \in Seq(Commands) PROVE d \o Reverse(<<>>) = d
<1>1. \A e \in Seq(Commands) : Reverse(e) \in Seq(Commands) /\ Len(Reverse(e)) = Len(e)
  BY Reversed, Zenon
<1>2. Reverse(<<>>) = <<>>
  <2>1. <<>> \in Seq(Commands) /\ Len(<<>>) = 0
    OBVIOUS
  <2>2. Reverse(<<>>) \in Seq(Commands) /\ Len(Reverse(<<>>)) = 0
    BY <1>1, <2>1
  <2>3. QED
    BY <2>2, EmptySeq
<1>3. QED
  BY <1>2, ConcatEmptySeq

LEMMA ExecuteDoes ==
    ASSUME IInv, NEW c \in Commands, Execute(c) PROVE History!Do(c)
<1>1. /\ undo \in Seq(Commands) /\ doc \in Seq(Commands) /\ MaxDepth \in Nat
      /\ doc' = Append(doc, c) /\ undo' = Trimmed(Append(undo, c)) /\ redo' = <<>>
  BY DepthAssumption DEF IInv, TypeOK, Execute, RedoCleared
<1>2. doc' \in Seq(Commands) /\ Len(doc') = Len(doc) + 1
  BY <1>1, StackPushed
<1>3. (doc \o Reverse(redo))' = Append(SubSeq(doc \o Reverse(redo), 1, Len(doc)), c)
  BY <1>1, <1>2, Line, NothingToRedo DEF IInv
<1>4. Len(undo') = IF Len(undo) + 1 > MaxDepth THEN MaxDepth ELSE Len(undo) + 1
  <2>1. Append(undo, c) \in Seq(Commands) /\ Len(Append(undo, c)) = Len(undo) + 1 /\ Len(undo) \in Nat
    BY <1>1, StackPushed
  <2> DEFINE p == Append(undo, c)
  <2> HIDE DEF p
  <2>2. p \in Seq(Commands) /\ Len(p) = Len(undo) + 1 /\ undo' = Trimmed(p)
    BY <1>1, <2>1 DEF p
  <2>3. QED
    <3>1. Len(p) = Len(undo) + 1 /\ Len(p) \in Nat /\ MaxDepth \in Nat
      BY <1>1, <2>1, <2>2
    <3>2. CASE Len(p) > MaxDepth
      <4>1. Trimmed(p) = SubSeq(p, Len(p) - MaxDepth + 1, Len(p))
        BY <3>2 DEF Trimmed
      <4>2. Len(Trimmed(p)) = MaxDepth
        BY <2>2, <3>1, <3>2, <4>1
      <4>3. QED
        BY <2>2, <3>1, <3>2, <4>2
    <3>3. CASE ~ (Len(p) > MaxDepth)
      <4>1. Trimmed(p) = SubSeq(p, 1, Len(p))
        BY <3>3 DEF Trimmed
      <4>2. Len(Trimmed(p)) = Len(p)
        BY <2>2, <3>1, <4>1
      <4>3. QED
        BY <2>2, <3>1, <3>3, <4>2
    <3>4. QED
      BY <3>2, <3>3
<1>5. Len(doc) \in Nat /\ Len(undo) \in Nat
  BY <1>1
<1>6. /\ (Len(doc))' = Len(doc) + 1
      /\ (Len(doc) - Len(undo))' =
            IF (Len(doc))' - (Len(doc) - Len(undo)) > MaxDepth
            THEN (Len(doc))' - MaxDepth ELSE Len(doc) - Len(undo)
  <2>1. Len(doc') = Len(doc) + 1 /\ MaxDepth \in Nat
    BY <1>1, <1>2
  <2>2. CASE Len(undo) + 1 > MaxDepth
    <3>1. Len(undo') = MaxDepth
      BY <1>4, <2>2
    <3>2. Len(doc') - (Len(doc) - Len(undo)) > MaxDepth
      BY <1>5, <2>1, <2>2
    <3>3. QED
      BY <2>1, <3>1, <3>2
  <2>3. CASE ~ (Len(undo) + 1 > MaxDepth)
    <3>1. Len(undo') = Len(undo) + 1
      BY <1>4, <2>3
    <3>2. /\ ~ (Len(doc') - (Len(doc) - Len(undo)) > MaxDepth)
          /\ Len(doc') - Len(undo') = Len(doc) - Len(undo)
      BY <1>5, <2>1, <2>3, <3>1
    <3>3. QED
      BY <2>1, <3>2
  <2>4. QED
    BY <2>2, <2>3
<1>7. QED
  BY <1>3, <1>6 DEF History!Do

LEMMA UndoGoesBack ==
    ASSUME IInv, Undo PROVE History!Back
<1>1. /\ undo \in Seq(Commands) /\ doc \in Seq(Commands) /\ redo \in Seq(Commands)
      /\ undo # <<>>
      /\ doc' = Pop(doc) /\ redo' = Append(redo, Last(undo)) /\ undo' = Pop(undo)
  BY DEF IInv, TypeOK, Undo
<1>2. /\ Len(undo) \in Nat \ {0} /\ Len(undo') = Len(undo) - 1
      /\ Last(undo) = undo[Len(undo)] /\ Last(undo) \in Commands
  BY <1>1, StackPopped
<1>3. Len(undo) <= Len(doc) /\ Last(undo) = doc[Len(doc)] /\ doc # <<>>
  BY <1>1, <1>2 DEF IInv, UndoesTheLast
<1>4. /\ Len(doc') = Len(doc) - 1 /\ doc' \in Seq(Commands) /\ Len(doc) \in Nat
      /\ Last(doc) = doc[Len(doc)]
  BY <1>1, <1>3, StackPopped
<1>5. redo' \in Seq(Commands) /\ redo' # <<>> /\ Pop(redo') = redo /\ Last(redo') = Last(undo)
  BY <1>1, <1>2, Unpushed
<1>6. Append(doc', Last(redo')) = doc
  BY <1>1, <1>3, <1>4, <1>5, Rejoined
<1>7. doc' \o Reverse(redo') = Append(doc', Last(redo')) \o Reverse(Pop(redo'))
  BY <1>4, <1>5, LineKept
<1>8. (doc \o Reverse(redo))' = doc \o Reverse(redo)
  BY <1>5, <1>6, <1>7
<1>9. QED
  BY <1>2, <1>3, <1>4, <1>8 DEF History!Back

LEMMA RedoGoesForward ==
    ASSUME IInv, Redo PROVE History!Forward
<1>1. /\ undo \in Seq(Commands) /\ doc \in Seq(Commands) /\ redo \in Seq(Commands)
      /\ redo # <<>>
      /\ doc' = Append(doc, Last(redo)) /\ undo' = Append(undo, Last(redo))
      /\ redo' = Pop(redo)
  BY DEF IInv, TypeOK, Redo
<1>2. Len(redo) \in Nat \ {0} /\ Last(redo) \in Commands
  BY <1>1, StackPopped
<1>3. /\ Len(doc') = Len(doc) + 1 /\ Len(undo') = Len(undo) + 1
      /\ Len(doc) \in Nat /\ Len(undo) \in Nat
  BY <1>1, <1>2, StackPushed
<1>4. (doc \o Reverse(redo))' = doc \o Reverse(redo)
  BY <1>1, LineKept
<1>5. Len(doc) < Len(doc \o Reverse(redo))
  BY <1>2, <1>3, Line DEF IInv
<1>6. QED
  BY <1>3, <1>4, <1>5 DEF History!Forward

\* clear leaves what is in effect and nothing to come back to.
LEMMA ClearForgets ==
    ASSUME IInv, Clear PROVE History!Forget
<1>1. doc' = doc /\ undo' = <<>> /\ redo' = <<>> /\ doc \in Seq(Commands)
  BY DEF Clear, IInv, TypeOK
<1>2. (doc \o Reverse(redo))' = SubSeq(doc \o Reverse(redo), 1, Len(doc))
  BY <1>1, Line, NothingToRedo DEF IInv
<1>3. QED
  BY <1>1, <1>2 DEF History!Forget

\* The two stacks, trimmed and cleared as they are, behave as a line of commands
\* with a cursor: no undo or redo applies a command out of its place.
THEOREM StacksImplementHistory == Spec => ImplementsHistory
<1>1. Init => History!Init
  <2> SUFFICES ASSUME Init PROVE History!Init
    OBVIOUS
  <2>1. doc = <<>> /\ undo = <<>> /\ redo = <<>>
    BY DEF Init
  <2>2. doc \o Reverse(redo) = <<>>
    <3>1. doc \in Seq(Commands)
      BY <2>1
    <3>2. doc \o Reverse(<<>>) = doc
      BY <3>1, NothingToRedo
    <3>3. QED
      BY <2>1, <3>2
  <2>3. QED
    BY <2>1, <2>2 DEF History!Init
<1>2. IInv /\ Next => History!Next
  BY ExecuteDoes, UndoGoesBack, RedoGoesForward, ClearForgets DEF Next, History!Next
<1>3. UNCHANGED vars => UNCHANGED <<doc \o Reverse(redo), Len(doc), Len(doc) - Len(undo)>>
  BY DEF vars
<1>4. IInv /\ [Next]_vars
        => [History!Next]_<<doc \o Reverse(redo), Len(doc), Len(doc) - Len(undo)>>
  BY <1>2, <1>3
<1>5. QED
  BY <1>1, <1>4, InitIInv, NextIInv, PTL DEF Spec, ImplementsHistory, History!Spec
=============================================================================
