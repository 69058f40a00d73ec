--------------------------- MODULE ManifestProofs ----------------------------
(* TLAPS proofs about Manifest and ManifestStore, for every set of guids,  *)
(* paths, records and tools.                                               *)
EXTENDS Manifest, ManifestStore, FiniteSetTheorems, WellFoundedInduction, TLAPS

-----------------------------------------------------------------------------
(* Lemmas on the indexes.                                                  *)

\* A non-empty set of positions has a last one: the one whose interval up to n
\* is minimal for inclusion.
LEMMA LastPosition ==
    ASSUME NEW n \in Nat, NEW S \in SUBSET (1 .. n), S # {}
    PROVE  \E i \in S : \A j \in S : j <= i
<1> DEFINE Up(i) == i .. n
           T == {Up(i) : i \in S}
           R == StrictSubsetOrdering(1 .. n)
<1>1. IsWellFoundedOn(R, SUBSET (1 .. n))
  <2>1. IsFiniteSet(1 .. n)
    BY FS_Interval
  <2>2. QED
    BY <2>1, FS_FiniteSubsetsOfFinite, FS_StrictSubsetOrderingWellFounded
<1>2. T \subseteq SUBSET (1 .. n) /\ T # {}
  <2>1. \A i \in S : Up(i) \in SUBSET (1 .. n)
    OBVIOUS
  <2>2. PICK i \in S : TRUE
    OBVIOUS
  <2>3. Up(i) \in T
    OBVIOUS
  <2>4. QED
    BY <2>1, <2>3
<1>3. \E x \in T : \A y \in T : <<y, x>> \notin R
  <2> HIDE DEF R, T
  <2>1. QED
    BY <1>1, <1>2, WFMin
<1>4. PICK i \in S : \A y \in T : <<y, Up(i)>> \notin R
  BY <1>3
<1>5. ASSUME NEW j \in S, j > i PROVE FALSE
  <2>1. i \in Up(i) /\ i \notin Up(j) /\ Up(j) \subseteq Up(i)
    BY <1>5
  <2>2. <<Up(j), Up(i)>> \in R
    BY <2>1, <1>2 DEF StrictSubsetOrdering
  <2>3. QED
    BY <2>2, <1>4
<1>6. QED
  BY <1>5

\* Rebuilding points each key at a record that has it.
LEMMA IndexFinds ==
    ASSUME NEW recs \in Seq(Record), NEW field \in {"guid", "path"},
           NEW i \in DOMAIN recs
    PROVE  LET key == recs[i][field]
           IN /\ key \in DOMAIN IndexBy(recs, field)
              /\ IndexBy(recs, field)[key] \in DOMAIN recs
              /\ recs[IndexBy(recs, field)[key]][field] = key
<1> DEFINE key == recs[i][field]
           S == {j \in DOMAIN recs : recs[j][field] = key}
<1>1. PICK l \in S : \A j \in S : j <= l
  <2>1. DOMAIN recs = 1 .. Len(recs) /\ Len(recs) \in Nat /\ i \in S
    OBVIOUS
  <2>2. QED
    BY <2>1, LastPosition
<1>2. /\ LastWith(recs, key, field) \in DOMAIN recs
      /\ recs[LastWith(recs, key, field)][field] = key
  BY <1>1 DEF LastWith
<1>3. /\ key \in DOMAIN IndexBy(recs, field)
      /\ IndexBy(recs, field)[key] = LastWith(recs, key, field)
  BY DEF IndexBy
<1>4. QED
  BY <1>2, <1>3

\* Records of distinct paths make a sound manifest.
LEMMA RebuiltSound ==
    ASSUME NEW recs \in Seq(Record),
           \A i, j \in DOMAIN recs : recs[i].path = recs[j].path => i = j
    PROVE  Sound(Rebuilt(recs))
<1> DEFINE gi == IndexBy(recs, "guid")
           pi == IndexBy(recs, "path")
<1>1. ASSUME NEW g \in DOMAIN gi PROVE gi[g] \in DOMAIN recs
  <2>1. PICK i \in DOMAIN recs : g = recs[i]["guid"]
    BY DEF IndexBy
  <2>2. QED
    BY <2>1, IndexFinds
<1>2. ASSUME NEW p \in DOMAIN pi
      PROVE  pi[p] \in DOMAIN recs /\ recs[pi[p]].path = p
  <2>1. PICK i \in DOMAIN recs : p = recs[i]["path"]
    BY DEF IndexBy
  <2>2. /\ pi[p] \in DOMAIN recs
        /\ recs[pi[p]]["path"] = p
    BY <2>1, IndexFinds
  <2>3. QED
    BY <2>2
<1>3. ASSUME NEW i \in DOMAIN recs
      PROVE  /\ recs[i].guid \in DOMAIN gi
             /\ recs[i].path \in DOMAIN pi
             /\ pi[recs[i].path] = i
  <2>1. recs[i]["guid"] \in DOMAIN gi /\ recs[i]["path"] \in DOMAIN pi
    BY IndexFinds
  <2>2. pi[recs[i].path] = i
    BY <1>2, <2>1
  <2>3. QED
    BY <2>1, <2>2
<1>4. QED
  BY <1>1, <1>2, <1>3 DEF Rebuilt, Sound, InRange, PathsExact, GuidsKnown

-----------------------------------------------------------------------------
(* The operations keep a manifest sound.                                   *)

\* The type of the parts of a manifest.
Typed(mf) ==
    /\ mf.records \in Seq(Record)
    /\ DOMAIN mf.guid_index \subseteq Guids
    /\ DOMAIN mf.path_index \subseteq Paths

LEMMA RebuiltTyped ==
    ASSUME NEW recs \in Seq(Record)
    PROVE  Typed(Rebuilt(recs))
<1>1. \A i \in DOMAIN recs : recs[i] \in Record
  OBVIOUS
<1>2. QED
  BY <1>1 DEF Rebuilt, Typed, IndexBy, Record

LEMMA PushedSound ==
    ASSUME NEW mf, Typed(mf), Sound(mf),
           NEW r \in Record, r.path \notin DOMAIN mf.path_index
    PROVE  Typed(Pushed(mf, r)) /\ Sound(Pushed(mf, r))
<1> DEFINE n  == Len(mf.records) + 1
           p  == Pushed(mf, r)
<1>1. /\ p.records \in Seq(Record)
      /\ DOMAIN p.records = DOMAIN mf.records \cup {n}
      /\ n \notin DOMAIN mf.records
      /\ p.records[n] = r
      /\ \A i \in DOMAIN mf.records : p.records[i] = mf.records[i]
  BY DEF Typed, Pushed
<1>2. /\ DOMAIN p.guid_index = DOMAIN mf.guid_index \cup {r.guid}
      /\ p.guid_index[r.guid] = n
      /\ \A g \in DOMAIN mf.guid_index :
             g # r.guid => p.guid_index[g] = mf.guid_index[g]
  BY DEF Pushed, Insert
<1>3. /\ DOMAIN p.path_index = DOMAIN mf.path_index \cup {r.path}
      /\ p.path_index[r.path] = n
      /\ \A q \in DOMAIN mf.path_index : p.path_index[q] = mf.path_index[q]
  BY DEF Pushed, Insert
<1>4. Typed(p)
  BY <1>1, <1>2, <1>3 DEF Typed, Record
<1>5. Sound(p)
  <2> HIDE DEF p, n
  <2>1. InRange(p)
    BY <1>1, <1>2, <1>3 DEF Sound, InRange
  <2>2. PathsExact(p)
    BY <1>1, <1>3 DEF Sound, InRange, PathsExact
  <2>3. GuidsKnown(p)
    BY <1>1, <1>2 DEF Sound, GuidsKnown
  <2>4. QED
    BY <2>1, <2>2, <2>3 DEF Sound
<1>6. QED
  BY <1>4, <1>5

LEMMA UpdatedSound ==
    ASSUME NEW mf, Typed(mf), Sound(mf),
           NEW r \in Record, r.path \in DOMAIN mf.path_index
    PROVE  Typed(Updated(mf, r)) /\ Sound(Updated(mf, r))
<1> DEFINE n  == mf.path_index[r.path]
           p  == Updated(mf, r)
<1>1. n \in DOMAIN mf.records /\ mf.records[n].path = r.path
  BY DEF Sound, InRange, PathsExact
<1>2. /\ p.records \in Seq(Record)
      /\ DOMAIN p.records = DOMAIN mf.records
      /\ p.records[n] = r
      /\ \A i \in DOMAIN mf.records : i # n => p.records[i] = mf.records[i]
  BY <1>1 DEF Typed, Updated
<1>3. /\ DOMAIN p.guid_index = DOMAIN mf.guid_index \cup {r.guid}
      /\ p.guid_index[r.guid] = n
      /\ \A g \in DOMAIN mf.guid_index :
             g # r.guid => p.guid_index[g] = mf.guid_index[g]
      /\ p.path_index = mf.path_index
  BY DEF Updated, Insert
<1>4. Typed(p)
  BY <1>2, <1>3 DEF Typed, Record
<1>5. Sound(p)
  <2> HIDE DEF p, n
  <2>1. InRange(p)
    BY <1>1, <1>2, <1>3 DEF Sound, InRange
  <2>2. PathsExact(p)
    <3>1. ASSUME NEW i \in DOMAIN mf.records
          PROVE  p.records[i].path = mf.records[i].path
      BY <1>1, <1>2
    <3>2. ASSUME NEW q \in DOMAIN p.path_index
          PROVE  p.records[p.path_index[q]].path = q
      <4>1. q \in DOMAIN mf.path_index /\ p.path_index = mf.path_index
        BY <1>3
      <4>2. /\ mf.path_index[q] \in DOMAIN mf.records
            /\ mf.records[mf.path_index[q]].path = q
        BY <4>1 DEF Sound, InRange, PathsExact
      <4>3. QED
        BY <3>1, <4>1, <4>2
    <3>3. ASSUME NEW i \in DOMAIN p.records
          PROVE  /\ p.records[i].path \in DOMAIN p.path_index
                 /\ p.path_index[p.records[i].path] = i
      <4>1. i \in DOMAIN mf.records /\ p.path_index = mf.path_index
        BY <1>2, <1>3
      <4>2. /\ mf.records[i].path \in DOMAIN mf.path_index
            /\ mf.path_index[mf.records[i].path] = i
        BY <4>1 DEF Sound, PathsExact
      <4>3. QED
        BY <3>1, <4>1, <4>2
    <3>4. QED
      BY <3>2, <3>3 DEF PathsExact
  <2>3. GuidsKnown(p)
    BY <1>1, <1>2, <1>3 DEF Sound, GuidsKnown
  <2>4. QED
    BY <2>1, <2>2, <2>3 DEF Sound
<1>6. QED
  BY <1>4, <1>5

\* Taking the element at i out of a sequence.
LEMMA Taken ==
    ASSUME NEW S, NEW s \in Seq(S), NEW i \in DOMAIN s
    PROVE  /\ RemoveAt(s, i) \in Seq(S)
           /\ DOMAIN RemoveAt(s, i) = 1 .. Len(s) - 1
           /\ \A j \in 1 .. Len(s) - 1 :
                  RemoveAt(s, i)[j] = IF j < i THEN s[j] ELSE s[j + 1]
<1> DEFINE a == SubSeq(s, 1, i - 1)
           b == SubSeq(s, i + 1, Len(s))
<1>1. i \in 1 .. Len(s) /\ Len(s) \in Nat
  OBVIOUS
<1>2. /\ a \in Seq(S)
      /\ Len(a) = i - 1
      /\ \A j \in 1 .. i - 1 : a[j] = s[j]
  BY <1>1
<1>3. /\ b \in Seq(S)
      /\ Len(b) = Len(s) - i
      /\ \A j \in 1 .. Len(s) - i : b[j] = s[i + j]
  BY <1>1
<1>4. RemoveAt(s, i) = a \o b
  BY DEF RemoveAt
<1> HIDE DEF a, b
<1>5. /\ a \o b \in Seq(S)
      /\ Len(a \o b) = Len(s) - 1
      /\ \A j \in 1 .. i - 1 : (a \o b)[j] = a[j]
      /\ \A j \in 1 .. Len(s) - i : (a \o b)[i - 1 + j] = b[j]
  <2>1. /\ a \o b \in Seq(S)
        /\ Len(a \o b) = Len(a) + Len(b)
        /\ \A j \in 1 .. Len(a) : (a \o b)[j] = a[j]
        /\ \A j \in 1 .. Len(b) : (a \o b)[Len(a) + j] = b[j]
    <3>1. a \in Seq(S) /\ b \in Seq(S)
      BY <1>2, <1>3
    <3>2. a \o b \in Seq(S) /\ Len(a \o b) = Len(a) + Len(b)
      BY <3>1
    <3>3. \A j \in 1 .. Len(a) : (a \o b)[j] = a[j]
      BY <3>1
    <3>4. \A j \in 1 .. Len(b) : (a \o b)[Len(a) + j] = b[j]
      BY <3>1
    <3>5. QED
      BY <3>2, <3>3, <3>4
  <2>2. Len(a) = i - 1 /\ Len(b) = Len(s) - i
    BY <1>2, <1>3
  <2>3. Len(a \o b) = Len(s) - 1
    BY <2>1, <2>2, <1>1
  <2>4. \A j \in 1 .. i - 1 : (a \o b)[j] = a[j]
    BY <2>1, <2>2
  <2>5. \A j \in 1 .. Len(s) - i : (a \o b)[i - 1 + j] = b[j]
    BY <2>1, <2>2
  <2>6. QED
    BY <2>1, <2>3, <2>4, <2>5
<1>6. ASSUME NEW j \in 1 .. Len(s) - 1
      PROVE  (a \o b)[j] = IF j < i THEN s[j] ELSE s[j + 1]
  <2>1. CASE j < i
    <3>1. j \in 1 .. i - 1
      BY <1>1, <2>1
    <3>2. QED
      BY <1>2, <1>5, <2>1, <3>1
  <2>2. CASE ~ (j < i)
    <3> DEFINE k == j - (i - 1)
    <3>1. k \in 1 .. Len(s) - i /\ i - 1 + k = j /\ i + k = j + 1
      BY <1>1, <2>2
    <3>2. (a \o b)[i - 1 + k] = b[k] /\ b[k] = s[i + k]
      BY <1>3, <1>5, <3>1
    <3>3. QED
      BY <2>2, <3>1, <3>2
  <2>3. QED
    BY <2>1, <2>2
<1>7. DOMAIN (a \o b) = 1 .. Len(s) - 1
  BY <1>5
<1>8. QED
  BY <1>4, <1>5, <1>6, <1>7

LEMMA RemovedSound ==
    ASSUME NEW mf, Typed(mf), Sound(mf), NEW g \in DOMAIN mf.guid_index
    PROVE  Typed(Removed(mf, g)) /\ Sound(Removed(mf, g))
<1> DEFINE idx  == mf.guid_index[g]
           recs == RemoveAt(mf.records, idx)
<1>1. idx \in DOMAIN mf.records /\ mf.records \in Seq(Record)
  BY DEF Sound, InRange, Typed
<1>2. /\ recs \in Seq(Record)
      /\ DOMAIN recs = 1 .. Len(mf.records) - 1
      /\ \A j \in 1 .. Len(mf.records) - 1 :
             recs[j] = IF j < idx THEN mf.records[j] ELSE mf.records[j + 1]
  BY <1>1, Taken
<1>3. \A i, j \in DOMAIN mf.records :
        mf.records[i].path = mf.records[j].path => i = j
  BY DEF Sound, PathsExact
<1>4. ASSUME NEW i \in DOMAIN recs, NEW j \in DOMAIN recs,
             recs[i].path = recs[j].path
      PROVE  i = j
  <2> DEFINE at(k) == IF k < idx THEN k ELSE k + 1
  <2>0. i \in 1 .. Len(mf.records) - 1 /\ j \in 1 .. Len(mf.records) - 1
    BY <1>2
  <2>1. /\ idx \in 1 .. Len(mf.records) /\ Len(mf.records) \in Nat
        /\ DOMAIN mf.records = 1 .. Len(mf.records)
    BY <1>1
  <2>2. /\ at(i) \in DOMAIN mf.records /\ recs[i] = mf.records[at(i)]
        /\ at(j) \in DOMAIN mf.records /\ recs[j] = mf.records[at(j)]
    <3>1. ASSUME NEW k \in 1 .. Len(mf.records) - 1
          PROVE  at(k) \in DOMAIN mf.records /\ recs[k] = mf.records[at(k)]
      <4>1. recs[k] = IF k < idx THEN mf.records[k] ELSE mf.records[k + 1]
        BY <1>2
      <4>2. CASE k < idx
        BY <2>1, <4>1, <4>2
      <4>3. CASE ~ (k < idx)
        BY <2>1, <4>1, <4>3
      <4>4. QED
        BY <4>2, <4>3
    <3>2. QED
      BY <3>1, <2>0
  <2>3. at(i) = at(j)
    BY <1>3, <1>4, <2>2
  <2>4. i \in Nat /\ j \in Nat /\ idx \in Nat
    BY <2>0, <2>1
  <2>5. CASE i < idx
    BY <2>3, <2>4, <2>5
  <2>6. CASE ~ (i < idx)
    BY <2>3, <2>4, <2>6
  <2>7. QED
    BY <2>5, <2>6
<1>5. Removed(mf, g) = Rebuilt(recs)
  BY DEF Removed
<1>6. QED
  BY <1>2, <1>4, <1>5, RebuiltSound, RebuiltTyped

-----------------------------------------------------------------------------
(* The invariant.                                                          *)

IInv == Typed(m) /\ Sound(m)

LEMMA InitIInv == Init => IInv
<1>1. Typed(New) /\ Sound(New)
  <2>1. <<>> \in Seq(Record) /\ DOMAIN <<>> = {}
    OBVIOUS
  <2>2. QED
    BY <2>1, RebuiltSound, RebuiltTyped DEF New
<1>2. QED
  BY <1>1 DEF Init, IInv

LEMMA NextIInv == IInv /\ [Next]_m => IInv'
<1> SUFFICES ASSUME IInv, [Next]_m PROVE IInv'
  OBVIOUS
<1> USE DEF IInv
<1>1. ASSUME NEW r \in Record, RegisterAsset(r) PROVE IInv'
  <2>1. CASE r.path \in DOMAIN m.path_index
    BY <1>1, <2>1, UpdatedSound DEF RegisterAsset, Registered
  <2>2. CASE r.path \notin DOMAIN m.path_index
    BY <1>1, <2>2, PushedSound DEF RegisterAsset, Registered
  <2>3. QED
    BY <2>1, <2>2
<1>2. ASSUME NEW g \in Guids, RemoveAsset(g) PROVE IInv'
  BY <1>2, RemovedSound DEF RemoveAsset
<1>3. CASE UNCHANGED m
  BY <1>3
<1>4. QED
  BY <1>1, <1>2, <1>3 DEF Next

\* Every part of the manifest keeps its type.
THEOREM ManifestTypeCorrect == Spec => []TypeOK
<1>1. IInv => TypeOK
  BY DEF IInv, Typed, TypeOK
<1>2. QED
  BY InitIInv, NextIInv, <1>1, PTL DEF Spec

\* In every manifest the code can build, by any sequence of register_asset and
\* remove_asset with guids of its own or the caller's, the indexes stay in
\* range (neither call panics), each path has one record and find_by_path
\* finds it, and each record's guid can be looked up.
THEOREM ManifestIndexesSound == Spec => []IndexesSound
<1>1. IInv => IndexesSound
  BY DEF IInv, IndexesSound
<1>2. QED
  BY InitIInv, NextIInv, <1>1, PTL DEF Spec

-----------------------------------------------------------------------------
(* The manifest implements the registry by path.                           *)

\* The registry a manifest stands for.
Abs(mf) == [p \in Paths |-> IF p \in DOMAIN mf.path_index
                            THEN mf.records[mf.path_index[p]]
                            ELSE None]

LEMMA AbsOfRegistered ==
    ASSUME NEW mf, Typed(mf), Sound(mf), NEW r \in Record
    PROVE  Abs(Registered(mf, r)) = [Abs(mf) EXCEPT ![r.path] = r]
<1> DEFINE p == Registered(mf, r)
<1>0. r.path \in Paths
  BY DEF Record
<1>1. /\ DOMAIN p.path_index = DOMAIN mf.path_index \cup {r.path}
      /\ p.records[p.path_index[r.path]] = r
      /\ \A q \in DOMAIN mf.path_index : q # r.path =>
             p.records[p.path_index[q]] = mf.records[mf.path_index[q]]
  <2>1. CASE r.path \in DOMAIN mf.path_index
    <3> DEFINE n == mf.path_index[r.path]
    <3>1. p = Updated(mf, r)
      BY <2>1 DEF Registered
    <3>2. n \in DOMAIN mf.records /\ mf.records[n].path = r.path
      BY <2>1 DEF Sound, InRange, PathsExact
    <3>3. /\ p.path_index = mf.path_index
          /\ p.records = [mf.records EXCEPT ![n] = r]
      BY <3>1 DEF Updated
    <3>4. p.records[n] = r
      BY <3>2, <3>3 DEF Typed
    <3>5. ASSUME NEW q \in DOMAIN mf.path_index, q # r.path
          PROVE  p.records[p.path_index[q]] = mf.records[mf.path_index[q]]
      <4>1. /\ mf.path_index[q] \in DOMAIN mf.records
            /\ mf.records[mf.path_index[q]].path = q
        BY DEF Sound, InRange, PathsExact
      <4>2. mf.path_index[q] # n
        BY <3>2, <3>5, <4>1
      <4>3. QED
        BY <3>3, <4>1, <4>2 DEF Typed
    <3>6. QED
      BY <2>1, <3>3, <3>4, <3>5
  <2>2. CASE r.path \notin DOMAIN mf.path_index
    <3> DEFINE n == Len(mf.records) + 1
    <3>1. p = Pushed(mf, r)
      BY <2>2 DEF Registered
    <3>2. /\ p.path_index = Insert(mf.path_index, r.path, n)
          /\ p.records = Append(mf.records, r)
      BY <3>1 DEF Pushed
    <3>3. p.records[n] = r /\ \A i \in DOMAIN mf.records : p.records[i] = mf.records[i]
      BY <3>2 DEF Typed
    <3>4. /\ DOMAIN p.path_index = DOMAIN mf.path_index \cup {r.path}
          /\ p.path_index[r.path] = n
          /\ \A q \in DOMAIN mf.path_index :
                 q # r.path => p.path_index[q] = mf.path_index[q]
      BY <3>2 DEF Insert
    <3>5. \A q \in DOMAIN mf.path_index : mf.path_index[q] \in DOMAIN mf.records
      BY DEF Sound, InRange
    <3> HIDE DEF n, p
    <3>6. QED
      BY <3>3, <3>4, <3>5
  <2>3. QED
    BY <2>1, <2>2
<1> HIDE DEF p
<1>2. ASSUME NEW q \in Paths
      PROVE  Abs(p)[q] = [Abs(mf) EXCEPT ![r.path] = r][q]
  <2>1. CASE q = r.path
    BY <1>0, <1>1, <2>1 DEF Abs
  <2>2. CASE q # r.path
    BY <1>1, <2>2 DEF Abs
  <2>3. QED
    BY <2>1, <2>2
<1>3. Abs(p) = [Abs(mf) EXCEPT ![r.path] = r]
  BY <1>2 DEF Abs
<1>4. QED
  BY <1>3 DEF p

LEMMA AbsOfRemoved ==
    ASSUME NEW mf, Typed(mf), Sound(mf), NEW g \in DOMAIN mf.guid_index
    PROVE  LET gone == mf.records[mf.guid_index[g]].path
           IN  /\ gone \in Paths
               /\ Abs(mf)[gone] \in Record
               /\ Abs(Removed(mf, g)) = [Abs(mf) EXCEPT ![gone] = None]
<1> DEFINE idx  == mf.guid_index[g]
           gone == mf.records[idx].path
           recs == RemoveAt(mf.records, idx)
           N    == Removed(mf, g)
           at(k) == IF k < idx THEN k ELSE k + 1
<1>1. /\ idx \in DOMAIN mf.records /\ mf.records \in Seq(Record)
      /\ idx \in 1 .. Len(mf.records) /\ Len(mf.records) \in Nat
      /\ DOMAIN mf.records = 1 .. Len(mf.records)
  BY DEF Sound, InRange, Typed
<1>2. mf.records[idx] \in Record /\ gone \in Paths
  <2>1. mf.records[idx] \in Record
    BY <1>1
  <2>2. QED
    BY <2>1 DEF Record
<1>3. gone \in DOMAIN mf.path_index /\ mf.path_index[gone] = idx
  BY <1>1 DEF Sound, PathsExact
<1>4. Abs(mf)[gone] \in Record
  BY <1>2, <1>3 DEF Abs
<1>5. /\ DOMAIN recs = 1 .. Len(mf.records) - 1
      /\ \A j \in 1 .. Len(mf.records) - 1 :
             recs[j] = IF j < idx THEN mf.records[j] ELSE mf.records[j + 1]
  BY <1>1, Taken
<1>6. N.records = recs /\ Sound(N)
  BY RemovedSound DEF Removed, Rebuilt
<1>7. ASSUME NEW k \in DOMAIN recs
      PROVE  /\ at(k) \in DOMAIN mf.records /\ at(k) # idx
             /\ recs[k] = mf.records[at(k)]
  <2>1. k \in 1 .. Len(mf.records) - 1
    BY <1>5
  <2>2. recs[k] = IF k < idx THEN mf.records[k] ELSE mf.records[k + 1]
    BY <1>5, <2>1
  <2>3. CASE k < idx
    BY <1>1, <2>1, <2>2, <2>3
  <2>4. CASE ~ (k < idx)
    BY <1>1, <2>1, <2>2, <2>4
  <2>5. QED
    BY <2>3, <2>4
<1>8. ASSUME NEW i \in DOMAIN mf.records, i # idx
      PROVE  \E k \in DOMAIN recs : recs[k] = mf.records[i]
  <2>1. CASE i < idx
    <3>1. i \in DOMAIN recs /\ recs[i] = mf.records[i]
      BY <1>1, <1>5, <2>1
    <3>2. QED
      BY <3>1
  <2>2. CASE ~ (i < idx)
    <3>1. i - 1 \in 1 .. Len(mf.records) - 1 /\ ~ (i - 1 < idx) /\ (i - 1) + 1 = i
      BY <1>1, <1>8, <2>2
    <3>2. recs[i - 1] = mf.records[(i - 1) + 1]
      BY <1>5, <3>1
    <3>3. QED
      BY <1>5, <3>1, <3>2
  <2>3. QED
    BY <2>1, <2>2
<1> HIDE DEF idx, gone, recs, N, at
<1>9. ASSUME NEW q \in DOMAIN N.path_index
      PROVE  q \in DOMAIN mf.path_index /\ q # gone
  <2>1. N.path_index[q] \in DOMAIN recs /\ recs[N.path_index[q]].path = q
    BY <1>6 DEF Sound, InRange, PathsExact
  <2>2. PICK i \in DOMAIN mf.records : i # idx /\ mf.records[i].path = q
    BY <1>7, <2>1
  <2>3. q \in DOMAIN mf.path_index /\ mf.path_index[q] = i
    BY <2>2 DEF Sound, PathsExact
  <2>4. QED
    BY <1>3, <2>2, <2>3
<1>10. ASSUME NEW q \in DOMAIN mf.path_index, q # gone
       PROVE  /\ q \in DOMAIN N.path_index
              /\ N.records[N.path_index[q]] = mf.records[mf.path_index[q]]
  <2>1. /\ mf.path_index[q] \in DOMAIN mf.records
        /\ mf.records[mf.path_index[q]].path = q
    BY DEF Sound, InRange, PathsExact
  <2>2. mf.path_index[q] # idx
    BY <1>10, <2>1 DEF gone
  <2>3. PICK k \in DOMAIN recs : recs[k] = mf.records[mf.path_index[q]]
    BY <1>8, <2>1, <2>2
  <2>4. N.records[k].path = q /\ k \in DOMAIN N.records
    BY <1>6, <2>1, <2>3
  <2>5. q \in DOMAIN N.path_index /\ N.path_index[q] = k
    BY <1>6, <2>4 DEF Sound, PathsExact
  <2>6. QED
    BY <1>6, <2>3, <2>5
<1>11. ASSUME NEW q \in Paths
       PROVE  Abs(N)[q] = [Abs(mf) EXCEPT ![gone] = None][q]
  <2>1. CASE q = gone
    <3>1. q \notin DOMAIN N.path_index
      BY <1>9, <2>1
    <3>2. QED
      BY <2>1, <3>1 DEF Abs
  <2>2. CASE q # gone
    BY <1>9, <1>10, <2>2 DEF Abs
  <2>3. QED
    BY <2>1, <2>2
<1>12. Abs(N) = [Abs(mf) EXCEPT ![gone] = None]
  BY <1>11 DEF Abs
<1>13. QED
  BY <1>2, <1>4, <1>12 DEF N, gone, idx

\* Seen by path, the manifest with its Vec and its two hash maps is a plain
\* map from paths to records: register_asset sets one path and remove_asset
\* clears one, for every history of calls.
THEOREM ManifestImplementsRegistry == Spec => ImplementsRegistry
<1> DEFINE asset == [p \in Paths |-> IF p \in DOMAIN m.path_index
                                     THEN m.records[m.path_index[p]]
                                     ELSE None]
<1>1. asset = Abs(m)
  BY DEF Abs
<1>2. asset' = Abs(m')
  BY DEF Abs
<1>3. Init => Registry!Init
  <2>1. DOMAIN New.path_index = {}
    BY DEF New, Rebuilt, IndexBy
  <2>2. QED
    BY <2>1 DEF Init, Registry!Init
<1>4. IInv /\ [Next]_m => [Registry!Next]_asset
  <2> SUFFICES ASSUME IInv, [Next]_m PROVE [Registry!Next]_asset
    OBVIOUS
  <2> HIDE DEF asset
  <2>1. ASSUME NEW r \in Record, RegisterAsset(r) PROVE Registry!Next
    <3>1. asset' = [asset EXCEPT ![r.path] = r] /\ r.path \in Paths
      BY <1>1, <1>2, <2>1, AbsOfRegistered DEF IInv, RegisterAsset, Record
    <3>2. QED
      BY <3>1 DEF asset, Registry!Next, Registry!Register
  <2>2. ASSUME NEW g \in Guids, RemoveAsset(g) PROVE Registry!Next
    <3> DEFINE gone == m.records[m.guid_index[g]].path
    <3>1. /\ gone \in Paths /\ asset[gone] \in Record
          /\ asset' = [asset EXCEPT ![gone] = None]
      BY <1>1, <1>2, <2>2, AbsOfRemoved DEF IInv, RemoveAsset
    <3>2. asset[gone] # None
      BY <3>1, NoneAssumption
    <3>3. QED
      BY <3>1, <3>2 DEF asset, Registry!Next, Registry!Remove
  <2>3. CASE UNCHANGED m
    BY <1>1, <1>2, <2>3
  <2>4. QED
    BY <2>1, <2>2, <2>3 DEF Next
<1>5. QED
  BY InitIInv, NextIInv, <1>3, <1>4, PTL
  DEF Spec, ImplementsRegistry, Registry!Spec

LEMMA FindByAbs ==
    ASSUME NEW mf, Typed(mf), Sound(mf), NEW p \in Paths
    PROVE  FindByPath(mf, p) = IF Abs(mf)[p] = None THEN {} ELSE {Abs(mf)[p]}
<1>1. CASE p \in DOMAIN mf.path_index
  <2>1. mf.path_index[p] \in DOMAIN mf.records
    BY <1>1 DEF Sound, InRange
  <2>2. mf.records[mf.path_index[p]] \in Record
    BY <2>1 DEF Typed
  <2>3. QED
    BY <1>1, <2>2, NoneAssumption DEF FindByPath, Abs
<1>2. CASE p \notin DOMAIN mf.path_index
  BY <1>2 DEF FindByPath, Abs
<1>3. QED
  BY <1>1, <1>2

\* remove_asset(g) never costs a path other than that of the record g names.
THEOREM ManifestRemoveTakesOne == Spec => RemoveTakesOne
<1>1. ASSUME IInv, NEW g \in Guids, RemoveAsset(g), NEW p \in Paths,
             p # m.records[m.guid_index[g]].path
      PROVE  FindByPath(m', p) = FindByPath(m, p)
  <2>1. g \in DOMAIN m.guid_index /\ m' = Removed(m, g)
    BY <1>1 DEF RemoveAsset
  <2>2. Typed(m) /\ Sound(m)
    BY <1>1 DEF IInv
  <2>3. Abs(Removed(m, g)) = [Abs(m) EXCEPT ![m.records[m.guid_index[g]].path] = None]
    BY <2>1, <2>2, AbsOfRemoved
  <2>4. Abs(Removed(m, g))[p] = Abs(m)[p]
    BY <1>1, <2>3 DEF Abs
  <2>5. Typed(Removed(m, g)) /\ Sound(Removed(m, g))
    BY <2>1, <2>2, RemovedSound
  <2>6. FindByPath(Removed(m, g), p) =
          IF Abs(Removed(m, g))[p] = None THEN {} ELSE {Abs(Removed(m, g))[p]}
    BY <2>5, FindByAbs
  <2>7. FindByPath(m, p) = IF Abs(m)[p] = None THEN {} ELSE {Abs(m)[p]}
    BY <2>2, FindByAbs
  <2>8. QED
    BY <2>1, <2>4, <2>6, <2>7
<1>2. IInv /\ [Next]_m =>
        [\A g \in Guids : RemoveAsset(g) =>
           \A p \in Paths : p # m.records[m.guid_index[g]].path =>
               FindByPath(m', p) = FindByPath(m, p)]_m
  BY <1>1
<1>3. QED
  BY InitIInv, NextIInv, <1>2, PTL DEF Spec, RemoveTakesOne

-----------------------------------------------------------------------------
(* ManifestStore: tools that share manifest.json.                          *)

DistinctPaths(recs) ==
    \A i, j \in DOMAIN recs : recs[i].path = recs[j].path => i = j

\* What holds of any manifest, one built from records that repeat a path too.
Loose(mf) == Typed(mf) /\ InRange(mf) /\ GuidsKnown(mf)

\* Every manifest in memory is loose, and sound unless mixed text is behind it.
MemSound == \A t \in Tools : mem[t] # None =>
                Loose(mem[t]) /\ (t \notin doubt => Sound(mem[t]))

\* save borrows the manifest it writes.
Borrowed == \A t \in Tools : saving[t] # None =>
                mem[t] # None /\ saving[t] = mem[t].records

\* What load accepts was once the records of a sound manifest, or is mixed.
FileSavable == Whole => /\ file \in Seq(Record)
                        /\ ~fileDoubt => DistinctPaths(file)

\* Without a clash, at most one save is under way, and nothing but its own text
\* has been written since it emptied the file.
Alone == ~clash => \/ Saving = {} /\ file = last
                   \/ \E t \in Tools : Saving = {t} /\ parts \subseteq {t} /\ cut = {}

Ghosts == /\ clash \in BOOLEAN /\ fileDoubt \in BOOLEAN
          /\ parts \subseteq Tools /\ cut \subseteq Saving /\ doubt \subseteq Tools
          /\ saves \in 0 .. MaxSaves
          /\ faults \in 0 .. MaxFaults

StoreIInv ==
    /\ DOMAIN mem = Tools /\ DOMAIN saving = Tools
    /\ MemSound /\ Borrowed /\ FileSavable /\ Alone /\ Ghosts

LEMMA SoundLoose ==
    ASSUME NEW mf, Typed(mf), Sound(mf)
    PROVE  Loose(mf) /\ DistinctPaths(mf.records)
  BY DEF Loose, Sound, PathsExact, DistinctPaths

LEMMA RebuiltLoose ==
    ASSUME NEW recs \in Seq(Record)
    PROVE  Loose(Rebuilt(recs))
<1> DEFINE gi == IndexBy(recs, "guid")
           pi == IndexBy(recs, "path")
<1>1. ASSUME NEW g \in DOMAIN gi PROVE gi[g] \in DOMAIN recs
  <2>1. PICK i \in DOMAIN recs : g = recs[i]["guid"]
    BY DEF IndexBy
  <2>2. QED
    BY <2>1, IndexFinds
<1>2. ASSUME NEW p \in DOMAIN pi PROVE pi[p] \in DOMAIN recs
  <2>1. PICK i \in DOMAIN recs : p = recs[i]["path"]
    BY DEF IndexBy
  <2>2. QED
    BY <2>1, IndexFinds
<1>3. ASSUME NEW i \in DOMAIN recs PROVE recs[i].guid \in DOMAIN gi
  <2>1. recs[i]["guid"] \in DOMAIN gi
    BY IndexFinds
  <2>2. QED
    BY <2>1
<1>4. QED
  BY <1>1, <1>2, <1>3, RebuiltTyped DEF Rebuilt, Loose, InRange, GuidsKnown

LEMMA NewSound == Typed(New) /\ Sound(New)
<1>1. <<>> \in Seq(Record) /\ DOMAIN <<>> = {}
  OBVIOUS
<1>2. QED
  BY <1>1, RebuiltSound, RebuiltTyped DEF New

LEMMA RegisteredSound ==
    ASSUME NEW mf, Typed(mf), Sound(mf), NEW r \in Record
    PROVE  Typed(Registered(mf, r)) /\ Sound(Registered(mf, r))
<1>1. CASE r.path \in DOMAIN mf.path_index
  BY <1>1, UpdatedSound DEF Registered
<1>2. CASE r.path \notin DOMAIN mf.path_index
  BY <1>2, PushedSound DEF Registered
<1>3. QED
  BY <1>1, <1>2

LEMMA RegisteredLoose ==
    ASSUME NEW mf, Loose(mf), NEW r \in Record
    PROVE  Loose(Registered(mf, r))
<1>1. CASE r.path \in DOMAIN mf.path_index
  <2> DEFINE n  == mf.path_index[r.path]
             p  == Updated(mf, r)
  <2>1. n \in DOMAIN mf.records
    BY <1>1 DEF Loose, InRange
  <2>2. /\ p.records \in Seq(Record)
        /\ DOMAIN p.records = DOMAIN mf.records
        /\ p.records[n] = r
        /\ \A i \in DOMAIN mf.records : i # n => p.records[i] = mf.records[i]
    BY <2>1 DEF Loose, Typed, Updated
  <2>3. /\ DOMAIN p.guid_index = DOMAIN mf.guid_index \cup {r.guid}
        /\ p.guid_index[r.guid] = n
        /\ \A g \in DOMAIN mf.guid_index :
               g # r.guid => p.guid_index[g] = mf.guid_index[g]
        /\ p.path_index = mf.path_index
    BY DEF Updated, Insert
  <2>4. Registered(mf, r) = p
    BY <1>1 DEF Registered
  <2> HIDE DEF p, n
  <2>5. Typed(p) /\ InRange(p) /\ GuidsKnown(p)
    BY <2>1, <2>2, <2>3 DEF Loose, Typed, InRange, GuidsKnown, Record
  <2>6. QED
    BY <2>4, <2>5 DEF Loose
<1>2. CASE r.path \notin DOMAIN mf.path_index
  <2> DEFINE n  == Len(mf.records) + 1
             p  == Pushed(mf, r)
  <2>1. /\ p.records \in Seq(Record)
        /\ DOMAIN p.records = DOMAIN mf.records \cup {n}
        /\ p.records[n] = r
        /\ \A i \in DOMAIN mf.records : i # n /\ p.records[i] = mf.records[i]
    BY DEF Loose, Typed, Pushed
  <2>2. /\ DOMAIN p.guid_index = DOMAIN mf.guid_index \cup {r.guid}
        /\ p.guid_index[r.guid] = n
        /\ \A g \in DOMAIN mf.guid_index :
               g # r.guid => p.guid_index[g] = mf.guid_index[g]
    BY DEF Pushed, Insert
  <2>3. /\ DOMAIN p.path_index = DOMAIN mf.path_index \cup {r.path}
        /\ p.path_index[r.path] = n
        /\ \A q \in DOMAIN mf.path_index :
               q # r.path => p.path_index[q] = mf.path_index[q]
    BY DEF Pushed, Insert
  <2>4. Registered(mf, r) = p
    BY <1>2 DEF Registered
  <2> HIDE DEF p, n
  <2>5. Typed(p) /\ InRange(p) /\ GuidsKnown(p)
    BY <2>1, <2>2, <2>3 DEF Loose, Typed, InRange, GuidsKnown, Record
  <2>6. QED
    BY <2>4, <2>5 DEF Loose
<1>3. QED
  BY <1>1, <1>2

LEMMA RemovedLoose ==
    ASSUME NEW mf, Loose(mf), NEW g \in DOMAIN mf.guid_index
    PROVE  Loose(Removed(mf, g))
<1>1. mf.guid_index[g] \in DOMAIN mf.records /\ mf.records \in Seq(Record)
  BY DEF Loose, InRange, Typed
<1>2. RemoveAt(mf.records, mf.guid_index[g]) \in Seq(Record)
  BY <1>1, Taken
<1>3. QED
  BY <1>2, RebuiltLoose DEF Removed

\* A tool that gets a new manifest while it is not in save disturbs neither the
\* file nor anyone's save.
LEMMA Remembered ==
    ASSUME StoreIInv, NEW t \in Tools, Free(t),
           NEW mf, Loose(mf), t \notin doubt' => Sound(mf),
           mem' = [mem EXCEPT ![t] = mf], Unsaved,
           doubt' \subseteq Tools,
           \A u \in Tools : u # t => (u \in doubt' <=> u \in doubt)
    PROVE  StoreIInv'
<1> USE DEF StoreIInv, Unsaved
<1>1. /\ DOMAIN mem' = Tools /\ DOMAIN saving' = Tools
      /\ mem'[t] = mf /\ \A u \in Tools : u # t => mem'[u] = mem[u]
  OBVIOUS
<1>2. MemSound'
  BY <1>1 DEF MemSound
<1>3. Borrowed'
  BY <1>1 DEF Borrowed, Free
<1>4. FileSavable' /\ Alone' /\ Ghosts'
  BY DEF FileSavable, Whole, Alone, Saving, Ghosts
<1>5. QED
  BY <1>1, <1>2, <1>3, <1>4

LEMMA MixtureTyped == \A c \in Mixture : c = Torn \/ c \in Seq(Record)
  BY DEF Mixture, SeqOf

LEMMA StoreInitIInv == StoreInit => StoreIInv
<1> SUFFICES ASSUME StoreInit PROVE StoreIInv
  OBVIOUS
<1> USE DEF StoreInit
<1>1. Saving = {} /\ file = last /\ ~Whole
  BY DEF Saving, Whole
<1>2. Ghosts
  <2>1. /\ clash = FALSE /\ fileDoubt = FALSE /\ saves = 0 /\ faults = 0
        /\ parts = {} /\ cut = {} /\ doubt = {}
    OBVIOUS
  <2>2. 0 \in 0 .. MaxSaves /\ 0 \in 0 .. MaxFaults
    BY StoreBounds
  <2> HIDE DEF StoreInit
  <2>3. QED
    BY <2>1, <2>2, Zenon DEF Ghosts
<1>3. QED
  BY <1>1, <1>2 DEF StoreIInv, MemSound, Borrowed, FileSavable, Alone

LEMMA StoreNextIInv == StoreIInv /\ [StoreNext]_storeVars => StoreIInv'
<1> SUFFICES ASSUME StoreIInv, [StoreNext]_storeVars PROVE StoreIInv'
  OBVIOUS
<1>0. DOMAIN mem = Tools /\ DOMAIN saving = Tools
  BY DEF StoreIInv
<1>1. ASSUME NEW t \in Tools, NewManifest(t) PROVE StoreIInv'
  <2>1. Free(t) /\ doubt' = doubt /\ doubt \subseteq Tools
    BY <1>1 DEF NewManifest, StoreIInv, Borrowed, Free, Ghosts
  <2>2. Loose(New)
    BY NewSound, SoundLoose
  <2>3. QED
    BY <1>1, <2>1, <2>2, NewSound, Remembered DEF NewManifest
<1>2. ASSUME NEW t \in Tools, Load(t) PROVE StoreIInv'
  <2>1. file \in Seq(Record) /\ (~fileDoubt => DistinctPaths(file))
    BY <1>2 DEF Load, StoreIInv, FileSavable
  <2>2. Loose(Rebuilt(file))
    BY <2>1, RebuiltLoose
  <2>3. doubt' = IF fileDoubt THEN doubt \cup {t} ELSE doubt \ {t}
    BY <1>2 DEF Load
  <2>4. t \notin doubt' => Sound(Rebuilt(file))
    BY <2>1, <2>3, RebuiltSound DEF DistinctPaths
  <2>5. /\ doubt' \subseteq Tools
        /\ \A u \in Tools : u # t => (u \in doubt' <=> u \in doubt)
    BY <2>3 DEF StoreIInv, Ghosts
  <2>6. QED
    BY <1>2, <2>2, <2>4, <2>5, Remembered DEF Load
<1>3. ASSUME NEW t \in Tools, NEW r \in Record, Register(t, r) PROVE StoreIInv'
  <2>1. Loose(mem[t]) /\ (t \notin doubt => Typed(mem[t]) /\ Sound(mem[t]))
    BY <1>3 DEF Register, StoreIInv, MemSound, Loose
  <2>2. Loose(Registered(mem[t], r)) /\ (t \notin doubt => Sound(Registered(mem[t], r)))
    BY <2>1, RegisteredLoose, RegisteredSound
  <2>3. /\ mem' = [mem EXCEPT ![t] = Registered(mem[t], r)] /\ Free(t) /\ Unsaved
        /\ doubt' = doubt /\ doubt \subseteq Tools
    BY <1>0, <1>3 DEF Register, StoreIInv, Ghosts
  <2>4. QED
    BY <2>2, <2>3, Remembered
<1>4. ASSUME NEW t \in Tools, NEW g \in Guids, Delete(t, g) PROVE StoreIInv'
  <2>1. /\ Loose(mem[t]) /\ (t \notin doubt => Typed(mem[t]) /\ Sound(mem[t]))
        /\ g \in DOMAIN mem[t].guid_index
    BY <1>4 DEF Delete, StoreIInv, MemSound, Loose
  <2>2. Loose(Removed(mem[t], g)) /\ (t \notin doubt => Sound(Removed(mem[t], g)))
    BY <2>1, RemovedLoose, RemovedSound
  <2>3. /\ mem' = [mem EXCEPT ![t] = Removed(mem[t], g)] /\ Free(t) /\ Unsaved
        /\ doubt' = doubt /\ doubt \subseteq Tools
    BY <1>0, <1>4 DEF Delete, StoreIInv, Ghosts
  <2>4. QED
    BY <2>2, <2>3, Remembered
<1>5. ASSUME NEW t \in Tools, BeginSave(t) PROVE StoreIInv'
  <2> USE DEF BeginSave
  <2>1. /\ mem' = mem /\ doubt' = doubt /\ mem[t] # None
        /\ saving'[t] = mem[t].records /\ mem[t].records # None
        /\ \A u \in Tools : u # t => saving'[u] = saving[u]
        /\ DOMAIN saving' = Tools
    BY <1>0, <1>5, NoSaveAssumption DEF StoreIInv, MemSound, Loose, Typed
  <2>2. MemSound' /\ Borrowed'
    BY <2>1 DEF StoreIInv, MemSound, Borrowed
  <2>3. FileSavable'
    BY <1>5 DEF FileSavable, Whole, Truncated
  <2>4. Alone'
    <3>1. Saving' = Saving \cup {t}
      BY <2>1 DEF Saving
    <3>2. /\ parts' = {} /\ cut' = cut \cup (parts \cap Saving)
          /\ ~clash' => Saving = {}
      BY <1>5 DEF Truncated
    <3>3. ~clash' => cut' = {}
      BY <3>2 DEF StoreIInv, Ghosts
    <3>4. QED
      BY <3>1, <3>2, <3>3 DEF Alone
  <2>5. Ghosts'
    <3>1. parts' = {} /\ clash' \in BOOLEAN /\ fileDoubt' = FALSE /\ doubt' = doubt
      BY <1>5 DEF Truncated
    <3>2. saves' \in 0 .. MaxSaves /\ faults' \in 0 .. MaxFaults
      BY <1>5, StoreBounds DEF StoreIInv, Ghosts
    <3>3. cut' = cut \cup (parts \cap Saving) /\ Saving \subseteq Saving'
      BY <1>5, <2>1 DEF Saving, Free
    <3> HIDE DEF BeginSave
    <3>4. QED
      BY <3>1, <3>2, <3>3 DEF StoreIInv, Ghosts
  <2>6. QED
    BY <1>0, <2>1, <2>2, <2>3, <2>4, <2>5 DEF StoreIInv
<1>6. ASSUME NEW t \in Tools, FinishSave(t) PROVE StoreIInv'
  <2> USE DEF FinishSave
  <2>1. /\ mem' = mem /\ doubt' = doubt
        /\ saving'[t] = None
        /\ \A u \in Tools : u # t => saving'[u] = saving[u]
        /\ DOMAIN saving' = Tools
    BY <1>0, <1>6
  <2>2. MemSound' /\ Borrowed'
    BY <2>1 DEF StoreIInv, MemSound, Borrowed
  <2>3. FileSavable'
    <3>1. mem[t] # None /\ saving[t] = mem[t].records
      BY <1>6 DEF StoreIInv, Borrowed, Free
    <3>2. saving[t] \in Seq(Record) /\ (t \notin doubt => DistinctPaths(saving[t]))
      BY <3>1, SoundLoose DEF StoreIInv, MemSound, Loose, Typed
    <3>3. CASE file' = saving[t] /\ (t \in doubt => fileDoubt')
      BY <3>2, <3>3 DEF FileSavable
    <3>4. CASE file' \in Mixture /\ fileDoubt'
      BY <3>4, MixtureTyped DEF FileSavable, Whole
    <3>5. CASE file' = Torn
      BY <3>5 DEF FileSavable, Whole
    <3>6. fileDoubt' = (t \in doubt \/ (t \in parts \cup cut /\ parts # {t}))
          /\ file' \in Completed(t)
      BY <1>6
    <3>7. QED
      BY <3>3, <3>4, <3>5, <3>6 DEF Completed
  <2>4. Alone'
    <3>1. ASSUME ~clash' PROVE Saving' = {} /\ file' = last'
      <4>1. ~clash /\ Saving = {t}
        BY <1>6, <3>1
      <4>2. parts \subseteq {t} /\ cut = {}
        BY <4>1 DEF StoreIInv, Alone
      <4>3. file' = saving[t] /\ last' = saving[t]
        BY <1>6, <4>2 DEF Completed
      <4>4. Saving' = {}
        BY <2>1, <4>1 DEF Saving
      <4>5. QED
        BY <4>3, <4>4
    <3>2. QED
      BY <3>1 DEF Alone
  <2>5. Ghosts'
    <3>1. Saving' = Saving \ {t}
      BY <2>1 DEF Saving
    <3>2. QED
      BY <1>6, <3>1 DEF StoreIInv, Ghosts
  <2>6. QED
    BY <1>0, <2>1, <2>2, <2>3, <2>4, <2>5 DEF StoreIInv
<1>7. ASSUME NEW t \in Tools, SaveFails(t) PROVE StoreIInv'
  <2> USE DEF SaveFails
  <2>1. /\ UNCHANGED <<mem, file, fileDoubt, doubt>>
        /\ saving'[t] = None
        /\ \A u \in Tools : u # t => saving'[u] = saving[u]
        /\ DOMAIN saving' = Tools
    BY <1>0, <1>7
  <2>2. MemSound' /\ Borrowed' /\ FileSavable'
    BY <2>1 DEF StoreIInv, MemSound, Borrowed, FileSavable, Whole
  <2>3. Saving' = Saving \ {t}
    BY <2>1 DEF Saving
  <2>4. Alone' /\ Ghosts'
    BY <1>7, <2>3, StoreBounds DEF StoreIInv, Alone, Ghosts, Fault
  <2>5. QED
    BY <1>0, <2>1, <2>2, <2>4 DEF StoreIInv
<1>8. ASSUME NEW t \in Tools, Crash(t) PROVE StoreIInv'
  <2> USE DEF Crash
  <2>1. /\ mem'[t] = None /\ saving'[t] = None
        /\ \A u \in Tools : u # t => mem'[u] = mem[u] /\ saving'[u] = saving[u]
        /\ DOMAIN mem' = Tools /\ DOMAIN saving' = Tools
    BY <1>0, <1>8
  <2>2. MemSound' /\ Borrowed'
    BY <1>8, <2>1 DEF StoreIInv, MemSound, Borrowed
  <2>3. FileSavable'
    BY <1>8 DEF StoreIInv, FileSavable, Whole
  <2>4. Alone'
    <3>1. ASSUME ~clash' PROVE Saving' = Saving /\ ~clash
      <4>1. Free(t) /\ ~clash
        BY <1>8, <3>1
      <4>2. QED
        BY <2>1, <4>1 DEF Saving, Free
    <3>2. UNCHANGED <<file, parts, last>> /\ cut' = cut \ {t}
      BY <1>8
    <3>3. QED
      BY <3>1, <3>2 DEF StoreIInv, Alone
  <2>5. Ghosts'
    <3>1. Saving' = Saving \ {t}
      BY <2>1 DEF Saving
    <3>2. QED
      BY <1>8, <3>1, StoreBounds DEF StoreIInv, Ghosts, Fault
  <2>6. QED
    BY <2>1, <2>2, <2>3, <2>4, <2>5 DEF StoreIInv
<1>11. ASSUME NEW t \in Tools, WritePart(t) PROVE StoreIInv'
  <2>1. /\ UNCHANGED <<mem, saving, cut, last, clash, doubt, saves, faults>>
        /\ saving[t] # None
        /\ file' \in IF parts \subseteq {t} THEN {Torn} ELSE Mixture
        /\ parts' = parts \cup {t}
        /\ fileDoubt' = (t \in doubt \/ ~(parts \subseteq {t}))
    BY <1>11 DEF WritePart, Free
  <2>2. MemSound' /\ Borrowed' /\ Ghosts'
    BY <2>1 DEF StoreIInv, MemSound, Borrowed, Ghosts, Saving
  <2>3. FileSavable'
    <3>1. CASE parts \subseteq {t}
      BY <2>1, <3>1 DEF FileSavable, Whole
    <3>2. CASE ~(parts \subseteq {t})
      BY <2>1, <3>2, MixtureTyped DEF FileSavable, Whole
    <3>3. QED
      BY <3>1, <3>2
  <2>4. Alone'
    <3>1. t \in Saving /\ Saving' = Saving
      BY <2>1 DEF Saving
    <3>2. QED
      BY <2>1, <3>1 DEF StoreIInv, Alone
  <2>5. QED
    BY <1>0, <2>1, <2>2, <2>3, <2>4 DEF StoreIInv
<1>9. CASE UNCHANGED storeVars
  BY <1>9 DEF storeVars, histVars, StoreIInv, MemSound, Borrowed, FileSavable, Whole,
              Alone, Saving, Ghosts
<1>10. QED
  BY <1>1, <1>2, <1>3, <1>4, <1>5, <1>6, <1>7, <1>8, <1>9, <1>11 DEF StoreNext

\* Every manifest in memory, every save and every readable manifest.json keep
\* their types.
THEOREM StoreTypeCorrect == StoreSpec => []StoreTypeOK
<1>1. StoreIInv => StoreTypeOK
  BY DEF StoreIInv, MemSound, Loose, Typed, Borrowed, FileSavable, Ghosts, Saving,
         StoreTypeOK
<1>2. QED
  BY StoreInitIInv, StoreNextIInv, <1>1, PTL DEF StoreSpec

\* For any number of tools that load, change, save and die as they please, with
\* their saves overlapping in the file piece by piece: no manifest in memory has
\* an index outside its records, and only those behind which there is a file
\* with pieces of two saves can be unsound.
THEOREM StoreLoadedSound == StoreSpec => []LoadedSound
<1>1. StoreIInv => LoadedSound
  <2> SUFFICES ASSUME StoreIInv PROVE LoadedSound
    OBVIOUS
  <2>1. Whole /\ ~fileDoubt => Sound(Rebuilt(file))
    BY RebuiltSound DEF StoreIInv, FileSavable, DistinctPaths
  <2>2. QED
    BY <2>1 DEF StoreIInv, MemSound, Loose, LoadedSound
<1>2. QED
  BY StoreInitIInv, StoreNextIInv, <1>1, PTL DEF StoreSpec

\* When no save is under way and none failed, died or overlapped another since
\* the last that ran alone, manifest.json is what that save wrote.
THEOREM StoreQuietFile == StoreSpec => []QuietFileIsLastSave
<1>1. StoreIInv => QuietFileIsLastSave
  BY DEF StoreIInv, Alone, QuietFileIsLastSave
<1>2. QED
  BY StoreInitIInv, StoreNextIInv, <1>1, PTL DEF StoreSpec
=============================================================================
