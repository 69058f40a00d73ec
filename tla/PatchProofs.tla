----------------------------- MODULE PatchProofs -----------------------------
(* TLAPS proofs about Patch, for any manifests, paths and file contents.   *)
EXTENDS Patch, TLAPS

\* How far the call of apply under way has got, and what the last one left.
Progress ==
    /\ pc = "entry" => Done(i - 1)
    /\ pc = "copy" => /\ i \in 1 .. Len(entries)
                      /\ entries[i].op = "Put"
                      /\ DoneBut(i - 1, entries[i].path)
    /\ pc = "idle" /\ result = "ok" => Done(Len(entries))

\* Only a copy leaves a file half made.
TornIsPut ==
    \A p \in Paths : disk[p] = Partial =>
        \E j \in 1 .. Len(entries) : entries[j].path = p /\ entries[j].op = "Put"

IInv == TypeOK /\ Progress /\ TornIsPut

-----------------------------------------------------------------------------
(* The type invariant.                                                     *)

LEMMA InitType == Init => TypeOK
BY ManifestAssumption, TriesAssumption DEF Init, TypeOK

LEMMA EntryFacts ==
    ASSUME TypeOK, NEW j \in 1 .. Len(entries)
    PROVE  /\ entries[j].path \in Paths
           /\ entries[j].op \in {"Delete", "Put"}
           /\ Package[entries[j].path] \in Bodies
<1>1. entries[j] \in Entry
  BY DEF TypeOK
<1>2. entries[j].path \in Paths /\ entries[j].op \in {"Delete", "Put"}
  BY <1>1 DEF Entry
<1>3. QED
  BY <1>2, PackageAssumption

\* The entry a step of apply is at.
LEMMA AtFacts ==
    ASSUME TypeOK, NEW op, At(op)
    PROVE  /\ i \in 1 .. Len(entries) /\ pc = "entry" /\ entries[i].op = op
           /\ Dest = entries[i].path /\ Dest \in Paths
<1>1. i \in 1 .. Len(entries) /\ Len(entries) \in Nat
  BY DEF At, AllDone, TypeOK
<1>2. QED
  BY <1>1, EntryFacts DEF At, Dest

LEMMA NextType == IInv /\ [Next]_vars => TypeOK'
<1> SUFFICES ASSUME IInv, [Next]_vars PROVE TypeOK'
  OBVIOUS
<1> USE DEF IInv
<1>1. ASSUME NEW p \in Paths, Deliver(p) \/ Withdraw(p) PROVE TypeOK'
  BY <1>1 DEF Deliver, Withdraw, TypeOK
<1>2. CASE Begin
  <2>1. 1 \in 1 .. Len(entries) + 1 /\ tries + 1 \in 0 .. MaxTries
    BY <1>2, TriesAssumption DEF Begin, TypeOK
  <2>2. QED
    BY <1>2, <2>1 DEF Begin, TypeOK
<1>3. CASE DeleteFile
  <2>1. i \in 1 .. Len(entries) /\ i + 1 \in 1 .. Len(entries) + 1
    BY <1>3, AtFacts DEF DeleteFile, TypeOK
  <2>2. QED
    BY <1>3, <2>1 DEF DeleteFile, Advance, TypeOK
<1>4. CASE PassMissing
  <2>1. Dest \in Paths /\ i + 1 \in 1 .. Len(entries) + 1
    BY <1>4, AtFacts DEF PassMissing, TypeOK
  <2>2. QED
    BY <1>4, <2>1 DEF PassMissing, Advance, TypeOK
<1>5. CASE OpenCopy
  BY <1>5 DEF OpenCopy, TypeOK
<1>6. CASE FinishCopy
  <2>1. i \in 1 .. Len(entries) /\ i + 1 \in 1 .. Len(entries) + 1
    BY <1>6 DEF FinishCopy, Progress, TypeOK
  <2>2. Package[Dest] \in Bodies
    BY <2>1, EntryFacts DEF Dest
  <2>3. QED
    BY <1>6, <2>1, <2>2 DEF FinishCopy, Advance, TypeOK
<1>7. CASE Fail
  BY <1>7 DEF Fail, TypeOK
<1>8. CASE Die
  BY <1>8 DEF Die, TypeOK
<1>9. CASE Return
  BY <1>9 DEF Return, TypeOK
<1>10. CASE UNCHANGED vars
  BY <1>10 DEF vars, TypeOK
<1>11. QED
  BY <1>1, <1>2, <1>3, <1>4, <1>5, <1>6, <1>7, <1>8, <1>9, <1>10 DEF Next

-----------------------------------------------------------------------------
(* An entry done adds to those done before it.                             *)

LEMMA OneMoreDone ==
    ASSUME TypeOK, i \in 1 .. Len(entries),
           entries' = entries, i' = i + 1,
           DoneBut(i - 1, entries[i].path),
           \A q \in Paths \ {entries[i].path} :
               disk'[q] = disk[q] /\ (q \in missed => q \in missed'),
           \/ entries[i].path \in missed'
           \/ disk'[entries[i].path] =
                  IF entries[i].op = "Delete" THEN Absent
                                              ELSE Package[entries[i].path]
    PROVE  Done(i - 1)'
<1> SUFFICES ASSUME NEW j \in 1 .. i
             PROVE  \/ entries[j].path \in missed'
                    \/ \E k \in j + 1 .. i : entries[k].path = entries[j].path
                    \/ disk'[entries[j].path] =
                           IF entries[j].op = "Delete" THEN Absent
                                              ELSE Package[entries[j].path]
  BY DEF Done, Overridden, InForce, TypeOK
<1>1. CASE j = i
  BY <1>1
<1>2. CASE j # i /\ entries[j].path = entries[i].path
  <2>1. i \in j + 1 .. i
    BY <1>2
  <2>2. QED
    BY <1>2, <2>1
<1>3. CASE j # i /\ entries[j].path # entries[i].path
  <2>1. j \in 1 .. i - 1 /\ j \in 1 .. Len(entries)
    BY <1>3 DEF TypeOK
  <2>2. entries[j].path \in Paths
    BY <2>1, EntryFacts
  <2>3. \/ entries[j].path \in missed
        \/ \E k \in j + 1 .. i - 1 : entries[k].path = entries[j].path
        \/ InForce(j)
    BY <1>3, <2>1 DEF DoneBut, Overridden
  <2>4. \A k \in j + 1 .. i - 1 : k \in j + 1 .. i
    BY DEF TypeOK
  <2>5. QED
    BY <1>3, <2>2, <2>3, <2>4 DEF InForce
<1>4. QED
  BY <1>1, <1>2, <1>3

LEMMA NextProgress == IInv /\ [Next]_vars => Progress'
<1> SUFFICES ASSUME IInv, [Next]_vars PROVE Progress'
  OBVIOUS
<1> USE DEF IInv
<1>1. ASSUME UNCHANGED <<entries, disk, pc, i, result, missed>> PROVE Progress'
  BY <1>1 DEF Progress, Done, DoneBut, Overridden, InForce
<1>2. CASE Begin
  BY <1>2 DEF Begin, Progress, Done
<1>3. CASE DeleteFile
  <2>1. /\ i \in 1 .. Len(entries) /\ pc = "entry" /\ entries[i].op = "Delete"
        /\ Dest = entries[i].path /\ Dest \in Paths
    BY <1>3, AtFacts DEF DeleteFile
  <2>2. /\ disk' = [disk EXCEPT ![Dest] = Absent] /\ missed' = missed \ {Dest}
        /\ pc' = "entry" /\ i' = i + 1 /\ entries' = entries
    BY <1>3 DEF DeleteFile, Advance
  <2>3. DoneBut(i - 1, Dest)
    BY <2>1 DEF Progress, Done, DoneBut
  <2>4. disk \in [Paths -> Bodies \cup {Partial, Absent}]
    BY DEF TypeOK
  <2>5. Done(i - 1)'
    BY <2>1, <2>2, <2>3, <2>4, OneMoreDone
  <2>6. QED
    BY <2>2, <2>5 DEF Progress
<1>4. CASE PassMissing
  <2>1. /\ i \in 1 .. Len(entries) /\ pc = "entry"
        /\ Dest = entries[i].path /\ Dest \in Paths
    BY <1>4, AtFacts DEF PassMissing
  <2>2. /\ disk' = disk /\ missed' = missed \cup {Dest}
        /\ pc' = "entry" /\ i' = i + 1 /\ entries' = entries
    BY <1>4 DEF PassMissing, Advance
  <2>3. DoneBut(i - 1, Dest)
    BY <2>1 DEF Progress, Done, DoneBut
  <2>4. Done(i - 1)'
    BY <2>1, <2>2, <2>3, OneMoreDone
  <2>5. QED
    BY <2>2, <2>4 DEF Progress
<1>5. CASE OpenCopy
  <2>1. /\ i \in 1 .. Len(entries) /\ pc = "entry" /\ entries[i].op = "Put"
        /\ Dest = entries[i].path /\ Dest \in Paths
    BY <1>5, AtFacts DEF OpenCopy
  <2>2. /\ disk' = [disk EXCEPT ![Dest] = Partial]
        /\ pc' = "copy" /\ UNCHANGED <<entries, i, missed>>
    BY <1>5 DEF OpenCopy
  <2>3. ASSUME NEW j \in 1 .. i - 1, entries[j].path # Dest
        PROVE  \/ entries[j].path \in missed
               \/ Overridden(j, i - 1)
               \/ /\ disk'[entries[j].path] = disk[entries[j].path]
                  /\ InForce(j)
    BY <2>1, <2>2, <2>3 DEF Progress, Done, TypeOK
  <2>4. DoneBut(i - 1, entries[i].path)'
    BY <2>1, <2>2, <2>3 DEF DoneBut, Overridden, InForce
  <2>5. QED
    BY <2>1, <2>2, <2>4 DEF Progress
<1>6. CASE FinishCopy
  <2>1. /\ i \in 1 .. Len(entries) /\ entries[i].op = "Put"
        /\ DoneBut(i - 1, entries[i].path) /\ Dest = entries[i].path
    BY <1>6 DEF FinishCopy, Progress, Dest
  <2>2. /\ disk' = [disk EXCEPT ![Dest] = Package[Dest]]
        /\ missed' = missed \ {Dest}
        /\ pc' = "entry" /\ i' = i + 1 /\ entries' = entries
    BY <1>6 DEF FinishCopy, Advance
  <2>3. Dest \in Paths /\ disk \in [Paths -> Bodies \cup {Partial, Absent}]
    BY <2>1, EntryFacts DEF TypeOK
  <2>4. Done(i - 1)'
    BY <2>1, <2>2, <2>3, OneMoreDone
  <2>5. QED
    BY <2>2, <2>4 DEF Progress
<1>7. CASE Fail \/ Die
  BY <1>7 DEF Fail, Die, Progress
<1>8. CASE Return
  <2>1. i - 1 = Len(entries)
    BY <1>8 DEF Return, AllDone, TypeOK
  <2>2. Done(Len(entries))
    BY <1>8, <2>1 DEF Return, Progress
  <2>3. QED
    BY <1>8, <2>2 DEF Return, Progress, Done, Overridden, InForce
<1>9. QED
  BY <1>1, <1>2, <1>3, <1>4, <1>5, <1>6, <1>7, <1>8
     DEF Next, Deliver, Withdraw, vars

LEMMA NextTorn == IInv /\ [Next]_vars => TornIsPut'
<1> SUFFICES ASSUME IInv, [Next]_vars PROVE TornIsPut'
  OBVIOUS
<1> USE DEF IInv
<1>1. ASSUME UNCHANGED <<entries, disk>> PROVE TornIsPut'
  BY <1>1 DEF TornIsPut
<1>2. CASE DeleteFile
  <2>1. disk' = [disk EXCEPT ![Dest] = Absent] /\ entries' = entries
    BY <1>2 DEF DeleteFile, Advance
  <2>2. QED
    BY <2>1, BodyAssumption DEF TornIsPut, TypeOK
<1>3. CASE OpenCopy
  <2>1. /\ i \in 1 .. Len(entries) /\ entries[i].op = "Put"
        /\ Dest = entries[i].path
    BY <1>3, AtFacts DEF OpenCopy
  <2>2. disk' = [disk EXCEPT ![Dest] = Partial] /\ entries' = entries
    BY <1>3 DEF OpenCopy
  <2>3. QED
    BY <2>1, <2>2 DEF TornIsPut, TypeOK
<1>4. CASE FinishCopy
  <2>1. disk' = [disk EXCEPT ![Dest] = Package[Dest]] /\ entries' = entries
    BY <1>4 DEF FinishCopy, Advance
  <2>2. Package[Dest] # Partial
    BY <1>4, EntryFacts, BodyAssumption DEF FinishCopy, Progress, Dest
  <2>3. QED
    BY <2>1, <2>2 DEF TornIsPut, TypeOK
<1>5. QED
  BY <1>1, <1>2, <1>3, <1>4
     DEF Next, Deliver, Withdraw, Begin, PassMissing, Advance, Fail, Die,
         Return, vars

-----------------------------------------------------------------------------
(* The theorems.                                                           *)

LEMMA InitIInv == Init => IInv
<1> SUFFICES ASSUME Init PROVE IInv
  OBVIOUS
<1>1. TypeOK
  BY InitType
<1>2. Progress
  BY DEF Init, Progress
<1>3. TornIsPut
  BY BodyAssumption DEF Init, TornIsPut
<1>4. QED
  BY <1>1, <1>2, <1>3 DEF IInv

LEMMA NextIInv == IInv /\ [Next]_vars => IInv'
BY NextType, NextProgress, NextTorn DEF IInv

LEMMA SpecIInv == Spec => []IInv
BY InitIInv, NextIInv, PTL DEF Spec

\* Every variable of the applicator keeps its type; the index of the entry
\* never passes the end by more than one.
THEOREM PatchTypeCorrect == Spec => []TypeOK
<1>1. IInv => TypeOK
  BY DEF IInv
<1>2. QED
  BY SpecIInv, <1>1, PTL

\* An Ok from apply means the manifest is in force but for missing sources,
\* whatever earlier calls left behind and for every manifest, with repeated
\* paths too.
THEOREM OkMeansInstalled == Spec => []OkInstalls
<1>1. IInv => OkInstalls
  BY DEF IInv, Progress, OkInstalls
<1>2. QED
  BY SpecIInv, <1>1, PTL

\* apply and verify agree: after an Ok, verify complains of missing sources,
\* overridden entries and wrong checksums only, whichever files it can read.
THEOREM VerifyAgrees == Spec => []OkVerifies
<1>1. IInv => OkVerifies
  <2> SUFFICES ASSUME IInv, pc = "idle", result = "ok", NEW unreadable \in SUBSET Paths,
                      NEW j \in 1 .. Len(entries), HasIssue(entries[j], unreadable),
                      entries[j].path \notin missed,
                      ~Overridden(j, Len(entries))
               PROVE  entries[j].checksum \notin
                          {Unchecked, Sum[Package[entries[j].path]]}
    BY DEF OkVerifies
  <2>1. InForce(j)
    BY DEF IInv, Progress, Done
  <2>2. entries[j].op # "Delete"
    BY <2>1 DEF InForce, HasIssue
  <2>3. disk[entries[j].path] = Package[entries[j].path]
    BY <2>1, <2>2 DEF InForce
  <2>4. Package[entries[j].path] # Absent
    BY EntryFacts, BodyAssumption DEF IInv
  <2>5. QED
    BY <2>2, <2>3, <2>4 DEF HasIssue, Matches
<1>2. QED
  BY SpecIInv, <1>1, PTL

\* No crash or error leaves a half-made file that verify overlooks, as long as
\* it can read the file and the manifest gives a checksum that differs from the
\* fragment's.
THEOREM TornFilesReported == Spec => []TornIsReported
<1>1. IInv => TornIsReported
  <2> SUFFICES ASSUME IInv, NEW unreadable \in SUBSET Paths,
                      NEW p \in Paths \ unreadable, disk[p] = Partial
               PROVE  \E j \in 1 .. Len(entries) :
                          /\ entries[j].path = p
                          /\ entries[j].op = "Put"
                          /\ \/ entries[j].checksum \in {Unchecked, Sum[Partial]}
                             \/ HasIssue(entries[j], unreadable)
    BY DEF TornIsReported
  <2>1. PICK j \in 1 .. Len(entries) :
            entries[j].path = p /\ entries[j].op = "Put"
    BY DEF IInv, TornIsPut
  <2>2. \/ entries[j].checksum \in {Unchecked, Sum[Partial]}
        \/ HasIssue(entries[j], unreadable)
    BY <2>1 DEF HasIssue, Matches
  <2>3. QED
    BY <2>1, <2>2
<1>2. QED
  BY SpecIInv, <1>1, PTL
=============================================================================
