-------------------------------- MODULE Patch --------------------------------
(***************************************************************************)
(* novaforge_patch: PatchApplicator::apply over an install directory, and  *)
(* PatchVerifier::verify of the same manifest.                             *)
(*                                                                         *)
(* apply makes its entries' changes one after the other, keeps no journal  *)
(* and undoes nothing: an error or a death of the program leaves the       *)
(* entries before it done and may leave a copy half made.  Applying the    *)
(* manifest again is the only remedy.                                      *)
(***************************************************************************)
EXTENDS Integers, Sequences, FiniteSets

CONSTANTS
    Paths,       \* relative paths
    Bodies,      \* contents of whole files
    Package,     \* what the patch source holds at a path when it holds a file
    Absent,      \* no file
    Partial,     \* a file that fs::copy has created and not filled
    Sums,        \* values of checksum_file
    Sum,         \* checksum_file, which is not injective
    Unchecked,   \* the empty checksum
    Manifests,   \* the manifests considered
    MaxTries     \* bound on the calls of apply

\* Replace and Create are one operation to apply and to verify.
Entry == [path : Paths, op : {"Delete"}, checksum : {Unchecked}]
    \cup [path : Paths, op : {"Put"}, checksum : Sums \cup {Unchecked}]

ASSUME PackageAssumption  == Package \in [Paths -> Bodies]
ASSUME BodyAssumption     == /\ Absent \notin Bodies \cup {Partial}
                             /\ Partial \notin Bodies
ASSUME SumAssumption      == /\ Sum \in [Bodies \cup {Partial} -> Sums]
                             /\ Unchecked \notin Sums
ASSUME ManifestAssumption == Manifests \subseteq Seq(Entry)
ASSUME TriesAssumption    == MaxTries \in Nat

VARIABLES
    entries,    \* the manifest's entries
    present,    \* paths at which the patch source holds a file
    disk,       \* the install directory
    pc,         \* "idle", at an "entry", or inside a "copy"
    i,          \* index of the entry apply is at
    result,     \* how the last call of apply ended
    missed,     \* history: paths whose last entry visited found no source
    tries       \* calls of apply so far

vars == <<entries, present, disk, pc, i, result, missed, tries>>

\* Type invariant; the index never passes the end of the entries by more than
\* one.
TypeOK ==
    /\ entries \in Seq(Entry)
    /\ present \subseteq Paths
    /\ disk \in [Paths -> Bodies \cup {Partial, Absent}]
    /\ pc \in {"idle", "entry", "copy"}
    /\ i \in 1 .. Len(entries) + 1
    /\ result \in {"none", "ok", "err", "died"}
    /\ missed \subseteq Paths
    /\ tries \in 0 .. MaxTries

Init ==
    /\ entries \in Manifests
    /\ present \in SUBSET Paths
    /\ disk \in [Paths -> Bodies \cup {Absent}]
    /\ pc = "idle"
    /\ i = 1
    /\ result = "none"
    /\ missed = {}
    /\ tries = 0

-----------------------------------------------------------------------------
(* The patch source fills up, or is cleaned, at any time.                  *)

Deliver(p) ==
    /\ p \notin present
    /\ present' = present \cup {p}
    /\ UNCHANGED <<entries, disk, pc, i, result, missed, tries>>

Withdraw(p) ==
    /\ p \in present
    /\ present' = present \ {p}
    /\ UNCHANGED <<entries, disk, pc, i, result, missed, tries>>

-----------------------------------------------------------------------------
(* apply.                                                                  *)

Begin ==
    /\ pc = "idle"
    /\ tries < MaxTries
    /\ pc' = "entry"
    /\ i' = 1
    /\ result' = "none"
    /\ missed' = {}
    /\ tries' = tries + 1
    /\ UNCHANGED <<entries, present, disk>>

\* The slip is to stop one entry early.
LastLeft == i >= Len(entries)
AllDone  == i > Len(entries)

At(op) == pc = "entry" /\ ~AllDone /\ entries[i].op = op
Dest   == entries[i].path

Advance ==
    /\ pc' = "entry"
    /\ i' = i + 1
    /\ UNCHANGED <<entries, present, result, tries>>

\* A file that is not there needs no deleting.
DeleteFile ==
    /\ At("Delete")
    /\ disk' = [disk EXCEPT ![Dest] = Absent]
    /\ missed' = missed \ {Dest}
    /\ Advance

\* A source that is not there is no error, and the entry counts as applied.
PassMissing ==
    /\ At("Put")
    /\ Dest \notin present
    /\ missed' = missed \cup {Dest}
    /\ UNCHANGED disk
    /\ Advance

\* fs::copy creates or truncates the destination, then fills it.
OpenCopy ==
    /\ At("Put")
    /\ Dest \in present
    /\ disk' = [disk EXCEPT ![Dest] = Partial]
    /\ pc' = "copy"
    /\ UNCHANGED <<entries, present, i, result, missed, tries>>

FinishCopy ==
    /\ pc = "copy"
    /\ disk' = [disk EXCEPT ![Dest] = Package[Dest]]
    /\ missed' = missed \ {Dest}
    /\ Advance

\* The `?` of remove_file, of create_dir_all and of fs::copy, the last of
\* which may have opened the destination.
Fail ==
    /\ \/ At("Delete") /\ disk[Dest] # Absent
       \/ At("Put")
       \/ pc = "copy"
    /\ pc' = "idle"
    /\ result' = "err"
    /\ UNCHANGED <<entries, present, disk, i, missed, tries>>

Die ==
    /\ pc # "idle"
    /\ pc' = "idle"
    /\ result' = "died"
    /\ UNCHANGED <<entries, present, disk, i, missed, tries>>

\* Ok(applied), where applied is the number of entries.
Return ==
    /\ pc = "entry"
    /\ AllDone
    /\ pc' = "idle"
    /\ result' = "ok"
    /\ UNCHANGED <<entries, present, disk, i, missed, tries>>

Next ==
    \/ \E p \in Paths : Deliver(p) \/ Withdraw(p)
    \/ Begin
    \/ DeleteFile
    \/ PassMissing
    \/ OpenCopy
    \/ FinishCopy
    \/ Fail
    \/ Die
    \/ Return

Spec == Init /\ [][Next]_vars

-----------------------------------------------------------------------------
(* verify: the entries with an issue, when `unreadable' holds the paths of *)
(* the files that exist and that fs::read fails on: of those, whatever is  *)
(* in them, nothing is said.  The slips are to look whether a file exists  *)
(* and no further, and to report what Delete has removed.                  *)

Matches(e, unreadable) ==
    e.path \in unreadable \/ e.checksum \in {Unchecked, Sum[disk[e.path]]}

ExistenceOnly(e, unreadable) ==
    IF e.op = "Delete" THEN disk[e.path] # Absent ELSE disk[e.path] = Absent

DeletedReported(e, unreadable) ==
    IF e.op = "Delete"
    THEN disk[e.path] = Absent
    ELSE disk[e.path] = Absent \/ ~Matches(e, unreadable)

HasIssue(e, unreadable) ==
    IF e.op = "Delete"
    THEN disk[e.path] # Absent
    ELSE disk[e.path] = Absent \/ ~Matches(e, unreadable)

-----------------------------------------------------------------------------
(* Properties.                                                             *)

InForce(j) ==
    disk[entries[j].path] =
        IF entries[j].op = "Delete" THEN Absent ELSE Package[entries[j].path]

Overridden(j, n) == \E k \in j + 1 .. n : entries[k].path = entries[j].path

\* The first n entries are done, but for those of path p.
DoneBut(n, p) ==
    \A j \in 1 .. n : \/ entries[j].path = p
                      \/ entries[j].path \in missed
                      \/ Overridden(j, n)
                      \/ InForce(j)

Done(n) ==
    \A j \in 1 .. n : \/ entries[j].path \in missed
                      \/ Overridden(j, n)
                      \/ InForce(j)

\* When apply returns Ok, each entry is in force, a later entry for its path
\* is, or its source was not there.  It does not matter how many calls before
\* this one failed or died, nor what they left half made.
OkInstalls == pc = "idle" /\ result = "ok" => Done(Len(entries))

\* After an Ok, verify has an issue with an entry only if its source was not
\* there, a later entry undid it, or its checksum is not that of its source,
\* whichever files it can read.
OkVerifies ==
    pc = "idle" /\ result = "ok" =>
        \A unreadable \in SUBSET Paths : \A j \in 1 .. Len(entries) :
            HasIssue(entries[j], unreadable) =>
                \/ entries[j].path \in missed
                \/ Overridden(j, Len(entries))
                \/ entries[j].checksum \notin
                       {Unchecked, Sum[Package[entries[j].path]]}

\* Whatever has failed or died, a file left half made is one the manifest
\* names, and verify reports it if it can read the file and the entry has a
\* checksum that tells, whichever other files it cannot read.
TornIsReported ==
    \A unreadable \in SUBSET Paths : \A p \in Paths \ unreadable :
        disk[p] = Partial =>
            \E j \in 1 .. Len(entries) :
                /\ entries[j].path = p
                /\ entries[j].op = "Put"
                /\ \/ entries[j].checksum \in {Unchecked, Sum[Partial]}
                   \/ HasIssue(entries[j], unreadable)
=============================================================================
