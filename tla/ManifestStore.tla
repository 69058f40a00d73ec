---------------------------- MODULE ManifestStore ----------------------------
(***************************************************************************)
(* atlas_pipeline: several tools, each with a Manifest in memory, sharing  *)
(* manifest.json.                                                          *)
(*                                                                         *)
(* Manifest::save writes the file in place with fs::write, which truncates *)
(* it and then writes from the start of the file through its own handle,   *)
(* in one piece or several; Manifest::load gives None for a file that is   *)
(* absent or does not parse.  Two saves can overlap and a tool can die in  *)
(* the middle of one.                                                      *)
(***************************************************************************)
EXTENDS ManifestOps

CONSTANTS Tools,
          Absent, Empty, Torn,   \* contents that load refuses
          MaxSaves,      \* bound on the saves of a behaviour
          MaxFaults      \* bound on its failed writes and crashes

ASSUME StoreBounds == MaxSaves \in Nat /\ MaxFaults \in Nat
ASSUME NoSaveAssumption == None \notin Seq(Record)

VARIABLES mem,      \* tool -> its Manifest, or None
          saving,   \* tool -> the records its save is writing, or None
          file,     \* records, or one of the refused contents
          parts,    \* the tools whose text is in it since it was truncated
          cut,      \* the tools in save that wrote a part of theirs before that
          last,     \* the records of the save completed last since the
                    \* file was truncated (history)
          clash,    \* a save failed, died or overlapped another since the
                    \* last save that ran alone (history)
          doubt,    \* tools whose manifest goes back to mixed text (history)
          fileDoubt,    \* the file does (history)
          saves, faults

histVars  == <<last, clash, doubt, fileDoubt>>
storeVars == <<mem, saving, file, parts, cut, histVars, saves, faults>>

Whole == file \notin {Absent, Empty, Torn}

\* Type invariant; the records a save writes are those of its manifest, which
\* save borrows, so no other call of that tool changes them meanwhile.
StoreTypeOK ==
    /\ \A t \in Tools : mem[t] # None =>
          /\ mem[t].records \in Seq(Record)
          /\ DOMAIN mem[t].guid_index \subseteq Guids
          /\ DOMAIN mem[t].path_index \subseteq Paths
    /\ \A t \in Tools : saving[t] # None => saving[t] = mem[t].records
    /\ Whole => file \in Seq(Record)
    /\ parts \subseteq Tools /\ cut \subseteq Tools /\ doubt \subseteq Tools
    /\ clash \in BOOLEAN /\ fileDoubt \in BOOLEAN
    /\ saves \in 0 .. MaxSaves
    /\ faults \in 0 .. MaxFaults

StoreInit ==
    /\ mem = [t \in Tools |-> None]
    /\ saving = [t \in Tools |-> None]
    /\ file = Absent
    /\ parts = {} /\ cut = {}
    /\ last = Absent
    /\ clash = FALSE
    /\ doubt = {}
    /\ fileDoubt = FALSE
    /\ saves = 0
    /\ faults = 0

Saving == {t \in Tools : saving[t] # None}

Unsaved ==
    UNCHANGED <<saving, file, parts, cut, last, clash, fileDoubt, saves, faults>>

\* A tool that is not in save, which borrows its manifest.
Free(t) == saving[t] = None

NewManifest(t) ==
    /\ mem[t] = None
    /\ mem' = [mem EXCEPT ![t] = New]
    /\ UNCHANGED doubt
    /\ Unsaved

\* load on a readable file; on any other it returns None and nothing changes.
Load(t) ==
    /\ Free(t)
    /\ Whole
    /\ mem' = [mem EXCEPT ![t] = Rebuilt(file)]
    /\ doubt' = IF fileDoubt THEN doubt \cup {t} ELSE doubt \ {t}
    /\ Unsaved

Register(t, r) ==
    /\ Free(t) /\ mem[t] # None
    /\ Len(mem[t].records) < MaxRecords \/ r.path \in DOMAIN mem[t].path_index
    /\ mem' = [mem EXCEPT ![t] = Registered(@, r)]
    /\ UNCHANGED doubt
    /\ Unsaved

Delete(t, g) ==
    /\ Free(t) /\ mem[t] # None
    /\ g \in DOMAIN mem[t].guid_index
    /\ mem' = [mem EXCEPT ![t] = Removed(@, g)]
    /\ UNCHANGED doubt
    /\ Unsaved

\* fs::write opens the file and truncates it; the text is built before.  The
\* slip is to open for writing without truncating.
Untruncated == IF file = Absent THEN Empty ELSE file
Truncated == Empty

BeginSave(t) ==
    /\ Free(t) /\ mem[t] # None
    /\ saves < MaxSaves
    /\ saves' = saves + 1
    /\ saving' = [saving EXCEPT ![t] = mem[t].records]
    /\ file' = Truncated
    /\ parts' = IF file' = Empty THEN {} ELSE parts
    /\ cut' = cut \cup (parts \cap Saving)
    /\ last' = Absent
    /\ clash' = (Saving # {})
    /\ fileDoubt' = FALSE
    /\ UNCHANGED <<mem, doubt, faults>>

\* What pieces of several texts, each from its own offset, leave in the file:
\* as a rule nothing that parses; but where a cut of one falls on a cut of
\* another it does, with records of both and one of each half at the cut.
Mixture == {Torn} \cup SeqOf(Record, MaxRecords)

\* write_all puts a part of the text into the file and has not done.
WritePart(t) ==
    /\ ~Free(t)
    /\ file' \in IF parts \subseteq {t} THEN {Torn} ELSE Mixture
    /\ parts' = parts \cup {t}
    /\ fileDoubt' = (t \in doubt \/ ~(parts \subseteq {t}))
    /\ UNCHANGED <<mem, saving, cut, last, clash, doubt, saves, faults>>

\* The rest of the text.  Alone in the file it is read again, unless the file was
\* truncated after the first part of it; written in one piece over what another
\* save has left, unless that is longer and shows at the end.
Completed(t) ==
    IF parts \subseteq {t} THEN {IF t \in cut THEN Torn ELSE saving[t]}
    ELSE IF t \notin parts \cup cut THEN {saving[t], Torn}
    ELSE Mixture

FinishSave(t) ==
    /\ ~Free(t)
    /\ file' \in Completed(t)
    /\ parts' = parts \cup {t}
    /\ cut' = cut \ {t}
    /\ fileDoubt' = (t \in doubt \/ (t \in parts \cup cut /\ parts # {t}))
    /\ last' = saving[t]
    /\ clash' = (clash \/ Saving # {t})
    /\ saving' = [saving EXCEPT ![t] = None]
    /\ UNCHANGED <<mem, doubt, saves, faults>>

Fault == faults < MaxFaults /\ faults' = faults + 1

\* write_all fails (a full disk) with the part written so far; save returns Err.
SaveFails(t) ==
    /\ ~Free(t)
    /\ Fault
    /\ clash' = TRUE
    /\ cut' = cut \ {t}
    /\ saving' = [saving EXCEPT ![t] = None]
    /\ UNCHANGED <<mem, file, parts, last, doubt, fileDoubt, saves>>

\* The tool dies, possibly in the middle of a save.
Crash(t) ==
    /\ mem[t] # None
    /\ Fault
    /\ clash' = (clash \/ ~Free(t))
    /\ mem' = [mem EXCEPT ![t] = None]
    /\ saving' = [saving EXCEPT ![t] = None]
    /\ doubt' = doubt \ {t}
    /\ cut' = cut \ {t}
    /\ UNCHANGED <<file, parts, last, fileDoubt, saves>>

StoreNext == \E t \in Tools :
    \/ NewManifest(t)
    \/ Load(t)
    \/ \E r \in Record : Register(t, r)
    \/ \E g \in Guids : Delete(t, g)
    \/ BeginSave(t)
    \/ WritePart(t)
    \/ FinishSave(t)
    \/ SaveFails(t)
    \/ Crash(t)

StoreSpec == StoreInit /\ [][StoreNext]_storeVars

-----------------------------------------------------------------------------
(* Properties.                                                             *)

\* Whatever tools save over one another, a manifest in memory never has an
\* index outside its records (which would make remove_asset panic) or a record
\* whose guid it does not know; and it is sound, one record for a path, unless
\* it goes back to a file in which pieces of two saves met.
LoadedSound ==
    /\ Whole /\ ~fileDoubt => Sound(Rebuilt(file))
    /\ \A t \in Tools : mem[t] # None =>
          /\ InRange(mem[t]) /\ GuidsKnown(mem[t])
          /\ t \notin doubt => Sound(mem[t])

\* When no save is under way and the last one ran alone to its end, the file
\* holds exactly what that save wrote: a manifest.json that cannot be read, or
\* is not the last one saved, needs a failure or two saves at once.
QuietFileIsLastSave == Saving = {} /\ ~clash => file = last
=============================================================================
