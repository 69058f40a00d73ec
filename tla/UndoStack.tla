----------------------------- MODULE UndoStack -------------------------------
(***************************************************************************)
(* atlas_editor: UndoStack, two stacks of commands with a bounded depth.   *)
(*                                                                         *)
(* The edited document is what the commands are for, so the model keeps it *)
(* as the commands in effect: executing a command adds it, undoing one     *)
(* takes it away and is correct only for the last one in effect.           *)
(***************************************************************************)
EXTENDS Integers, Sequences, SequencesExt

CONSTANTS Commands,
          MaxDepth,      \* max_depth
          MaxEffects     \* bound on the commands in effect

ASSUME DepthAssumption == MaxDepth \in Nat
ASSUME EffectsAssumption == MaxEffects \in Nat

VARIABLES undo, redo,    \* the stacks, top last
          doc            \* the commands in effect, in order (history)

vars == <<undo, redo, doc>>

\* Type invariant.
TypeOK == /\ undo \in Seq(Commands)
          /\ redo \in Seq(Commands)
          /\ doc \in Seq(Commands)

Init == undo = <<>> /\ redo = <<>> /\ doc = <<>>

Pop(s) == SubSeq(s, 1, Len(s) - 1)

\* `while undo.len() > max_depth { undo.remove(0) }`.  The slips drop the
\* newest command, and compare before the push.
TrimmedTop(s) == SubSeq(s, 1, IF Len(s) > MaxDepth THEN MaxDepth ELSE Len(s))
TrimmedLate(s) ==
    SubSeq(s, IF Len(s) > MaxDepth + 1 THEN Len(s) - MaxDepth ELSE 1, Len(s))
Trimmed(s) ==
    SubSeq(s, IF Len(s) > MaxDepth THEN Len(s) - MaxDepth + 1 ELSE 1, Len(s))

\* The slip keeps what was undone across a new command.
RedoKept == redo
RedoCleared == <<>>

Execute(c) ==
    /\ Len(doc) < MaxEffects
    /\ doc' = Append(doc, c)
    /\ undo' = Trimmed(Append(undo, c))
    /\ redo' = RedoCleared

Undo ==
    /\ undo # <<>>
    /\ doc' = Pop(doc)
    /\ redo' = Append(redo, Last(undo))
    /\ undo' = Pop(undo)

Redo ==
    /\ redo # <<>>
    /\ doc' = Append(doc, Last(redo))
    /\ undo' = Append(undo, Last(redo))
    /\ redo' = Pop(redo)

Clear == undo' = <<>> /\ redo' = <<>> /\ UNCHANGED doc

Next == (\E c \in Commands : Execute(c)) \/ Undo \/ Redo \/ Clear

Spec == Init /\ [][Next]_vars

-----------------------------------------------------------------------------
(* Properties.                                                             *)

\* Each undo() is applied to the command last in effect: the undo stack is
\* always the end of what is in effect, through trims, redos and clears.
UndoesTheLast ==
    /\ Len(undo) <= Len(doc)
    /\ \A i \in 1 .. Len(undo) : undo[i] = doc[Len(doc) - Len(undo) + i]

\* The two stacks together never hold more than max_depth commands, though
\* only execute trims and it trims only one of them.
DepthBounded == Len(undo) + Len(redo) <= MaxDepth

\* The stacks implement a line of commands with a cursor.
History == INSTANCE EditHistory WITH
    Depth  <- MaxDepth,
    line   <- doc \o Reverse(redo),
    cursor <- Len(doc),
    floor  <- Len(doc) - Len(undo)
ImplementsHistory == History!Spec
=============================================================================
