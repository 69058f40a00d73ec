----------------------------- MODULE EditHistory -----------------------------
(***************************************************************************)
(* What an editor promises of undo and redo: a line of commands and a      *)
(* cursor on it.  What is left of the cursor is in effect; the cursor goes *)
(* back one command at a time, no further than a floor, and forward over   *)
(* what was undone, until a new command cuts that off.                     *)
(***************************************************************************)
EXTENDS Integers, Sequences

CONSTANTS Commands, Depth     \* how far back the cursor can be asked to go

VARIABLES line, cursor, floor

Init == line = <<>> /\ cursor = 0 /\ floor = 0

Do(c) ==
    /\ line' = Append(SubSeq(line, 1, cursor), c)
    /\ cursor' = cursor + 1
    /\ floor' = IF cursor' - floor > Depth THEN cursor' - Depth ELSE floor

Back == /\ cursor > floor
        /\ cursor' = cursor - 1
        /\ UNCHANGED <<line, floor>>

Forward == /\ cursor < Len(line)
           /\ cursor' = cursor + 1
           /\ UNCHANGED <<line, floor>>

Forget == /\ line' = SubSeq(line, 1, cursor)
          /\ floor' = cursor
          /\ UNCHANGED cursor

Next == (\E c \in Commands : Do(c)) \/ Back \/ Forward \/ Forget

Spec == Init /\ [][Next]_<<line, cursor, floor>>
=============================================================================
