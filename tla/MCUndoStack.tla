---------------------------- MODULE MCUndoStack ------------------------------
(* Constants for model checking UndoStack.                                 *)
EXTENDS UndoStack, TLC

CONSTANTS c1, c2

MCCommands == {c1, c2}
=============================================================================
