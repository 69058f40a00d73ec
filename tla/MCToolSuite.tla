----------------------------- MODULE MCToolSuite -----------------------------
(***************************************************************************)
(* Instances of ToolSuite.                                                 *)
(***************************************************************************)
EXTENDS ToolSuite

Imports == {<<"Editor", "AssetImported">>}
MarksOf(handlers) == Imports \cup {Reply(handlers[i]) : i \in DOMAIN handlers}

\* The broker and the reasoner, of which neither answers the other.
MCHandlers == <<"broker", "reasoner">>
MCMarks == MarksOf(MCHandlers)
MCAsked == Imports

\* All the adapters, the broker and the reasoner.
AllHandlers == <<"blender", "scanner", "minimizer", "atlasAI", "broker", "reasoner">>
AllMarks == MarksOf(AllHandlers)
=============================================================================
