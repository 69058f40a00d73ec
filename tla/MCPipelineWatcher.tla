-------------------------- MODULE MCPipelineWatcher --------------------------
(* Constants for model checking PipelineWatcher.                           *)
EXTENDS PipelineWatcher, TLC

CONSTANTS e1, e2, e3, f1, f2, s1, s2

MCOneEvent    == {e1}
MCThreeEvents == {e1, e2, e3}
MCSubs        == {s1, s2}
MCOneSub      == {s1}
MCInitSubs    == <<s1>>

\* e1 and e2 come from one tool with one type in one millisecond, and so get
\* one name; e3 has a name of its own.
MCTwoFiles     == {f1, f2}
MCMixedFiles   == e1 :> f1 @@ e2 :> f1 @@ e3 :> f2
MCThreeLengths == e1 :> 2 @@ e2 :> 1 @@ e3 :> 1

MCOneFile   == {f1}
MCOneFileOf == e1 :> f1
MCOneLength == e1 :> 2

MCNoPanic   == {}
MCPanic     == {<<s1, e1>>}
MCLatePanic == {<<s2, e1>>}
=============================================================================
