------------------------------ MODULE MCWatchLog -----------------------------
(* Constants for model checking WatchLog.                                  *)
EXTENDS WatchLog, TLC

CONSTANTS t1, t2, t3, o1, o2, e1, e2

MCThreads    == {t1, t2, t3}
MCTwoThreads == {t1, t2}
MCLines      == {e1, e2}
MCOneObject  == {o1}
MCTwoObjects == {o1, o2}
Together     == [t \in {t1, t2, t3} |-> o1]
Apart        == [t \in {t1, t2} |-> IF t = t1 THEN o1 ELSE o2]
=============================================================================
