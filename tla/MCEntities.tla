---------------------------- MODULE MCEntities -------------------------------
(* Constants for model checking Entities.                                  *)
EXTENDS Entities, TLC

CONSTANTS k1, k2

MCKinds == {k1, k2}
=============================================================================
