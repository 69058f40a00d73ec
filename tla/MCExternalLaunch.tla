-------------------------- MODULE MCExternalLaunch ---------------------------
(* Model checking ExternalLaunch: its constants are numbers.               *)
EXTENDS ExternalLaunch
=============================================================================
