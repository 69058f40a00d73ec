---------------------------- MODULE MCGameSession ----------------------------
(* Constants for model checking GameSession.                               *)
EXTENDS GameSession

MCClients == {Game, Session}
=============================================================================
