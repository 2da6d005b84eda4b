------------------------- MODULE MCUtilizationServer -------------------------
(* TLC instances of UtilizationServer.                                     *)
EXTENDS UtilizationServer
=============================================================================
