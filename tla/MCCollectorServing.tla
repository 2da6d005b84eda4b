-------------------------- MODULE MCCollectorServing --------------------------
(* TLC instances of CollectorServing.                                      *)
EXTENDS CollectorServing
=============================================================================
