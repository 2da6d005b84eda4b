----------------------------- MODULE MCArchiver -----------------------------
(* TLC instances of Archiver.                                              *)
EXTENDS Archiver
=============================================================================
