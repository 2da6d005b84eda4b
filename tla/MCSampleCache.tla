--------------------------- MODULE MCSampleCache ---------------------------
(* TLC instances of SampleCache.                                           *)
EXTENDS SampleCache
=============================================================================
