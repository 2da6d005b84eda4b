--------------------------- MODULE MCSamplerServer ---------------------------
(* TLC instances of SamplerServer.  Addresses, incarnations and pods are    *)
(* interchangeable in every action and in the safety properties.           *)
EXTENDS SamplerServer, TLC

Symmetry == Permutations(Addr) \cup Permutations(Gen) \cup Permutations(Pod)
=============================================================================
