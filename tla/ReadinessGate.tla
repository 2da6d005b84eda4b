---------------------------- MODULE ReadinessGate ----------------------------
(***************************************************************************)
(* What the registration loop promises to the readers of the flags         *)
(* ServeResults and IsReadyResult of the utilization server: they are      *)
(* raised once and never lowered, and a collector that reports ready has   *)
(* been allowed to serve.                                                  *)
(***************************************************************************)

VARIABLES
    serve,  \* ServeResults
    ready   \* IsReadyResult

gate == <<serve, ready>>

Init == serve = FALSE /\ ready = FALSE

\* Results may be served, the collector is not ready yet.
OpenServe ==
    /\ ~serve
    /\ serve' = TRUE
    /\ ready' = ready

\* The collector is ready, and serves.
OpenReady ==
    /\ ~ready
    /\ serve' = TRUE
    /\ ready' = TRUE

Next == OpenServe \/ OpenReady

Spec == Init /\ [][Next]_gate
=============================================================================
