--------------------------- MODULE CollectorServing ---------------------------
(***************************************************************************)
(* How the collector process comes to publish metrics and to report ready: *)
(* MetricsServer of cmd/metrics-prometheus-collector/cmd/cmd.go, the gate  *)
(* of Collector.Collect, and IsReady of the utilization server.            *)
(*                                                                         *)
(* Start runs the leader election in its own goroutine and starts the loop *)
(* that caches the /metrics response when the election returns.  The       *)
(* election calls back OnStartedLeading and OnNewLeader in goroutines of   *)
(* their own.  The registration loop raises ServeResults and IsReadyResult *)
(* as ReadinessGate says.  A process that exits is started again.          *)
(***************************************************************************)
EXTENDS Integers

CONSTANTS
    Steps,          \* attempts of retry.OnError (20 in the code)
    ExitAfterLoss,  \* the flag exit-after-leader-election-loss
    None            \* no response cached yet

ASSUME StepsAssumption == Steps \in Nat \ {0}
ASSUME ExitAssumption == ExitAfterLoss \in BOOLEAN

\* What a scrape of the internal endpoint returned: skipped because results
\* may not be served or because this process does not lead, the metrics, or
\* the response of a collection that failed.
Body == {"early", "notLeader", "metrics", "failed"}

ASSUME NoneAssumption == None \notin Body

VARIABLES
    leaderElection,  \* the flag leader-election
    up,              \* the process runs
    main,            \* where MetricsServer.Start stands
    calls,           \* callbacks of the election that have not run yet
    isLeader,        \* IsLeaderElected
    serve,           \* ServeResults
    ready,           \* IsReadyResult
    loop,            \* where continouslyCacheResponse stands
    metricsReady,    \* its local: ServeResults before the scrape
    tries,           \* failed attempts of this round
    inflight,        \* the response being read
    body,            \* cachedResponseBody
    cached           \* IsCached

election == <<main, calls, isLeader>>
caching == <<loop, metricsReady, tries, inflight, body, cached>>
vars == <<leaderElection, up, main, calls, isLeader, serve, ready, loop, metricsReady,
          tries, inflight, body, cached>>

Gate == INSTANCE ReadinessGate WITH serve <- serve, ready <- ready

TypeOK ==
    /\ leaderElection \in BOOLEAN
    /\ up \in BOOLEAN
    /\ main \in {"start", "acquiring", "leading", "serving"}
    /\ calls \in SUBSET {"started", "self", "other"}
    /\ isLeader \in BOOLEAN
    /\ serve \in BOOLEAN
    /\ ready \in BOOLEAN
    /\ loop \in {"off", "load", "scrape", "reading", "wait"}
    /\ metricsReady \in BOOLEAN
    /\ tries \in 0..(Steps - 1)
    /\ inflight \in Body \cup {None}
    /\ body \in Body \cup {None}
    /\ cached \in BOOLEAN

\* RunE up to the start of the manager.
Init ==
    /\ leaderElection \in BOOLEAN
    /\ up = TRUE
    /\ main = "start"
    /\ calls = {}
    /\ isLeader = ~leaderElection
    /\ Gate!Init
    /\ loop = "off"
    /\ metricsReady = FALSE
    /\ tries = 0
    /\ inflight = None
    /\ body = None
    /\ cached = FALSE

\* SIGTERM, or the listener of the external endpoint fails and exits.
Stops ==
    /\ up
    /\ up' = FALSE
    /\ UNCHANGED <<leaderElection, election, serve, ready, caching>>

\* The process is gone and with it all it knew; it is started again.
Restart ==
    /\ ~up
    /\ up' = TRUE
    /\ main' = "start"
    /\ calls' = {}
    /\ isLeader' = ~leaderElection
    /\ serve' = FALSE
    /\ ready' = FALSE
    /\ loop' = "off"
    /\ metricsReady' = FALSE
    /\ tries' = 0
    /\ inflight' = None
    /\ body' = None
    /\ cached' = FALSE
    /\ UNCHANGED leaderElection

----------------------------------------------------------------------------
(* MetricsServer.Start and the leader election.                            *)

\* Without an election the cache loop starts at once.
Start ==
    /\ up /\ main = "start"
    /\ IF leaderElection
       THEN /\ isLeader' = FALSE
            /\ main' = "acquiring"
            /\ UNCHANGED loop
       ELSE /\ main' = "serving"
            /\ loop' = "load"
            /\ UNCHANGED isLeader
    /\ UNCHANGED <<leaderElection, up, calls, serve, ready, metricsReady, tries, inflight,
                   body, cached>>

\* The registration loop moves the flags.
GateStep ==
    /\ up /\ main # "start"
    /\ Gate!Next
    /\ UNCHANGED <<leaderElection, up, election, caching>>

\* The lease is acquired: RunOrDie goes on to renew it and calls back.
Acquire ==
    /\ up /\ main = "acquiring"
    /\ main' = "leading"
    /\ calls' = calls \cup {"started", "self"}
    /\ UNCHANGED <<leaderElection, up, isLeader, serve, ready, caching>>

\* The election observes that another instance holds the lease.
OtherLeads ==
    /\ up /\ main \in {"acquiring", "leading"}
    /\ "other" \notin calls
    /\ calls' = calls \cup {"other"}
    /\ UNCHANGED <<leaderElection, up, main, isLeader, serve, ready, caching>>

\* The lease could not be renewed: OnStoppedLeading runs, RunOrDie returns, and
\* Start gets to the cache loop.  There is no second election.
StopLeading ==
    /\ up /\ main = "leading"
    /\ isLeader' = FALSE
    /\ main' = "serving"
    /\ loop' = "load"
    /\ UNCHANGED <<leaderElection, up, calls, serve, ready, metricsReady, tries, inflight,
                   body, cached>>

\* OnStartedLeading, and OnNewLeader with this instance's name.
BecomeLeader(c) ==
    /\ up /\ c \in calls \cap {"started", "self"}
    /\ calls' = calls \ {c}
    /\ isLeader' = TRUE
    /\ UNCHANGED <<leaderElection, up, main, serve, ready, caching>>

\* OnNewLeader with another name: an instance that believed to lead exits.
NewLeader ==
    /\ up /\ "other" \in calls
    /\ calls' = calls \ {"other"}
    /\ isLeader' = FALSE
    /\ up' = ~(ExitAfterLoss /\ isLeader)
    /\ UNCHANGED <<leaderElection, main, serve, ready, caching>>

----------------------------------------------------------------------------
(* continouslyCacheResponse.                                               *)

Load ==
    /\ up /\ loop = "load"
    /\ metricsReady' = serve
    /\ tries' = 0
    /\ loop' = "scrape"
    /\ UNCHANGED <<leaderElection, up, election, serve, ready, inflight, body, cached>>

\* What Collect contributes to the response.
Collected(ok) ==
    CASE ~serve -> "early"
      [] serve /\ ~isLeader -> "notLeader"
      [] serve /\ isLeader -> IF ok THEN "metrics" ELSE "failed"

\* The internal endpoint answers; the loop does not look at the status.
Scrape(ok) ==
    /\ up /\ loop = "scrape"
    /\ inflight' = Collected(ok)
    /\ loop' = "reading"
    /\ UNCHANGED <<leaderElection, up, election, serve, ready, metricsReady, tries, body,
                   cached>>

\* Fault: ServeResults is read when the response is in, not before.
StoreByCurrentFlag ==
    /\ up /\ loop = "reading"
    /\ body' = inflight
    /\ inflight' = None
    /\ cached' = (cached \/ serve)
    /\ loop' = "wait"
    /\ UNCHANGED <<leaderElection, up, election, serve, ready, metricsReady, tries>>

\* The body is read and replaces the cached one.
Store ==
    /\ up /\ loop = "reading"
    /\ body' = inflight
    /\ inflight' = None
    /\ cached' = (cached \/ metricsReady)
    /\ loop' = "wait"
    /\ UNCHANGED <<leaderElection, up, election, serve, ready, metricsReady, tries>>

\* Fault: there is no last attempt.
ScrapeFailsForever ==
    /\ up /\ loop \in {"scrape", "reading"}
    /\ inflight' = None
    /\ tries' = tries + 1
    /\ loop' = "scrape"
    /\ UNCHANGED <<leaderElection, up, election, serve, ready, metricsReady, body, cached>>

\* The request or reading its body fails: try again, exit after the last
\* attempt.
ScrapeFails ==
    /\ up /\ loop \in {"scrape", "reading"}
    /\ IF tries + 1 < Steps
       THEN tries' = tries + 1 /\ loop' = "scrape" /\ inflight' = None /\ up' = up
       ELSE up' = FALSE /\ UNCHANGED <<tries, loop, inflight>>
    /\ UNCHANGED <<leaderElection, election, serve, ready, metricsReady, body, cached>>

\* Fault: ServeResults is read once, before the first round.
TickWithoutLoad ==
    /\ up /\ loop = "wait"
    /\ loop' = "scrape"
    /\ UNCHANGED <<leaderElection, up, election, serve, ready, metricsReady, tries, inflight,
                   body, cached>>

Tick ==
    /\ up /\ loop = "wait"
    /\ loop' = "load"
    /\ UNCHANGED <<leaderElection, up, election, serve, ready, metricsReady, tries, inflight,
                   body, cached>>

----------------------------------------------------------------------------
Callbacks == NewLeader \/ \E c \in {"started", "self"} : BecomeLeader(c)

CacheLoop == Load \/ Store \/ ScrapeFails \/ Tick \/ \E ok \in BOOLEAN : Scrape(ok)

Next ==
    \/ Stops \/ Restart
    \/ Start \/ GateStep
    \/ Acquire \/ OtherLeads \/ StopLeading
    \/ Callbacks
    \/ CacheLoop

Spec == Init /\ [][Next]_vars

\* The process is started (again) and its goroutines run.
Fairness ==
    /\ WF_vars(Restart)
    /\ WF_vars(Start)
    /\ WF_vars(NewLeader)
    /\ WF_vars(BecomeLeader("started"))
    /\ WF_vars(BecomeLeader("self"))
    /\ WF_vars(CacheLoop)

FairSpec == Spec /\ Fairness

----------------------------------------------------------------------------
(* Properties.                                                             *)

\* The readiness check of the utilization server.
IsReady == ready /\ cached

\* The response that is served while the process reports ready was not
\* collected before results could be served, however the flags move during a
\* scrape and whichever attempt has filled the cache.  It may still be one that
\* holds no metrics: the loop does not look at the status of the response it
\* caches, nor at whether this process leads.
ReadyAfterServe == IsReady => body \notin {"early", None}

\* A collector that runs without an election and whose registration loop has
\* found it ready reports ready, and goes on to.
ReadyIsReported ==
    ~leaderElection /\ <>[](up /\ ready) => <>[]IsReady
=============================================================================
