---------------------------- MODULE SamplerServer ----------------------------
(***************************************************************************)
(* The push side of metrics-node-sampler: pkg/sampler/server.go.           *)
(*                                                                         *)
(* Four kinds of goroutine share the map collectorConnections, guarded by  *)
(* collectorIPsLock:                                                       *)
(*   - the push loop (startPushToCollectors), the only sender;             *)
(*   - the DNS loop (startRegisterCollectorsFromDNS), which adds;          *)
(*   - the RegisterCollectors RPC handlers, which add;                     *)
(*   - one watcher per connection, which waits for the connection's own    *)
(*     context and then removes a connection BY ADDRESS.                   *)
(* Start returns as soon as the server context is done, and main exits     *)
(* without waiting for any of them.                                        *)
(*                                                                         *)
(* Every critical section of collectorIPsLock is one step.  A connection   *)
(* is a pair of an address and an incarnation: two connections to one      *)
(* address differ.  A payload is the set of pods it reports.               *)
(***************************************************************************)
EXTENDS Naturals, FiniteSets

CONSTANTS
    Addr,        \* collector addresses (ip:port)
    Gen,         \* incarnations of a connection to one address
    Pod,         \* pod UIDs on the node
    RetryCount,  \* SendPushMetricsRetryCount
    None         \* no connection

ASSUME NoneAssumption == None \notin Gen
ASSUME RetryAssumption == RetryCount \in Nat

Conn == Addr \X Gen

VARIABLES
    table,       \* collectorConnections: address -> incarnation or None
    stream,      \* what Send on the connection's stream meets
    watchers,    \* connections whose watcher goroutine has not finished
    reported,    \* pods sent on each stream that is not stopped
    push,        \* where the push loop stands
    final,       \* it is pushing for the reason "sampler-shutdown"
    targets,     \* the snapshot of connections the push works on
    sentTo,      \* those that took the response
    gaveUp,      \* those whose retries are used up
    cur,         \* the connection being retried, or None
    tries,       \* failed attempts on it
    resp,        \* the response being sent
    lastSent,    \* the response kept for foundUnsentPods; {} is nil
    known,       \* knownContainersSet of the metrics reader
    sampled,     \* pods ListMetrics has samples for
    sources,     \* the goroutines that still register collectors
    ctxDone,     \* the server context is done (signal or service error)
    exited,      \* the process has ended
    sendFailed   \* history: some send used up its retries

connVars == <<table, stream, watchers, reported>>
pushVars == <<targets, sentTo, gaveUp, cur, tries, resp>>
loopVars == <<push, final, pushVars, lastSent, sendFailed>>
cacheVars == <<known, sampled>>
procVars == <<sources, ctxDone, exited>>
vars == <<connVars, loopVars, cacheVars, procVars>>

TypeOK ==
    /\ table \in [Addr -> Gen \cup {None}]
    /\ stream \in [Conn -> {"open", "broken", "stopped"}]
    /\ watchers \in SUBSET Conn
    /\ reported \in [Conn -> SUBSET Pod]
    /\ push \in {"snapshot", "list", "send", "cleanup", "select",
                 "stopping", "done"}
    /\ final \in BOOLEAN
    /\ targets \in SUBSET Conn
    /\ sentTo \in SUBSET Conn
    /\ gaveUp \in SUBSET Conn
    /\ cur \in Conn \cup {None}
    /\ tries \in 0..RetryCount
    /\ resp \in SUBSET Pod
    /\ lastSent \in SUBSET Pod
    /\ known \in SUBSET Pod
    /\ sampled \in SUBSET Pod
    /\ sources \in SUBSET {"dns", "rpc"}
    /\ ctxDone \in BOOLEAN
    /\ exited \in BOOLEAN
    /\ sendFailed \in BOOLEAN

Init ==
    /\ table = [a \in Addr |-> None]
    /\ stream = [c \in Conn |-> "stopped"]
    /\ watchers = {}
    /\ reported = [c \in Conn |-> {}]
    /\ push = "snapshot"
    /\ final = FALSE
    /\ targets = {} /\ sentTo = {} /\ gaveUp = {}
    /\ cur = None /\ tries = 0 /\ resp = {} /\ lastSent = {}
    /\ known = {} /\ sampled = {}
    /\ sources = {"dns", "rpc"}
    /\ ctxDone = FALSE /\ exited = FALSE /\ sendFailed = FALSE

----------------------------------------------------------------------------
(* The connection table.                                                   *)

Tabled == {c \in Conn : table[c[1]] = c[2]}

\* The context of the connection's stream has not been cancelled.
Live(c) == stream[c] # "stopped"

\* An incarnation nothing in the process refers to any more.
Fresh(c) == ~Live(c) /\ c \notin watchers \cup targets

Missing(addrs) == {a \in addrs : table[a] = None}

\* Dial and open a stream to each missing address; either may fail, so any
\* subset is opened.  A connection enters the map together with its watcher.
addConnectionsIfMissing(addrs) ==
    \E opened \in SUBSET Missing(addrs) :
      \E new \in [opened -> Gen] :
        LET made == {<<a, new[a]>> : a \in opened}
        IN /\ \A c \in made : Fresh(c)
           /\ table' = [a \in Addr |-> IF a \in opened THEN new[a] ELSE table[a]]
           /\ stream' = [c \in Conn |-> IF c \in made THEN "open" ELSE stream[c]]
           /\ watchers' = watchers \cup made
           /\ UNCHANGED reported

\* stop(): cancel the context of each of these streams.
StopStreams(conns) ==
    /\ stream' = [c \in Conn |-> IF c \in conns THEN "stopped" ELSE stream[c]]
    /\ reported' = [c \in Conn |-> IF c \in conns THEN {} ELSE reported[c]]

\* Fault: the entries are deleted and their streams never stopped.
removeConnectionsOnly(addrs) ==
    /\ table' = [a \in Addr |-> IF a \in addrs THEN None ELSE table[a]]
    /\ UNCHANGED <<stream, reported>>

removeConnections(addrs) ==
    /\ table' = [a \in Addr |-> IF a \in addrs THEN None ELSE table[a]]
    /\ StopStreams({c \in Tabled : c[1] \in addrs})

\* Fault: the watcher does not wait for its context.
WatcherEager(c) ==
    /\ ~exited
    /\ c \in watchers
    /\ watchers' = watchers \ {c}
    /\ removeConnections({c[1]})
    /\ UNCHANGED <<loopVars, cacheVars, procVars>>

\* The goroutine of connection c: its context is done, remove its address.
Watcher(c) ==
    /\ ~exited
    /\ c \in watchers
    /\ ~Live(c)
    /\ watchers' = watchers \ {c}
    /\ removeConnections({c[1]})
    /\ UNCHANGED <<loopVars, cacheVars, procVars>>

\* The collector's handler returned or the transport failed: Send on this
\* stream meets EOF from now on.  The local context is not cancelled.
StreamBreaks(c) ==
    /\ ~exited
    /\ stream[c] = "open"
    /\ stream' = [stream EXCEPT ![c] = "broken"]
    /\ UNCHANGED <<table, watchers, reported, loopVars, cacheVars, procVars>>

----------------------------------------------------------------------------
(* Registration: the DNS loop and the RPC handlers.                        *)

\* src is a goroutine that registers: a round of the DNS loop with what the
\* lookup returned (nothing when it failed), or a RegisterCollectors call.
Register(src, ips) ==
    /\ ~exited
    /\ src \in sources
    /\ addConnectionsIfMissing(ips)
    /\ UNCHANGED <<loopVars, cacheVars, procVars>>

\* The DNS loop returns, GracefulStop ends the RPC server.  Each may still
\* register after the context is done.
StopRegistering(src) ==
    /\ ~exited
    /\ ctxDone
    /\ src \in sources
    /\ sources' = sources \ {src}
    /\ UNCHANGED <<connVars, loopVars, cacheVars, ctxDone, exited>>

----------------------------------------------------------------------------
(* pushMetricsToAllCollectors, one step per stretch between lock, cache    *)
(* and network accesses.                                                   *)

\* A shallow copy, used after the lock is released.
getConnections ==
    /\ ~exited
    /\ push = "snapshot"
    /\ push' = "list"
    /\ targets' = Tabled
    /\ UNCHANGED <<final, sentTo, gaveUp, cur, tries, resp, lastSent, sendFailed,
                   connVars, cacheVars, procVars>>

todo == targets \ (sentTo \cup gaveUp)

\* badConnections is a list of addresses, not of connections.
badConnections == {c[1] : c \in gaveUp}

\* The push returns: the loop keeps the response, or ends after the final one.
Return(response) ==
    IF final
    THEN push' = "stopping" /\ UNCHANGED <<pushVars, lastSent>>
    ELSE /\ push' = "select"
         /\ lastSent' = response
         /\ targets' = {} /\ sentTo' = {} /\ gaveUp' = {} /\ resp' = {}
         /\ UNCHANGED <<cur, tries>>

\* ListMetrics; a response without containers is not sent (nil).
ListMetrics ==
    /\ ~exited
    /\ push = "list"
    /\ \/ sampled = {} /\ Return({})
       \/ /\ sampled # {}
          /\ push' = "send"
          /\ resp' = sampled
          /\ UNCHANGED <<targets, sentTo, gaveUp, cur, tries, lastSent>>
    /\ UNCHANGED <<final, sendFailed, connVars, cacheVars, procVars>>

SendOk(c) ==
    /\ stream[c] = "open"
    /\ sentTo' = sentTo \cup {c}
    /\ reported' = [reported EXCEPT ![c] = @ \cup resp]
    /\ cur' = None /\ tries' = 0
    /\ UNCHANGED <<targets, gaveUp, sendFailed>>

\* Fault: the number of attempts is not looked at.
SendRetryForever(c) ==
    /\ stream[c] # "open"
    /\ cur' = c /\ tries' = tries + 1
    /\ UNCHANGED <<targets, sentTo, gaveUp, reported, sendFailed>>

SendRetry(c) ==
    /\ stream[c] # "open"
    /\ tries < RetryCount
    /\ cur' = c /\ tries' = tries + 1
    /\ UNCHANGED <<targets, sentTo, gaveUp, reported, sendFailed>>

\* Fault: the failed send does not mark its address.
SendGiveUpQuiet(c) ==
    /\ stream[c] # "open"
    /\ tries = RetryCount
    /\ targets' = targets \ {c}
    /\ cur' = None /\ tries' = 0
    /\ sendFailed' = TRUE
    /\ UNCHANGED <<gaveUp, sentTo, reported>>

SendGiveUp(c) ==
    /\ stream[c] # "open"
    /\ tries = RetryCount
    /\ gaveUp' = gaveUp \cup {c}
    /\ cur' = None /\ tries' = 0
    /\ sendFailed' = TRUE
    /\ UNCHANGED <<targets, sentTo, reported>>

\* One Send of sendMetrics to one collector of the snapshot.
Send(c) ==
    /\ ~exited
    /\ push = "send"
    /\ c \in todo
    /\ cur \in {None, c}
    /\ SendOk(c) \/ SendRetry(c) \/ SendGiveUp(c)
    /\ UNCHANGED <<push, final, resp, lastSent, table, stream, watchers,
                   cacheVars, procVars>>

\* Fault: a failed send ends the loop over the collectors.
SendDoneEarly ==
    /\ ~exited
    /\ push = "send"
    /\ todo = {} \/ gaveUp # {}
    /\ push' = "cleanup"
    /\ UNCHANGED <<final, pushVars, lastSent, sendFailed, connVars, cacheVars,
                   procVars>>

\* sendMetrics has gone through its collectors.
SendDone ==
    /\ ~exited
    /\ push = "send"
    /\ todo = {}
    /\ push' = "cleanup"
    /\ UNCHANGED <<final, pushVars, lastSent, sendFailed, connVars, cacheVars,
                   procVars>>

removeBadConnections ==
    /\ ~exited
    /\ push = "cleanup"
    /\ removeConnections(badConnections)
    /\ Return(resp)
    /\ UNCHANGED <<watchers, final, sendFailed, cacheVars, procVars>>

----------------------------------------------------------------------------
(* startPushToCollectors: the select of the push loop.                     *)

StartPush(last) ==
    /\ ~exited
    /\ push = "select"
    /\ push' = "snapshot"
    /\ final' = last
    /\ UNCHANGED <<pushVars, lastSent, sendFailed, connVars, cacheVars, procVars>>

\* Fault: the ticker pushes only while nothing was sent.
PeriodicSyncOnce == lastSent = {} /\ StartPush(FALSE)

PeriodicSync == StartPush(FALSE)

\* A nil lastSent counts as "never sent".
foundUnsentPods == lastSent = {} \/ known \ lastSent # {}

CreatedPodTick == foundUnsentPods /\ StartPush(FALSE)

\* Fault: the loop returns without the final push.
ShutdownSyncSkipped ==
    /\ ~exited
    /\ ctxDone
    /\ push = "select"
    /\ push' = "stopping"
    /\ UNCHANGED <<final, pushVars, lastSent, sendFailed, connVars, cacheVars,
                   procVars>>

ShutdownSync == ctxDone /\ StartPush(TRUE)

\* The deferred function of the push loop.
shutdownAllConnections ==
    /\ ~exited
    /\ push = "stopping"
    /\ push' = "done"
    /\ table' = [a \in Addr |-> None]
    /\ StopStreams(Tabled)
    /\ UNCHANGED <<watchers, final, pushVars, lastSent, sendFailed, cacheVars,
                   procVars>>

----------------------------------------------------------------------------
(* The sample cache as the server sees it: fetchSample stores the set of   *)
(* containers it read, AddSample changes what getAllSamples returns.       *)

FetchSample(pods) ==
    /\ ~exited
    /\ known' = pods
    /\ UNCHANGED <<connVars, loopVars, sampled, procVars>>

AddSample(pods) ==
    /\ ~exited
    /\ pods \subseteq known \cup sampled
    /\ sampled' = pods
    /\ UNCHANGED <<connVars, loopVars, known, procVars>>

----------------------------------------------------------------------------
(* The process.                                                            *)

\* SIGTERM, a changed config file, or a service error (defer stop()).
Stop ==
    /\ ~exited
    /\ ~ctxDone
    /\ ctxDone' = TRUE
    /\ UNCHANGED <<connVars, loopVars, cacheVars, sources, exited>>

\* Start returned, so RunE and main return.
Exit ==
    /\ ~exited
    /\ ctxDone
    /\ exited' = TRUE
    /\ UNCHANGED <<connVars, loopVars, cacheVars, sources, ctxDone>>

PushLoop ==
    \/ getConnections
    \/ ListMetrics
    \/ \E c \in Conn : Send(c)
    \/ SendDone
    \/ removeBadConnections
    \/ shutdownAllConnections

Next ==
    \/ PushLoop
    \/ PeriodicSync
    \/ CreatedPodTick
    \/ ShutdownSync
    \/ \E c \in Conn : Watcher(c) \/ StreamBreaks(c)
    \/ \E src \in {"dns", "rpc"}, ips \in SUBSET Addr : Register(src, ips)
    \/ \E src \in {"dns", "rpc"} : StopRegistering(src)
    \/ \E pods \in SUBSET Pod : FetchSample(pods) \/ AddSample(pods)
    \/ Stop
    \/ Exit

Spec == Init /\ [][Next]_vars

\* The push goroutine is never blocked for ever: Send and the lock return.
\* A select with several ready cases picks one at random, so a case that is
\* ready again and again is taken (strong fairness).
Fairness ==
    /\ WF_vars(PushLoop)
    /\ SF_vars(PeriodicSync)

FairSpec == Spec /\ Fairness

----------------------------------------------------------------------------
(* Safety.                                                                 *)

\* collectorConnections holds exactly the streams whose context is live, each
\* with its watcher: no stream is dropped from the map and left running (a
\* leaked goroutine and a collector that waits on a silent sampler), and the
\* push loop never takes a stopped stream into a snapshot.
TableMatchesStreams ==
    \A c \in Conn : Live(c) <=> c \in Tabled /\ c \in watchers

\* A connection is stopped only once a send has failed or the loop has ended:
\* while every send succeeds, no interleaving of registrations, DNS polls and
\* watchers takes a collector out of the map.
StopsNeedAFailure ==
    [][\A c \in Conn : Live(c) /\ ~Live(c)'
            => sendFailed \/ push \in {"stopping", "done"}]_vars

\* When a push has gone through its snapshot, every collector of it that is
\* still reachable has the response: one dead collector, and the retries spent
\* on it, keep nobody else from being served.
PushReachesOpenTargets ==
    push = "cleanup" =>
        \A c \in targets : stream[c] = "open" => resp \subseteq reported[c]

\* The push loop stops the connections only after the final push, and then a
\* collector of its snapshot that is still reachable has the final response.
FinalPushBeforeShutdown ==
    push \in {"stopping", "done"} =>
        /\ final
        /\ \A c \in targets : stream[c] = "open" => resp \subseteq reported[c]

\* "delete the connection if the collector shuts down the connection": while
\* the sampler is not shutting down, a connection whose stream is open stays.
HealthyConnectionKept ==
    [][\A c \in Tabled : stream[c] = "open" /\ c \notin Tabled' => ctxDone]_vars

----------------------------------------------------------------------------
(* Liveness.                                                               *)

\* A connection whose stream is broken does not stay in the map while there
\* is something to send: the address becomes free to register again.
BrokenIsRemoved ==
    \A c \in Conn :
        stream[c] = "broken"
            ~> (c \notin Tabled \/ sampled = {} \/ push = "done" \/ exited)

\* A collector that stays connected is sent every pod that stays sampled, also
\* when the pod was already sent to other collectors before this one came.
SampledPodIsReported ==
    \A c \in Conn, p \in Pod :
        (stream[c] = "open" /\ p \in sampled)
            ~> (p \in reported[c] \/ stream[c] # "open" \/ p \notin sampled
                \/ ctxDone)
=============================================================================
