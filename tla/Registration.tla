---------------------------- MODULE Registration ----------------------------
(***************************************************************************)
(* How a collector gets itself known to the node samplers and decides that *)
(* it may serve and is ready: registerWithSamplers in                      *)
(* pkg/collector/collector.go.                                             *)
(*                                                                         *)
(* Once a minute the loop lists the sampler pods, looks up which nodes it  *)
(* has results of, moves its readiness on, and registers with the running  *)
(* samplers it has no results of, one goroutine per pod; the goroutines    *)
(* share the loop's variable err.  Pods come and go, samplers forget       *)
(* collectors and results expire while the loop works on its copies.       *)
(***************************************************************************)
EXTENDS Integers, FiniteSets

CONSTANTS
    Node,          \* nodes, each with at most one sampler pod
    MinPct,        \* MinResultPctBeforeReady
    WaitReady,     \* WaitSamplerRegistrationsBeforeReady
    WaitServe,     \* WaitSamplerRegistrationsBeforeServe
    DeleteCycles,  \* DeleteUnregisteredPodsAfterCycles
    HasLabels      \* CollectorPodLabels are configured

ASSUME NodeAssumption == IsFiniteSet(Node)
ASSUME ConfigAssumption ==
    /\ MinPct \in 0..100
    /\ WaitReady \in Nat /\ WaitServe \in Nat /\ DeleteCycles \in Nat
    /\ HasLabels \in BOOLEAN

VARIABLES
    pods,     \* the sampler pod of each node, as the API server has it
    results,  \* GetNodeNames: nodes with a response that has not expired
    known,    \* samplers that hold a connection to this collector
    pc,       \* where the loop stands
    req,      \* the request names this collector
    listed,   \* samplers.Items
    has,      \* nodesWithResults
    worker,   \* the goroutine of each node's pod
    err,      \* the shared variable err: the last Dial has failed
    cycles,   \* cyclesCount
    wait,     \* waitReadyCyclesCount
    serve,    \* ServeResults
    ready,    \* IsReadyResult
    deleted   \* history: nodes whose sampler pod the loop has deleted

cluster == <<pods, results, known>>
flags == <<cycles, wait, serve, ready>>
vars == <<pods, results, known, pc, req, listed, has, worker, err, cycles, wait,
          serve, ready, deleted>>

\* Only a running pod with an address can be registered with; one without, or
\* one that does not run, is "pending" here, since the loop only counts it.  So
\* it does the pods that are on no node yet: they share the name "", which is
\* one of Node whose pod stays pending.
Phase == {"absent", "pending", "running"}

\* A goroutine that has dialled holds a connection or a nil pointer.
WorkerState == {"none", "dial", "conn", "nil", "rpc", "done"}

TypeOK ==
    /\ pods \in [Node -> Phase]
    /\ results \in SUBSET Node
    /\ known \in SUBSET Node
    /\ pc \in {"start", "list", "check", "spawn", "workers", "tick", "off", "panic"}
    /\ req \in BOOLEAN
    /\ listed \in [Node -> Phase]
    /\ has \in SUBSET Node
    /\ worker \in [Node -> WorkerState]
    /\ err \in BOOLEAN
    /\ cycles \in 0..(WaitReady + 1)
    /\ wait \in 0..WaitReady
    /\ serve \in BOOLEAN
    /\ ready \in BOOLEAN
    /\ deleted \in SUBSET Node

Init ==
    /\ pods \in [Node -> Phase]
    /\ results = {}
    /\ known = {}
    /\ pc = "start"
    /\ req = FALSE
    /\ listed = [n \in Node |-> "absent"]
    /\ has = {}
    /\ worker = [n \in Node |-> "none"]
    /\ err = FALSE
    /\ cycles = 0
    /\ wait = WaitReady
    /\ serve = FALSE
    /\ ready = FALSE
    /\ deleted = {}

----------------------------------------------------------------------------
(* The cluster.                                                            *)

local == <<pc, req, listed, has, worker, err, cycles, wait, serve, ready, deleted>>

\* A sampler pod is created, starts to run, or goes away; with it goes the
\* connection to the collector.
PodChanges(n, p) ==
    /\ pods[n] # p
    /\ pods' = [pods EXCEPT ![n] = p]
    /\ known' = known \ {n}
    /\ UNCHANGED <<results, local>>

\* A sampler drops its connection to the collector.
SamplerForgets(n) ==
    /\ n \in known
    /\ known' = known \ {n}
    /\ UNCHANGED <<pods, results, local>>

\* A registered sampler's push is cached.
SamplerReports(n) ==
    /\ n \in known \ results
    /\ results' = results \cup {n}
    /\ UNCHANGED <<pods, known, local>>

\* The cached response of a node that no longer pushes gets too old.
ResultExpires(n) ==
    /\ n \in results \ known
    /\ results' = results \ {n}
    /\ UNCHANGED <<pods, known, local>>

----------------------------------------------------------------------------
(* The loop.                                                               *)

\* registerWithSamplers up to the loop.
Start ==
    /\ pc = "start"
    /\ serve' = (MinPct = 0)
    /\ ready' = (MinPct = 0)
    /\ pc' = IF HasLabels THEN "list" ELSE "off"
    /\ UNCHANGED <<cluster, req, listed, has, worker, err, cycles, wait, deleted>>

\* Both lists and GetNodeNames.  A list that fails is logged and taken as
\* empty; a collector pod that does not run or has no address is left out.
List(self, ok) ==
    /\ pc = "list"
    /\ req' = self
    /\ listed' = IF ok THEN pods ELSE [n \in Node |-> "absent"]
    /\ has' = results
    /\ pc' = "check"
    /\ UNCHANGED <<cluster, worker, err, flags, deleted>>

nodesWithSamplers == {n \in Node : listed[n] # "absent"}

\* The pods the switch lets through, with the ones that have results.
Registrable == {n \in Node : listed[n] = "running"}

\* nodesWithResults.Len() * 100 / nodesWithSamplers.Len(), an integer division
\* evaluated before the test that nodesWithSamplers is not empty.
ReadyPct == (Cardinality(has) * 100) \div Cardinality(nodesWithSamplers)

Checking == MinPct > 0 /\ ~ready

CheckPanics ==
    /\ pc = "check"
    /\ Checking
    /\ nodesWithSamplers = {}
    /\ pc' = "panic"
    /\ UNCHANGED <<cluster, req, listed, has, worker, err, flags, deleted>>

\* Fault: reaching the percentage once is enough to be ready.
CheckReadinessNoWait ==
    /\ pc = "check"
    /\ Checking => nodesWithSamplers # {}
    /\ IF Checking /\ ReadyPct > MinPct
       THEN /\ cycles' = cycles + 1
            /\ serve' = (serve \/ cycles' > WaitServe)
            /\ ready' = TRUE
            /\ wait' = wait
       ELSE UNCHANGED flags
    /\ pc' = "spawn"
    /\ UNCHANGED <<cluster, req, listed, has, worker, err, deleted>>

\* Fault: the countdown goes on below zero.
CheckReadinessBelowZero ==
    /\ pc = "check"
    /\ Checking => nodesWithSamplers # {}
    /\ IF Checking /\ ReadyPct > MinPct
       THEN /\ cycles' = cycles + 1
            /\ serve' = (serve \/ cycles' > WaitServe \/ wait <= 0)
            /\ ready' = (wait <= 0)
            /\ wait' = wait - 1
       ELSE UNCHANGED flags
    /\ pc' = "spawn"
    /\ UNCHANGED <<cluster, req, listed, has, worker, err, deleted>>

\* Fault: ready follows the percentage up and down.
CheckReadinessFlaps ==
    /\ pc = "check"
    /\ MinPct > 0 => nodesWithSamplers # {}
    /\ IF MinPct > 0
       THEN /\ serve' = (serve \/ ReadyPct > MinPct)
            /\ ready' = (ReadyPct > MinPct)
            /\ UNCHANGED <<cycles, wait>>
       ELSE UNCHANGED flags
    /\ pc' = "spawn"
    /\ UNCHANGED <<cluster, req, listed, has, worker, err, deleted>>

\* The readiness block of a cycle.
CheckReadiness ==
    /\ pc = "check"
    /\ Checking => nodesWithSamplers # {}
    /\ IF Checking /\ ReadyPct > MinPct
       THEN /\ cycles' = cycles + 1
            /\ serve' = (serve \/ cycles' > WaitServe \/ wait <= 0)
            /\ ready' = (wait <= 0)
            /\ wait' = IF wait <= 0 THEN wait ELSE wait - 1
       ELSE UNCHANGED flags
    /\ pc' = "spawn"
    /\ UNCHANGED <<cluster, req, listed, has, worker, err, deleted>>

\* Fault: a sampler the collector once registered with is taken as registered.
SpawnOnce ==
    /\ pc = "spawn"
    /\ worker' = [n \in Node |-> IF n \in Registrable \ has /\ worker[n] = "none"
                                 THEN "dial" ELSE worker[n]]
    /\ pc' = "workers"
    /\ UNCHANGED <<cluster, req, listed, has, err, flags, deleted>>

\* Fault: samplers with results are registered with again.
SpawnAll ==
    /\ pc = "spawn"
    /\ worker' = [n \in Node |-> IF n \in Registrable THEN "dial" ELSE "none"]
    /\ pc' = "workers"
    /\ UNCHANGED <<cluster, req, listed, has, err, flags, deleted>>

\* One goroutine per running sampler without results.
Spawn ==
    /\ pc = "spawn"
    /\ worker' = [n \in Node |-> IF n \in Registrable \ has
                                 THEN "dial" ELSE "none"]
    /\ pc' = "workers"
    /\ UNCHANGED <<cluster, req, listed, has, err, flags, deleted>>

\* wg.Wait, then the division by the number of running samplers.
Finish ==
    /\ pc = "workers"
    /\ \A n \in Node : worker[n] \in {"none", "done"}
    /\ pc' = IF Registrable = {} THEN "panic" ELSE "tick"
    /\ UNCHANGED <<cluster, req, listed, has, worker, err, flags, deleted>>

Tick ==
    /\ pc = "tick"
    /\ pc' = "list"
    /\ UNCHANGED <<cluster, req, listed, has, worker, err, flags, deleted>>

----------------------------------------------------------------------------
(* The goroutine that registers with the pod of node n.                    *)

working == <<cluster, req, listed, has, flags, deleted>>

\* The last of up to three calls of grpc.Dial: its connection is the
\* goroutine's own, its error goes to the shared variable.
Dial(n, ok) ==
    /\ pc = "workers"
    /\ worker[n] = "dial"
    /\ worker' = [worker EXCEPT ![n] = IF ok THEN "conn" ELSE "nil"]
    /\ err' = ~ok
    /\ UNCHANGED <<pc, working>>

\* err is nil, whoever wrote it: call RegisterCollectors.  A nil connection
\* panics there.
DialSucceeded(n) ==
    /\ pc = "workers"
    /\ worker[n] \in {"conn", "nil"}
    /\ ~err
    /\ worker' = [worker EXCEPT ![n] = IF @ = "conn" THEN "rpc" ELSE @]
    /\ pc' = IF worker[n] = "conn" THEN pc ELSE "panic"
    /\ UNCHANGED <<err, working>>

\* age > deleteAge && cyclesCount > DeleteUnregisteredPodsAfterCycles
mayDelete(old) == old /\ cycles > DeleteCycles

\* A registration has failed: delete the pod if it is old enough and enough
\* cycles have gone by.  The delete may fail, and the pod may be gone already.
FailRegistration(n, old, gone) ==
    /\ worker' = [worker EXCEPT ![n] = "done"]
    /\ IF mayDelete(old)
       THEN /\ pods' = IF gone THEN pods ELSE [pods EXCEPT ![n] = "absent"]
            /\ known' = IF gone THEN known ELSE known \ {n}
            /\ deleted' = IF gone THEN deleted ELSE deleted \cup {n}
       ELSE UNCHANGED <<pods, known, deleted>>
    /\ UNCHANGED <<results, pc, req, listed, has, err, flags>>

\* err is not nil, whoever wrote it.
DialFailed(n, old, gone) ==
    /\ pc = "workers"
    /\ worker[n] \in {"conn", "nil"}
    /\ err
    /\ FailRegistration(n, old, gone)

CallFailed(n, old, gone) ==
    /\ pc = "workers"
    /\ worker[n] = "rpc"
    /\ FailRegistration(n, old, gone)

\* RegisterCollectors succeeds: the sampler, if it is still there, connects to
\* the collectors the request names.
Registered(n) ==
    /\ pc = "workers"
    /\ worker[n] = "rpc"
    /\ pods[n] = "running"
    /\ worker' = [worker EXCEPT ![n] = "done"]
    /\ known' = IF req THEN known \cup {n} ELSE known
    /\ UNCHANGED <<pods, results, pc, req, listed, has, err, flags, deleted>>

----------------------------------------------------------------------------
Lists == \E self, ok \in BOOLEAN : List(self, ok)

Fails(n) == \E old, gone \in BOOLEAN : DialFailed(n, old, gone) \/ CallFailed(n, old, gone)

Work(n) == Fails(n) \/ Registered(n) \/ DialSucceeded(n) \/ \E ok \in BOOLEAN : Dial(n, ok)

Loop == Start \/ Lists \/ CheckReadiness \/ CheckPanics \/ Spawn \/ Finish \/ Tick

Environment(n) ==
    \/ \E p \in Phase : PodChanges(n, p)
    \/ SamplerForgets(n)
    \/ SamplerReports(n)
    \/ ResultExpires(n)

Next == Loop \/ \E n \in Node : Work(n) \/ Environment(n)

Spec == Init /\ [][Next]_vars

\* The loop and its goroutines run, a sampler that is registered again and
\* again gets a push through (its connection is not dropped each time), and the
\* response of one that does not push expires.
Fairness ==
    /\ WF_vars(Loop)
    /\ \A n \in Node :
          /\ WF_vars(Work(n))
          /\ SF_vars(SamplerReports(n))
          /\ WF_vars(ResultExpires(n))

FairSpec == Spec /\ Fairness

----------------------------------------------------------------------------
(* Properties.                                                             *)

\* A collector that waits for results reports ready in the cycle after
\* WaitSamplerRegistrationsBeforeReady cycles that had reached the percentage,
\* and never before it serves; it serves after
\* WaitSamplerRegistrationsBeforeServe of them unless it is ready earlier.
ReadyAfterWait ==
    /\ ready => serve
    /\ MinPct > 0 => /\ ready => cycles = WaitReady + 1
                     /\ serve => ready \/ cycles > WaitServe

\* The flags behave as their readers expect: never lowered, ready only when
\* serving.
Gate == INSTANCE ReadinessGate WITH serve <- serve, ready <- ready
ImplementsGate == Gate!Spec

\* The goroutine of node n ends by deleting the pod.
Deletes(n) ==
    /\ worker[n] # "done" /\ worker'[n] = "done"
    /\ pods[n] # "absent" /\ pods'[n] = "absent"

\* A pod is deleted only if, when the cycle began, it ran and the collector had
\* no results of its node, whatever has changed meanwhile: a sampler that
\* reports is never the victim of somebody else's failed dial, which a goroutine
\* may take for its own.  (A sampler that could be reached may be.)
DeletesOnlySilent ==
    [][\A n \in Node : Deletes(n) => listed[n] = "running" /\ n \notin has]_vars

\* No setback of its own, from some time on: the lists succeed and name this
\* collector, and registering with node n does not fail.
Reachable(n) ==
    <>[][~Fails(n) /\ \A self, ok \in BOOLEAN : List(self, ok) => self /\ ok]_vars

\* A sampler that stays up and can be reached is again and again among the
\* nodes with results, although samplers forget collectors and a cycle leaves
\* out the nodes whose old response is still cached: the loop does not stop
\* registering.  Only a crash ends it.  The fairness assumes that a call of
\* RegisterCollectors returns: the code gives it no deadline, and wg.Wait waits
\* for every goroutine of the cycle.
SamplersGetRegistered ==
    \A n \in Node :
        HasLabels /\ <>[](pods[n] = "running") /\ Reachable(n)
            => <>(pc = "panic") \/ []<>(n \in results)
=============================================================================
