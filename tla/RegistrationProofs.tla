------------------------- MODULE RegistrationProofs -------------------------
(***************************************************************************)
(* Proofs about the registration loop, for any set of nodes and any values *)
(* of the waits: when it may report ready, and when it may delete a pod.   *)
(***************************************************************************)
EXTENDS Registration, TLAPS

\* The cycles that have reached the percentage and the countdown to ready add
\* up, and cyclesCount stops once the collector is ready.
Countdown ==
    /\ MinPct = 0 => cycles = 0
    /\ MinPct > 0 /\ ~ready => cycles + wait = WaitReady

\* Before the loop starts nothing is served.
NothingBeforeStart == pc = "start" => ~serve /\ ~ready /\ cycles = 0

\* A pod is deleted only after the initial cycles.
DeletesAfterCycles == deleted # {} => cycles > DeleteCycles

IInv ==
    /\ TypeOK
    /\ Countdown
    /\ NothingBeforeStart
    /\ ReadyAfterWait
    /\ DeletesAfterCycles

USE ConfigAssumption

LEMMA InitIInv == Init => IInv
<1> SUFFICES ASSUME Init PROVE IInv
  OBVIOUS
<1>1. cycles \in 0..(WaitReady + 1) /\ wait \in 0..WaitReady
  BY DEF Init
<1>2. /\ worker \in [Node -> WorkerState]
      /\ listed \in [Node -> Phase]
  BY DEF Init, WorkerState, Phase
<1>3. /\ req \in BOOLEAN /\ err \in BOOLEAN /\ serve \in BOOLEAN /\ ready \in BOOLEAN
      /\ results \in SUBSET Node /\ known \in SUBSET Node /\ has \in SUBSET Node
      /\ deleted \in SUBSET Node
      /\ pods \in [Node -> Phase]
      /\ pc \in {"start", "list", "check", "spawn", "workers", "tick", "off", "panic"}
  BY DEF Init
<1>4. TypeOK
  BY <1>1, <1>2, <1>3 DEF TypeOK
<1>5. Countdown /\ NothingBeforeStart /\ ReadyAfterWait /\ DeletesAfterCycles
  BY DEF Init, Countdown, NothingBeforeStart, ReadyAfterWait, DeletesAfterCycles
<1> QED  BY <1>4, <1>5 DEF IInv

\* Steps that leave the counters and the flags alone.
LEMMA FlagsKept ==
    ASSUME IInv, TypeOK', UNCHANGED flags,
           deleted' = deleted \/ cycles > DeleteCycles,
           pc' = "start" => pc = "start"
    PROVE  IInv'
BY DEF IInv, TypeOK, flags, Countdown, NothingBeforeStart, ReadyAfterWait, DeletesAfterCycles

LEMMA StartIInv ==
    ASSUME IInv, Start
    PROVE  IInv'
<1>1. TypeOK'
  BY Zenon DEF IInv, TypeOK, Start, cluster
<1>2. Countdown' /\ NothingBeforeStart'
  BY DEF IInv, TypeOK, Countdown, NothingBeforeStart, Start
<1>3. ReadyAfterWait'
  BY DEF IInv, TypeOK, NothingBeforeStart, ReadyAfterWait, Start
<1>4. DeletesAfterCycles'
  BY DEF IInv, DeletesAfterCycles, Start
<1> QED  BY <1>1, <1>2, <1>3, <1>4 DEF IInv

LEMMA CheckReadinessIInv ==
    ASSUME IInv, CheckReadiness
    PROVE  IInv'
<1>1. pc' = "spawn" /\ pc = "check"
      /\ UNCHANGED <<pods, results, known, req, listed, has, worker, err, deleted>>
  BY DEF CheckReadiness, cluster
<1>2. CASE Checking /\ ReadyPct > MinPct
  <2>1. /\ cycles' = cycles + 1
        /\ serve' = (serve \/ cycles' > WaitServe \/ wait <= 0)
        /\ ready' = (wait <= 0)
        /\ wait' = IF wait <= 0 THEN wait ELSE wait - 1
    BY <1>2 DEF CheckReadiness
  <2>2. MinPct > 0 /\ ~ready /\ cycles + wait = WaitReady
        /\ cycles \in Nat /\ wait \in Nat
    BY <1>2 DEF Checking, IInv, Countdown, TypeOK
  <2>3. cycles' \in 0..(WaitReady + 1) /\ wait' \in 0..WaitReady
    BY <2>1, <2>2
  <2>4. serve' \in BOOLEAN /\ ready' \in BOOLEAN
    BY <2>1
  <2>5. TypeOK'
    BY <1>1, <2>3, <2>4 DEF IInv, TypeOK
  <2>6. NothingBeforeStart'
    BY <1>1 DEF NothingBeforeStart
  <2>7. serve => cycles' > WaitServe
    BY <2>1, <2>2 DEF IInv, ReadyAfterWait
  <2>8. Countdown' /\ ReadyAfterWait'
    <3>1. CASE wait = 0
      <4>1. wait <= 0 /\ cycles' = WaitReady + 1
        BY <2>1, <2>2, <3>1
      <4>2. ready' /\ serve'
        BY <2>1, <4>1, Zenon
      <4> QED  BY <4>1, <4>2, <2>2 DEF Countdown, ReadyAfterWait
    <3>2. CASE wait > 0
      <4>1. ~(wait <= 0) /\ cycles' + wait' = WaitReady
        BY <2>1, <2>2, <3>2
      <4>2. ~ready'
        BY <2>1, <4>1, Zenon
      <4>3. serve' => cycles' > WaitServe
        BY <2>1, <2>7, <4>1, Zenon
      <4> QED  BY <4>1, <4>2, <4>3, <2>2 DEF Countdown, ReadyAfterWait
    <3> QED  BY <3>1, <3>2, <2>2
  <2>9. DeletesAfterCycles'
    BY <1>1, <2>1, <2>2 DEF IInv, DeletesAfterCycles
  <2> QED  BY <2>5, <2>6, <2>8, <2>9 DEF IInv
<1>3. CASE ~(Checking /\ ReadyPct > MinPct)
  <2>1. UNCHANGED flags
    BY <1>3 DEF CheckReadiness
  <2>2. TypeOK'
    BY <1>1, <2>1 DEF IInv, TypeOK, flags
  <2> QED  BY <1>1, <2>1, <2>2, FlagsKept
<1> QED  BY <1>2, <1>3

\* The other steps of the loop.
LEMMA LoopIInv ==
    ASSUME IInv, Lists \/ CheckPanics \/ Spawn \/ Finish \/ Tick
    PROVE  IInv'
<1>1. UNCHANGED flags /\ deleted' = deleted /\ pc' # "start"
  BY DEF Lists, List, CheckPanics, Spawn, Finish, Tick
<1>2. TypeOK'
  <2>1. CASE Lists
    BY <2>1 DEF IInv, TypeOK, Lists, List, cluster, flags, Phase
  <2>2. CASE CheckPanics
    BY <2>2 DEF IInv, TypeOK, CheckPanics, cluster, flags
  <2>3. CASE Spawn
    BY <2>3 DEF IInv, TypeOK, Spawn, WorkerState, cluster, flags
  <2>4. CASE Finish
    BY <2>4 DEF IInv, TypeOK, Finish, cluster, flags
  <2>5. CASE Tick
    BY <2>5 DEF IInv, TypeOK, Tick, cluster, flags
  <2> QED  BY <2>1, <2>2, <2>3, <2>4, <2>5
<1> QED  BY <1>1, <1>2, FlagsKept

LEMMA FailRegistrationIInv ==
    ASSUME IInv, NEW n \in Node, NEW old \in BOOLEAN, NEW gone \in BOOLEAN,
           FailRegistration(n, old, gone)
    PROVE  IInv'
<1>1. UNCHANGED flags /\ pc' = pc
  BY DEF FailRegistration
<1>2. deleted' = deleted \/ cycles > DeleteCycles
  BY DEF FailRegistration, mayDelete
<1>3. pods' \in [Node -> Phase] /\ worker' \in [Node -> WorkerState]
  BY DEF IInv, TypeOK, FailRegistration, Phase, WorkerState
<1>4. known' \in SUBSET Node /\ deleted' \in SUBSET Node
  BY DEF IInv, TypeOK, FailRegistration
<1>5. TypeOK'
  BY <1>1, <1>3, <1>4 DEF IInv, TypeOK, FailRegistration, flags
<1> QED  BY <1>1, <1>2, <1>5, FlagsKept

LEMMA WorkIInv ==
    ASSUME IInv, NEW n \in Node, Work(n)
    PROVE  IInv'
<1>1. CASE Fails(n)
  BY <1>1, FailRegistrationIInv DEF Fails, DialFailed, CallFailed
<1>2. CASE Registered(n)
  <2>1. TypeOK'
    BY <1>2 DEF IInv, TypeOK, Registered, WorkerState, flags
  <2> QED  BY <1>2, <2>1, FlagsKept DEF Registered
<1>3. CASE DialSucceeded(n)
  <2>1. TypeOK'
    BY <1>3 DEF IInv, TypeOK, DialSucceeded, WorkerState, working, cluster, flags
  <2> QED  BY <1>3, <2>1, FlagsKept DEF DialSucceeded, working
<1>4. ASSUME NEW ok \in BOOLEAN, Dial(n, ok) PROVE IInv'
  <2>1. TypeOK'
    BY <1>4 DEF IInv, TypeOK, Dial, WorkerState, working, cluster, flags
  <2> QED  BY <1>4, <2>1, FlagsKept DEF Dial, working
<1> QED  BY <1>1, <1>2, <1>3, <1>4 DEF Work

LEMMA EnvironmentIInv ==
    ASSUME IInv, NEW n \in Node, Environment(n)
    PROVE  IInv'
<1>1. UNCHANGED flags /\ deleted' = deleted /\ pc' = pc
  BY DEF Environment, PodChanges, SamplerForgets, SamplerReports, ResultExpires, local, flags
<1>2. TypeOK'
  BY DEF IInv, TypeOK, Environment, PodChanges, SamplerForgets, SamplerReports,
         ResultExpires, local
<1> QED  BY <1>1, <1>2, FlagsKept

LEMMA InductiveInvariant == Spec => []IInv
<1>1. IInv /\ [Next]_vars => IInv'
  <2> SUFFICES ASSUME IInv, [Next]_vars PROVE IInv'
    OBVIOUS
  <2>1. CASE UNCHANGED vars
    BY <2>1 DEF vars, IInv, TypeOK, Countdown, NothingBeforeStart, ReadyAfterWait,
                DeletesAfterCycles
  <2> QED  BY <2>1, StartIInv, CheckReadinessIInv, LoopIInv, WorkIInv, EnvironmentIInv
           DEF Next, Loop
<1> QED  BY InitIInv, <1>1, PTL DEF Spec

\* The loop's variables keep their types; above all cyclesCount never passes
\* WaitSamplerRegistrationsBeforeReady + 1 and the countdown stays at or above 0.
THEOREM TypeCorrect == Spec => []TypeOK
<1>1. IInv => TypeOK
  BY DEF IInv
<1> QED  BY <1>1, InductiveInvariant, PTL

\* When the collector may be ready and may serve.
THEOREM ReadyWaits == Spec => []ReadyAfterWait
<1>1. IInv => ReadyAfterWait
  BY DEF IInv
<1> QED  BY <1>1, InductiveInvariant, PTL

\* A goroutine at work is one of a pod that was listed running and without
\* results.
WorkersOfCycle ==
    pc = "workers" =>
        \A n \in Node : worker[n] \notin {"none", "done"} => n \in Registrable \ has

LEMMA WorkersInvariant == Spec => []WorkersOfCycle
<1>1. Init => WorkersOfCycle
  BY DEF Init, WorkersOfCycle
<1>2. TypeOK /\ WorkersOfCycle /\ [Next]_vars => WorkersOfCycle'
  <2> SUFFICES ASSUME TypeOK, WorkersOfCycle, [Next]_vars, pc' = "workers",
                      NEW n \in Node, worker'[n] \notin {"none", "done"}
               PROVE  (n \in Registrable \ has)'
    BY DEF WorkersOfCycle
  <2>1. CASE Spawn
    BY <2>1 DEF Spawn, Registrable
  <2>2. CASE Start \/ Lists \/ CheckReadiness \/ CheckPanics \/ Finish \/ Tick
    BY <2>2 DEF Start, Lists, List, CheckReadiness, CheckPanics, Finish, Tick
  <2>3. ASSUME NEW m \in Node, Work(m) PROVE (n \in Registrable \ has)'
    <3>1. pc = "workers" /\ UNCHANGED <<listed, has>>
      BY <2>3 DEF Work, Fails, DialFailed, CallFailed, FailRegistration, Registered,
                  DialSucceeded, Dial, working
    <3>2. worker[m] \notin {"none", "done"} /\ (n # m => worker'[n] = worker[n])
      BY <2>3 DEF Work, Fails, DialFailed, CallFailed, FailRegistration, Registered,
                  DialSucceeded, Dial, TypeOK
    <3> QED  BY <3>1, <3>2 DEF WorkersOfCycle, Registrable
  <2>4. ASSUME NEW m \in Node, Environment(m) PROVE (n \in Registrable \ has)'
    BY <2>4 DEF Environment, PodChanges, SamplerForgets, SamplerReports, ResultExpires,
                local, WorkersOfCycle, Registrable
  <2>5. CASE UNCHANGED vars
    BY <2>5 DEF vars, WorkersOfCycle, Registrable
  <2> QED  BY <2>1, <2>2, <2>3, <2>4, <2>5 DEF Next, Loop
<1>3. IInv => TypeOK
  BY DEF IInv
<1> QED  BY <1>1, <1>2, <1>3, InductiveInvariant, PTL DEF Spec

\* Whatever happens in the cluster during a cycle, the goroutines delete only
\* pods that ran and were without results when the cycle began.
THEOREM DeletesSilent == Spec => DeletesOnlySilent
<1>1. WorkersOfCycle /\ [Next]_vars
        => [\A n \in Node : Deletes(n) => listed[n] = "running" /\ n \notin has]_vars
  <2> SUFFICES ASSUME WorkersOfCycle, Next, NEW n \in Node, Deletes(n)
               PROVE  listed[n] = "running" /\ n \notin has
    OBVIOUS
  <2>1. worker' # worker /\ pods' # pods
    BY DEF Deletes
  <2>2. ~Loop
    BY <2>1 DEF Loop, Start, Lists, List, CheckReadiness, CheckPanics, Spawn, Finish, Tick,
                cluster
  <2>3. ASSUME NEW m \in Node PROVE ~Environment(m)
    BY <2>1 DEF Environment, PodChanges, SamplerForgets, SamplerReports, ResultExpires, local
  <2>4. PICK m \in Node : Work(m)
    BY <2>2, <2>3 DEF Next
  <2>5. Fails(m)
    BY <2>1, <2>4 DEF Work, Registered, DialSucceeded, Dial, working, cluster
  <2>6. pc = "workers" /\ worker[m] \in {"conn", "nil", "rpc"}
        /\ worker' = [worker EXCEPT ![m] = "done"]
    BY <2>5 DEF Fails, DialFailed, CallFailed, FailRegistration
  <2>7. n = m
    BY <2>6 DEF Deletes
  <2> QED  BY <2>6, <2>7 DEF WorkersOfCycle, Registrable
<1> QED  BY <1>1, WorkersInvariant, PTL DEF Spec, DeletesOnlySilent

\* The loop implements the abstract gate that the readers of ServeResults and
\* IsReadyResult rely on.
THEOREM RefinesGate == Spec => ImplementsGate
<1>1. Init => Gate!Init
  BY DEF Init, Gate!Init
<1>2. IInv /\ [Next]_vars => [Gate!Next]_Gate!gate
  <2> SUFFICES ASSUME IInv, [Next]_vars
               PROVE  Gate!Next \/ (serve' = serve /\ ready' = ready)
    BY DEF Gate!gate
  <2>1. serve \in BOOLEAN /\ ready \in BOOLEAN
    BY DEF IInv, TypeOK
  <2>2. CASE Start
    <3>1. ~serve /\ ~ready /\ serve' = (MinPct = 0) /\ ready' = (MinPct = 0)
      BY <2>2 DEF Start, IInv, NothingBeforeStart
    <3> QED  BY <2>1, <3>1 DEF Gate!Next, Gate!OpenReady
  <2>3. CASE CheckReadiness
    <3>1. CASE Checking /\ ReadyPct > MinPct
      <4>1. ~ready /\ serve' = (serve \/ cycles' > WaitServe \/ wait <= 0)
            /\ ready' = (wait <= 0)
        BY <2>3, <3>1 DEF CheckReadiness, Checking
      <4>2. CASE wait <= 0
        <5>1. serve' = TRUE /\ ready' = TRUE
          BY <4>1, <4>2
        <5> QED  BY <4>1, <5>1 DEF Gate!Next, Gate!OpenReady
      <4>3. CASE ~(wait <= 0)
        <5>1. ready' = FALSE /\ ready = FALSE
          BY <4>1, <4>3, <2>1
        <5>2. serve' = serve \/ (~serve /\ serve' = TRUE)
          BY <4>1, <2>1
        <5> QED  BY <5>1, <5>2 DEF Gate!Next, Gate!OpenServe
      <4> QED  BY <4>2, <4>3
    <3>2. CASE ~(Checking /\ ReadyPct > MinPct)
      BY <2>3, <3>2 DEF CheckReadiness, flags
    <3> QED  BY <3>1, <3>2
  <2>4. CASE Lists \/ CheckPanics \/ Spawn \/ Finish \/ Tick
    BY <2>4 DEF Lists, List, CheckPanics, Spawn, Finish, Tick, flags
  <2>5. ASSUME NEW n \in Node, Work(n) PROVE serve' = serve /\ ready' = ready
    BY <2>5 DEF Work, Fails, DialFailed, CallFailed, FailRegistration, Registered,
                DialSucceeded, Dial, working, flags
  <2>6. ASSUME NEW n \in Node, Environment(n) PROVE serve' = serve /\ ready' = ready
    BY <2>6 DEF Environment, PodChanges, SamplerForgets, SamplerReports, ResultExpires, local
  <2>7. CASE UNCHANGED vars
    BY <2>7 DEF vars
  <2> QED  BY <2>2, <2>3, <2>4, <2>5, <2>6, <2>7 DEF Next, Loop
<1> QED  BY <1>1, <1>2, InductiveInvariant, PTL DEF Spec, ImplementsGate, Gate!Spec

\* A loop whose wait for ready is shorter than the number of initial cycles
\* never deletes a sampler pod at all.
DeletionNeedsLongWait == DeleteCycles > WaitReady => deleted = {}

\* The deletion of unregistered samplers is out of reach unless
\* DeleteUnregisteredPodsAfterCycles <= WaitSamplerRegistrationsBeforeReady,
\* because cyclesCount stops growing when the collector is ready.
THEOREM DeletionUnreachable == Spec => []DeletionNeedsLongWait
<1>1. IInv => DeletionNeedsLongWait
  BY DEF IInv, TypeOK, DeletesAfterCycles, DeletionNeedsLongWait
<1> QED  BY <1>1, InductiveInvariant, PTL
=============================================================================
