------------------------- MODULE SamplerServerProofs -------------------------
(***************************************************************************)
(* Proofs about SamplerServer for any sets of collectors, incarnations and *)
(* pods and any retry count.                                               *)
(***************************************************************************)
EXTENDS SamplerServer, TLAPS

\* The bookkeeping of a push: outside a push the locals are empty, inside it
\* the connections dealt with are split into the two outcomes.
PushLocals ==
    /\ push \in {"snapshot", "select"} => targets = {}
    /\ push \in {"snapshot", "list", "select"} =>
          sentTo = {} /\ gaveUp = {} /\ resp = {}
    /\ sentTo \cup gaveUp \subseteq targets
    /\ push \in {"cleanup"} => todo = {}

\* Outcomes are kept: a collector that took the response still has it while
\* its stream is open, and a stream that failed never opens again.
PushOutcomes ==
    /\ \A c \in sentTo : stream[c] = "open" => resp \subseteq reported[c]
    /\ \A c \in gaveUp : stream[c] # "open"

\* Only a failed send fills badConnections.
FailureRecorded == gaveUp # {} => sendFailed

\* A watcher that may run belongs to a stream somebody had a reason to stop.
StoppedAfterFailure ==
    (\E c \in watchers : ~Live(c)) => sendFailed \/ push = "done"

IInv ==
    /\ TypeOK
    /\ TableMatchesStreams
    /\ PushLocals
    /\ PushOutcomes
    /\ FailureRecorded
    /\ StoppedAfterFailure
    /\ FinalPushBeforeShutdown

----------------------------------------------------------------------------
(* Three facts about what the operations on the table do to it.            *)

\* addConnectionsIfMissing keeps the map and the live streams together: what
\* it opens was in nobody's hands, what it leaves alone stays.
LEMMA AddKeepsMatch ==
    ASSUME TypeOK, TableMatchesStreams,
           NEW addrs \in SUBSET Addr, addConnectionsIfMissing(addrs)
    PROVE  /\ table' \in [Addr -> Gen \cup {None}]
           /\ stream' \in [Conn -> {"open", "broken", "stopped"}]
           /\ watchers' \in SUBSET Conn
           /\ TableMatchesStreams'
           /\ \A c \in targets : stream'[c] = stream[c]
           /\ \A c \in watchers' : ~Live(c)' => c \in watchers /\ ~Live(c)
           /\ reported' = reported
<1> DEFINE Adds(op, nw) ==
        /\ \A c \in {<<a, nw[a]>> : a \in op} : Fresh(c)
        /\ table' = [a \in Addr |-> IF a \in op THEN nw[a] ELSE table[a]]
        /\ stream' = [c \in Conn |-> IF c \in {<<a, nw[a]>> : a \in op}
                                     THEN "open" ELSE stream[c]]
        /\ watchers' = watchers \cup {<<a, nw[a]>> : a \in op}
        /\ UNCHANGED reported
<1>0. PICK opened \in SUBSET Missing(addrs) : \E nw \in [opened -> Gen] : Adds(opened, nw)
  BY DEF addConnectionsIfMissing
<1>1. PICK new \in [opened -> Gen] : Adds(opened, new)
  BY <1>0
<1> DEFINE made == {<<a, new[a]>> : a \in opened}
<1>2. opened \subseteq Addr /\ \A a \in opened : table[a] = None
  BY DEF Missing
<1>3. made \in SUBSET Conn
  BY <1>2 DEF Conn
<1>4. /\ table' \in [Addr -> Gen \cup {None}]
      /\ stream' \in [Conn -> {"open", "broken", "stopped"}]
      /\ watchers' \in SUBSET Conn
  BY <1>1, <1>2, <1>3 DEF TypeOK
<1>5. \A c \in Conn : c \in made <=> c[1] \in opened /\ c[2] = new[c[1]]
  BY <1>2 DEF Conn
<1>6. TableMatchesStreams'
  <2> SUFFICES ASSUME NEW c \in Conn
               PROVE  (Live(c) <=> c \in Tabled /\ c \in watchers)'
    BY DEF TableMatchesStreams
  <2>1. CASE c \in made
    BY <2>1, <1>1, <1>2, <1>5 DEF Live, Tabled, Conn
  <2>2. CASE c \notin made /\ c[1] \in opened
    <3>1. c \notin Tabled /\ ~Live(c)
      BY <2>2, <1>2, NoneAssumption DEF Tabled, Conn, TableMatchesStreams
    <3>2. c \notin Tabled'
      BY <2>2, <1>1, <1>5 DEF Tabled, Conn
    <3> QED  BY <2>2, <3>1, <3>2, <1>1 DEF Live
  <2>3. CASE c[1] \notin opened
    <3>1. c \notin made /\ (c \in Tabled <=> c \in Tabled')
      BY <2>3, <1>1, <1>5 DEF Tabled, Conn
    <3> QED  BY <3>1, <1>1 DEF Live, TableMatchesStreams
  <2> QED  BY <2>1, <2>2, <2>3
<1>7. \A c \in targets : stream'[c] = stream[c]
  BY <1>1 DEF Fresh, TypeOK
<1>8. \A c \in watchers' : ~Live(c)' => c \in watchers /\ ~Live(c)
  BY <1>1, <1>3 DEF Live, TypeOK
<1> QED  BY <1>1, <1>4, <1>6, <1>7, <1>8

\* removeConnections stops exactly what it takes out of the map.
LEMMA RemoveKeepsMatch ==
    ASSUME TypeOK, TableMatchesStreams, NEW addrs \in SUBSET Addr,
           removeConnections(addrs),
           \A c \in Tabled : c[1] \notin addrs => (c \in watchers <=> c \in watchers')
    PROVE  /\ table' \in [Addr -> Gen \cup {None}]
           /\ stream' \in [Conn -> {"open", "broken", "stopped"}]
           /\ reported' \in [Conn -> SUBSET Pod]
           /\ TableMatchesStreams'
           /\ \A c \in Conn : \/ stream'[c] = "stopped"
                              \/ stream'[c] = stream[c] /\ reported'[c] = reported[c]
<1> DEFINE gone == {c \in Tabled : c[1] \in addrs}
<1>1. /\ table' = [a \in Addr |-> IF a \in addrs THEN None ELSE table[a]]
      /\ stream' = [c \in Conn |-> IF c \in gone THEN "stopped" ELSE stream[c]]
      /\ reported' = [c \in Conn |-> IF c \in gone THEN {} ELSE reported[c]]
  BY DEF removeConnections, StopStreams
<1>2. /\ table' \in [Addr -> Gen \cup {None}]
      /\ stream' \in [Conn -> {"open", "broken", "stopped"}]
      /\ reported' \in [Conn -> SUBSET Pod]
  BY <1>1 DEF TypeOK
<1>3. TableMatchesStreams'
  <2> SUFFICES ASSUME NEW c \in Conn
               PROVE  (Live(c) <=> c \in Tabled /\ c \in watchers)'
    BY DEF TableMatchesStreams
  <2>1. CASE c[1] \in addrs
    <3>1. c \notin Tabled'
      BY <2>1, <1>1, NoneAssumption DEF Tabled, Conn
    <3>2. ~Live(c)'
      BY <2>1, <1>1 DEF Live, TableMatchesStreams
    <3> QED  BY <3>1, <3>2
  <2>2. CASE c[1] \notin addrs
    <3>1. c \notin gone /\ (c \in Tabled <=> c \in Tabled')
      BY <2>2, <1>1 DEF Tabled, Conn
    <3> QED  BY <2>2, <3>1, <1>1 DEF Live, TableMatchesStreams
  <2> QED  BY <2>1, <2>2
<1>4. \A c \in Conn : \/ stream'[c] = "stopped"
                      \/ stream'[c] = stream[c] /\ reported'[c] = reported[c]
  BY <1>1
<1> QED  BY <1>2, <1>3, <1>4

\* PushOutcomes survives any step that opens no stream of the snapshot and
\* forgets no report on a stream it leaves alone.
LEMMA OutcomesKept ==
    ASSUME PushLocals, PushOutcomes, FinalPushBeforeShutdown,
           UNCHANGED <<targets, sentTo, gaveUp, resp, push, final>>,
           \A c \in targets : \/ stream'[c] # "open"
                              \/ stream'[c] = stream[c] /\ reported'[c] = reported[c]
    PROVE  PushLocals' /\ PushOutcomes' /\ FinalPushBeforeShutdown'
<1>1. PushLocals'
  BY DEF PushLocals, todo
<1>2. PushOutcomes'
  BY DEF PushOutcomes, PushLocals
<1>3. FinalPushBeforeShutdown'
  BY DEF FinalPushBeforeShutdown
<1> QED  BY <1>1, <1>2, <1>3

----------------------------------------------------------------------------
(* The inductive step, in one lemma per group of actions.                  *)

LEMMA InitIInv == Init => IInv
<1> SUFFICES ASSUME Init PROVE IInv
  OBVIOUS
<1>1. TypeOK
  <2>1. tries \in 0..RetryCount
    BY RetryAssumption DEF Init
  <2>2. /\ table \in [Addr -> Gen \cup {None}]
        /\ stream \in [Conn -> {"open", "broken", "stopped"}]
        /\ reported \in [Conn -> SUBSET Pod]
        /\ push \in {"snapshot", "list", "send", "cleanup", "select", "stopping", "done"}
        /\ sources \in SUBSET {"dns", "rpc"}
    BY DEF Init
  <2> QED  BY <2>1, <2>2 DEF Init, TypeOK
<1>2. TableMatchesStreams
  BY DEF Init, TableMatchesStreams, Live
<1>3. PushLocals /\ PushOutcomes /\ FailureRecorded
  BY DEF Init, PushLocals, PushOutcomes, FailureRecorded, todo
<1>4. StoppedAfterFailure /\ FinalPushBeforeShutdown
  BY DEF Init, StoppedAfterFailure, FinalPushBeforeShutdown
<1> QED  BY <1>1, <1>2, <1>3, <1>4 DEF IInv

\* Steps of the sample cache, the registration goroutines' ends and the
\* process touch neither the connections nor the push loop.
LEMMA OutsideKeepsIInv ==
    ASSUME IInv, UNCHANGED <<connVars, loopVars>>, TypeOK'
    PROVE  IInv'
<1> USE DEF connVars, loopVars, pushVars
<1>1. TableMatchesStreams'
  BY DEF IInv, TableMatchesStreams, Live, Tabled
<1>2. PushLocals' /\ PushOutcomes' /\ FailureRecorded'
  BY DEF IInv, PushLocals, PushOutcomes, FailureRecorded, todo
<1>3. StoppedAfterFailure' /\ FinalPushBeforeShutdown'
  BY DEF IInv, StoppedAfterFailure, FinalPushBeforeShutdown, Live
<1> QED  BY <1>1, <1>2, <1>3 DEF IInv

LEMMA RegisterIInv ==
    ASSUME IInv, NEW src, NEW ips \in SUBSET Addr, Register(src, ips)
    PROVE  IInv'
<1> USE DEF loopVars, pushVars, cacheVars, procVars
<1>1. TypeOK /\ TableMatchesStreams /\ addConnectionsIfMissing(ips)
  BY DEF IInv, Register
<1>2. /\ table' \in [Addr -> Gen \cup {None}]
      /\ stream' \in [Conn -> {"open", "broken", "stopped"}]
      /\ watchers' \in SUBSET Conn
      /\ TableMatchesStreams'
      /\ \A c \in targets : stream'[c] = stream[c]
      /\ \A c \in watchers' : ~Live(c)' => c \in watchers /\ ~Live(c)
      /\ reported' = reported
  BY <1>1, AddKeepsMatch
<1>3. TypeOK'
  BY <1>2 DEF IInv, TypeOK, Register
<1>4. PushLocals' /\ PushOutcomes' /\ FinalPushBeforeShutdown'
  BY <1>2, OutcomesKept DEF IInv, Register
<1>5. StoppedAfterFailure' /\ FailureRecorded'
  BY <1>2 DEF IInv, StoppedAfterFailure, FailureRecorded, Register
<1> QED  BY <1>2, <1>3, <1>4, <1>5 DEF IInv

LEMMA WatcherIInv ==
    ASSUME IInv, NEW w \in Conn, Watcher(w)
    PROVE  IInv'
<1> USE DEF loopVars, pushVars, cacheVars, procVars
<1>1. /\ TypeOK /\ TableMatchesStreams /\ removeConnections({w[1]})
      /\ {w[1]} \in SUBSET Addr
      /\ \A c \in Tabled : c[1] \notin {w[1]} => (c \in watchers <=> c \in watchers')
  BY DEF IInv, Watcher, Conn
<1>2. /\ table' \in [Addr -> Gen \cup {None}]
      /\ stream' \in [Conn -> {"open", "broken", "stopped"}]
      /\ reported' \in [Conn -> SUBSET Pod]
      /\ TableMatchesStreams'
      /\ \A c \in Conn : \/ stream'[c] = "stopped"
                         \/ stream'[c] = stream[c] /\ reported'[c] = reported[c]
  BY <1>1, RemoveKeepsMatch
<1>3. TypeOK'
  BY <1>2 DEF IInv, TypeOK, Watcher
<1>4. PushLocals' /\ PushOutcomes' /\ FinalPushBeforeShutdown'
  BY <1>2, OutcomesKept DEF IInv, TypeOK, Watcher
<1>5. FailureRecorded'
  BY DEF IInv, FailureRecorded, Watcher
<1>6. StoppedAfterFailure'
  BY DEF IInv, StoppedAfterFailure, Watcher
<1> QED  BY <1>2, <1>3, <1>4, <1>5, <1>6 DEF IInv

LEMMA StreamBreaksIInv ==
    ASSUME IInv, NEW c \in Conn, StreamBreaks(c)
    PROVE  IInv'
<1> USE DEF loopVars, pushVars, cacheVars, procVars
<1>1. TypeOK'
  BY DEF IInv, TypeOK, StreamBreaks
<1>2. stream' = [stream EXCEPT ![c] = "broken"] /\ stream[c] = "open"
      /\ stream \in [Conn -> {"open", "broken", "stopped"}]
  BY DEF IInv, TypeOK, StreamBreaks
<1>3. \A d \in Conn : Live(d)' <=> Live(d)
  BY <1>2 DEF Live
<1>4. TableMatchesStreams'
  BY <1>3 DEF IInv, TableMatchesStreams, Tabled, StreamBreaks
<1>5. PushLocals' /\ PushOutcomes' /\ FinalPushBeforeShutdown'
  BY <1>2, OutcomesKept DEF IInv, TypeOK, StreamBreaks
<1>6. FailureRecorded' /\ StoppedAfterFailure'
  BY <1>3 DEF IInv, TypeOK, FailureRecorded, StoppedAfterFailure, StreamBreaks
<1> QED  BY <1>1, <1>4, <1>5, <1>6 DEF IInv

LEMMA ReturnIInv ==
    ASSUME IInv, NEW r \in SUBSET Pod, Return(r),
           push \in {"list", "cleanup"},
           TableMatchesStreams',
           table' \in [Addr -> Gen \cup {None}],
           stream' \in [Conn -> {"open", "broken", "stopped"}],
           reported' \in [Conn -> SUBSET Pod],
           StoppedAfterFailure',
           \A c \in Conn : \/ stream'[c] = "stopped"
                           \/ stream'[c] = stream[c] /\ reported'[c] = reported[c],
           UNCHANGED <<watchers, final, sendFailed, cacheVars, procVars>>
    PROVE  IInv'
<1> USE DEF pushVars, cacheVars, procVars
<1>1. TypeOK'
  BY DEF IInv, TypeOK, Return
<1>2. CASE final
  <2>1. push' = "stopping" /\ UNCHANGED <<targets, sentTo, gaveUp, cur, tries, resp, lastSent>>
    BY <1>2 DEF Return
  <2>2. PushLocals'
    BY <2>1 DEF IInv, PushLocals
  <2>3. PushOutcomes'
    BY <2>1 DEF IInv, TypeOK, PushOutcomes
  <2>4. \A c \in targets : c \in sentTo \cup gaveUp \/ resp = {}
    BY DEF IInv, PushLocals, todo
  <2>5. FinalPushBeforeShutdown'
    BY <1>2, <2>1, <2>3, <2>4 DEF FinalPushBeforeShutdown, PushOutcomes
  <2>6. FailureRecorded'
    BY <2>1 DEF IInv, FailureRecorded
  <2> QED  BY <1>1, <2>2, <2>3, <2>5, <2>6 DEF IInv
<1>3. CASE ~final
  <2>1. /\ push' = "select"
        /\ targets' = {} /\ sentTo' = {} /\ gaveUp' = {} /\ resp' = {}
    BY <1>3 DEF Return
  <2>2. PushLocals' /\ PushOutcomes' /\ FailureRecorded' /\ FinalPushBeforeShutdown'
    BY <2>1 DEF PushLocals, PushOutcomes, FailureRecorded, FinalPushBeforeShutdown, todo
  <2> QED  BY <1>1, <2>2 DEF IInv
<1> QED  BY <1>2, <1>3

LEMMA PushStartIInv ==
    ASSUME IInv, NEW last \in BOOLEAN, StartPush(last)
    PROVE  IInv'
<1> USE DEF connVars, pushVars, cacheVars, procVars
<1>1. TypeOK'
  BY DEF IInv, TypeOK, StartPush
<1>2. TableMatchesStreams'
  BY DEF IInv, TableMatchesStreams, Live, Tabled, StartPush
<1>3. PushLocals' /\ PushOutcomes' /\ FailureRecorded'
  BY DEF IInv, PushLocals, PushOutcomes, FailureRecorded, todo, StartPush
<1>4. StoppedAfterFailure' /\ FinalPushBeforeShutdown'
  BY DEF IInv, StoppedAfterFailure, FinalPushBeforeShutdown, Live, StartPush
<1> QED  BY <1>1, <1>2, <1>3, <1>4 DEF IInv

LEMMA PushLoopIInv ==
    ASSUME IInv, PushLoop
    PROVE  IInv'
<1> USE DEF cacheVars, procVars
<1>1. CASE getConnections
  <2> USE <1>1 DEF connVars, getConnections
  <2>1. Tabled \in SUBSET Conn
    BY DEF Tabled
  <2>2. TypeOK'
    BY <2>1 DEF IInv, TypeOK
  <2>3. TableMatchesStreams'
    BY DEF IInv, TableMatchesStreams, Live, Tabled
  <2>4. PushLocals' /\ PushOutcomes' /\ FailureRecorded'
    BY DEF IInv, PushLocals, PushOutcomes, FailureRecorded
  <2>5. StoppedAfterFailure' /\ FinalPushBeforeShutdown'
    BY DEF IInv, StoppedAfterFailure, FinalPushBeforeShutdown, Live
  <2> QED  BY <2>2, <2>3, <2>4, <2>5 DEF IInv
<1>2. CASE ListMetrics
  <2> USE DEF connVars, ListMetrics
  <2>1. TableMatchesStreams'
    BY <1>2 DEF IInv, TableMatchesStreams, Live, Tabled
  <2>2. CASE sampled = {} /\ Return({})
    <3>1. StoppedAfterFailure'
      BY <1>2 DEF IInv, StoppedAfterFailure, Live
    <3> QED  BY <1>2, <2>1, <2>2, <3>1, ReturnIInv DEF IInv, TypeOK
  <2>3. CASE push' = "send" /\ resp' = sampled
             /\ UNCHANGED <<targets, sentTo, gaveUp, cur, tries, lastSent>>
    <3>1. TypeOK'
      BY <1>2, <2>3 DEF IInv, TypeOK
    <3>2. PushLocals' /\ PushOutcomes' /\ FailureRecorded'
      BY <1>2, <2>3 DEF IInv, PushLocals, PushOutcomes, FailureRecorded
    <3>3. StoppedAfterFailure' /\ FinalPushBeforeShutdown'
      BY <1>2, <2>3 DEF IInv, StoppedAfterFailure, FinalPushBeforeShutdown, Live
    <3> QED  BY <2>1, <3>1, <3>2, <3>3 DEF IInv
  <2> QED  BY <1>2, <2>2, <2>3
<1>3. ASSUME NEW c \in Conn, Send(c) PROVE IInv'
  <2> USE <1>3 DEF Send
  <2>1. TableMatchesStreams'
    BY DEF IInv, TableMatchesStreams, Live, Tabled
  <2>2. StoppedAfterFailure'
    BY DEF IInv, StoppedAfterFailure, Live, SendOk, SendRetry, SendGiveUp
  <2>3. FinalPushBeforeShutdown'
    BY DEF FinalPushBeforeShutdown
  <2>4. CASE SendOk(c)
    <3>1. TypeOK'
      BY <2>4, RetryAssumption DEF IInv, TypeOK, SendOk
    <3>2. PushLocals' /\ FailureRecorded'
      BY <2>4 DEF IInv, PushLocals, FailureRecorded, SendOk, todo
    <3>3. PushOutcomes'
      BY <2>4 DEF IInv, TypeOK, PushOutcomes, SendOk
    <3> QED  BY <2>1, <2>2, <2>3, <3>1, <3>2, <3>3 DEF IInv
  <2>5. CASE SendRetry(c)
    <3>1. TypeOK'
      BY <2>5, RetryAssumption DEF IInv, TypeOK, SendRetry
    <3>2. PushLocals' /\ FailureRecorded' /\ PushOutcomes'
      BY <2>5 DEF IInv, PushLocals, FailureRecorded, PushOutcomes, SendRetry, todo
    <3> QED  BY <2>1, <2>2, <2>3, <3>1, <3>2 DEF IInv
  <2>6. CASE SendGiveUp(c)
    <3>1. TypeOK'
      BY <2>6, RetryAssumption DEF IInv, TypeOK, SendGiveUp
    <3>2. PushLocals' /\ FailureRecorded' /\ PushOutcomes'
      BY <2>6 DEF IInv, PushLocals, FailureRecorded, PushOutcomes, SendGiveUp, todo
    <3> QED  BY <2>1, <2>2, <2>3, <3>1, <3>2 DEF IInv
  <2> QED  BY <2>4, <2>5, <2>6
<1>4. CASE SendDone
  <2> USE <1>4 DEF SendDone, connVars, pushVars
  <2>1. TypeOK'
    BY DEF IInv, TypeOK
  <2>2. TableMatchesStreams' /\ StoppedAfterFailure'
    BY DEF IInv, TableMatchesStreams, StoppedAfterFailure, Live, Tabled
  <2>3. PushLocals' /\ PushOutcomes' /\ FailureRecorded' /\ FinalPushBeforeShutdown'
    BY DEF IInv, PushLocals, PushOutcomes, FailureRecorded,
           FinalPushBeforeShutdown, todo
  <2> QED  BY <2>1, <2>2, <2>3 DEF IInv
<1>5. CASE removeBadConnections
  <2> USE <1>5 DEF removeBadConnections
  <2>1. TypeOK /\ TableMatchesStreams /\ badConnections \in SUBSET Addr
    BY DEF IInv, TypeOK, badConnections, Conn
  <2>2. /\ table' \in [Addr -> Gen \cup {None}]
        /\ stream' \in [Conn -> {"open", "broken", "stopped"}]
        /\ reported' \in [Conn -> SUBSET Pod]
        /\ TableMatchesStreams'
        /\ \A c \in Conn : \/ stream'[c] = "stopped"
                           \/ stream'[c] = stream[c] /\ reported'[c] = reported[c]
    BY <2>1, RemoveKeepsMatch
  <2>3. StoppedAfterFailure'
    <3>1. CASE gaveUp = {}
      <4>1. stream' = stream
        BY <3>1 DEF IInv, TypeOK, removeConnections, StopStreams, badConnections
      <4> QED  BY <4>1 DEF IInv, StoppedAfterFailure, Live
    <3>2. CASE gaveUp # {}
      BY <3>2 DEF IInv, FailureRecorded, StoppedAfterFailure
    <3> QED  BY <3>1, <3>2
  <2> QED  BY <2>2, <2>3, ReturnIInv DEF IInv, TypeOK
<1>6. CASE shutdownAllConnections
  <2> USE <1>6 DEF shutdownAllConnections, pushVars
  <2>1. TypeOK'
    BY DEF IInv, TypeOK, StopStreams
  <2>2. TableMatchesStreams'
    BY NoneAssumption DEF IInv, TypeOK, TableMatchesStreams, Live, Tabled, StopStreams, Conn
  <2>3. StoppedAfterFailure' /\ FailureRecorded' /\ PushLocals'
    BY DEF IInv, StoppedAfterFailure, FailureRecorded, PushLocals
  <2>4. \A c \in Conn : \/ stream'[c] = "stopped"
                        \/ stream'[c] = stream[c] /\ reported'[c] = reported[c]
    BY DEF StopStreams
  <2>5. PushOutcomes' /\ FinalPushBeforeShutdown'
    BY <2>4 DEF IInv, TypeOK, PushOutcomes, FinalPushBeforeShutdown
  <2> QED  BY <2>1, <2>2, <2>3, <2>5 DEF IInv
<1> QED  BY <1>1, <1>2, <1>3, <1>4, <1>5, <1>6 DEF PushLoop

LEMMA NextIInv == IInv /\ [Next]_vars => IInv'
<1> SUFFICES ASSUME IInv, [Next]_vars PROVE IInv'
  OBVIOUS
<1>1. CASE PushLoop
  BY <1>1, PushLoopIInv
<1>2. CASE PeriodicSync \/ CreatedPodTick \/ ShutdownSync
  BY <1>2, PushStartIInv DEF PeriodicSync, CreatedPodTick, ShutdownSync
<1>3. ASSUME NEW c \in Conn, Watcher(c) \/ StreamBreaks(c) PROVE IInv'
  BY <1>3, WatcherIInv, StreamBreaksIInv
<1>4. ASSUME NEW src \in {"dns", "rpc"}, NEW ips \in SUBSET Addr, Register(src, ips)
      PROVE IInv'
  BY <1>4, RegisterIInv
<1>5. ASSUME NEW src \in {"dns", "rpc"}, StopRegistering(src) PROVE IInv'
  <2>1. TypeOK' /\ UNCHANGED <<connVars, loopVars>>
    BY <1>5 DEF IInv, TypeOK, StopRegistering, connVars, loopVars, pushVars, cacheVars
  <2> QED  BY <2>1, OutsideKeepsIInv
<1>6. ASSUME NEW pods \in SUBSET Pod, FetchSample(pods) \/ AddSample(pods)
      PROVE IInv'
  <2>1. TypeOK' /\ UNCHANGED <<connVars, loopVars>>
    BY <1>6 DEF IInv, TypeOK, FetchSample, AddSample, connVars, loopVars,
                pushVars, procVars
  <2> QED  BY <2>1, OutsideKeepsIInv
<1>7. CASE Stop \/ Exit
  <2>1. TypeOK' /\ UNCHANGED <<connVars, loopVars>>
    BY <1>7 DEF IInv, TypeOK, Stop, Exit, connVars, loopVars, pushVars, cacheVars
  <2> QED  BY <2>1, OutsideKeepsIInv
<1>8. CASE UNCHANGED vars
  <2>1. TypeOK' /\ UNCHANGED <<connVars, loopVars>>
    BY <1>8 DEF IInv, TypeOK, vars, connVars, loopVars, pushVars, cacheVars, procVars
  <2> QED  BY <2>1, OutsideKeepsIInv
<1> QED  BY <1>1, <1>2, <1>3, <1>4, <1>5, <1>6, <1>7, <1>8 DEF Next

LEMMA InductiveInvariant == Spec => []IInv
BY InitIInv, NextIInv, PTL DEF Spec

----------------------------------------------------------------------------
(* The theorems.                                                           *)

\* Every variable of the push side keeps its type.
THEOREM TypeCorrect == Spec => []TypeOK
BY InductiveInvariant, PTL DEF IInv

\* collectorConnections holds exactly the streams that are not stopped,
\* whatever the interleaving of registrations, watchers, pushes and shutdown.
THEOREM NoLeakedStream == Spec => []TableMatchesStreams
BY InductiveInvariant, PTL DEF IInv

\* Collectors whose sends succeed are not disconnected before shutdown, by no
\* interleaving of registrations, DNS polls, watchers and pushes.
THEOREM StopsFollowFailures == Spec => StopsNeedAFailure
<1> DEFINE Excused == \A c \in Conn : Live(c) /\ ~Live(c)'
                            => sendFailed \/ push \in {"stopping", "done"}
<1>1. IInv /\ [Next]_vars => [Excused]_vars
  <2> SUFFICES ASSUME IInv, Next PROVE Excused
    BY DEF vars
  <2> USE DEF Live
  <2>1. CASE PushLoop
    <3>1. CASE removeBadConnections
      <4>1. CASE gaveUp = {}
        <5>1. badConnections = {}
          BY <4>1 DEF badConnections
        <5>2. stream' = stream
          BY <3>1, <5>1 DEF IInv, TypeOK, removeBadConnections, removeConnections, StopStreams
        <5> QED  BY <5>2
      <4>2. CASE gaveUp # {}
        BY <4>2 DEF IInv, FailureRecorded
      <4> QED  BY <4>1, <4>2
    <3>2. CASE shutdownAllConnections
      BY <3>2 DEF shutdownAllConnections
    <3>3. CASE getConnections \/ ListMetrics \/ SendDone
      BY <3>3 DEF getConnections, ListMetrics, SendDone, connVars
    <3>4. CASE \E c \in Conn : Send(c)
      BY <3>4 DEF Send
    <3> QED  BY <2>1, <3>1, <3>2, <3>3, <3>4 DEF PushLoop
  <2>2. CASE PeriodicSync \/ CreatedPodTick \/ ShutdownSync
    BY <2>2 DEF PeriodicSync, CreatedPodTick, ShutdownSync, StartPush, connVars
  <2>3. ASSUME NEW c \in Conn, Watcher(c) PROVE Excused
    BY <2>3 DEF IInv, StoppedAfterFailure, Watcher
  <2>4. ASSUME NEW c \in Conn, StreamBreaks(c) PROVE Excused
    BY <2>4 DEF IInv, TypeOK, StreamBreaks
  <2>5. ASSUME NEW src \in {"dns", "rpc"}, NEW ips \in SUBSET Addr, Register(src, ips)
        PROVE Excused
    <3>1. PICK made : stream' = [c \in Conn |-> IF c \in made THEN "open" ELSE stream[c]]
      BY <2>5 DEF Register, addConnectionsIfMissing
    <3> QED  BY <3>1
  <2>6. CASE \/ \E src \in {"dns", "rpc"} : StopRegistering(src)
             \/ \E pods \in SUBSET Pod : FetchSample(pods) \/ AddSample(pods)
             \/ Stop \/ Exit
    BY <2>6 DEF StopRegistering, FetchSample, AddSample, Stop, Exit, connVars
  <2> HIDE DEF Excused
  <2> QED  BY <2>1, <2>2, <2>3, <2>4, <2>5, <2>6 DEF Next
<1> QED  BY <1>1, InductiveInvariant, PTL DEF Spec, StopsNeedAFailure

\* After the sends of a push, its reachable collectors have the response.
THEOREM PushServesSnapshot == Spec => []PushReachesOpenTargets
<1>1. IInv => PushReachesOpenTargets
  BY DEF IInv, PushLocals, PushOutcomes, PushReachesOpenTargets, todo
<1> QED  BY <1>1, InductiveInvariant, PTL

\* The push loop shuts its connections down only after the final push.
THEOREM FinalPushFirst == Spec => []FinalPushBeforeShutdown
BY InductiveInvariant, PTL DEF IInv
=============================================================================
