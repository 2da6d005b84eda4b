-------------------------- MODULE UtilizationServer --------------------------
(***************************************************************************)
(* The collector's cache of sampler responses:                             *)
(* pkg/collector/utilization/sampler_collector.go.                         *)
(*                                                                         *)
(* Every stream a sampler opens has a PushMetrics handler of its own; all  *)
(* of them, the expireEntries goroutine and the readers share Responses    *)
(* under ResponseMutex.  A handler stamps a message and then stores it;    *)
(* expireEntries copies the map, lets the lock go, and deletes by node     *)
(* name what was too old in the copy.                                      *)
(*                                                                         *)
(* A response is reduced to its age, the time since its Timestamp, which   *)
(* stops counting at TTL + 1: the code only compares ages with the ttl.    *)
(***************************************************************************)
EXTENDS Integers

CONSTANTS
    Node,       \* node names
    Handler,    \* PushMetrics handlers, one per stream
    TTL,        \* ttl, in clock ticks
    PassTicks,  \* clock ticks that may go by during one pass of expireEntries
    None        \* absent

ASSUME TTLAssumption == TTL \in Nat /\ PassTicks \in 0..TTL
ASSUME NoneAssumption == None \notin Int /\ None \notin Node

Age == 0..(TTL + 1)

VARIABLES
    responses,  \* Responses: node -> age of its response, or None
    handler,    \* per handler: where it stands, the message it has stamped
    snap,       \* what the pass of expireEntries has yet to look at
    expiring,   \* a pass is under way
    passed,     \* ticks since it began
    seen,       \* history: nodes that have had a response stored
    late        \* history: nodes whose response was close to expiry at some
                \* moment since they last reported outside of a pass

vars == <<responses, handler, snap, expiring, passed, seen, late>>

HandlerState ==
    [pc : {"closed", "recv"}, node : {None}, age : {0}]
        \cup [pc : {"stamped"}, node : Node, age : Age]

Closed == [pc |-> "closed", node |-> None, age |-> 0]
Receiving == [pc |-> "recv", node |-> None, age |-> 0]

TypeOK ==
    /\ responses \in [Node -> Age \cup {None}]
    /\ handler \in [Handler -> HandlerState]
    /\ snap \in [Node -> Age \cup {None}]
    /\ expiring \in BOOLEAN
    /\ passed \in 0..PassTicks
    /\ seen \in SUBSET Node
    /\ late \in SUBSET Node

Init ==
    /\ responses = [n \in Node |-> None]
    /\ handler = [h \in Handler |-> Closed]
    /\ snap = [n \in Node |-> None]
    /\ expiring = FALSE
    /\ passed = 0
    /\ seen = {}
    /\ late = {}

----------------------------------------------------------------------------
(* Reading the cache.                                                      *)

\* Fault: a response of age ttl already counts as expired.
ExpiredAtTTL(a) == a >= TTL

\* time.Since(v.Timestamp) > s.ttl
Expired(a) == a > TTL

\* The nodes whose response a reader is given (getMetrics(true) and
\* GetNodeNames drop what has expired and is still in the map).
GetNodeNames == {n \in Node : responses[n] # None /\ ~Expired(responses[n])}

\* The age a response must not pass for the node to be out of danger: a pass
\* of expireEntries may judge a copy that ages during the pass.
NearExpiry(a) == a # None /\ a > TTL - PassTicks

----------------------------------------------------------------------------
(* PushMetrics.                                                            *)

Connect(h) ==
    /\ handler[h].pc = "closed"
    /\ handler' = [handler EXCEPT ![h] = Receiving]
    /\ UNCHANGED <<responses, snap, expiring, passed, seen, late>>

\* Recv returns EOF, a cancelled context or another error: the handler ends
\* and leaves the node's response in the cache.
StreamEnds(h) ==
    /\ handler[h].pc = "recv"
    /\ handler' = [handler EXCEPT ![h] = Closed]
    /\ UNCHANGED <<responses, snap, expiring, passed, seen, late>>

\* Fault: a message without a node name is kept.
RecvNameless(h, n) ==
    /\ handler[h].pc = "recv"
    /\ handler' = [handler EXCEPT ![h] = [pc |-> "stamped", node |-> None, age |-> 0]]
    /\ UNCHANGED <<responses, snap, expiring, passed, seen, late>>

\* A message is received and stamped with the time of receipt.  A message
\* without a node name is dropped, which changes nothing.
Recv(h, n) ==
    /\ handler[h].pc = "recv"
    /\ handler' = [handler EXCEPT ![h] = [pc |-> "stamped", node |-> n, age |-> 0]]
    /\ UNCHANGED <<responses, snap, expiring, passed, seen, late>>

\* The stamped message replaces the node's response.
CacheMetrics(h) ==
    /\ handler[h].pc = "stamped"
    /\ LET n == handler[h].node
           a == handler[h].age
       IN /\ responses' = [responses EXCEPT ![n] = a]
          /\ seen' = seen \cup {n}
          /\ late' = IF NearExpiry(a) THEN late \cup {n}
                     ELSE IF snap[n] = None THEN late \ {n} ELSE late
    /\ handler' = [handler EXCEPT ![h] = Receiving]
    /\ UNCHANGED <<snap, expiring, passed>>

----------------------------------------------------------------------------
(* expireEntries.                                                          *)

\* The ticker fires and the map is copied.
ExpireTick ==
    /\ ~expiring
    /\ expiring' = TRUE
    /\ passed' = 0
    /\ snap' = responses
    /\ UNCHANGED <<responses, handler, seen, late>>

\* Fault: the pass counts expired entries and never clears them.
ExpireEntryKeeps(n) ==
    /\ expiring
    /\ snap[n] # None
    /\ snap' = [snap EXCEPT ![n] = None]
    /\ UNCHANGED <<responses, handler, expiring, passed, seen, late>>

\* The loop body for one entry of the copy: judge the copied response,
\* ClearMetrics whatever the map holds for the node by now.  A copy only gets
\* older, so judging it when it is cleared instead of just before is the same.
ExpireEntry(n) ==
    /\ expiring
    /\ snap[n] # None
    /\ snap' = [snap EXCEPT ![n] = None]
    /\ responses' = IF Expired(snap[n]) THEN [responses EXCEPT ![n] = None]
                    ELSE responses
    /\ UNCHANGED <<handler, expiring, passed, seen, late>>

ExpireDone ==
    /\ expiring
    /\ \A n \in Node : snap[n] = None
    /\ expiring' = FALSE
    /\ passed' = 0
    /\ UNCHANGED <<responses, handler, snap, seen, late>>

----------------------------------------------------------------------------
(* Time.                                                                   *)

Older(a) == IF a = None \/ a > TTL THEN a ELSE a + 1

\* The clock: everything that carries a timestamp gets older.  A pass of
\* expireEntries takes no longer than PassTicks.
Tick ==
    /\ expiring => passed < PassTicks
    /\ passed' = IF expiring THEN passed + 1 ELSE 0
    /\ responses' = [n \in Node |-> Older(responses[n])]
    /\ snap' = [n \in Node |-> Older(snap[n])]
    /\ handler' = [h \in Handler |->
                      IF handler[h].pc = "stamped"
                      THEN [handler[h] EXCEPT !.age = Older(@)]
                      ELSE handler[h]]
    /\ late' = late \cup {n \in Node : NearExpiry(responses'[n])}
    /\ UNCHANGED <<expiring, seen>>

Expire == ExpireTick \/ ExpireDone \/ \E n \in Node : ExpireEntry(n)

Next ==
    \/ \E h \in Handler : \/ Connect(h) \/ StreamEnds(h) \/ CacheMetrics(h)
                          \/ \E n \in Node : Recv(h, n)
    \/ ExpireTick
    \/ \E n \in Node : ExpireEntry(n)
    \/ ExpireDone
    \/ Tick

Spec == Init /\ [][Next]_vars

\* Time goes by, the ticker fires and the loop over a finite copy ends, and a
\* handler that has stamped a message stores it.
Fairness ==
    /\ WF_vars(Tick)
    /\ WF_vars(Expire)
    /\ \A h \in Handler : WF_vars(CacheMetrics(h))

FairSpec == Spec /\ Fairness

----------------------------------------------------------------------------
(* Properties.                                                             *)

\* "There should be no [gaps] in data": a node that has reported and whose
\* response never came within a pass of its expiry is in what readers get,
\* whatever expireEntries, other handlers and the clock do.
PunctualNodeServed == seen \ late \subseteq GetNodeNames

\* The response of a node that has fallen silent does not stay in the map.
SilentNodeExpires ==
    \A n \in Node :
        <>[](\A h \in Handler : handler[h].node # n) => <>[](responses[n] = None)
=============================================================================
