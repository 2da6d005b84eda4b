----------------------- MODULE UtilizationServerProofs -----------------------
(***************************************************************************)
(* Proof that a punctual node is always served, for any nodes, streams,    *)
(* time to live and length of an expireEntries pass.                       *)
(***************************************************************************)
EXTENDS UtilizationServer, TLAPS

\* A node that is not late is in the map with an age that leaves room for a
\* whole pass.
PunctualIsYoung ==
    \A n \in seen \ late : responses[n] \in 0..(TTL - PassTicks)

\* The copy a pass works on was young when the pass began and has aged by the
\* ticks of the pass only.
PunctualCopyIsYoung ==
    \A n \in seen \ late : snap[n] # None => snap[n] <= TTL - PassTicks + passed

\* Only nodes that have reported are in the map or in the copy.
OnlySeenStored ==
    \A n \in Node : (responses[n] # None \/ snap[n] # None) => n \in seen

\* Between passes there is no copy.
CopyOnlyInPass == ~expiring => \A n \in Node : snap[n] = None

IInv ==
    /\ TypeOK
    /\ PunctualIsYoung
    /\ PunctualCopyIsYoung
    /\ OnlySeenStored
    /\ CopyOnlyInPass

USE TTLAssumption, NoneAssumption DEF Age

LEMMA OlderType ==
    ASSUME NEW a \in Age \cup {None}
    PROVE  /\ Older(a) \in Age \cup {None}
           /\ Older(a) = None <=> a = None
           /\ a # None => Older(a) <= a + 1
BY DEF Older

LEMMA InitIInv == Init => IInv
<1> SUFFICES ASSUME Init PROVE IInv
  OBVIOUS
<1>1. handler \in [Handler -> HandlerState]
  BY DEF Init, HandlerState, Closed
<1>2. passed \in 0..PassTicks
  BY DEF Init
<1>3. expiring \in BOOLEAN /\ seen \in SUBSET Node /\ late \in SUBSET Node
  BY DEF Init
<1>4. responses \in [Node -> Age \cup {None}] /\ snap \in [Node -> Age \cup {None}]
  BY DEF Init
<1>5. TypeOK
  BY <1>1, <1>2, <1>3, <1>4 DEF TypeOK
<1>6. PunctualIsYoung /\ PunctualCopyIsYoung
  BY DEF Init, PunctualIsYoung, PunctualCopyIsYoung
<1>7. OnlySeenStored /\ CopyOnlyInPass
  BY DEF Init, OnlySeenStored, CopyOnlyInPass
<1> QED  BY <1>5, <1>6, <1>7 DEF IInv

LEMMA CacheMetricsIInv ==
    ASSUME IInv, NEW h \in Handler, CacheMetrics(h)
    PROVE  IInv'
<1> DEFINE n == handler[h].node
           a == handler[h].age
<1>1. n \in Node /\ a \in Age
  BY DEF IInv, TypeOK, CacheMetrics, HandlerState
<1>2. /\ responses' = [responses EXCEPT ![n] = a]
      /\ seen' = seen \cup {n}
      /\ late' = IF NearExpiry(a) THEN late \cup {n}
                 ELSE IF snap[n] = None THEN late \ {n} ELSE late
      /\ handler' = [handler EXCEPT ![h] = Receiving]
      /\ UNCHANGED <<snap, expiring, passed>>
  BY DEF CacheMetrics
<1> HIDE DEF n, a
<1>3. Receiving \in HandlerState
  BY DEF Receiving, HandlerState
<1>4. TypeOK'
  BY <1>1, <1>2, <1>3 DEF IInv, TypeOK
<1>5. \A m \in Node : m # n => responses'[m] = responses[m] /\ (m \in seen' \ late' <=> m \in seen \ late)
  BY <1>1, <1>2 DEF IInv, TypeOK
<1>6. n \notin late' => ~NearExpiry(a) /\ (snap[n] = None \/ n \in seen \ late)
  BY <1>1, <1>2 DEF IInv, TypeOK, OnlySeenStored
<1>7. PunctualIsYoung'
  BY <1>1, <1>2, <1>5, <1>6 DEF IInv, TypeOK, PunctualIsYoung, NearExpiry
<1>8. PunctualCopyIsYoung'
  BY <1>1, <1>2, <1>5, <1>6 DEF IInv, TypeOK, PunctualCopyIsYoung
<1>9. OnlySeenStored'
  BY <1>1, <1>2 DEF IInv, TypeOK, OnlySeenStored
<1>10. CopyOnlyInPass'
  BY <1>2 DEF IInv, CopyOnlyInPass
<1> QED  BY <1>4, <1>7, <1>8, <1>9, <1>10 DEF IInv

\* The heart of the matter: the copy of a punctual node's response is judged
\* before it can expire.
LEMMA ExpireEntryIInv ==
    ASSUME IInv, NEW n \in Node, ExpireEntry(n)
    PROVE  IInv'
<1>1. TypeOK'
  BY DEF IInv, TypeOK, ExpireEntry
<1>2. n \in seen \ late => ~Expired(snap[n])
  BY DEF IInv, TypeOK, PunctualCopyIsYoung, Expired, ExpireEntry
<1>3. PunctualIsYoung'
  BY <1>2 DEF IInv, TypeOK, PunctualIsYoung, ExpireEntry
<1>4. PunctualCopyIsYoung' /\ OnlySeenStored'
  BY DEF IInv, TypeOK, PunctualCopyIsYoung, OnlySeenStored, ExpireEntry
<1>5. CopyOnlyInPass'
  BY DEF CopyOnlyInPass, ExpireEntry
<1> QED  BY <1>1, <1>3, <1>4, <1>5 DEF IInv

LEMMA TickIInv ==
    ASSUME IInv, Tick
    PROVE  IInv'
<1>1. /\ responses' = [n \in Node |-> Older(responses[n])]
      /\ snap' = [n \in Node |-> Older(snap[n])]
      /\ late' = late \cup {n \in Node : NearExpiry(responses'[n])}
      /\ seen' = seen /\ expiring' = expiring
      /\ expiring => passed < PassTicks
      /\ passed' = IF expiring THEN passed + 1 ELSE 0
  BY DEF Tick
<1>2. handler' \in [Handler -> HandlerState]
  <2> SUFFICES ASSUME NEW h \in Handler
               PROVE  (IF handler[h].pc = "stamped"
                       THEN [handler[h] EXCEPT !.age = Older(@)]
                       ELSE handler[h]) \in HandlerState
    BY DEF Tick
  <2>1. handler[h] \in HandlerState
    BY DEF IInv, TypeOK
  <2>2. CASE handler[h].pc = "stamped"
    <3>1. handler[h] \in [pc : {"stamped"}, node : Node, age : Age]
      BY <2>1, <2>2 DEF HandlerState
    <3>2. Older(handler[h].age) \in Age
      BY <3>1, OlderType
    <3>3. [handler[h] EXCEPT !.age = Older(@)] \in [pc : {"stamped"}, node : Node, age : Age]
      BY <3>1, <3>2
    <3> QED  BY <2>2, <3>3 DEF HandlerState
  <2> QED  BY <2>1, <2>2
<1>3. /\ \A n \in Node : /\ responses'[n] \in Age \cup {None}
                         /\ responses'[n] = None <=> responses[n] = None
                         /\ snap'[n] \in Age \cup {None}
                         /\ snap'[n] = None <=> snap[n] = None
                         /\ snap[n] # None => snap'[n] <= snap[n] + 1
  BY <1>1, OlderType DEF IInv, TypeOK
<1>4. TypeOK'
  <2>1. responses' \in [Node -> Age \cup {None}] /\ snap' \in [Node -> Age \cup {None}]
    BY <1>1, <1>3
  <2>2. passed' \in 0..PassTicks
    BY <1>1 DEF IInv, TypeOK
  <2>3. late' \in SUBSET Node /\ seen' \in SUBSET Node
    BY <1>1 DEF IInv, TypeOK
  <2>4. expiring' \in BOOLEAN
    BY <1>1 DEF IInv, TypeOK
  <2> QED  BY <1>2, <2>1, <2>2, <2>3, <2>4 DEF TypeOK
<1>5. PunctualIsYoung'
  <2> SUFFICES ASSUME NEW n \in Node, n \in seen' \ late'
               PROVE  responses'[n] \in 0..(TTL - PassTicks)
    BY <1>4 DEF PunctualIsYoung, TypeOK
  <2>1. responses[n] # None /\ ~NearExpiry(responses'[n])
    BY <1>1 DEF IInv, PunctualIsYoung
  <2> QED  BY <2>1, <1>3 DEF NearExpiry
<1>6. PunctualCopyIsYoung'
  <2> SUFFICES ASSUME NEW n \in Node, n \in seen' \ late', snap'[n] # None
               PROVE  snap'[n] <= TTL - PassTicks + passed'
    BY <1>4 DEF PunctualCopyIsYoung, TypeOK
  <2>1. n \in seen \ late /\ snap[n] # None /\ snap[n] \in Age
    BY <1>1, <1>3 DEF IInv, TypeOK
  <2>2. snap[n] <= TTL - PassTicks + passed /\ passed \in Nat
    BY <2>1 DEF IInv, TypeOK, PunctualCopyIsYoung
  <2>3. CASE expiring
    BY <2>1, <2>2, <2>3, <1>1, <1>3
  <2>4. CASE ~expiring
    BY <2>4, <2>1 DEF IInv, CopyOnlyInPass
  <2> QED  BY <2>3, <2>4
<1>7. OnlySeenStored'
  BY <1>1, <1>3 DEF IInv, OnlySeenStored
<1>8. CopyOnlyInPass'
  BY <1>1, <1>3 DEF IInv, CopyOnlyInPass
<1> QED  BY <1>4, <1>5, <1>6, <1>7, <1>8 DEF IInv

LEMMA ExpireTickIInv ==
    ASSUME IInv, ExpireTick
    PROVE  IInv'
<1>1. passed' = 0 /\ snap' = responses /\ expiring' = TRUE
      /\ UNCHANGED <<responses, handler, seen, late>>
  BY DEF ExpireTick
<1>2. TypeOK'
  <2>1. passed' \in 0..PassTicks
    BY <1>1
  <2> QED  BY <1>1, <2>1 DEF IInv, TypeOK
<1>3. PunctualIsYoung' /\ OnlySeenStored' /\ CopyOnlyInPass'
  BY <1>1 DEF IInv, PunctualIsYoung, OnlySeenStored, CopyOnlyInPass
<1>4. PunctualCopyIsYoung'
  <2> SUFFICES ASSUME NEW n \in seen \ late
               PROVE  responses[n] <= TTL - PassTicks + 0
    BY <1>1 DEF PunctualCopyIsYoung
  <2> QED  BY DEF IInv, PunctualIsYoung
<1> QED  BY <1>2, <1>3, <1>4 DEF IInv

LEMMA ExpireDoneIInv ==
    ASSUME IInv, ExpireDone
    PROVE  IInv'
<1>1. /\ passed' = 0 /\ expiring' = FALSE /\ \A n \in Node : snap[n] = None
      /\ UNCHANGED <<responses, handler, snap, seen, late>>
  BY DEF ExpireDone
<1>2. TypeOK'
  <2>1. passed' \in 0..PassTicks
    BY <1>1
  <2> QED  BY <1>1, <2>1 DEF IInv, TypeOK
<1>3. PunctualIsYoung' /\ OnlySeenStored' /\ CopyOnlyInPass'
  BY <1>1 DEF IInv, PunctualIsYoung, OnlySeenStored, CopyOnlyInPass
<1>4. PunctualCopyIsYoung'
  BY <1>1 DEF IInv, TypeOK, PunctualCopyIsYoung
<1> QED  BY <1>2, <1>3, <1>4 DEF IInv

\* A step that only moves a handler, or nothing at all.
LEMMA HandlerOnlyIInv ==
    ASSUME IInv,
           handler' \in [Handler -> HandlerState],
           UNCHANGED <<responses, snap, expiring, passed, seen, late>>
    PROVE  IInv'
BY DEF IInv, TypeOK, PunctualIsYoung, PunctualCopyIsYoung, OnlySeenStored, CopyOnlyInPass

LEMMA NextIInv == IInv /\ [Next]_vars => IInv'
<1> SUFFICES ASSUME IInv, [Next]_vars PROVE IInv'
  OBVIOUS
<1>1. handler \in [Handler -> HandlerState]
  BY DEF IInv, TypeOK
<1>2. ASSUME NEW h \in Handler, Connect(h) PROVE IInv'
  <2>1. handler' \in [Handler -> HandlerState]
    BY <1>1, <1>2 DEF Connect, HandlerState, Receiving
  <2> QED  BY <1>2, <2>1, HandlerOnlyIInv DEF Connect
<1>3. ASSUME NEW h \in Handler, StreamEnds(h) PROVE IInv'
  <2>1. handler' \in [Handler -> HandlerState]
    BY <1>1, <1>3 DEF StreamEnds, HandlerState, Closed
  <2> QED  BY <1>3, <2>1, HandlerOnlyIInv DEF StreamEnds
<1>4. ASSUME NEW h \in Handler, NEW n \in Node, Recv(h, n) PROVE IInv'
  <2>1. [pc |-> "stamped", node |-> n, age |-> 0] \in HandlerState
    BY DEF HandlerState
  <2>2. handler' \in [Handler -> HandlerState]
    BY <1>1, <1>4, <2>1 DEF Recv
  <2> QED  BY <1>4, <2>2, HandlerOnlyIInv DEF Recv
<1>5. CASE UNCHANGED vars
  <2>1. handler' \in [Handler -> HandlerState]
        /\ UNCHANGED <<responses, snap, expiring, passed, seen, late>>
    BY <1>1, <1>5 DEF vars
  <2> QED  BY <2>1, HandlerOnlyIInv
<1> QED  BY <1>2, <1>3, <1>4, <1>5, CacheMetricsIInv, ExpireTickIInv, ExpireEntryIInv,
            ExpireDoneIInv, TickIInv DEF Next

LEMMA InductiveInvariant == Spec => []IInv
BY InitIInv, NextIInv, PTL DEF Spec

\* The cache, the handlers and the copy of expireEntries keep their types: no
\* handler ever stores under an empty node name.
THEOREM TypeCorrect == Spec => []TypeOK
<1>1. IInv => TypeOK
  BY DEF IInv
<1> QED  BY <1>1, InductiveInvariant, PTL

\* A node that keeps reporting early enough is in every reader's copy of the
\* cache, although expireEntries deletes by name what it judged by a copy.
THEOREM PunctualServed == Spec => []PunctualNodeServed
<1>1. IInv => PunctualNodeServed
  <2> SUFFICES ASSUME IInv, NEW n \in seen \ late PROVE n \in GetNodeNames
    BY DEF PunctualNodeServed
  <2>1. n \in Node /\ responses[n] \in 0..(TTL - PassTicks)
    BY DEF IInv, TypeOK, PunctualIsYoung
  <2> QED  BY <2>1 DEF GetNodeNames, Expired
<1> QED  BY <1>1, InductiveInvariant, PTL
=============================================================================
