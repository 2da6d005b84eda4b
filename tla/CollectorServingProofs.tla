----------------------- MODULE CollectorServingProofs -----------------------
(***************************************************************************)
(* Proof that a collector never reports ready with a cached response that  *)
(* was collected before results could be served.                           *)
(***************************************************************************)
EXTENDS CollectorServing, TLAPS

\* ServeResults is never lowered while the process runs, so what was true
\* before the scrape is true during it.
FlagWasUp ==
    /\ metricsReady => serve
    /\ cached => serve

\* A response collected too early belongs to a round that began too early.
EarlyRound == inflight = "early" => ~metricsReady /\ ~cached

\* There is a response in flight when the loop reads one, and only then.
ReadingSomething == loop = "reading" <=> inflight # None

\* The cache loop starts when Start has got past the election.
LoopAfterElection == main # "serving" => loop = "off"

\* What is cached when IsCached is set.
CachedLate == cached => body \notin {"early", None}

IInv ==
    /\ TypeOK
    /\ FlagWasUp
    /\ EarlyRound
    /\ ReadingSomething
    /\ LoopAfterElection
    /\ CachedLate

USE StepsAssumption, ExitAssumption, NoneAssumption

LEMMA InitIInv == Init => IInv
<1> SUFFICES ASSUME Init PROVE IInv
  OBVIOUS
<1>1. tries \in 0..(Steps - 1)
  BY DEF Init
<1>2. TypeOK
  BY <1>1 DEF Init, TypeOK, Gate!Init
<1> QED  BY <1>2 DEF Init, IInv, FlagWasUp, EarlyRound, ReadingSomething, LoopAfterElection,
               CachedLate, Body

\* Steps that leave the cache loop alone and lower no flag it has read.
LEMMA CachingKept ==
    ASSUME IInv, TypeOK', serve => serve',
           UNCHANGED <<metricsReady, tries, inflight, body, cached>>,
           loop' = "reading" <=> loop = "reading",
           LoopAfterElection'
    PROVE  IInv'
BY DEF IInv, FlagWasUp, EarlyRound, ReadingSomething, LoopAfterElection,
               CachedLate

LEMMA ElectionIInv ==
    ASSUME IInv, Start \/ GateStep \/ Acquire \/ OtherLeads \/ StopLeading \/ Callbacks
    PROVE  IInv'
<1>1. CASE Start
  <2>1. TypeOK'
    BY <1>1 DEF IInv, TypeOK, Start
  <2>2. LoopAfterElection' /\ (loop' = "reading" <=> loop = "reading")
    BY <1>1 DEF IInv, LoopAfterElection, Start
  <2> QED  BY <1>1, <2>1, <2>2, CachingKept DEF Start
<1>2. CASE GateStep
  <2>1. serve' \in BOOLEAN /\ ready' \in BOOLEAN /\ (serve => serve')
    BY <1>2 DEF IInv, TypeOK, GateStep, Gate!Next, Gate!OpenServe, Gate!OpenReady
  <2>2. UNCHANGED <<leaderElection, up, main, calls, isLeader, loop, metricsReady, tries,
                    inflight, body, cached>>
    BY <1>2 DEF GateStep, election, caching
  <2>3. TypeOK'
    BY <2>1, <2>2 DEF IInv, TypeOK
  <2>4. LoopAfterElection'
    BY <2>2 DEF IInv, LoopAfterElection
  <2> QED  BY <2>1, <2>2, <2>3, <2>4, CachingKept
<1>3. CASE Acquire
  <2>1. TypeOK'
    BY <1>3 DEF IInv, TypeOK, Acquire, caching
  <2>2. LoopAfterElection' /\ (loop' = "reading" <=> loop = "reading")
    BY <1>3 DEF IInv, LoopAfterElection, Acquire, caching
  <2> QED  BY <1>3, <2>1, <2>2, CachingKept DEF Acquire, caching
<1>4. CASE OtherLeads
  <2>1. TypeOK'
    BY <1>4 DEF IInv, TypeOK, OtherLeads, caching
  <2>2. LoopAfterElection' /\ (loop' = "reading" <=> loop = "reading")
    BY <1>4 DEF IInv, LoopAfterElection, OtherLeads, caching
  <2> QED  BY <1>4, <2>1, <2>2, CachingKept DEF OtherLeads, caching
<1>5. CASE StopLeading
  <2>1. TypeOK'
    BY <1>5 DEF IInv, TypeOK, StopLeading
  <2>2. LoopAfterElection' /\ (loop' = "reading" <=> loop = "reading")
    BY <1>5 DEF IInv, LoopAfterElection, StopLeading
  <2> QED  BY <1>5, <2>1, <2>2, CachingKept DEF StopLeading
<1>6. CASE NewLeader
  <2>0. /\ calls' = calls \ {"other"} /\ isLeader' \in BOOLEAN /\ up' \in BOOLEAN
        /\ UNCHANGED <<leaderElection, main, serve, ready, loop, metricsReady, tries,
                       inflight, body, cached>>
    BY <1>6 DEF NewLeader, caching
  <2>1. TypeOK'
    BY <2>0 DEF IInv, TypeOK
  <2>2. LoopAfterElection' /\ (loop' = "reading" <=> loop = "reading")
    BY <2>0 DEF IInv, LoopAfterElection
  <2> QED  BY <2>0, <2>1, <2>2, CachingKept
<1>7. ASSUME NEW c \in {"started", "self"}, BecomeLeader(c) PROVE IInv'
  <2>1. TypeOK'
    BY <1>7 DEF IInv, TypeOK, BecomeLeader, caching
  <2>2. LoopAfterElection' /\ (loop' = "reading" <=> loop = "reading")
    BY <1>7 DEF IInv, LoopAfterElection, BecomeLeader, caching
  <2> QED  BY <1>7, <2>1, <2>2, CachingKept DEF BecomeLeader, caching
<1> QED  BY <1>1, <1>2, <1>3, <1>4, <1>5, <1>6, <1>7 DEF Callbacks

LEMMA StopsIInv ==
    ASSUME IInv, Stops
    PROVE  IInv'
<1>0. /\ up' \in BOOLEAN
      /\ UNCHANGED <<leaderElection, main, calls, isLeader, serve, ready, loop, metricsReady,
                     tries, inflight, body, cached>>
  BY DEF Stops, election, caching
<1>1. TypeOK'
  BY <1>0 DEF IInv, TypeOK
<1>2. LoopAfterElection' /\ (loop' = "reading" <=> loop = "reading")
  BY <1>0 DEF IInv, LoopAfterElection
<1> QED  BY <1>0, <1>1, <1>2, CachingKept

LEMMA RestartIInv ==
    ASSUME IInv, Restart
    PROVE  IInv'
<1>1. tries' \in 0..(Steps - 1)
  BY DEF Restart
<1>2. TypeOK'
  BY <1>1 DEF IInv, TypeOK, Restart
<1> QED  BY <1>2 DEF Restart, IInv, FlagWasUp, EarlyRound, ReadingSomething, LoopAfterElection,
               CachedLate, Body

LEMMA CacheLoopIInv ==
    ASSUME IInv, CacheLoop
    PROVE  IInv'
<1>1. CASE Load
  <2>1. tries' \in 0..(Steps - 1)
    BY <1>1 DEF Load
  <2>2. TypeOK'
    BY <1>1, <2>1 DEF IInv, TypeOK, Load, election
  <2>3. inflight = None
    BY <1>1 DEF Load, IInv, ReadingSomething
  <2> QED  BY <1>1, <2>2, <2>3
           DEF IInv, Load, election, FlagWasUp, EarlyRound, ReadingSomething, LoopAfterElection,
               CachedLate, Body
<1>2. ASSUME NEW ok \in BOOLEAN, Scrape(ok) PROVE IInv'
  <2>1. Collected(ok) \in Body /\ (Collected(ok) = "early" => ~serve)
    BY DEF Collected, Body, IInv, TypeOK
  <2>2. TypeOK'
    BY <1>2, <2>1 DEF IInv, TypeOK, Scrape, election
  <2> QED  BY <1>2, <2>1, <2>2
           DEF IInv, Scrape, election, FlagWasUp, EarlyRound, ReadingSomething, LoopAfterElection,
               CachedLate
<1>3. CASE Store
  <2>1. TypeOK'
    BY <1>3 DEF IInv, TypeOK, Store, election
  <2> QED  BY <1>3, <2>1
           DEF IInv, Store, election, FlagWasUp, EarlyRound, ReadingSomething, LoopAfterElection,
               CachedLate, Body
<1>4. CASE ScrapeFails
  <2>1. tries' \in 0..(Steps - 1)
    <3>1. CASE tries + 1 < Steps
      BY <1>4, <3>1 DEF IInv, TypeOK, ScrapeFails
    <3>2. CASE ~(tries + 1 < Steps)
      BY <1>4, <3>2 DEF IInv, TypeOK, ScrapeFails
    <3> QED  BY <3>1, <3>2
  <2>2. TypeOK'
    BY <1>4, <2>1 DEF IInv, TypeOK, ScrapeFails, election
  <2> QED  BY <1>4, <2>2
           DEF IInv, ScrapeFails, election, FlagWasUp, EarlyRound, ReadingSomething, LoopAfterElection,
               CachedLate, Body
<1>5. CASE Tick
  <2>1. TypeOK'
    BY <1>5 DEF IInv, TypeOK, Tick, election
  <2>2. LoopAfterElection' /\ (loop' = "reading" <=> loop = "reading")
    BY <1>5 DEF IInv, LoopAfterElection, Tick, election
  <2> QED  BY <1>5, <2>1, <2>2, CachingKept DEF Tick
<1> QED  BY <1>1, <1>2, <1>3, <1>4, <1>5 DEF CacheLoop

LEMMA InductiveInvariant == Spec => []IInv
<1>1. IInv /\ [Next]_vars => IInv'
  <2> SUFFICES ASSUME IInv, [Next]_vars PROVE IInv'
    OBVIOUS
  <2>1. CASE UNCHANGED vars
    BY <2>1 DEF vars, IInv, TypeOK, FlagWasUp, EarlyRound, ReadingSomething, LoopAfterElection,
               CachedLate
  <2>2. CASE Start \/ GateStep \/ Acquire \/ OtherLeads \/ StopLeading \/ Callbacks
    BY <2>2, ElectionIInv
  <2>3. CASE Stops
    BY <2>3, StopsIInv
  <2>4. CASE Restart
    BY <2>4, RestartIInv
  <2>5. CASE CacheLoop
    BY <2>5, CacheLoopIInv
  <2> QED  BY <2>1, <2>2, <2>3, <2>4, <2>5 DEF Next
<1> QED  BY InitIInv, <1>1, PTL DEF Spec

\* The election, the flags and the cache loop keep their types; the loop never
\* counts more attempts than retry.OnError makes.
THEOREM TypeCorrect == Spec => []TypeOK
<1>1. IInv => TypeOK
  BY DEF IInv
<1> QED  BY <1>1, InductiveInvariant, PTL

\* Reading ServeResults before the scrape, and not after it, is enough.
THEOREM ReadyIsHonest == Spec => []ReadyAfterServe
<1>1. IInv => ReadyAfterServe
  BY DEF IInv, CachedLate, ReadyAfterServe, IsReady
<1> QED  BY <1>1, InductiveInvariant, PTL
=============================================================================
