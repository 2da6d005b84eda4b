-------------------------- MODULE SampleCacheProofs --------------------------
(***************************************************************************)
(* Proofs, for any keys, ring size and bounds, and a word that is large    *)
(* enough, that the ring of the sample cache is the window of the last     *)
(* samples, that a rate spans one poll and overstates nothing, and that a  *)
(* mean lies between the values it is reported with.                       *)
(***************************************************************************)
EXTENDS SampleCache, FiniteSetTheorems, TLAPS

\* No sample is from the future, and while an attempt runs all of them are
\* older than what it has read.
Timely ==
    /\ \A i \in Slot : \A k \in Key : ring[i][k].time <= clock
    /\ pc \in {"memory", "rest"} =>
          /\ clock > 0
          /\ \A i \in Slot : \A k \in Key : ring[i][k].time < clock
          /\ \A k \in Key : cpu[k].time \in {0, clock}

\* A sampler that runs may make another attempt.
AttemptsLeft == pc # "stopped" => tries < Steps

\* Without cadvisor a sample that was read is later than the one before.
TimesGrow ==
    ~cadvisor =>
        \A k \in Key : \A a \in 0..(Size - 2) :
            At(a)[k].has /\ At(a)[k].time # 0 => At(a + 1)[k].time < At(a)[k].time

IInv == TypeOK /\ Timely /\ RatesSpanOnePoll /\ TimesGrow /\ AttemptsLeft

\* What a key used before its counter was last set back, going by a reading.
Lost(r) == r.cpuTime - r.cum

\* A reading does not claim more than the kernel has recorded since.
Honest(k, r) ==
    /\ r.cum <= r.cpuTime /\ r.cpuTime <= used[k]
    /\ Lost(r) <= used[k] - cum[k]

Bounded ==
    /\ clock <= MaxClock
    /\ \A k \in Key : cum[k] <= used[k] /\ used[k] <= MaxUse

\* The readings of the attempt that runs and of the ring are honest, and those
\* of the ring were made before.
Readings ==
    /\ \A k \in Key : IF cpu[k].time = 0 THEN cpu[k].cum = 0 ELSE Honest(k, cpu[k])
    /\ \A i \in Slot : \A k \in Key : ring[i][k].cum <= MaxUse
    /\ ~cadvisor =>
          \A i \in Slot : \A k \in Key : ring[i][k].time # 0 =>
              /\ Honest(k, ring[i][k])
              /\ cpu[k].time # 0 => Lost(ring[i][k]) <= Lost(cpu[k])

\* An accepted rate is the difference of the counters over that of the times,
\* rounded down, unless the counter is lower than before: then it is zero.
Measured(old, new) ==
    new.has /\ new.rate <= MaxRate =>
        /\ new.rate > 0 => /\ new.time # 0
                           /\ new.rate * (new.time - old.time) <= new.cum - old.cum
        /\ new.time # 0 => new.cum - old.cum < (new.rate + 1) * (new.time - old.time)

RatesMeasured ==
    ~cadvisor =>
        \A k \in Key : \A a \in 0..(Size - 2) : Measured(At(a + 1)[k], At(a)[k])

LossesGrow ==
    ~cadvisor =>
        \A k \in Key : \A a \in 0..(Size - 2) :
            At(a + 1)[k].time # 0 /\ At(a)[k].time # 0 => Lost(At(a + 1)[k]) <= Lost(At(a)[k])

UseInv == Bounded /\ Readings /\ RatesMeasured /\ LossesGrow

USE SizeAssumption, WordAssumption, BoundsAssumption

----------------------------------------------------------------------------
(* The operators of the model.                                             *)

LEMMA SlotArithmetic ==
    ASSUME NEW p \in Slot
    PROVE  /\ After(p) \in Slot
           /\ \A a \in Slot : Back(p, a) \in Slot
           /\ Back(After(p), 0) = After(p)
           /\ Back(p, 0) = p
           /\ \A a \in 1..(Size - 1) : /\ Back(After(p), a) = Back(p, a - 1)
                                       /\ Back(After(p), a) # After(p)
BY DEF Slot, After, Back

LEMMA QuotientNat ==
    ASSUME NEW x \in Nat, NEW y \in Nat \ {0}
    PROVE  x \div y \in Nat
OBVIOUS

LEMMA RemainderNat ==
    ASSUME NEW x \in Int
    PROVE  x % Word \in Nat
OBVIOUS

LEMMA QuotientFacts ==
    ASSUME NEW x \in Nat, NEW y \in Nat \ {0}
    PROVE  /\ (x \div y) * y <= x
           /\ x < ((x \div y) + 1) * y
OBVIOUS

LEMMA RemainderFacts ==
    ASSUME NEW x \in Int
    PROVE  /\ 0 <= x /\ x < Word => x % Word = x
           /\ x < 0 /\ 0 <= x + Word => x % Word = x + Word
OBVIOUS

LEMMA ProductMonotonic ==
    ASSUME NEW m \in Int, NEW n \in Int, NEW t \in Nat, m <= n
    PROVE m * t <= n * t
OBVIOUS

LEMMA ProductStrict ==
    ASSUME NEW m \in Int, NEW n \in Int, NEW t \in Nat \ {0}, m * t < n * t
    PROVE m < n
OBVIOUS

LEMMA WordFacts ==
    ASSUME NEW sec \in 1..MaxClock
    PROVE (MaxRate + 1) * sec <= Word - MaxUse /\ MaxUse < Word
<1>1. (MaxRate + 1) * sec <= (MaxRate + 1) * MaxClock
  OBVIOUS
<1>2. (MaxRate + 1) * sec >= 1
  OBVIOUS
<1> QED  BY <1>1, <1>2, WordIsLarge

LEMMA RateNat ==
    ASSUME NEW old \in Nat, NEW new \in Nat, NEW sec \in Int
    PROVE  NormalizeSeconds(old, new, sec) \in Nat
<1>1. (new - old) % Word \in Nat
  BY RemainderNat
<1>2. CASE sec > 0
  <2>1. NormalizeSeconds(old, new, sec) = ((new - old) % Word) \div sec
    BY <1>2 DEF NormalizeSeconds
  <2> QED  BY <2>1, <1>1, <1>2, QuotientNat
<1>3. CASE sec = 0
  BY <1>3 DEF NormalizeSeconds
<1>4. CASE sec < 0
  BY <1>4 DEF NormalizeSeconds
<1> QED  BY <1>2, <1>3, <1>4

\* What a key becomes: a rate only with a last sample that was read, and
\* nothing but the rate and the OOM events is new.
LEMMA MetricToSampleFacts ==
    ASSUME NEW last \in Instant, NEW c \in Reading, NEW m \in MemReading
    PROVE  /\ MetricToSample(last, c, m) \in Instant
           /\ MetricToSample(last, c, m).time = c.time
           /\ MetricToSample(last, c, m).has => last.time # 0
           /\ c.time = 0 => MetricToSample(last, c, m).rate = 0
<1> DEFINE s == [time |-> c.time, cum |-> c.cum, oom |-> m.oom, has |-> FALSE, rate |-> 0,
                 far |-> FALSE, ooms |-> 0, cpuTime |-> c.cpuTime, events |-> m.events]
<1>1. s \in Instant
  BY DEF Instant, Reading, MemReading
<1>2. CASE last.time = 0
  <2>1. MetricToSample(last, c, m) = s
    BY <1>2 DEF MetricToSample, SampleDelta
  <2> QED  BY <2>1, <1>1 DEF Instant
<1>3. CASE last.time # 0
  <2> DEFINE rate == NormalizeSeconds(last.cum, s.cum, s.time - last.time)
  <2> DEFINE delta == (s.oom - last.oom) % Word
  <2>1. rate \in Nat
    <3>1. last.cum \in Nat /\ s.cum \in Nat /\ s.time - last.time \in Int
      BY <1>1 DEF Instant
    <3> QED  BY <3>1, RateNat
  <2>2. delta \in Nat
    <3>1. s.oom - last.oom \in Int
      BY <1>1 DEF Instant
    <3> QED  BY <3>1, RemainderNat
  <2>3. MetricToSample(last, c, m) = [s EXCEPT !.has = TRUE, !.rate = rate, !.ooms = delta]
    BY <1>3 DEF MetricToSample, SampleDelta
  <2>4. c.time = 0 => rate = 0
    <3>1. last.time \in Nat /\ (c.time = 0 => s.time - last.time < 0)
      BY <1>3 DEF Instant
    <3> QED  BY <3>1 DEF NormalizeSeconds
  <2> HIDE DEF rate, delta
  <2> QED  BY <2>1, <2>2, <2>3, <2>4, <1>1, <1>3 DEF Instant
<1> QED  BY <1>2, <1>3

LEMMA ReadingTypes ==
    ASSUME TypeOK, NEW k \in Key
    PROVE  /\ \A now \in Nat : LevelCPUMetrics(k, now) \in Reading
           /\ \A now \in Nat : LevelCPUMetrics(k, now).time \in {0, now}
           /\ \A b \in BOOLEAN : LevelMemoryMetrics(k, b) \in MemReading
           /\ NoCPU[k] \in Reading /\ NoCPU[k].time = 0
           /\ NoMemory[k] \in MemReading
BY DEF TypeOK, LevelCPUMetrics, LevelMemoryMetrics, Reading, MemReading, NoCPU, NoMemory

\* The instant of a key in the sample that is added.
LEMMA AddedFacts ==
    ASSUME TypeOK, Timely, pc = "rest", NEW k \in Key,
           NEW stamp \in [Key -> 0..clock], NEW throttled
    PROVE  LET new == Added(k, stamp, throttled)
           IN  /\ new \in Instant
               /\ new.time <= clock
               /\ stamp[k] = 0 => new.time \in {0, clock}
               /\ new.has => LastSample(k).time # 0
               /\ new.rate > 0 => new.time = clock
<1>1. LastSample(k) \in Instant
  BY DEF TypeOK, LastSample
<1>2. clock \in Nat /\ used[k] \in Nat
  BY DEF TypeOK
<1>3. /\ ToSample(k) \in Instant
      /\ ToSample(k).time \in {0, clock}
      /\ ToSample(k).has => LastSample(k).time # 0
      /\ ToSample(k).time = 0 => ToSample(k).rate = 0
  <2>1. CASE k \in level
    <3> DEFINE c == LevelCPUMetrics(k, clock)
    <3> DEFINE m == [oom |-> 0, events |-> 0]
    <3>1. c \in Reading /\ c.time \in {0, clock}
      BY <1>2, ReadingTypes
    <3>2. m \in MemReading
      BY DEF MemReading
    <3>3. ToSample(k) = MetricToSample(LastSample(k), c, m)
      BY <2>1 DEF ToSample
    <3> HIDE DEF c, m
    <3> QED  BY <3>1, <3>2, <3>3, <1>1, MetricToSampleFacts
  <2>2. CASE k \notin level /\ k \in got
    <3>1. cpu[k] \in Reading /\ mem[k] \in MemReading /\ cpu[k].time \in {0, clock}
      BY DEF TypeOK, Timely
    <3>2. ToSample(k) = MetricToSample(LastSample(k), cpu[k], mem[k])
      BY <2>2 DEF ToSample
    <3> QED  BY <3>1, <3>2, <1>1, MetricToSampleFacts
  <2>3. CASE k \notin level /\ k \notin got
    <3>1. ToSample(k) = ZeroInstant
      BY <2>3 DEF ToSample
    <3> QED  BY <3>1 DEF ZeroInstant, Instant
  <2> QED  BY <2>1, <2>2, <2>3
<1> DEFINE r == IF k \in throttled THEN Throttled(ToSample(k)) ELSE ToSample(k)
<1>4. /\ r \in Instant /\ r.time = ToSample(k).time /\ r.has = ToSample(k).has
      /\ r.rate = ToSample(k).rate
  <2> DEFINE s == ToSample(k)
  <2>1. s \in Instant
    BY <1>3
  <2> HIDE DEF s
  <2>2. /\ Throttled(s) \in Instant /\ Throttled(s).time = s.time /\ Throttled(s).has = s.has
        /\ Throttled(s).rate = s.rate
    BY <2>1 DEF Throttled, Instant
  <2> QED  BY <2>1, <2>2 DEF s
<1>5. Added(k, stamp, throttled) = WithNetwork(k, r, stamp[k])
  BY DEF Added
<1>6. stamp[k] \in 0..clock
  OBVIOUS
<1> DEFINE new == Added(k, stamp, throttled)
<1> DEFINE t == stamp[k]
<1>7. new = IF r.time < t THEN [r EXCEPT !.time = t, !.cpuTime = used[k]] ELSE r
  BY <1>5 DEF WithNetwork
<1> HIDE DEF new, r, t
<1>8. /\ r \in Instant /\ r.time \in {0, clock} /\ (r.has => LastSample(k).time # 0)
      /\ (r.rate > 0 => r.time = clock)
  BY <1>3, <1>4
<1>9. t \in 0..clock /\ t \in Nat
  BY <1>2, <1>6 DEF t
<1>10. CASE r.time < t
  <2>1. r.time = 0 /\ ~(r.rate > 0)
    BY <1>2, <1>8, <1>9, <1>10
  <2>2. /\ new \in Instant /\ new.time = t /\ new.has = r.has /\ new.rate = r.rate
    BY <1>2, <1>7, <1>8, <1>9, <1>10 DEF Instant
  <2> QED  BY <2>1, <2>2, <1>8, <1>9, <1>10, <1>2 DEF new, t
<1>11. CASE ~(r.time < t)
  <2>1. new = r
    BY <1>7, <1>11
  <2> QED  BY <2>1, <1>2, <1>8 DEF new
<1> QED  BY <1>10, <1>11

\* Adding a sample shifts the window by one.
LEMMA RingShifts ==
    ASSUME TypeOK, NEW s \in [Key -> Instant], AddSample(s)
    PROVE  /\ ring' \in [Slot -> [Key -> Instant]]
           /\ pos' \in Slot
           /\ At(0)' = s
           /\ \A a \in 1..(Size - 1) : At(a)' = At(a - 1)
           /\ \A i \in Slot : ring'[i] = s \/ ring'[i] = ring[i]
<1>1. /\ pos \in Slot /\ After(pos) \in Slot
      /\ \A a \in 1..(Size - 1) : Back(pos, a - 1) \in Slot
  <2>1. \A a \in 1..(Size - 1) : a - 1 \in Slot
    BY DEF Slot
  <2>2. pos \in Slot
    BY DEF TypeOK
  <2> QED  BY <2>1, <2>2, SlotArithmetic
<1>2. pos' = After(pos) /\ ring' = [ring EXCEPT ![After(pos)] = s]
  BY DEF AddSample
<1>3. ring \in [Slot -> [Key -> Instant]]
  BY DEF TypeOK
<1>4. Back(pos', 0) = pos'
  BY <1>1, <1>2, SlotArithmetic
<1>5. \A a \in 1..(Size - 1) : Back(pos', a) = Back(pos, a - 1) /\ Back(pos', a) # pos'
  BY <1>1, <1>2, SlotArithmetic
<1>6. At(0)' = s
  BY <1>1, <1>2, <1>3, <1>4 DEF At
<1>7. \A a \in 1..(Size - 1) : At(a)' = At(a - 1)
  BY <1>1, <1>2, <1>3, <1>5 DEF At
<1> QED  BY <1>1, <1>2, <1>3, <1>6, <1>7

----------------------------------------------------------------------------
(* The inductive invariant.                                                *)

LEMMA InitIInv == Init => IInv
<1> SUFFICES ASSUME Init PROVE IInv
  OBVIOUS
<1>1. ZeroInstant \in Instant /\ 0 \in Slot
  BY DEF ZeroInstant, Instant, Slot
<1>2. NoCPU \in [Key -> Reading] /\ NoMemory \in [Key -> MemReading]
  BY DEF NoCPU, NoMemory, Reading, MemReading
<1>3. ring \in [Slot -> [Key -> Instant]]
  BY <1>1 DEF Init, NoSample
<1>4. TypeOK
  <2>1. cadvisor \in BOOLEAN /\ syncing \in BOOLEAN
    BY DEF Init
  <2>2. /\ cum \in [Key -> Nat] /\ ooms \in [Key -> Nat]
        /\ used \in [Key -> Nat] /\ died \in [Key -> Nat]
    BY DEF Init
  <2>3. /\ level \in SUBSET Key /\ source \in {"cgroup", "containerd"} /\ here \in SUBSET Key
        /\ cpuKnown \in SUBSET Key /\ memKnown \in SUBSET Key /\ got \in SUBSET Key
    BY DEF Init
  <2>4. clock \in Nat /\ tries \in 0..Steps /\ pc \in {"tick", "memory", "rest", "stopped"}
    BY DEF Init
  <2>5. pos \in Slot /\ cpu \in [Key -> Reading] /\ mem \in [Key -> MemReading]
    BY <1>1, <1>2 DEF Init
  <2> QED  BY <2>1, <2>2, <2>3, <2>4, <2>5, <1>3 DEF TypeOK
<1>5. \A i \in Slot : \A k \in Key : ring[i][k] = ZeroInstant
  BY DEF Init, NoSample
<1>6. Timely
  BY <1>5 DEF Init, Timely, ZeroInstant
<1>7. \A a \in Slot : Back(pos, a) \in Slot
  BY <1>4, SlotArithmetic DEF TypeOK
<1>8. RatesSpanOnePoll
  BY <1>5, <1>7 DEF RatesSpanOnePoll, At, ZeroInstant, Slot
<1>9. AttemptsLeft
  BY DEF Init, AttemptsLeft
<1>10. TimesGrow
  BY <1>5, <1>7 DEF TimesGrow, At, ZeroInstant, Slot
<1> QED  BY <1>4, <1>6, <1>8, <1>9, <1>10 DEF IInv

\* A step that leaves the cache alone, whose clock does not run backwards and
\* which does not disturb a running attempt.
LEMMA QuietStep ==
    ASSUME IInv, TypeOK', UNCHANGED <<cache, cadvisor>>, AttemptsLeft',
           \/ pc' \in {"tick", "stopped"} /\ clock' >= clock
           \/ UNCHANGED <<pc, clock, cpu>>
           \/ pc = "memory" /\ UNCHANGED <<clock, cpu>>
           \/ clock' = clock + 1 /\ \A k \in Key : cpu'[k].time \in {0, clock'}
    PROVE  IInv'
<1>1. clock \in Nat /\ clock' \in Nat
  BY DEF IInv, TypeOK
<1>2. \A i \in Slot : \A k \in Key : ring'[i][k].time = ring[i][k].time
  BY DEF cache
<1>3. \A i \in Slot : \A k \in Key : ring[i][k].time \in Nat
  BY DEF IInv, TypeOK, Instant
<1>4. Timely'
  BY <1>1, <1>2, <1>3 DEF IInv, Timely
<1>5. RatesSpanOnePoll'
  BY DEF IInv, RatesSpanOnePoll, cache, At
<1>6. TimesGrow'
  BY DEF IInv, TimesGrow, cache, At
<1> QED  BY <1>4, <1>5, <1>6 DEF IInv

LEMMA FetchSucceedsIInv ==
    ASSUME IInv, NEW stamp \in [Key -> 0..clock], NEW throttled, FetchSucceeds(stamp, throttled)
    PROVE  IInv'
<1> DEFINE s == [k \in Key |-> Added(k, stamp, throttled)]
<1>1. pc = "rest" /\ TypeOK /\ Timely /\ RatesSpanOnePoll /\ TimesGrow
  BY DEF FetchSucceeds, IInv
<1>2. \A k \in Key : /\ s[k] \in Instant
                     /\ s[k].time <= clock
                     /\ ~cadvisor => s[k].time \in {0, clock}
                     /\ s[k].has => LastSample(k).time # 0
                     /\ s[k].rate > 0 => s[k].time = clock
  <2> TAKE k \in Key
  <2>1. s[k] = Added(k, stamp, throttled)
    OBVIOUS
  <2>2. ~cadvisor => stamp[k] = 0
    <3>1. stamp[k] \in 0..clock
      OBVIOUS
    <3> QED  BY <3>1 DEF FetchSucceeds
  <2> HIDE DEF s
  <2> QED  BY <2>1, <2>2, <1>1, AddedFacts
<1>3. s \in [Key -> Instant]
  BY <1>2
<1>4. AddSample(s)
  BY DEF FetchSucceeds
<1> HIDE DEF s
<1>5. /\ ring' \in [Slot -> [Key -> Instant]] /\ pos' \in Slot
      /\ At(0)' = s
      /\ \A a \in 1..(Size - 1) : At(a)' = At(a - 1)
      /\ \A i \in Slot : ring'[i] = s \/ ring'[i] = ring[i]
  BY <1>1, <1>3, <1>4, RingShifts
<1>6. NoCPU \in [Key -> Reading] /\ NoMemory \in [Key -> MemReading]
  BY DEF NoCPU, NoMemory, Reading, MemReading
<1>7. TypeOK'
  BY <1>1, <1>5, <1>6 DEF TypeOK, FetchSucceeds, config, reader, kernel
<1>8. clock \in Nat /\ clock' = clock /\ pc' = "tick"
  BY <1>1 DEF TypeOK, FetchSucceeds
<1>9. Timely'
  <2>1. \A k \in Key : s[k].time <= clock
    BY <1>2, <1>8
  <2>2. \A i \in Slot : \A k \in Key : ring'[i][k].time <= clock
    BY <2>1, <1>1, <1>5 DEF Timely
  <2> QED  BY <2>2, <1>8 DEF Timely
<1>10. ASSUME NEW k \in Key, NEW a \in 0..(Size - 2), At(a)'[k].has
       PROVE  /\ At(a + 1)'[k].time # 0
              /\ At(a)'[k].rate > 0 => At(a + 1)'[k].time < At(a)'[k].time
              /\ ~cadvisor /\ At(a)'[k].time # 0 => At(a + 1)'[k].time < At(a)'[k].time
  <2>1. At(a + 1)' = At(a) /\ a + 1 \in 1..(Size - 1)
    BY <1>5
  <2>2. CASE a = 0
    <3>1. At(0) = ring[pos] /\ pos \in Slot
      BY <1>1, SlotArithmetic DEF At, TypeOK
    <3>2. LastSample(k) = At(a)[k] /\ At(a)[k].time < clock
      BY <3>1, <2>2, <1>1 DEF LastSample, Timely
    <3> QED  BY <3>2, <2>1, <2>2, <1>2, <1>5, <1>8, <1>10
  <2>3. CASE a # 0
    <3>1. At(a)' = At(a - 1) /\ a - 1 \in 0..(Size - 2) /\ (a - 1) + 1 = a
      BY <2>3, <1>5
    <3> QED  BY <3>1, <2>1, <1>1, <1>10 DEF RatesSpanOnePoll, TimesGrow
  <2> QED  BY <2>2, <2>3
<1>11. cadvisor' = cadvisor
  BY DEF FetchSucceeds, config
<1>12. RatesSpanOnePoll' /\ TimesGrow'
  BY <1>10, <1>11 DEF RatesSpanOnePoll, TimesGrow
<1>13. AttemptsLeft'
  BY DEF FetchSucceeds, AttemptsLeft
<1> QED  BY <1>7, <1>9, <1>12, <1>13 DEF IInv

LEMMA KernelIInv == ASSUME IInv, Kernel PROVE IInv'
<1>1. UNCHANGED <<config, clock, cache, reader, fetch>>
  BY DEF Kernel, Run, OutOfMemory, RemoveCGroup, CreateCGroup
<1>2. /\ here' \in SUBSET Key /\ cum' \in [Key -> Nat] /\ ooms' \in [Key -> Nat]
      /\ used' \in [Key -> Nat] /\ died' \in [Key -> Nat]
  BY DEF Kernel, Run, OutOfMemory, RemoveCGroup, CreateCGroup, IInv, TypeOK
<1>3. TypeOK'
  BY <1>1, <1>2 DEF IInv, TypeOK, config, cache, reader, fetch
<1>4. UNCHANGED <<pc, clock, cpu, cadvisor>>
  BY <1>1 DEF fetch, config
<1>5. AttemptsLeft'
  BY <1>1 DEF IInv, AttemptsLeft, fetch
<1> QED  BY <1>1, <1>3, <1>4, <1>5, QuietStep

LEMMA SyncIInv == ASSUME IInv, SyncCPUFiles \/ SyncMemoryFiles PROVE IInv'
<1>1. UNCHANGED <<config, clock, cache, fetch, kernel>>
  BY DEF SyncCPUFiles, SyncMemoryFiles
<1>2. cpuKnown' \in SUBSET Key /\ memKnown' \in SUBSET Key /\ syncing' \in BOOLEAN
  BY DEF SyncCPUFiles, SyncMemoryFiles, Walk, IInv, TypeOK
<1>3. TypeOK'
  BY <1>1, <1>2 DEF IInv, TypeOK, config, cache, fetch, kernel
<1>4. UNCHANGED <<pc, clock, cpu, cadvisor>>
  BY <1>1 DEF fetch, config
<1>5. AttemptsLeft'
  BY <1>1 DEF IInv, AttemptsLeft, fetch
<1> QED  BY <1>1, <1>3, <1>4, <1>5, QuietStep

LEMMA ReadCPUIInv == ASSUME IInv, ReadCPU PROVE IInv'
<1>1. TypeOK /\ clock \in Nat /\ clock' = clock + 1
  BY DEF IInv, TypeOK, ReadCPU
<1>2. \A k \in Key : cpu'[k] \in Reading /\ cpu'[k].time \in {0, clock'}
  <2> TAKE k \in Key
  <2>1. cpu'[k] = LevelCPUMetrics(k, clock + 1) \/ cpu'[k] = NoCPU[k]
    BY DEF ReadCPU
  <2> QED  BY <2>1, <1>1, ReadingTypes
<1>3. cpu' \in [Key -> Reading]
  BY <1>2 DEF ReadCPU
<1>4. TypeOK'
  BY <1>1, <1>3 DEF TypeOK, ReadCPU, config, cache, reader, kernel
<1>5. UNCHANGED <<cache, cadvisor>>
  BY DEF ReadCPU, config
<1>6. AttemptsLeft'
  BY DEF IInv, AttemptsLeft, ReadCPU
<1> QED  BY <1>1, <1>2, <1>4, <1>5, <1>6, QuietStep

LEMMA ReadMemoryIInv == ASSUME IInv, ReadMemory PROVE IInv'
<1>1. TypeOK
  BY DEF IInv
<1>2. \A k \in Key : mem'[k] \in MemReading
  <2> TAKE k \in Key
  <2>1. \/ mem'[k] = LevelMemoryMetrics(k, k \in memKnown \cap here)
        \/ mem'[k] = NoMemory[k]
    BY DEF ReadMemory
  <2>2. (k \in memKnown \cap here) \in BOOLEAN
    OBVIOUS
  <2> QED  BY <2>1, <2>2, <1>1, ReadingTypes
<1>3. mem' \in [Key -> MemReading]
  BY <1>2 DEF ReadMemory
<1>4. TypeOK'
  BY <1>1, <1>3 DEF TypeOK, ReadMemory, config, cache, reader, kernel
<1>5. UNCHANGED <<cache, cadvisor>> /\ pc = "memory" /\ UNCHANGED <<clock, cpu>>
  BY DEF ReadMemory, config
<1>6. AttemptsLeft'
  BY DEF IInv, AttemptsLeft, ReadMemory
<1> QED  BY <1>4, <1>5, <1>6, QuietStep

LEMMA ReadContainerdIInv ==
    ASSUME IInv, NEW failed, NEW noCPU, NEW noMemory, ReadContainerd(failed, noCPU, noMemory)
    PROVE  IInv'
<1>1. TypeOK /\ clock \in Nat /\ clock' = clock + 1
  BY DEF IInv, TypeOK, ReadContainerd
<1>2. \A k \in Key : cpu'[k] \in Reading /\ cpu'[k].time \in {0, clock'}
  <2> TAKE k \in Key
  <2>1. cpu'[k] = LevelCPUMetrics(k, clock + 1) \/ cpu'[k] = NoCPU[k]
    BY DEF ReadContainerd
  <2> QED  BY <2>1, <1>1, ReadingTypes
<1>3. \A k \in Key : mem'[k] \in MemReading
  <2> TAKE k \in Key
  <2>1. mem'[k] = LevelMemoryMetrics(k, k \notin noMemory) \/ mem'[k] = NoMemory[k]
    BY DEF ReadContainerd
  <2>2. (k \notin noMemory) \in BOOLEAN
    OBVIOUS
  <2> QED  BY <2>1, <2>2, <1>1, ReadingTypes
<1>4. cpu' \in [Key -> Reading] /\ mem' \in [Key -> MemReading]
  BY <1>2, <1>3 DEF ReadContainerd
<1>5. TypeOK'
  BY <1>1, <1>4 DEF TypeOK, ReadContainerd, config, cache, reader, kernel
<1>6. UNCHANGED <<cache, cadvisor>>
  BY DEF ReadContainerd, config
<1>7. AttemptsLeft'
  BY DEF IInv, AttemptsLeft, ReadContainerd
<1> QED  BY <1>1, <1>2, <1>5, <1>6, <1>7, QuietStep

LEMMA FetchFailsIInv == ASSUME IInv, FetchFails PROVE IInv'
<1>1. NoCPU \in [Key -> Reading] /\ NoMemory \in [Key -> MemReading]
  BY DEF NoCPU, NoMemory, Reading, MemReading
<1>2. tries \in Nat /\ tries < Steps
  BY DEF IInv, AttemptsLeft, FetchFails, TypeOK
<1>3. TypeOK'
  BY <1>1, <1>2 DEF IInv, TypeOK, FetchFails, config, cache, reader, kernel
<1>4. AttemptsLeft'
  BY <1>2 DEF FetchFails, AttemptsLeft
<1>5. UNCHANGED <<cache, cadvisor>> /\ pc' \in {"tick", "stopped"} /\ clock' >= clock
  BY DEF FetchFails, IInv, TypeOK, config
<1> QED  BY <1>3, <1>4, <1>5, QuietStep

LEMMA NextIInv == IInv /\ [Next]_vars => IInv'
<1> SUFFICES ASSUME IInv, [Next]_vars PROVE IInv'
  OBVIOUS
<1>1. CASE Kernel
  BY <1>1, KernelIInv
<1>2. CASE SyncCPUFiles \/ SyncMemoryFiles
  BY <1>2, SyncIInv
<1>3. CASE ReadCPU
  BY <1>3, ReadCPUIInv
<1>4. CASE ReadMemory
  BY <1>4, ReadMemoryIInv
<1>5. CASE FetchFails
  BY <1>5, FetchFailsIInv
<1>6. CASE \E failed, noCPU, noMemory \in SUBSET Container :
              ReadContainerd(failed, noCPU, noMemory)
  BY <1>6, ReadContainerdIInv
<1>7. CASE \E stamp \in [Key -> 0..clock], throttled \in SUBSET Key :
              FetchSucceeds(stamp, throttled)
  BY <1>7, FetchSucceedsIInv
<1>8. CASE UNCHANGED vars
  <2>1. UNCHANGED <<config, clock, cache, reader, fetch, kernel>>
    BY <1>8 DEF vars
  <2>2. TypeOK' /\ AttemptsLeft'
    BY <2>1 DEF IInv, TypeOK, AttemptsLeft, config, cache, reader, fetch, kernel
  <2>3. UNCHANGED <<pc, clock, cpu>> /\ UNCHANGED <<cache, cadvisor>>
    BY <2>1 DEF fetch, config
  <2> QED  BY <2>2, <2>3, QuietStep
<1> QED  BY <1>1, <1>2, <1>3, <1>4, <1>5, <1>6, <1>7, <1>8 DEF Next, Fetch

\* The types hold whatever the kernel, the services and the goroutine that
\* renews the lists do while samples are fetched.
THEOREM TypeCorrect == Spec => []TypeOK
<1>1. IInv => TypeOK
  BY DEF IInv
<1> QED  BY <1>1, InitIInv, NextIInv, PTL DEF Spec

\* computeSampleDelta only ever meets the sample just before, which has a time,
\* and gives a rate other than zero only to a later one: whichever polls fail,
\* whichever keys they miss and however cadvisor dates what it adds.
THEOREM RatesSpan == Spec => []RatesSpanOnePoll
<1>1. IInv => RatesSpanOnePoll
  BY DEF IInv
<1> QED  BY <1>1, InitIInv, NextIInv, PTL DEF Spec

----------------------------------------------------------------------------
(* The ring implements the window.                                         *)

LEMMA InitWindow == Init => Window!Init
<1> SUFFICES ASSUME Init PROVE [a \in Slot |-> At(a)] = [a \in Slot |-> NoSample]
  BY DEF Window!Init, Window!Age, Slot
<1>1. pos \in Slot
  BY DEF Init, Slot
<1>2. \A a \in Slot : At(a) = NoSample
  BY <1>1, SlotArithmetic DEF Init, At
<1> QED  BY <1>2

LEMMA StepWindow ==
    IInv /\ [Next]_vars => [Window!Add]_([a \in Slot |-> At(a)])
<1> SUFFICES ASSUME IInv, [Next]_vars
             PROVE  [Window!Add]_([a \in Slot |-> At(a)])
  OBVIOUS
<1>1. CASE \E stamp \in [Key -> 0..clock], throttled \in SUBSET Key :
              FetchSucceeds(stamp, throttled)
  <2>1. PICK stamp \in [Key -> 0..clock], throttled \in SUBSET Key :
              FetchSucceeds(stamp, throttled)
    BY <1>1
  <2> DEFINE s == [k \in Key |-> Added(k, stamp, throttled)]
  <2>2. \A k \in Key : s[k] \in Instant
    <3> TAKE k \in Key
    <3>1. s[k] = Added(k, stamp, throttled)
      OBVIOUS
    <3> HIDE DEF s
    <3> QED  BY <3>1, <2>1, AddedFacts DEF IInv, FetchSucceeds
  <2>3. s \in [Key -> Instant] /\ AddSample(s)
    BY <2>1, <2>2 DEF FetchSucceeds
  <2> HIDE DEF s
  <2>4. \A a \in 1..(Size - 1) : At(a)' = At(a - 1)
    BY <2>3, RingShifts DEF IInv
  <2>5. \A a \in 1..(Size - 1) : a \in Slot /\ a - 1 \in Slot
    BY DEF Slot
  <2> QED  BY <2>4, <2>5 DEF Window!Add
<1>2. CASE UNCHANGED cache
  BY <1>2 DEF cache, At
<1>3. \/ UNCHANGED cache
      \/ \E stamp \in [Key -> 0..clock], throttled \in SUBSET Key :
             FetchSucceeds(stamp, throttled)
  <2>1. Kernel => UNCHANGED cache
    BY DEF Kernel, Run, OutOfMemory, RemoveCGroup, CreateCGroup
  <2>2. SyncCPUFiles \/ SyncMemoryFiles => UNCHANGED cache
    BY DEF SyncCPUFiles, SyncMemoryFiles
  <2>3. ReadCPU \/ ReadMemory \/ FetchFails => UNCHANGED cache
    BY DEF ReadCPU, ReadMemory, FetchFails
  <2>4. \A failed, noCPU, noMemory : ReadContainerd(failed, noCPU, noMemory) => UNCHANGED cache
    BY DEF ReadContainerd
  <2>5. UNCHANGED vars => UNCHANGED cache
    BY DEF vars
  <2> QED  BY <2>1, <2>2, <2>3, <2>4, <2>5 DEF Next, Fetch
<1> QED  BY <1>1, <1>2, <1>3

\* The ring buffer with its moving position keeps exactly the last Size
\* samples in their order, for every size: the sample cache implements the
\* abstract window.
THEOREM RingIsWindow == Spec => IsWindow
<1> QED  BY InitIInv, NextIInv, InitWindow, StepWindow, PTL DEF Spec, IsWindow, Window!Spec

----------------------------------------------------------------------------
(* The invariant of what the keys used.                                     *)

\* Of a counter the kernel keeps, over at most MaxClock seconds: a rate in range
\* is the difference of the two values, over the seconds and rounded down.
LEMMA RateMeasures ==
    ASSUME NEW old \in 0..MaxUse, NEW new \in 0..MaxUse, NEW sec \in 1..MaxClock,
           NormalizeSeconds(old, new, sec) <= MaxRate
    PROVE  /\ NormalizeSeconds(old, new, sec) * sec <= new - old
           /\ new - old < (NormalizeSeconds(old, new, sec) + 1) * sec
<1> DEFINE d == (new - old) % Word
<1> DEFINE r == NormalizeSeconds(old, new, sec)
<1>1. d \in Nat /\ r = d \div sec /\ r \in Nat
  <2>1. d \in Nat
    BY RemainderNat
  <2>2. r = d \div sec
    BY DEF NormalizeSeconds
  <2> QED  BY <2>1, <2>2, QuotientNat
<1>2. r * sec <= d /\ d < (r + 1) * sec
  BY <1>1, QuotientFacts
<1>3. (MaxRate + 1) * sec <= Word - MaxUse /\ MaxUse < Word
  BY WordFacts
<1>4. /\ 0 <= new - old => d = new - old
      /\ new - old < 0 => d = new - old + Word
  <2>1. new - old \in Int /\ new - old < Word /\ new - old + Word >= 0
    BY <1>3
  <2> QED  BY <2>1, RemainderFacts
<1>5. (r + 1) * sec <= (MaxRate + 1) * sec
  <2>1. r + 1 \in Int /\ MaxRate + 1 \in Int /\ sec \in Nat /\ r + 1 <= MaxRate + 1
    BY <1>1
  <2> HIDE DEF r
  <2> QED  BY <2>1, ProductMonotonic
<1> HIDE DEF d, r
<1>6. 0 <= new - old
  <2> SUFFICES ASSUME new - old < 0 PROVE FALSE
    OBVIOUS
  <2> DEFINE p == (r + 1) * sec
  <2> DEFINE q == (MaxRate + 1) * sec
  <2>1. p \in Int /\ q \in Int
    BY <1>1
  <2>2. d < p /\ p <= q /\ q <= Word - MaxUse /\ d = new - old + Word
    BY <1>2, <1>3, <1>4, <1>5
  <2> HIDE DEF p, q
  <2> QED  BY <2>1, <2>2
<1> QED  BY <1>2, <1>4, <1>6 DEF r

LEMMA MetricToSampleMeasured ==
    ASSUME NEW last \in Instant, NEW c \in Reading, NEW m \in MemReading,
           last.cum <= MaxUse, c.cum <= MaxUse, c.time <= MaxClock,
           c.time # 0 => last.time < c.time
    PROVE  /\ Measured(last, MetricToSample(last, c, m))
           /\ MetricToSample(last, c, m).cum = c.cum
           /\ MetricToSample(last, c, m).cpuTime = c.cpuTime
           /\ c.time = 0 => MetricToSample(last, c, m).rate = 0
<1> DEFINE s == [time |-> c.time, cum |-> c.cum, oom |-> m.oom, has |-> FALSE, rate |-> 0,
                 far |-> FALSE, ooms |-> 0, cpuTime |-> c.cpuTime, events |-> m.events]
<1>1. CASE last.time = 0
  <2>1. MetricToSample(last, c, m) = s
    BY <1>1 DEF MetricToSample, SampleDelta
  <2> QED  BY <2>1 DEF Measured
<1>2. CASE last.time # 0
  <2> DEFINE sec == c.time - last.time
  <2> DEFINE rate == NormalizeSeconds(last.cum, c.cum, sec)
  <2> DEFINE delta == (m.oom - last.oom) % Word
  <2>1. MetricToSample(last, c, m) = [s EXCEPT !.has = TRUE, !.rate = rate, !.ooms = delta]
    BY <1>2 DEF MetricToSample, SampleDelta
  <2>2. last.cum \in 0..MaxUse /\ c.cum \in 0..MaxUse /\ sec \in Int
        /\ c.time \in Nat /\ last.time \in Nat /\ last.cum \in Nat /\ c.cum \in Nat
    BY DEF Instant, Reading
  <2>3. rate \in Nat
    BY <2>2, RateNat
  <2>4. CASE c.time = 0
    <3>1. rate = 0
      BY <2>4, <2>2, <1>2 DEF NormalizeSeconds
    <3> HIDE DEF rate, delta
    <3> QED  BY <3>1, <2>1, <2>4 DEF Measured
  <2>5. CASE c.time # 0
    <3>1. sec \in 1..MaxClock
      BY <2>5, <2>2
    <3>2. rate <= MaxRate => rate * sec <= c.cum - last.cum /\ c.cum - last.cum < (rate + 1) * sec
      BY <3>1, <2>2, RateMeasures
    <3> HIDE DEF rate, delta
    <3> QED  BY <3>2, <2>1, <2>5 DEF Measured
  <2> QED  BY <2>4, <2>5
<1> QED  BY <1>1, <1>2

\* The readings of an attempt, as they are made.
LEMMA ReadingsHonest ==
    ASSUME TypeOK, Bounded, NEW k \in Key, NEW now \in Nat \ {0}
    PROVE  /\ NoCPU[k].time = 0 /\ NoCPU[k].cum = 0
           /\ LET r == LevelCPUMetrics(k, now)
              IN  /\ r.time = 0 => r.cum = 0
                  /\ r.time # 0 => Honest(k, r) /\ Lost(r) = used[k] - cum[k]
BY DEF TypeOK, Bounded, NoCPU, LevelCPUMetrics, Honest, Lost

\* The instant of a key in the sample that is added.
LEMMA AddedMeasured ==
    ASSUME IInv, UseInv, pc = "rest", NEW k \in Key,
           NEW stamp \in [Key -> 0..clock], NEW throttled
    PROVE  LET new == Added(k, stamp, throttled)
           IN  /\ new.cum <= MaxUse
               /\ ~cadvisor /\ stamp[k] = 0 =>
                     /\ Measured(LastSample(k), new)
                     /\ new.time # 0 =>
                           /\ Honest(k, new)
                           /\ \A i \in Slot : ring[i][k].time # 0 => Lost(ring[i][k]) <= Lost(new)
<1> DEFINE last == LastSample(k)
<1> DEFINE s == ToSample(k)
<1>1. TypeOK /\ Timely /\ Bounded /\ Readings
  BY DEF IInv, UseInv
<1>2. last \in Instant /\ last.time < clock /\ last.cum <= MaxUse /\ pos \in Slot
  BY <1>1 DEF TypeOK, LastSample, Timely, Readings
<1>3. clock \in Nat \ {0} /\ clock <= MaxClock /\ used[k] \in Nat /\ cum[k] \in Nat
      /\ used[k] <= MaxUse /\ cum[k] <= used[k]
  BY <1>1 DEF TypeOK, Timely, Bounded
<1>4. \A c \in Reading : \A m \in MemReading :
        c.cum <= MaxUse /\ c.time \in {0, clock} =>
            /\ Measured(last, MetricToSample(last, c, m))
            /\ MetricToSample(last, c, m).time = c.time
            /\ MetricToSample(last, c, m).cum = c.cum
            /\ MetricToSample(last, c, m).cpuTime = c.cpuTime
            /\ c.time = 0 => MetricToSample(last, c, m).rate = 0
  <2> TAKE c \in Reading
  <2> TAKE m \in MemReading
  <2> HAVE c.cum <= MaxUse /\ c.time \in {0, clock}
  <2>1. c.time <= MaxClock /\ (c.time # 0 => last.time < c.time)
    BY <1>2, <1>3
  <2> HIDE DEF last
  <2> QED  BY <2>1, <1>2, MetricToSampleFacts, MetricToSampleMeasured
<1>5. /\ Measured(last, s)
      /\ s.time \in {0, clock}
      /\ s.cum <= MaxUse
      /\ s.time = 0 => s.cum = 0 /\ s.rate = 0
      /\ ~cadvisor /\ s.time # 0 =>
            /\ Honest(k, s)
            /\ \A i \in Slot : ring[i][k].time # 0 => Lost(ring[i][k]) <= Lost(s)
  <2>1. CASE k \in level
    <3> DEFINE c == LevelCPUMetrics(k, clock)
    <3> DEFINE m == [oom |-> 0, events |-> 0]
    <3>1. c \in Reading /\ c.time \in {0, clock}
      BY <1>1, <1>3, ReadingTypes
    <3>2. (c.time = 0 => c.cum = 0) /\ (c.time # 0 => Honest(k, c) /\ Lost(c) = used[k] - cum[k])
      BY <1>1, <1>3, ReadingsHonest
    <3>3. m \in MemReading
      BY DEF MemReading
    <3>4. s = MetricToSample(last, c, m)
      BY <2>1 DEF ToSample
    <3>5. c.cum <= MaxUse
      BY <3>1, <3>2, <1>3 DEF Honest, Reading
    <3>6. \A i \in Slot : ~cadvisor /\ ring[i][k].time # 0 => Lost(ring[i][k]) <= used[k] - cum[k]
      BY <1>1 DEF Readings, Honest
    <3> HIDE DEF c, m, s, last
    <3>7. /\ Measured(last, s) /\ s.time = c.time /\ s.cum = c.cum /\ s.cpuTime = c.cpuTime
          /\ c.time = 0 => s.rate = 0
      BY <3>1, <3>3, <3>4, <3>5, <1>4
    <3> QED  BY <3>1, <3>2, <3>5, <3>6, <3>7 DEF Honest, Lost
  <2>2. CASE k \notin level /\ k \in got
    <3> DEFINE c == cpu[k]
    <3>1. c \in Reading /\ mem[k] \in MemReading /\ c.time \in {0, clock}
      BY <1>1 DEF TypeOK, Timely
    <3>2. (c.time = 0 => c.cum = 0) /\ (c.time # 0 => Honest(k, c))
      BY <1>1 DEF Readings
    <3>4. s = MetricToSample(last, c, mem[k])
      BY <2>2 DEF ToSample
    <3>5. c.cum <= MaxUse
      BY <3>1, <3>2, <1>3 DEF Honest, Reading
    <3>6. \A i \in Slot :
            ~cadvisor /\ ring[i][k].time # 0 /\ c.time # 0 => Lost(ring[i][k]) <= Lost(c)
      BY <1>1 DEF Readings
    <3> HIDE DEF c, s, last
    <3>7. /\ Measured(last, s) /\ s.time = c.time /\ s.cum = c.cum /\ s.cpuTime = c.cpuTime
          /\ c.time = 0 => s.rate = 0
      BY <3>1, <3>4, <3>5, <1>4
    <3> QED  BY <3>1, <3>2, <3>5, <3>6, <3>7 DEF Honest, Lost
  <2>3. CASE k \notin level /\ k \notin got
    <3>1. s = ZeroInstant
      BY <2>3 DEF ToSample
    <3> QED  BY <3>1, <1>3 DEF ZeroInstant, Measured
  <2> QED  BY <2>1, <2>2, <2>3
<1>6. s \in Instant
  <2> DEFINE none == [j \in Key |-> 0]
  <2>1. none \in [Key -> 0..clock] /\ none[k] = 0
    BY <1>3
  <2>2. ToSample(k) = WithNetwork(k, ToSample(k), 0) \/ ToSample(k).time < 0
    BY DEF WithNetwork
  <2>3. Added(k, none, {}) = WithNetwork(k, ToSample(k), 0)
    BY <2>1 DEF Added
  <2>4. Added(k, none, {}) \in Instant
    <3> HIDE DEF none
    <3> QED  BY <2>1, <1>1, AddedFacts
  <2>5. ~(ToSample(k).time < 0)
    BY <1>3, <1>5
  <2> QED  BY <2>2, <2>3, <2>4, <2>5
<1> DEFINE r == IF k \in throttled THEN Throttled(s) ELSE s
<1>7. /\ r \in Instant /\ r.time = s.time /\ r.has = s.has /\ r.rate = s.rate
      /\ r.cum = s.cum /\ r.cpuTime = s.cpuTime
  <2> HIDE DEF s
  <2>1. /\ Throttled(s) \in Instant /\ Throttled(s).time = s.time /\ Throttled(s).has = s.has
        /\ Throttled(s).rate = s.rate /\ Throttled(s).cum = s.cum
        /\ Throttled(s).cpuTime = s.cpuTime
    BY <1>6 DEF Throttled, Instant
  <2> QED  BY <2>1, <1>6
<1> DEFINE new == Added(k, stamp, throttled)
<1>8. new = IF r.time < stamp[k] THEN [r EXCEPT !.time = stamp[k], !.cpuTime = used[k]] ELSE r
  BY DEF Added, WithNetwork
<1> HIDE DEF r, new, s, last
<1>9. new.cum <= MaxUse
  BY <1>5, <1>7, <1>8 DEF Instant
<1>10. ASSUME ~cadvisor, stamp[k] = 0
       PROVE  /\ Measured(last, new)
              /\ new.time # 0 =>
                    /\ Honest(k, new)
                    /\ \A i \in Slot : ring[i][k].time # 0 => Lost(ring[i][k]) <= Lost(new)
  <2>1. new = r
    <3>1. ~(r.time < stamp[k])
      BY <1>7, <1>10 DEF Instant
    <3> QED  BY <3>1, <1>8
  <2>2. Measured(last, new)
    BY <2>1, <1>5, <1>7 DEF Measured
  <2>3. new.time # 0 => /\ Honest(k, new)
                        /\ \A i \in Slot : ring[i][k].time # 0 => Lost(ring[i][k]) <= Lost(new)
    BY <2>1, <1>5, <1>7, <1>10 DEF Honest, Lost
  <2> QED  BY <2>2, <2>3
<1> QED  BY <1>9, <1>10 DEF new, last

LEMMA InitUse == Init => UseInv
<1> SUFFICES ASSUME Init PROVE UseInv
  OBVIOUS
<1>1. \A i \in Slot : \A k \in Key : ring[i][k] = ZeroInstant
  BY DEF Init, NoSample
<1>2. \A a \in Slot : Back(pos, a) \in Slot
  <2>1. pos \in Slot
    BY DEF Init, Slot
  <2> QED  BY <2>1, SlotArithmetic
<1>3. \A k \in Key : \A a \in Slot : At(a)[k] = ZeroInstant
  BY <1>1, <1>2 DEF At
<1>4. Bounded
  BY DEF Init, Bounded
<1>5. Readings
  BY <1>1 DEF Init, Readings, NoCPU, ZeroInstant
<1>6. RatesMeasured
  BY <1>3 DEF RatesMeasured, Measured, ZeroInstant, Slot
<1>7. LossesGrow
  BY <1>3 DEF LossesGrow, ZeroInstant, Slot
<1> QED  BY <1>4, <1>5, <1>6, <1>7 DEF UseInv

\* A step that does not add a sample: what it reads is honest and read after
\* the samples of the ring, and what the kernel does costs no reading its
\* honesty.
LEMMA QuietUse ==
    ASSUME IInv, UseInv, IInv', UNCHANGED <<cache, cadvisor>>, Bounded',
           \A k \in Key : used[k] <= used'[k] /\ used[k] - cum[k] <= used'[k] - cum'[k],
           \A k \in Key :
               \/ cpu'[k] = cpu[k]
               \/ cpu'[k].time = 0 /\ cpu'[k].cum = 0
               \/ /\ cpu'[k].time # 0 /\ used'[k] = used[k] /\ cum'[k] = cum[k]
                  /\ Honest(k, cpu'[k]) /\ Lost(cpu'[k]) = used[k] - cum[k]
    PROVE  UseInv'
<1>1. TypeOK /\ Readings /\ RatesMeasured /\ LossesGrow
  BY DEF IInv, UseInv
<1>2. ring' = ring /\ pos' = pos /\ cadvisor' = cadvisor
  BY DEF cache
<1>3. \A k \in Key : used[k] \in Nat /\ used'[k] \in Nat /\ cum[k] \in Nat /\ cum'[k] \in Nat
  BY DEF IInv, TypeOK
<1>4. \A k \in Key : \A r \in Reading \cup Instant : Honest(k, r) => Honest(k, r)'
  <2> TAKE k \in Key
  <2> TAKE r \in Reading \cup Instant
  <2>1. r.cum \in Nat /\ r.cpuTime \in Nat
    BY DEF Reading, Instant
  <2>2. used[k] <= used'[k] /\ used[k] - cum[k] <= used'[k] - cum'[k]
    OBVIOUS
  <2> QED  BY <2>1, <2>2, <1>3 DEF Honest, Lost
<1>5. \A k \in Key : cpu[k] \in Reading /\ \A i \in Slot : ring[i][k] \in Instant
  BY <1>1 DEF TypeOK
<1>6. \A k \in Key : cpu'[k] \in Reading
  BY DEF IInv, TypeOK
<1>7. \A k \in Key : IF cpu'[k].time = 0 THEN cpu'[k].cum = 0 ELSE Honest(k, cpu[k])'
  <2> TAKE k \in Key
  <2>1. CASE cpu'[k] = cpu[k]
    BY <2>1, <1>1, <1>4, <1>5 DEF Readings, Honest
  <2>2. CASE cpu'[k].time = 0 /\ cpu'[k].cum = 0
    BY <2>2
  <2>3. CASE /\ cpu'[k].time # 0 /\ used'[k] = used[k] /\ cum'[k] = cum[k]
             /\ Honest(k, cpu'[k])
    BY <2>3 DEF Honest, Lost
  <2> QED  BY <2>1, <2>2, <2>3
<1>8. ASSUME ~cadvisor, NEW i \in Slot, NEW k \in Key, ring[i][k].time # 0
      PROVE  /\ Honest(k, ring[i][k])'
             /\ cpu'[k].time # 0 => Lost(ring[i][k]) <= Lost(cpu'[k])
  <2>1. Honest(k, ring[i][k]) /\ (cpu[k].time # 0 => Lost(ring[i][k]) <= Lost(cpu[k]))
    BY <1>8, <1>1 DEF Readings
  <2>2. Honest(k, ring[i][k])'
    BY <2>1, <1>2, <1>4, <1>5 DEF Honest
  <2>3. Lost(ring[i][k]) <= used[k] - cum[k]
    BY <2>1 DEF Honest
  <2> QED  BY <2>1, <2>2, <2>3
<1>9. Readings'
  BY <1>1, <1>2, <1>7, <1>8 DEF Readings, Lost
<1>10. RatesMeasured'
  BY <1>1, <1>2 DEF RatesMeasured, At
<1>11. LossesGrow'
  BY <1>1, <1>2 DEF LossesGrow, At
<1> QED  BY <1>9, <1>10, <1>11 DEF UseInv

LEMMA KernelUse == ASSUME IInv, UseInv, IInv', Kernel PROVE UseInv'
<1>1. UNCHANGED <<config, clock, cache, fetch>>
  BY DEF Kernel, Run, OutOfMemory, RemoveCGroup, CreateCGroup
<1>2. PICK k \in Key : Run(k) \/ OutOfMemory(k) \/ RemoveCGroup(k) \/ CreateCGroup(k)
  BY DEF Kernel
<1>3. /\ used \in [Key -> Nat] /\ cum \in [Key -> Nat] /\ clock \in Nat
      /\ died \in [Key -> Nat]
      /\ \A j \in Key : cum[j] <= used[j] /\ used[j] <= MaxUse
      /\ clock <= MaxClock
  BY DEF IInv, TypeOK, UseInv, Bounded
<1>4. \A j \in Key : /\ used[j] <= used'[j] /\ used[j] - cum[j] <= used'[j] - cum'[j]
                     /\ cum'[j] <= used'[j] /\ used'[j] <= MaxUse
  <2>1. CASE Run(k)
    BY <2>1, <1>3 DEF Run
  <2>2. CASE OutOfMemory(k) \/ CreateCGroup(k)
    BY <2>2, <1>3 DEF OutOfMemory, CreateCGroup
  <2>3. CASE RemoveCGroup(k)
    BY <2>3, <1>3 DEF RemoveCGroup
  <2> QED  BY <2>1, <2>2, <2>3, <1>2
<1>5. Bounded'
  BY <1>1, <1>3, <1>4 DEF Bounded
<1>6. UNCHANGED <<cache, cadvisor>> /\ cpu' = cpu
  BY <1>1 DEF config, fetch
<1> QED  BY <1>4, <1>5, <1>6, QuietUse

\* Steps that neither the kernel takes nor a successful attempt.
LEMMA ReadUse ==
    ASSUME IInv, UseInv, IInv', UNCHANGED <<cache, cadvisor, used, cum>>, clock' <= MaxClock,
           \A k \in Key : \/ cpu'[k] = cpu[k]
                          \/ cpu'[k] = NoCPU[k]
                          \/ clock' # 0 /\ cpu'[k] = LevelCPUMetrics(k, clock')
    PROVE  UseInv'
<1>1. TypeOK /\ Bounded /\ clock' \in Nat
  BY DEF IInv, UseInv, TypeOK
<1>2. Bounded'
  BY <1>1 DEF Bounded
<1>3. \A k \in Key : used[k] <= used'[k] /\ used[k] - cum[k] <= used'[k] - cum'[k]
  BY <1>1 DEF TypeOK
<1>4. \A k \in Key :
               \/ cpu'[k] = cpu[k]
               \/ cpu'[k].time = 0 /\ cpu'[k].cum = 0
               \/ /\ cpu'[k].time # 0 /\ used'[k] = used[k] /\ cum'[k] = cum[k]
                  /\ Honest(k, cpu'[k]) /\ Lost(cpu'[k]) = used[k] - cum[k]
  <2> TAKE k \in Key
  <2>1. CASE cpu'[k] = cpu[k]
    BY <2>1
  <2>2. CASE cpu'[k] = NoCPU[k]
    BY <2>2 DEF NoCPU
  <2>3. CASE clock' # 0 /\ cpu'[k] = LevelCPUMetrics(k, clock')
    <3>1. clock' \in Nat \ {0}
      BY <1>1, <2>3
    <3> DEFINE r == LevelCPUMetrics(k, clock')
    <3>2. (r.time = 0 => r.cum = 0) /\ (r.time # 0 => Honest(k, r) /\ Lost(r) = used[k] - cum[k])
      BY <1>1, <3>1, ReadingsHonest
    <3> HIDE DEF r
    <3> QED  BY <2>3, <3>2 DEF r
  <2> QED  BY <2>1, <2>2, <2>3
<1> QED  BY <1>2, <1>3, <1>4, QuietUse

LEMMA FetchSucceedsUse ==
    ASSUME IInv, UseInv, IInv', NEW stamp \in [Key -> 0..clock], NEW throttled,
           FetchSucceeds(stamp, throttled)
    PROVE  UseInv'
<1> DEFINE s == [k \in Key |-> Added(k, stamp, throttled)]
<1>1. pc = "rest" /\ TypeOK /\ Timely /\ Bounded /\ Readings /\ RatesMeasured /\ LossesGrow
  BY DEF FetchSucceeds, IInv, UseInv
<1>2. cpu' = NoCPU /\ UNCHANGED <<cadvisor, clock, used, cum>>
  BY DEF FetchSucceeds, config, kernel
<1>3. \A k \in Key :
        /\ s[k] \in Instant
        /\ s[k].cum <= MaxUse
        /\ ~cadvisor => Measured(LastSample(k), s[k])
        /\ ~cadvisor /\ s[k].time # 0 =>
              /\ Honest(k, s[k])
              /\ \A i \in Slot : ring[i][k].time # 0 => Lost(ring[i][k]) <= Lost(s[k])
  <2> TAKE k \in Key
  <2>1. s[k] = Added(k, stamp, throttled)
    OBVIOUS
  <2>2. ~cadvisor => stamp[k] = 0
    <3>1. stamp[k] \in 0..clock
      OBVIOUS
    <3> QED  BY <3>1 DEF FetchSucceeds
  <2> HIDE DEF s
  <2> QED  BY <2>1, <2>2, <1>1, AddedMeasured, AddedFacts
<1>4. s \in [Key -> Instant] /\ AddSample(s)
  BY <1>3 DEF FetchSucceeds
<1> HIDE DEF s
<1>5. /\ At(0)' = s
      /\ \A a \in 1..(Size - 1) : At(a)' = At(a - 1)
      /\ \A i \in Slot : ring'[i] = s \/ ring'[i] = ring[i]
  BY <1>1, <1>4, RingShifts
<1>6. \A k \in Key : At(0)[k] = LastSample(k) /\ LastSample(k) = ring[pos][k] /\ pos \in Slot
  BY <1>1, SlotArithmetic DEF TypeOK, At, LastSample
<1>7. Bounded'
  BY <1>1, <1>2 DEF Bounded
<1>8. Readings'
  <2>1. \A i \in Slot : \A k \in Key : ring'[i][k].cum <= MaxUse
    BY <1>1, <1>3, <1>5 DEF Readings
  <2>2. ASSUME ~cadvisor, NEW i \in Slot, NEW k \in Key, ring'[i][k].time # 0
        PROVE  Honest(k, ring'[i][k])
    BY <2>2, <1>1, <1>3, <1>5 DEF Readings
  <2>3. \A k \in Key : cpu'[k].time = 0 /\ cpu'[k].cum = 0
    BY <1>2 DEF NoCPU
  <2> QED  BY <2>1, <2>2, <2>3, <1>2 DEF Readings, Honest, Lost
<1>9. RatesMeasured'
  <2> SUFFICES ASSUME ~cadvisor, NEW k \in Key, NEW a \in 0..(Size - 2)
               PROVE  Measured(At(a + 1)'[k], At(a)'[k])
    BY <1>2 DEF RatesMeasured, Measured
  <2>1. At(a + 1)' = At(a) /\ a + 1 \in 1..(Size - 1)
    BY <1>5
  <2>2. CASE a = 0
    BY <2>1, <2>2, <1>3, <1>5, <1>6
  <2>3. CASE a # 0
    <3>1. At(a)' = At(a - 1) /\ a - 1 \in 0..(Size - 2) /\ (a - 1) + 1 = a
      BY <2>3, <1>5
    <3> QED  BY <3>1, <2>1, <1>1 DEF RatesMeasured
  <2> QED  BY <2>2, <2>3
<1>10. LossesGrow'
  <2> SUFFICES ASSUME ~cadvisor, NEW k \in Key, NEW a \in 0..(Size - 2),
                      At(a + 1)'[k].time # 0, At(a)'[k].time # 0
               PROVE  Lost(At(a + 1)'[k]) <= Lost(At(a)'[k])
    BY <1>2 DEF LossesGrow, Lost
  <2>1. At(a + 1)' = At(a) /\ a + 1 \in 1..(Size - 1)
    BY <1>5
  <2>2. CASE a = 0
    BY <2>1, <2>2, <1>3, <1>5, <1>6
  <2>3. CASE a # 0
    <3>1. At(a)' = At(a - 1) /\ a - 1 \in 0..(Size - 2) /\ (a - 1) + 1 = a
      BY <2>3, <1>5
    <3> QED  BY <3>1, <2>1, <1>1 DEF LossesGrow
  <2> QED  BY <2>2, <2>3
<1> QED  BY <1>7, <1>8, <1>9, <1>10 DEF UseInv

LEMMA NextUse == ASSUME IInv, UseInv, IInv', [Next]_vars PROVE UseInv'
<1>1. clock \in Nat /\ clock <= MaxClock
  BY DEF IInv, TypeOK, UseInv, Bounded
<1>2. CASE Kernel
  BY <1>2, KernelUse
<1>3. CASE SyncCPUFiles \/ SyncMemoryFiles \/ ReadMemory \/ UNCHANGED vars
  <2>1. UNCHANGED <<cache, cadvisor, used, cum, clock, cpu>>
    BY <1>3 DEF SyncCPUFiles, SyncMemoryFiles, ReadMemory, vars, config, fetch, kernel
  <2> QED  BY <2>1, <1>1, ReadUse
<1>4. CASE FetchFails
  <2>1. UNCHANGED <<cache, cadvisor, used, cum>> /\ clock' <= MaxClock /\ cpu' = NoCPU
    BY <1>4, <1>1 DEF FetchFails, config, kernel
  <2> QED  BY <2>1, ReadUse
<1>5. CASE ReadCPU
  <2>1. UNCHANGED <<cache, cadvisor, used, cum>> /\ clock' = clock + 1 /\ clock' <= MaxClock
    BY <1>5, <1>1 DEF ReadCPU, config, kernel
  <2>2. \A k \in Key : cpu'[k] = NoCPU[k] \/ cpu'[k] = LevelCPUMetrics(k, clock')
    BY <1>5, <2>1 DEF ReadCPU
  <2> QED  BY <2>1, <2>2, <1>1, ReadUse
<1>6. CASE \E failed, noCPU, noMemory \in SUBSET Container :
              ReadContainerd(failed, noCPU, noMemory)
  <2>1. PICK failed, noCPU, noMemory \in SUBSET Container :
              ReadContainerd(failed, noCPU, noMemory)
    BY <1>6
  <2>2. UNCHANGED <<cache, cadvisor, used, cum>> /\ clock' = clock + 1 /\ clock' <= MaxClock
    BY <2>1, <1>1 DEF ReadContainerd, config, kernel
  <2>3. \A k \in Key : cpu'[k] = NoCPU[k] \/ cpu'[k] = LevelCPUMetrics(k, clock')
    BY <2>1, <2>2 DEF ReadContainerd
  <2> QED  BY <2>2, <2>3, <1>1, ReadUse
<1>7. CASE \E stamp \in [Key -> 0..clock], throttled \in SUBSET Key :
              FetchSucceeds(stamp, throttled)
  BY <1>7, FetchSucceedsUse
<1> QED  BY <1>2, <1>3, <1>4, <1>5, <1>6, <1>7 DEF Next, Fetch

LEMMA UseNeverOverstated == ASSUME IInv, UseInv PROVE NeverOverstated
<1> SUFFICES ASSUME ~cadvisor, NEW k \in Key, NEW a \in Accepted(k) \ {Size - 1},
                    At(a)[k].rate > 0
             PROVE  At(a)[k].rate * (At(a)[k].time - At(a + 1)[k].time)
                        <= At(a)[k].cpuTime - At(a + 1)[k].cpuTime
  BY DEF NeverOverstated
<1> DEFINE new == At(a)[k]
<1> DEFINE old == At(a + 1)[k]
<1>1. a \in 0..(Size - 2) /\ new.has /\ new.rate <= MaxRate
  BY DEF Accepted, Slot
<1>2. new \in Instant /\ old \in Instant
  <2>1. a \in Slot /\ a + 1 \in Slot /\ pos \in Slot
    BY <1>1 DEF IInv, TypeOK, Slot
  <2>2. Back(pos, a) \in Slot /\ Back(pos, a + 1) \in Slot
    BY <2>1, SlotArithmetic
  <2> QED  BY <2>2 DEF IInv, TypeOK, At
<1>3. Measured(old, new)
  BY <1>1 DEF UseInv, RatesMeasured
<1>4. new.time # 0 /\ new.rate * (new.time - old.time) <= new.cum - old.cum
  BY <1>1, <1>3 DEF Measured
<1>5. old.time # 0
  BY <1>1 DEF IInv, RatesSpanOnePoll
<1>6. old.cpuTime - old.cum <= new.cpuTime - new.cum
  BY <1>1, <1>4, <1>5 DEF UseInv, LossesGrow, Lost
<1> DEFINE p == new.rate * (new.time - old.time)
<1>7. /\ p \in Int /\ new.cum \in Nat /\ old.cum \in Nat /\ new.cpuTime \in Nat
      /\ old.cpuTime \in Nat
  BY <1>2 DEF Instant
<1>8. p <= new.cum - old.cum
  BY <1>4
<1> HIDE DEF new, old, p
<1>9. p <= new.cpuTime - old.cpuTime
  BY <1>6, <1>7, <1>8
<1> QED  BY <1>9 DEF p, new, old

\* Whatever the kernel does to the counters while they are read, and whichever
\* attempts fail, populateSummary is never given an accepted rate that says
\* that a key used more than it did.
THEOREM CPUNeverOverstated == Spec => []NeverOverstated
<1>1. Init => IInv /\ UseInv
  BY InitIInv, InitUse
<1>2. IInv /\ UseInv /\ [Next]_vars => IInv' /\ UseInv'
  BY NextIInv, NextUse
<1>3. IInv /\ UseInv => NeverOverstated
  BY UseNeverOverstated
<1> QED  BY <1>1, <1>2, <1>3, PTL DEF Spec

----------------------------------------------------------------------------
(* Sums, and the least and the greatest of some numbers.                   *)

\* Induction: a set of numbers that is not empty has a least element.
LEMMA LeastNumber ==
    ASSUME NEW S \in SUBSET Nat, S # {}
    PROVE  \E n \in S : \A m \in S : n <= m
<1> DEFINE R == OpToRel(<, Nat)
<1>1. IsWellFoundedOn(R, Nat)
  BY NatLessThanWellFounded
<1>2. \A x, y \in Nat : x < y => <<x, y>> \in R
  BY DEF OpToRel
<1> HIDE DEF R
<1>3. PICK n \in S : \A m \in S : ~(<<m, n>> \in R)
  BY <1>1, WFMin
<1>4. \A m \in S : m \in Nat /\ n \in Nat /\ ~(m < n)
  BY <1>2, <1>3
<1>5. \A m \in S : n <= m
  BY <1>4
<1> QED  BY <1>5

LEMMA MinOfNumbers ==
    ASSUME NEW S \in SUBSET Nat, S # {}
    PROVE  Min(S) \in S /\ \A x \in S : Min(S) <= x
<1>1. \E n \in S : \A m \in S : n <= m
  BY LeastNumber
<1> QED  BY <1>1 DEF Min

LEMMA MaxOfNumbers ==
    ASSUME NEW S \in SUBSET Nat, S # {}, NEW n \in Nat, \A x \in S : x <= n
    PROVE  Max(S) \in S /\ \A x \in S : x <= Max(S)
<1> DEFINE B == {m \in Nat : \A x \in S : x <= m}
<1>1. PICK b \in B : \A c \in B : b <= c
  <2>1. B \in SUBSET Nat /\ B # {}
    OBVIOUS
  <2> HIDE DEF B
  <2> QED  BY <2>1, LeastNumber
<1>2. b \in S
  <2> SUFFICES ASSUME b \notin S PROVE FALSE
    OBVIOUS
  <2>1. \A x \in S : x \in Nat /\ b \in Nat /\ x <= b /\ x # b
    BY <1>1
  <2>2. PICK x \in S : TRUE
    OBVIOUS
  <2>3. b # 0 /\ b \in Nat
    BY <2>1, <2>2
  <2>4. b - 1 \in B
    BY <2>1, <2>3
  <2> QED  BY <2>3, <2>4, <1>1
<1>3. \A x \in S : b >= x
  BY <1>1
<1>4. Max(S) \in S /\ \A x \in S : Max(S) >= x
  BY <1>2, <1>3 DEF Max
<1> QED  BY <1>4

\* The function that MapThenSumSet defines by recursion over subsets.
IsSum(g, f, D) ==
    g = [s \in D |-> IF s = {} THEN 0
                     ELSE LET x == CHOOSE x \in s : TRUE IN f[x] + g[s \ {x}]]

LEMMA ChosenElement ==
    ASSUME NEW S, IsFiniteSet(S), NEW s \in SUBSET S, s # {}
    PROVE  LET x == CHOOSE x \in s : TRUE
           IN  /\ x \in s /\ x \in S
               /\ s \ {x} \in SUBSET S
               /\ Cardinality(s) \in Nat /\ Cardinality(s \ {x}) = Cardinality(s) - 1
               /\ Cardinality(s) > 0
<1> DEFINE x == CHOOSE x \in s : TRUE
<1>1. x \in s
  OBVIOUS
<1>2. IsFiniteSet(s)
  BY FS_Subset
<1> HIDE DEF x
<1>3. Cardinality(s \ {x}) = Cardinality(s) - 1
  BY <1>1, <1>2, FS_RemoveElement
<1>4. Cardinality(s) \in Nat /\ Cardinality(s) # 0
  BY <1>2, FS_CardinalityType, FS_EmptySet
<1> QED  BY <1>1, <1>3, <1>4 DEF x

\* It exists, by induction on the size of the subsets: the sums over subsets
\* of n elements give those over subsets of n + 1.
LEMMA SumExists ==
    ASSUME NEW S, IsFiniteSet(S), NEW f
    PROVE  \E g : IsSum(g, f, SUBSET S)
<1> DEFINE D(n) == {s \in SUBSET S : Cardinality(s) <= n}
<1> DEFINE Bad == {n \in Nat : ~ \E g : IsSum(g, f, D(n))}
<1>1. Bad = {}
  <2> SUFFICES ASSUME Bad # {} PROVE FALSE
    OBVIOUS
  <2>1. PICK n \in Bad : \A m \in Bad : n <= m
    <3>1. Bad \in SUBSET Nat
      OBVIOUS
    <3> HIDE DEF Bad
    <3> QED  BY <3>1, LeastNumber
  <2>2. \A s \in D(0) : s = {}
    <3> TAKE s \in D(0)
    <3>1. s # {} => Cardinality(s) \in Nat /\ Cardinality(s) > 0
      BY ChosenElement
    <3> QED  BY <3>1
  <2>3. n # 0
    <3>1. IsSum([s \in D(0) |-> 0], f, D(0))
      BY <2>2 DEF IsSum
    <3> QED  BY <3>1
  <2>4. n - 1 \in Nat /\ n - 1 \notin Bad
    <3>1. n \in Nat
      BY <2>1
    <3> HIDE DEF Bad
    <3> QED  BY <3>1, <2>1, <2>3
  <2>5. PICK h : IsSum(h, f, D(n - 1))
    BY <2>4
  <2> DEFINE g == [s \in D(n) |-> IF s = {} THEN 0
                        ELSE LET x == CHOOSE x \in s : TRUE IN f[x] + h[s \ {x}]]
  <2>6. ASSUME NEW s \in D(n), s # {}
        PROVE  LET x == CHOOSE x \in s : TRUE
               IN  s \ {x} \in D(n - 1) /\ s \ {x} \in D(n)
    BY <2>4, <2>6, ChosenElement
  <2>7. \A s \in D(n - 1) : s \in D(n) => g[s] = h[s]
    BY <2>5 DEF IsSum
  <2>8. ASSUME NEW s \in D(n), s # {}
        PROVE  LET x == CHOOSE x \in s : TRUE IN g[s] = f[x] + g[s \ {x}]
    BY <2>6, <2>7, <2>8
  <2>9. IsSum(g, f, D(n))
    <3>1. g = [s \in D(n) |-> g[s]]
      OBVIOUS
    <3>2. \A s \in D(n) : s = {} => g[s] = 0
      OBVIOUS
    <3> HIDE DEF g, D
    <3>3. \A s \in D(n) : g[s] = IF s = {} THEN 0
                     ELSE LET x == CHOOSE x \in s : TRUE IN f[x] + g[s \ {x}]
      BY <3>2, <2>8
    <3> QED  BY <3>1, <3>3 DEF IsSum
  <2> QED  BY <2>1, <2>9
<1>2. Cardinality(S) \in Nat /\ D(Cardinality(S)) = SUBSET S
  <2>1. Cardinality(S) \in Nat
    BY FS_CardinalityType
  <2>2. \A s \in SUBSET S : Cardinality(s) <= Cardinality(S)
    BY FS_Subset
  <2> QED  BY <2>1, <2>2
<1>3. \E g : IsSum(g, f, D(Cardinality(S)))
  <2> HIDE DEF D
  <2> QED  BY <1>1, <1>2
<1> HIDE DEF D
<1> QED  BY <1>2, <1>3

\* A sum lies between as many times the least and the greatest summand.
LEMMA SumBounds ==
    ASSUME NEW S, IsFiniteSet(S), NEW f, NEW lo \in Int, NEW hi \in Int,
           \A x \in S : f[x] \in Int /\ lo <= f[x] /\ f[x] <= hi,
           NEW g, IsSum(g, f, SUBSET S)
    PROVE  /\ g[S] \in Int
           /\ lo * Cardinality(S) <= g[S]
           /\ g[S] <= hi * Cardinality(S)
<1> DEFINE Ok(s) == /\ g[s] \in Int
                    /\ lo * Cardinality(s) <= g[s]
                    /\ g[s] <= hi * Cardinality(s)
<1> DEFINE Bad == {n \in Nat : \E s \in SUBSET S : Cardinality(s) = n /\ ~Ok(s)}
<1>1. Bad = {}
  <2> SUFFICES ASSUME Bad # {} PROVE FALSE
    OBVIOUS
  <2>1. PICK n \in Bad : \A m \in Bad : n <= m
    <3>1. Bad \in SUBSET Nat
      OBVIOUS
    <3> HIDE DEF Bad
    <3> QED  BY <3>1, LeastNumber
  <2>2. PICK s \in SUBSET S : Cardinality(s) = n /\ ~Ok(s)
    BY <2>1
  <2>3. s # {}
    <3>1. g[{}] = 0
      BY DEF IsSum
    <3>2. Ok({})
      BY <3>1, FS_EmptySet
    <3> QED  BY <3>2, <2>2
  <2> DEFINE x == CHOOSE x \in s : TRUE
  <2> DEFINE t == s \ {x}
  <2>4. x \in S /\ t \in SUBSET S /\ n \in Nat /\ n > 0 /\ Cardinality(t) = n - 1
    BY <2>2, <2>3, ChosenElement
  <2>5. g[s] = f[x] + g[t]
    BY <2>3 DEF IsSum
  <2> HIDE DEF x, t
  <2>6. Ok(t)
    <3> SUFFICES ASSUME ~Ok(t) PROVE FALSE
      OBVIOUS
    <3>1. n - 1 \in Bad
      BY <2>4
    <3> HIDE DEF Bad
    <3> QED  BY <3>1, <2>1, <2>4
  <2>7. f[x] \in Int /\ lo <= f[x] /\ f[x] <= hi
    BY <2>4
  <2>8. lo * (n - 1) + lo = lo * n /\ hi * (n - 1) + hi = hi * n
    BY <2>4
  <2>9. Ok(s)
    <3> DEFINE l == lo * (n - 1)
    <3> DEFINE h == hi * (n - 1)
    <3>1. l <= g[t] /\ g[t] <= h /\ g[t] \in Int /\ l \in Int /\ h \in Int
      BY <2>4, <2>6
    <3>2. lo * Cardinality(s) = l + lo /\ hi * Cardinality(s) = h + hi
      BY <2>2, <2>8
    <3> HIDE DEF l, h
    <3> QED  BY <3>1, <3>2, <2>5, <2>7
  <2> QED  BY <2>2, <2>9
<1>2. Cardinality(S) \in Nat
  BY FS_CardinalityType
<1> QED  BY <1>1, <1>2

----------------------------------------------------------------------------
(* The mean.                                                               *)

LEMMA MeanBounds ==
    ASSUME NEW k \in Key, NEW ages \in SUBSET Slot, ages # {}, NEW lo \in Nat, NEW hi \in Nat,
           \A a \in ages : /\ At(a)[k].rate \in Nat
                           /\ lo <= At(a)[k].rate /\ At(a)[k].rate <= hi
    PROVE  Mean(k, ages) \in Nat /\ lo <= Mean(k, ages) /\ Mean(k, ages) <= hi
<1> DEFINE f == [a \in ages |-> At(a)[k].rate]
<1> DEFINE P(g) == g = [s \in SUBSET ages |-> IF s = {} THEN 0
                        ELSE LET x == CHOOSE x \in s : TRUE IN At(x)[k].rate + g[s \ {x}]]
<1> DEFINE sum == CHOOSE g : P(g)
<1> DEFINE c == Cardinality(ages)
<1>1. Mean(k, ages) = sum[ages] \div c
  BY DEF Mean, MapThenSumSet, MapThenFoldSet
<1>2. IsFiniteSet(ages) /\ c \in Nat \ {0}
  <2>1. IsFiniteSet(Slot)
    <3>1. 0 \in Int /\ Size - 1 \in Int
      OBVIOUS
    <3> QED  BY <3>1, FS_Interval DEF Slot
  <2>2. IsFiniteSet(ages)
    BY <2>1, FS_Subset
  <2> QED  BY <2>2, FS_CardinalityType, FS_EmptySet
<1>3. IsSum(sum, f, SUBSET ages)
  <2>1. \A g : P(g) <=> IsSum(g, f, SUBSET ages)
    BY DEF IsSum
  <2>2. \E g : IsSum(g, f, SUBSET ages)
    BY <1>2, SumExists
  <2> HIDE DEF P, f
  <2> QED  BY <2>1, <2>2
<1>4. lo \in Int /\ hi \in Int /\ \A a \in ages : f[a] \in Int /\ lo <= f[a] /\ f[a] <= hi
  OBVIOUS
<1> HIDE DEF f, P, sum, c
<1>5. /\ sum[ages] \in Int
      /\ lo * Cardinality(ages) <= sum[ages] /\ sum[ages] <= hi * Cardinality(ages)
  BY ONLY <1>2, <1>3, <1>4, SumBounds
<1> DEFINE n == sum[ages]
<1> DEFINE q == n \div c
<1>6. n \in Int /\ lo * c <= n /\ n <= hi * c
  BY <1>5 DEF c
<1>7. n \in Nat
  <2>1. lo * c \in Nat
    BY <1>2
  <2> DEFINE l == lo * c
  <2>2. l \in Nat /\ l <= n
    BY <2>1, <1>6
  <2> HIDE DEF l, n
  <2> QED  BY <2>2, <1>6
<1>8. q \in Nat /\ q * c <= n /\ n < (q + 1) * c
  BY <1>2, <1>7, QuotientNat, QuotientFacts
<1> HIDE DEF n, q, c
<1>9. (hi + 1) * c = hi * c + c
  BY <1>2
<1>10. lo * c < (q + 1) * c /\ q * c < (hi + 1) * c
  <2>1. lo * c \in Int /\ (q + 1) * c \in Int /\ q * c \in Int /\ hi * c \in Int
    BY <1>2, <1>8
  <2> DEFINE w == lo * c
  <2> DEFINE x == (q + 1) * c
  <2> DEFINE y == q * c
  <2> DEFINE z == hi * c
  <2>2. w \in Int /\ x \in Int /\ y \in Int /\ z \in Int /\ w <= n /\ n < x /\ y <= n /\ n <= z
        /\ (hi + 1) * c = z + c
    BY <2>1, <1>6, <1>8, <1>9
  <2> HIDE DEF w, x, y, z
  <2>3. w < x /\ y < z + c
    BY <2>2, <1>2, <1>6
  <2> QED  BY <2>2, <2>3 DEF w, x, y, z
<1>11. lo < q + 1 /\ q < hi + 1
  BY <1>2, <1>8, <1>10, ProductStrict
<1>12. Mean(k, ages) = q
  BY <1>1 DEF n, q
<1> QED  BY <1>8, <1>11, <1>12

LEMMA SampleDeltaType ==
    ASSUME NEW last \in Instant, NEW sample \in Instant
    PROVE  /\ SampleDelta(last, sample) \in Instant
           /\ last.time # 0 => SampleDelta(last, sample).rate =
                 NormalizeSeconds(last.cum, sample.cum, sample.time - last.time)
<1>1. CASE last.time = 0
  BY <1>1 DEF SampleDelta
<1>2. CASE last.time # 0
  <2> DEFINE rate == NormalizeSeconds(last.cum, sample.cum, sample.time - last.time)
  <2> DEFINE delta == (sample.oom - last.oom) % Word
  <2>1. rate \in Nat
    <3>1. last.cum \in Nat /\ sample.cum \in Nat /\ sample.time - last.time \in Int
      BY DEF Instant
    <3> QED  BY <3>1, RateNat
  <2>2. delta \in Nat
    <3>1. sample.oom - last.oom \in Int
      BY DEF Instant
    <3> QED  BY <3>1, RemainderNat
  <2>3. SampleDelta(last, sample) = [sample EXCEPT !.has = TRUE, !.rate = rate, !.ooms = delta]
    BY <1>2 DEF SampleDelta
  <2> HIDE DEF rate, delta
  <2> QED  BY <2>1, <2>2, <2>3 DEF Instant, rate
<1> QED  BY <1>1, <1>2

\* Over a window of accepted rates, the counters grow by between as many times
\* the least and less than the greatest rate and one as seconds have passed:
\* by induction on the age of a sample.  The rate of the oldest does not matter.
LEMMA WindowGrowth ==
    ASSUME IInv, UseInv, ~cadvisor, NEW k \in Key, Accepted(k) = Slot, At(0)[k].time # 0,
           NEW lo \in Nat, NEW hi \in Nat,
           \A a \in 0..(Size - 2) : lo <= At(a)[k].rate /\ At(a)[k].rate <= hi,
           NEW age \in Slot
    PROVE  LET T == At(0)[k].time - At(age)[k].time
               D == At(0)[k].cum - At(age)[k].cum
           IN  /\ At(age)[k].time # 0 /\ T >= age
               /\ lo > 0 => lo * T <= D
               /\ D <= (hi + 1) * T - age
<1> DEFINE T(a) == At(0)[k].time - At(a)[k].time
<1> DEFINE D(a) == At(0)[k].cum - At(a)[k].cum
<1> DEFINE Ok(a) == /\ At(a)[k].time # 0 /\ T(a) >= a
                    /\ lo > 0 => lo * T(a) <= D(a)
                    /\ D(a) <= (hi + 1) * T(a) - a
<1> DEFINE Bad == {a \in Slot : ~Ok(a)}
<1>1. \A a \in Slot : At(a)[k] \in Instant
  <2> TAKE a \in Slot
  <2>1. pos \in Slot
    BY DEF IInv, TypeOK
  <2>2. Back(pos, a) \in Slot
    BY <2>1, SlotArithmetic
  <2> QED  BY <2>2 DEF IInv, TypeOK, At
<1>2. \A a \in Slot : /\ At(a)[k].time \in Nat /\ At(a)[k].cum \in Nat /\ At(a)[k].rate \in Nat
                      /\ T(a) \in Int /\ D(a) \in Int
  <2> TAKE a \in Slot
  <2>1. At(a)[k] \in Instant /\ At(0)[k] \in Instant
    BY <1>1 DEF Slot
  <2> QED  BY <2>1 DEF Instant
<1>3. Bad = {}
  <2> SUFFICES ASSUME Bad # {} PROVE FALSE
    OBVIOUS
  <2>1. PICK n \in Bad : \A m \in Bad : n <= m
    <3>1. Bad \in SUBSET Nat
      BY DEF Slot
    <3> HIDE DEF Bad
    <3> QED  BY <3>1, LeastNumber
  <2>2. n # 0
    <3>1. Ok(0)
      <4>0. 0 \in Slot
        BY DEF Slot
      <4>1. T(0) = 0 /\ D(0) = 0
        BY <4>0, <1>2
      <4> QED  BY <4>1
    <3> QED  BY <3>1, <2>1
  <2> DEFINE a == n - 1
  <2>3. n \in Slot /\ a \in Slot /\ a \in 0..(Size - 2) /\ n = a + 1
    BY <2>1, <2>2 DEF Slot
  <2>4. a \notin Bad
    <3> HIDE DEF Bad
    <3> QED  BY <2>1, <2>3 DEF Slot
  <2>5. Ok(a)
    BY <2>3, <2>4
  <2> HIDE DEF a
  <2>6. At(a)[k].has /\ At(a)[k].rate <= MaxRate
    BY <2>3 DEF Accepted
  <2>7. At(n)[k].time # 0 /\ At(n)[k].time < At(a)[k].time
    BY <2>3, <2>5, <2>6 DEF IInv, RatesSpanOnePoll, TimesGrow
  <2> DEFINE r == At(a)[k].rate
  <2> DEFINE dt == At(a)[k].time - At(n)[k].time
  <2> DEFINE d == At(a)[k].cum - At(n)[k].cum
  <2>8. Measured(At(n)[k], At(a)[k])
    BY <2>3 DEF UseInv, RatesMeasured
  <2>9. (r > 0 => r * dt <= d) /\ d < (r + 1) * dt
    BY <2>5, <2>6, <2>8 DEF Measured
  <2>10. /\ T(n) = T(a) + dt /\ D(n) = D(a) + d
         /\ r \in Nat /\ dt \in Nat \ {0} /\ d \in Int /\ T(a) \in Int /\ D(a) \in Int
    <3>0. 0 \in Slot
      BY DEF Slot
    <3>1. /\ At(0)[k].time \in Nat /\ At(a)[k].time \in Nat /\ At(n)[k].time \in Nat
          /\ At(0)[k].cum \in Nat /\ At(a)[k].cum \in Nat /\ At(n)[k].cum \in Nat
          /\ r \in Nat
      BY <2>3, <3>0, <1>2
    <3> QED  BY <3>1, <2>7
  <2>11. lo <= r /\ r <= hi
    BY <2>3
  <2> HIDE DEF r, dt, d, T, D
  <2>12. lo * dt <= r * dt /\ (r + 1) * dt <= (hi + 1) * dt
    BY <2>10, <2>11, ProductMonotonic
  <2>13. lo * T(n) = lo * T(a) + lo * dt /\ (hi + 1) * T(n) = (hi + 1) * T(a) + (hi + 1) * dt
    BY <2>10
  <2>14. T(n) >= n
    BY <2>3, <2>5, <2>10
  <2>15. lo > 0 => lo * T(n) <= D(n)
    <3> SUFFICES ASSUME lo > 0 PROVE lo * T(n) <= D(n)
      OBVIOUS
    <3> DEFINE x == lo * T(a)
    <3> DEFINE y == lo * dt
    <3> DEFINE z == r * dt
    <3>1. x \in Int /\ y \in Int /\ z \in Int /\ x <= D(a) /\ y <= z /\ z <= d /\ lo * T(n) = x + y
      BY <2>5, <2>9, <2>10, <2>11, <2>12, <2>13
    <3> HIDE DEF x, y, z
    <3> QED  BY <3>1, <2>10
  <2>16. D(n) <= (hi + 1) * T(n) - n
    <3> DEFINE x == (hi + 1) * T(a)
    <3> DEFINE y == (hi + 1) * dt
    <3> DEFINE z == (r + 1) * dt
    <3>1. /\ x \in Int /\ y \in Int /\ z \in Int /\ D(a) <= x - a /\ z <= y /\ d < z
          /\ (hi + 1) * T(n) = x + y
      BY <2>5, <2>9, <2>10, <2>12, <2>13
    <3> HIDE DEF x, y, z
    <3> QED  BY <3>1, <2>3, <2>10
  <2>17. Ok(n)
    BY <2>7, <2>14, <2>15, <2>16
  <2> QED  BY <2>1, <2>17
<1> QED  BY <1>3

\* The difference of the first and the last sample of a full window, when it is
\* in range.
LEMMA EndsBounds ==
    ASSUME IInv, UseInv, ~cadvisor, NEW k \in Key, Accepted(k) = Slot, Size >= 2,
           NEW lo \in Nat, NEW hi \in Nat,
           \A a \in 0..(Size - 2) : lo <= At(a)[k].rate /\ At(a)[k].rate <= hi,
           SampleDelta(At(Size - 1)[k], At(0)[k]).rate <= MaxRate
    PROVE  LET rate == SampleDelta(At(Size - 1)[k], At(0)[k]).rate
           IN  lo <= rate /\ rate <= hi
<1> DEFINE last == At(Size - 1)[k]
<1> DEFINE first == At(0)[k]
<1> DEFINE rate == SampleDelta(last, first).rate
<1>1. 0 \in Slot /\ Size - 1 \in Slot /\ 0 \in 0..(Size - 2) /\ Size - 2 \in 0..(Size - 2)
      /\ Size - 2 \in Slot /\ (Size - 2) + 1 = Size - 1
  BY DEF Slot
<1>2. last \in Instant /\ first \in Instant
  <2>1. pos \in Slot
    BY DEF IInv, TypeOK
  <2>2. Back(pos, 0) \in Slot /\ Back(pos, Size - 1) \in Slot
    BY <1>1, <2>1, SlotArithmetic
  <2> QED  BY <2>2 DEF IInv, TypeOK, At
<1>3. last.time # 0
  <2>1. At(Size - 2)[k].has
    BY <1>1 DEF Accepted
  <2>2. At((Size - 2) + 1)[k].time # 0
    BY <2>1, <1>1 DEF IInv, RatesSpanOnePoll
  <2> QED  BY <2>2, <1>1
<1>4. rate = NormalizeSeconds(last.cum, first.cum, first.time - last.time) /\ rate \in Nat
  BY <1>2, <1>3, SampleDeltaType DEF Instant
<1>5. /\ first.time \in Nat /\ last.time \in Nat /\ first.cum \in 0..MaxUse
      /\ last.cum \in 0..MaxUse /\ first.time <= MaxClock
  <2>1. pos \in Slot
    BY DEF IInv, TypeOK
  <2>2. Back(pos, 0) \in Slot /\ Back(pos, Size - 1) \in Slot
    BY <1>1, <2>1, SlotArithmetic
  <2>3. first.cum <= MaxUse /\ last.cum <= MaxUse
    BY <2>2 DEF UseInv, Readings, At
  <2>4. first.time <= clock /\ clock <= MaxClock /\ clock \in Nat
    BY <2>2 DEF UseInv, Bounded, At, IInv, Timely, TypeOK
  <2>5. first.time \in Nat /\ last.time \in Nat /\ first.cum \in Nat /\ last.cum \in Nat
    BY <1>2 DEF Instant
  <2> QED  BY <2>3, <2>4, <2>5
<1>6. CASE first.time = 0
  <2>1. rate = 0
    BY <1>3, <1>4, <1>5, <1>6 DEF NormalizeSeconds
  <2>2. first.has /\ first.rate <= MaxRate
    BY <1>1 DEF Accepted
  <2>3. Measured(At(0 + 1)[k], At(0)[k])
    BY <1>1 DEF UseInv, RatesMeasured
  <2>4. first.rate = 0
    <3>1. ~(first.rate > 0)
      BY <2>2, <2>3, <1>6 DEF Measured
    <3>2. first.rate \in Nat
      BY <1>2 DEF Instant
    <3> QED  BY <3>1, <3>2
  <2>5. lo <= first.rate
    BY <1>1
  <2> QED  BY <2>1, <2>4, <2>5
<1>7. CASE first.time # 0
  <2> DEFINE t == first.time - last.time
  <2> DEFINE d == first.cum - last.cum
  <2>1. t >= Size - 1 /\ (lo > 0 => lo * t <= d) /\ d <= (hi + 1) * t - (Size - 1)
    BY <1>1, <1>7, WindowGrowth
  <2>2. t \in 1..MaxClock /\ d \in Int
    BY <2>1, <1>5
  <2>3. rate * t <= d /\ d < (rate + 1) * t
    BY <2>2, <1>4, <1>5, RateMeasures
  <2> HIDE DEF t, d, rate
  <2>4. lo > 0 => lo * t < (rate + 1) * t
    <3> DEFINE x == lo * t
    <3> DEFINE y == (rate + 1) * t
    <3>1. x \in Int /\ y \in Int /\ d < y /\ (lo > 0 => x <= d)
      BY <2>1, <2>2, <2>3, <1>4
    <3> HIDE DEF x, y
    <3> QED  BY <3>1, <2>2 DEF x, y
  <2>5. rate * t < (hi + 1) * t
    <3> DEFINE x == rate * t
    <3> DEFINE y == (hi + 1) * t
    <3>1. x \in Int /\ y \in Int /\ x <= d /\ d <= y - (Size - 1)
      BY <2>1, <2>2, <2>3, <1>4
    <3> HIDE DEF x, y
    <3>2. x < y
      BY <3>1, <2>2
    <3> QED  BY <3>2 DEF x, y
  <2>6. t \in Nat \ {0} /\ lo \in Int /\ hi + 1 \in Int /\ rate \in Int /\ rate + 1 \in Int
    BY <2>2, <1>4
  <2>7. (lo > 0 => lo < rate + 1) /\ rate < hi + 1
    BY <2>4, <2>5, <2>6, ProductStrict
  <2>8. lo <= rate /\ rate <= hi
    BY <2>7, <1>4
  <2> QED  BY <2>8 DEF rate
<1> QED  BY <1>6, <1>7

LEMMA UseMeanWithinValues == ASSUME IInv, UseInv PROVE MeanWithinValues
<1> SUFFICES ASSUME ~cadvisor, NEW k \in Key, HasSummary(k), NEW dropFirst \in BOOLEAN
             PROVE  LET rates == CpuCoresNanoSec(k, dropFirst)
                        mean == AvgCPUCoresNanoSec(k, dropFirst)
                    IN  Min(rates) <= mean /\ mean <= Max(rates)
  BY DEF MeanWithinValues
<1> DEFINE ages == Accepted(k)
<1> DEFINE some == Values(k, dropFirst)
<1> DEFINE rates == {At(a)[k].rate : a \in some}
<1> DEFINE lo == Min(rates)
<1> DEFINE hi == Max(rates)
<1> DEFINE ends == SampleDelta(At(Max(ages))[k], At(Min(ages))[k])
<1>1. ages \in SUBSET Slot /\ ages \in SUBSET Nat /\ IsFiniteSet(ages) /\ Cardinality(ages) \in Nat
  <2>1. 0 \in Int /\ Size - 1 \in Int
    OBVIOUS
  <2>2. IsFiniteSet(Slot)
    BY <2>1, FS_Interval DEF Slot
  <2>3. ages \in SUBSET Slot
    BY DEF Accepted
  <2>4. Slot \in SUBSET Nat
    BY DEF Slot
  <2> QED  BY <2>2, <2>3, <2>4, FS_Subset, FS_CardinalityType
<1>2. \A a \in Slot : At(a)[k] \in Instant /\ At(a)[k].rate \in Nat
  <2> TAKE a \in Slot
  <2>1. pos \in Slot
    BY DEF IInv, TypeOK
  <2>2. Back(pos, a) \in Slot
    BY <2>1, SlotArithmetic
  <2>3. At(a)[k] \in Instant
    BY <2>2 DEF IInv, TypeOK, At
  <2> QED  BY <2>3 DEF Instant
<1>3. /\ Cardinality(ages) >= 2 /\ ages # {} /\ some # {} /\ some \in SUBSET ages
      /\ ages \ {Max(ages)} \in SUBSET some
  <2>1. Cardinality(ages) >= 2
    BY DEF HasSummary
  <2>2. ages # {}
    BY <2>1, FS_EmptySet
  <2>3. ages \ {Max(ages)} # {}
    <3> SUFFICES ASSUME ages \ {Max(ages)} = {} PROVE FALSE
      OBVIOUS
    <3> DEFINE m == Max(ages)
    <3> HIDE DEF ages, m
    <3>1. ages = {m}
      BY <2>2 DEF m
    <3>2. Cardinality(ages) = 1
      BY <3>1, FS_Singleton
    <3> QED  BY <3>2, <2>1
  <2>4. some = ages \/ some = ages \ {Max(ages)}
    BY DEF Values
  <2> HIDE DEF ages, some
  <2> QED  BY <2>1, <2>2, <2>3, <2>4
<1>4. /\ Max(ages) \in ages /\ Min(ages) \in ages
      /\ \A a \in ages : Min(ages) <= a /\ a <= Max(ages)
  <2>1. Size - 1 \in Nat /\ \A a \in ages : a <= Size - 1
    BY <1>1 DEF Slot
  <2> HIDE DEF ages
  <2> QED  BY <2>1, <1>1, <1>3, MinOfNumbers, MaxOfNumbers
<1>5. \A a \in ages : At(a)[k].rate <= MaxRate
  BY DEF Accepted
<1>6. /\ lo \in Nat /\ hi \in Nat /\ hi <= MaxRate
      /\ \A a \in some : lo <= At(a)[k].rate /\ At(a)[k].rate <= hi
  <2> HIDE DEF ages, some
  <2>1. rates \in SUBSET Nat /\ rates # {}
    BY <1>1, <1>2, <1>3
  <2>2. \A x \in rates : x <= MaxRate
    BY <1>3, <1>5
  <2>3. \A a \in some : At(a)[k].rate \in rates
    OBVIOUS
  <2> HIDE DEF rates
  <2>4. lo \in rates /\ hi \in rates /\ \A x \in rates : lo <= x /\ x <= hi
    BY <2>1, <2>2, MinOfNumbers, MaxOfNumbers
  <2> QED  BY <2>1, <2>2, <2>3, <2>4
<1>7. ends \in Instant
  <2>1. At(Max(ages))[k] \in Instant /\ At(Min(ages))[k] \in Instant
    BY <1>1, <1>2, <1>4
  <2> QED  BY <2>1, SampleDeltaType
<1>8. Summary(k, dropFirst) = IF Cardinality(ages) < Size \/ ends.rate > MaxRate
                              THEN [ends EXCEPT !.rate = Mean(k, some)] ELSE ends
  BY DEF Summary
<1> DEFINE mean == Summary(k, dropFirst).rate
<1>9. mean \in Nat /\ lo <= mean /\ mean <= hi
  <2>1. CASE Cardinality(ages) < Size \/ ends.rate > MaxRate
    <3> HIDE DEF ages, ends, some, rates, lo, hi
    <3>1. mean = Mean(k, some)
      BY <1>7, <1>8, <2>1 DEF Instant
    <3>2. some \in SUBSET Slot
      BY <1>1, <1>3
    <3>3. \A a \in some : At(a)[k].rate \in Nat /\ lo <= At(a)[k].rate /\ At(a)[k].rate <= hi
      BY <1>2, <1>6, <3>2
    <3>4. Mean(k, some) \in Nat /\ lo <= Mean(k, some) /\ Mean(k, some) <= hi
      BY <3>2, <3>3, <1>3, <1>6, MeanBounds
    <3> QED  BY <3>1, <3>4
  <2>2. CASE ~(Cardinality(ages) < Size \/ ends.rate > MaxRate)
    <3>1. ages = Slot /\ Size >= 2
      <4>1. 0 \in Int /\ Size - 1 \in Int
        OBVIOUS
      <4>2. IsFiniteSet(Slot) /\ Cardinality(Slot) = Size
        BY <4>1, FS_Interval DEF Slot
      <4> HIDE DEF ages
      <4>3. Cardinality(ages) <= Size /\ (Cardinality(Slot) = Cardinality(ages) => Slot = ages)
        BY <4>2, <1>1, FS_Subset
      <4>4. Cardinality(ages) >= Size
        BY <1>1, <2>2
      <4> QED  BY <4>2, <4>3, <4>4, <1>1, <1>3
    <3>2. Max(ages) = Size - 1 /\ Min(ages) = 0
      <4>1. 0 \in ages /\ Size - 1 \in ages
        BY <3>1 DEF Slot
      <4>2. Max(ages) \in 0..(Size - 1) /\ Min(ages) \in 0..(Size - 1)
        BY <3>1, <1>4 DEF Slot
      <4>3. Min(ages) <= 0 /\ Size - 1 <= Max(ages)
        BY <4>1, <1>4
      <4> QED  BY <4>2, <4>3
    <3>3. ends = SampleDelta(At(Size - 1)[k], At(0)[k])
      BY <3>2
    <3>4. ends.rate <= MaxRate /\ ends.rate \in Nat
      <4>1. ends.rate \in Nat
        BY <1>7 DEF Instant
      <4> HIDE DEF ends
      <4> QED  BY <4>1, <2>2
    <3>5. \A a \in 0..(Size - 2) : lo <= At(a)[k].rate /\ At(a)[k].rate <= hi
      <4>1. \A a \in 0..(Size - 2) : a \in Slot /\ a # Size - 1
        BY DEF Slot
      <4> HIDE DEF ages, some, lo, hi
      <4>2. \A a \in 0..(Size - 2) : a \in some
        BY <4>1, <3>1, <3>2, <1>3
      <4> QED  BY <4>2, <1>6
    <3> HIDE DEF rates, lo, hi, ends
    <3>6. lo <= ends.rate /\ ends.rate <= hi
      BY <3>1, <3>3, <3>4, <3>5, <1>6, EndsBounds
    <3>7. mean = ends.rate
      BY <1>8, <2>2
    <3> QED  BY <3>4, <3>6, <3>7
  <2> QED  BY <2>1, <2>2
<1>10. \A r \in Nat : r <= MaxRate => Int64(r) = r
  BY RangeIsSigned DEF Int64
<1>11. CpuCoresNanoSec(k, dropFirst) = rates
  <2>1. \A a \in some : At(a)[k].rate \in Nat /\ At(a)[k].rate <= MaxRate
    <3> HIDE DEF ages, some
    <3> QED  BY <1>1, <1>2, <1>3, <1>5
  <2>2. \A a \in some : Int64(At(a)[k].rate) = At(a)[k].rate
    BY <2>1, <1>10
  <2> QED  BY <2>2 DEF CpuCoresNanoSec
<1>12. AvgCPUCoresNanoSec(k, dropFirst) = mean
  <2>1. mean \in Nat /\ mean <= MaxRate
    <3> HIDE DEF mean, lo, hi
    <3> QED  BY <1>6, <1>9
  <2> QED  BY <2>1, <1>10 DEF AvgCPUCoresNanoSec
<1> HIDE DEF mean, rates
<1> QED  BY <1>9, <1>11, <1>12

\* For every size of the ring, however the counters were set back and whatever
\* was filtered out: the mean of two values or more is in the range of those
\* reported with it, with DropFirstValue and without, the difference of the ends
\* of the window as well as the mean of the values.
THEOREM MeanWithin == Spec => []MeanWithinValues
<1>1. Init => IInv /\ UseInv
  BY InitIInv, InitUse
<1>2. IInv /\ UseInv /\ [Next]_vars => IInv' /\ UseInv'
  BY NextIInv, NextUse
<1>3. IInv /\ UseInv => MeanWithinValues
  BY UseMeanWithinValues
<1> QED  BY <1>1, <1>2, <1>3, PTL DEF Spec
=============================================================================
