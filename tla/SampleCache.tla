----------------------------- MODULE SampleCache -----------------------------
(***************************************************************************)
(* The sample cache of a node sampler (pkg/sampler/cache.go) with the      *)
(* reader of the cgroup files that feeds it (cgroup.go), the containerd    *)
(* source that may stand in for the reader (ctrstats_linux_amd64.go), the  *)
(* cadvisor client, and what ListMetrics makes of the cache (server.go).   *)
(*                                                                         *)
(* A key is a container or a node aggregation level.  Of the counters of a *)
(* key the model keeps one that is turned into a rate and checked against  *)
(* a range (CPU usage; of throttling only whether its rate is in range)    *)
(* and one of which the difference is reported as it is (OOM events; OOM   *)
(* kills alike).  Cumulative values are words, of which differences wrap.  *)
(***************************************************************************)
EXTENDS Integers, FiniteSets, FiniteSetsExt

CONSTANTS
    Key,       \* what is sampled
    Size,      \* Buffer.Size, the capacity of the ring
    Word,      \* 2^64
    MaxRate,   \* MaxCPUCoresNanoSec
    Infinity,  \* what uint64 makes of a float that is infinite or not a number
    Steps,     \* attempts of retry.DefaultRetry
    MaxClock,  \* bound: attempts to fetch a sample
    MaxUse,    \* bound: CPU time and OOM events of a key, together
    MaxOoms    \* bound: OOM events of a key

ASSUME SizeAssumption == Size \in Nat \ {0}
ASSUME WordAssumption == Word \in Nat \ {0}
ASSUME BoundsAssumption ==
    MaxRate \in Nat /\ Infinity \in Nat /\ Steps \in Nat \ {0} /\ MaxClock \in Nat
    /\ MaxUse \in Nat /\ MaxOoms \in Nat
\* A counter that was set back shows: its difference, a word just below 2^64, is
\* a rate out of range over any time between two samples.
ASSUME WordIsLarge == Word >= MaxUse + (MaxRate + 1) * MaxClock
\* The accepted range is one of int64, the type that is reported.
ASSUME RangeIsSigned == 2 * MaxRate < Word

VARIABLES
    level,     \* the keys that are node levels, the others are containers
    source,    \* UseContainerMonitor: containerd, or else the cgroup files
    cadvisor,  \* UseCadvisorMonitor; keys of cadvisor name the pod, as those of
               \* containerd do and those of the cgroup files do not: there they
               \* never meet, and only containerd is combined with it here
    clock,     \* the time, in seconds
    ring, pos, \* samples: the ring and the element it points to
    cpuKnown,  \* cpuFiles: containers whose CPU files are known
    memKnown,  \* memoryFiles
    syncing,   \* syncContainerCache has stored cpuFiles and not memoryFiles
    pc,        \* where Start and fetchSample stand
    tries,     \* failed attempts for this tick
    got,       \* keys of cpuMetrics
    cpu, mem,  \* cpuMetrics and memoryMetrics
    here,      \* the kernel: keys that have a cgroup
    cum, ooms, \* the kernel: their counters
    used, died \* what the key has used and how often it ran out of memory,
               \* over all of its cgroups

cache == <<ring, pos>>
reader == <<cpuKnown, memKnown, syncing>>
fetch == <<pc, tries, got, cpu, mem>>
kernel == <<here, cum, ooms, used, died>>
config == <<level, source, cadvisor>>
vars == <<config, clock, cache, reader, fetch, kernel>>

Slot == 0..(Size - 1)
Container == Key \ level

\* far: the rate of throttling is beyond MaxRate.  cpuTime and events are not
\* in the program: what the key had really used, and suffered, when it was read.
Instant ==
    [time : Nat, cum : Nat, oom : Nat, has : BOOLEAN, rate : Nat, far : BOOLEAN,
     ooms : Nat, cpuTime : Nat, events : Nat]
Reading == [time : Nat, cum : Nat, cpuTime : Nat]
MemReading == [oom : Nat, events : Nat]

\* sampleInstant{}, which is also what a map yields for a missing key; a key
\* that is not in a sample and one with this value are both passed over.
ZeroInstant ==
    [time |-> 0, cum |-> 0, oom |-> 0, has |-> FALSE, rate |-> 0, far |-> FALSE,
     ooms |-> 0, cpuTime |-> 0, events |-> 0]
NoSample == [k \in Key |-> ZeroInstant]
NoCPU == [k \in Key |-> [time |-> 0, cum |-> 0, cpuTime |-> 0]]
NoMemory == [k \in Key |-> [oom |-> 0, events |-> 0]]

TypeOK ==
    /\ level \in SUBSET Key /\ source \in {"cgroup", "containerd"} /\ cadvisor \in BOOLEAN
    /\ clock \in Nat
    /\ ring \in [Slot -> [Key -> Instant]] /\ pos \in Slot
    /\ cpuKnown \in SUBSET Key /\ memKnown \in SUBSET Key /\ syncing \in BOOLEAN
    /\ pc \in {"tick", "memory", "rest", "stopped"}
    /\ tries \in 0..Steps
    /\ got \in SUBSET Key
    /\ cpu \in [Key -> Reading] /\ mem \in [Key -> MemReading]
    /\ here \in SUBSET Key
    /\ cum \in [Key -> Nat] /\ ooms \in [Key -> Nat]
    /\ used \in [Key -> Nat] /\ died \in [Key -> Nat]

Init ==
    /\ level \in SUBSET Key /\ source \in {"cgroup", "containerd"} /\ cadvisor \in BOOLEAN
    /\ cadvisor => source = "containerd"
    /\ clock = 0
    /\ ring = [i \in Slot |-> NoSample] /\ pos = 0
    /\ here \in SUBSET Key
    /\ cpuKnown = here \ level /\ memKnown = here \ level  \* synced by init()
    /\ syncing = FALSE
    /\ pc = "tick" /\ tries = 0 /\ got = {}
    /\ cpu = NoCPU /\ mem = NoMemory
    /\ cum = [k \in Key |-> 0] /\ ooms = [k \in Key |-> 0]
    /\ used = [k \in Key |-> 0] /\ died = [k \in Key |-> 0]

----------------------------------------------------------------------------
(* The kernel.                                                             *)

Run(k) ==
    /\ k \in here /\ used[k] + died[k] < MaxUse
    /\ cum' = [cum EXCEPT ![k] = @ + 1]
    /\ used' = [used EXCEPT ![k] = @ + 1]
    /\ UNCHANGED <<config, clock, cache, reader, fetch, here, ooms, died>>

OutOfMemory(k) ==
    /\ k \in here \ level /\ died[k] < MaxOoms /\ used[k] + died[k] < MaxUse
    /\ ooms' = [ooms EXCEPT ![k] = @ + 1]
    /\ died' = [died EXCEPT ![k] = @ + 1]
    /\ UNCHANGED <<config, clock, cache, reader, fetch, here, cum, used>>

RemoveCGroup(k) ==
    /\ k \in here
    /\ here' = here \ {k}
    /\ cum' = [cum EXCEPT ![k] = 0]
    /\ ooms' = [ooms EXCEPT ![k] = 0]
    /\ UNCHANGED <<config, clock, cache, reader, fetch, used, died>>

\* Also under an old key, as when a container is started again: the counters
\* start from zero.
CreateCGroup(k) ==
    /\ k \notin here
    /\ here' = here \cup {k}
    /\ UNCHANGED <<config, clock, cache, reader, fetch, cum, ooms, used, died>>

----------------------------------------------------------------------------
(* The list of containers, renewed every ContainerCacheSyncIntervalSeconds *)
(* by a goroutine of its own.                                              *)

\* getContainers: an error of the walk is logged, and what was found by then
\* is the list.
Walk(found) == found \in SUBSET (here \ level)

SyncCPUFiles ==
    /\ source = "cgroup" /\ ~syncing
    /\ Walk(cpuKnown')
    /\ syncing' = TRUE
    /\ UNCHANGED <<config, clock, cache, memKnown, fetch, kernel>>

SyncMemoryFiles ==
    /\ syncing
    /\ Walk(memKnown')
    /\ syncing' = FALSE
    /\ UNCHANGED <<config, clock, cache, cpuKnown, fetch, kernel>>

----------------------------------------------------------------------------
(* fetchSample.                                                            *)

\* A file that cannot be read leaves the metrics at zero, their time too.
LevelCPUMetrics(k, now) ==
    IF k \in here THEN [time |-> now, cum |-> cum[k], cpuTime |-> used[k]]
    ELSE [time |-> 0, cum |-> 0, cpuTime |-> used[k]]

LevelMemoryMetrics(k, readable) ==
    [oom |-> IF readable THEN ooms[k] ELSE 0, events |-> died[k]]

\* An attempt begins.  The first container whose CPU file cannot be parsed ends
\* the loop over the map, without an error.
ReadCPU ==
    /\ pc = "tick" /\ source = "cgroup" /\ clock < MaxClock
    /\ clock' = clock + 1
    /\ got' \in SUBSET cpuKnown
    /\ cpu' = [k \in Key |-> IF k \in got' THEN LevelCPUMetrics(k, clock + 1) ELSE NoCPU[k]]
    /\ pc' = IF got' = {} THEN "rest" ELSE "memory"
    /\ UNCHANGED <<config, cache, reader, tries, mem, kernel>>

\* The memory files are read under another lock, from another list.  Without
\* any, the CPU metrics are dropped as well.
ReadMemory ==
    /\ pc = "memory"
    /\ mem' = [k \in Key |-> IF k \in got THEN LevelMemoryMetrics(k, k \in memKnown \cap here)
                             ELSE NoMemory[k]]
    /\ got' = IF memKnown = {} THEN {} ELSE got
    /\ pc' = "rest"
    /\ UNCHANGED <<config, clock, cache, reader, tries, cpu, kernel>>

\* getContainerCPUAndMemoryCM: a container whose stats fail is passed over, one
\* whose stats lack the CPU or the memory part has zeros for it.
ReadContainerd(failed, noCPU, noMemory) ==
    /\ pc = "tick" /\ source = "containerd" /\ clock < MaxClock
    /\ clock' = clock + 1
    /\ got' = (here \ level) \ failed
    /\ cpu' = [k \in Key |-> IF k \in got' \ noCPU THEN LevelCPUMetrics(k, clock + 1)
                             ELSE NoCPU[k]]
    /\ mem' = [k \in Key |-> IF k \in got' THEN LevelMemoryMetrics(k, k \notin noMemory)
                             ELSE NoMemory[k]]
    /\ pc' = "rest"
    /\ UNCHANGED <<config, cache, reader, tries, kernel>>

\* The lists cannot be made, memory or node metrics cannot be parsed, cadvisor
\* does not answer: nothing is added.  After the last attempt Start returns.
FetchFails ==
    /\ pc \in {"tick", "memory", "rest"}
    /\ pc = "tick" => clock < MaxClock
    /\ clock' = IF pc = "tick" THEN clock + 1 ELSE clock
    /\ tries' = tries + 1
    /\ pc' = IF tries + 1 = Steps THEN "stopped" ELSE "tick"
    /\ got' = {} /\ cpu' = NoCPU /\ mem' = NoMemory
    /\ UNCHANGED <<config, cache, reader, kernel>>

After(p) == IF p = Size - 1 THEN 0 ELSE p + 1
Back(p, a) == IF p >= a THEN p - a ELSE p - a + Size

\* Fault: a rate is computed over a gap, from the sample before the last one.
LastSampleOverGaps(k) ==
    IF ring[pos][k].time = 0 /\ Size > 1 THEN ring[Back(pos, 1)][k] ELSE ring[pos][k]

\* lastSampleForContainer, lastSampleForNode
LastSample(k) == ring[pos][k]

\* Fault: the difference is taken of signed numbers.
NormalizeSigned(old, new, sec) == IF sec > 0 THEN (new - old) \div sec ELSE 0

\* normalizeSeconds: the difference of words, over the seconds between two
\* samples; never negative.  The seconds are negative when the later sample was
\* not read, or was dated by cadvisor.
NormalizeSeconds(old, new, sec) ==
    CASE sec > 0 -> ((new - old) % Word) \div sec
      [] sec = 0 -> Infinity
      [] sec < 0 -> 0

\* computeSampleDelta
SampleDelta(last, sample) ==
    IF last.time = 0 THEN sample
    ELSE [sample EXCEPT
            !.has = TRUE,
            !.rate = NormalizeSeconds(last.cum, sample.cum, sample.time - last.time),
            !.ooms = (sample.oom - last.oom) % Word]

\* metricToSample
MetricToSample(last, c, m) ==
    SampleDelta(last,
        [time |-> c.time, cum |-> c.cum, oom |-> m.oom, has |-> FALSE, rate |-> 0,
         far |-> FALSE, ooms |-> 0, cpuTime |-> c.cpuTime, events |-> m.events])

\* containerToSample, nodeToSample.  Of a level there are no OOM events.
ToSample(k) ==
    IF k \in level
    THEN MetricToSample(LastSample(k), LevelCPUMetrics(k, clock), [oom |-> 0, events |-> 0])
    ELSE IF k \in got THEN MetricToSample(LastSample(k), cpu[k], mem[k])
    ELSE ZeroInstant

\* The counter of throttling was set back, or it grew too fast, between two
\* samples that were read.
Throttled(sample) ==
    IF sample.has /\ sample.time # 0 THEN [sample EXCEPT !.far = TRUE] ELSE sample

\* sampleInstantsFromMetricVector: the instant of a container with network
\* metrics, which it makes if there is none, takes their time if it is later.
\* That is the time the exposition gives them, which may be of long ago, and
\* the present only if it gives none.
WithNetwork(k, sample, t) ==
    IF sample.time < t THEN [sample EXCEPT !.time = t, !.cpuTime = used[k]] ELSE sample

\* The instant of a key in the sample that is added.  stamp is the time of its
\* network metrics, 0 if it has none.
Added(k, stamp, throttled) ==
    WithNetwork(k, IF k \in throttled THEN Throttled(ToSample(k)) ELSE ToSample(k), stamp[k])

\* Fault: the value is stored before the ring moves.
AddSampleThenMove(sample) ==
    /\ ring' = [ring EXCEPT ![pos] = sample]
    /\ pos' = After(pos)

\* AddSample moves the ring and overwrites the oldest sample.
AddSample(sample) ==
    /\ pos' = After(pos)
    /\ ring' = [ring EXCEPT ![After(pos)] = sample]

FetchSucceeds(stamp, throttled) ==
    /\ pc = "rest"
    /\ \A k \in Key : stamp[k] > 0 => cadvisor /\ k \in Container
    /\ AddSample([k \in Key |-> Added(k, stamp, throttled)])
    /\ pc' = "tick"
    /\ tries' = 0
    /\ got' = {} /\ cpu' = NoCPU /\ mem' = NoMemory
    /\ UNCHANGED <<config, clock, reader, kernel>>

----------------------------------------------------------------------------
Kernel == \E k \in Key : Run(k) \/ OutOfMemory(k) \/ RemoveCGroup(k) \/ CreateCGroup(k)

Fetch ==
    \/ ReadCPU \/ ReadMemory \/ FetchFails
    \/ \E failed, noCPU, noMemory \in SUBSET Container :
           ReadContainerd(failed, noCPU, noMemory)
    \/ \E stamp \in [Key -> 0..clock], throttled \in SUBSET Key :
           FetchSucceeds(stamp, throttled)

\* When Start returns an error, the process ends.
Next == pc # "stopped" /\ (Kernel \/ SyncCPUFiles \/ SyncMemoryFiles \/ Fetch)

Spec == Init /\ [][Next]_vars

----------------------------------------------------------------------------
(* getAllSamples and populateSummary, as ListMetrics uses them.            *)

\* The sample of a polls ago.
At(a) == ring[Back(pos, a)]

\* Fault: nothing is filtered out.
AcceptedAll(k) == {a \in Slot : At(a)[k].has}

\* The ages of the values of a key: those with both rates in the accepted range.
Accepted(k) == {a \in Slot : At(a)[k].has /\ At(a)[k].rate <= MaxRate /\ ~At(a)[k].far}

\* Those that are reported: DropFirstValue leaves out the oldest.
Values(k, dropFirst) == IF dropFirst THEN Accepted(k) \ {Max(Accepted(k))} ELSE Accepted(k)

Mean(k, ages) == MapThenSumSet(LAMBDA a : At(a)[k].rate, ages) \div Cardinality(ages)

\* Without two values sampleResult.avg stays zero, whatever the one value is.
HasSummary(k) == Cardinality(Accepted(k)) >= 2

\* Fault: the mean of the first and last sample is used whatever lies between.
SummaryOfEnds(k, dropFirst) ==
    SampleDelta(At(Max(Accepted(k)))[k], At(Min(Accepted(k)))[k])

\* populateSummary.  Of two values or more, the difference of the last and the
\* first; but the mean of the reported values themselves if some are missing or
\* the mean is out of range.  The range begins at 0, the default of
\* MinCPUCoresNanoSec.
Summary(k, dropFirst) ==
    LET ages == Accepted(k)
        ends == SampleDelta(At(Max(ages))[k], At(Min(ages))[k])
    IN  IF ~HasSummary(k) THEN ZeroInstant
        ELSE IF Cardinality(ages) < Size \/ ends.rate > MaxRate
        THEN [ends EXCEPT !.rate = Mean(k, Values(k, dropFirst))]
        ELSE ends

\* int64: the upper half of the words are negative numbers.
Int64(w) == IF 2 * w >= Word THEN w - Word ELSE w

\* What ListMetrics reports of a key.
CpuCoresNanoSec(k, dropFirst) == {Int64(At(a)[k].rate) : a \in Values(k, dropFirst)}
AvgCPUCoresNanoSec(k, dropFirst) == Int64(Summary(k, dropFirst).rate)
OomCount(k, dropFirst) == Int64(Summary(k, dropFirst).ooms)

----------------------------------------------------------------------------
(* Properties.                                                             *)

Window == INSTANCE SampleWindow WITH window <- [a \in Slot |-> At(a)], Empty <- NoSample

\* The ring is the window of the last Size samples: moving it and overwriting
\* the oldest loses and reorders nothing, and a failed fetch adds nothing.
IsWindow == Window!Spec

\* A rate is a difference to the sample just before, never to an older one over
\* a gap: that sample has a time, and one that was taken later if the rate is
\* not zero.  (A key that is not read, right after a poll that read it, does get
\* a rate: zero.  And cadvisor may give a time to a sample that was not read.)
RatesSpanOnePoll ==
    \A k \in Key : \A a \in 0..(Size - 2) :
        At(a)[k].has => /\ At(a + 1)[k].time # 0
                        /\ At(a)[k].rate > 0 => At(a + 1)[k].time < At(a)[k].time

\* CPU is never overstated by a sampler without cadvisor: an accepted rate, over
\* the time between its two polls, is not more than what the key really used
\* between them, also when the counter was set back.  (With cadvisor a sample
\* that has only network metrics is taken for one with the counter 0, and the
\* next rate may be that of the whole life of the key.)
NeverOverstated ==
    ~cadvisor =>
        \A k \in Key : \A a \in Accepted(k) \ {Size - 1} :
            LET new == At(a)[k]
                old == At(a + 1)[k]
            IN  new.rate > 0 => new.rate * (new.time - old.time) <= new.cpuTime - old.cpuTime

\* The mean of two values or more lies between the least and the greatest of
\* the values that ListMetrics reports with it, with and without the oldest of
\* them and whichever way populateSummary came by it.  A sampler with cadvisor,
\* whose samples may be dated out of order, is another matter.  (One value alone
\* is reported next to a mean of zero.)
MeanWithinValues ==
    ~cadvisor =>
        \A k \in Key : HasSummary(k) =>
            \A dropFirst \in BOOLEAN :
                LET rates == CpuCoresNanoSec(k, dropFirst)
                    mean == AvgCPUCoresNanoSec(k, dropFirst)
                IN  Min(rates) <= mean /\ mean <= Max(rates)

\* "the total oom events during the sampling window on the node-sampler": the
\* count that is reported is a number of events, and not of more than there were
\* since the oldest sample of the key.
OomEventsHappened ==
    \A k \in Key : HasSummary(k) =>
        /\ OomCount(k, FALSE) >= 0
        /\ OomCount(k, FALSE) <=
              At(Min(Accepted(k)))[k].events - At(Max(Accepted(k)))[k].events
=============================================================================
