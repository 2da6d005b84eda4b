---------------------------- MODULE Aggregation ----------------------------
(* Aggregation of a metric through the levels of a configuration           *)
(* (AggregateAndCollect, aggregateMetric and aggregate of pkg/collector).  *)
(* Each level masks the labels of the level before it, lets the overriders *)
(* change them, filters, groups the values that now share their labels,    *)
(* and reduces each group with its operation.  What a level exports is     *)
(* sent to Prometheus, and to the local sample files when it has a         *)
(* retention name.  The goroutines of one metric each are independent; the *)
(* module follows one.                                                     *)
EXTENDS CollectorConfig

CONSTANTS
    Configs,       \* the configurations that may be loaded
    RawMetric,     \* the metrics collection may produce: a source, and the
                   \* values of each combination of labels
    ClusterName,   \* the environment variable CLUSTER_NAME
    Grain,         \* quantity units in one unit of AveragePrecision
    Pow(_, _),     \* math.Pow of a base and an exponent, rounded up to a whole
                   \* number as the values are whole numbers
    LogFloor(_, _),\* the floor of math.Log of a value over math.Log of a base.
                   \* Floats: it need not be the logarithm rounded down
    None           \* no aggregation in progress

VARIABLES
    spec,       \* the configuration, initialised once it is accepted
    phase,      \* "loading", "rejected", "idle", "levels" or "panicked"
    agg,        \* the aggregation at work, of spec.Aggregations
    raw,        \* the metric collected
    level,      \* the level computed next
    metric,     \* the metric the last level left
    sent,       \* the metrics exported
    saved       \* the sample lists for local files

vars == <<spec, phase, agg, raw, level, metric, sent, saved>>

names == labelNamesByIds(spec.Extensions)

EmptyMetric == [k \in {} |-> <<>>]

IsMetric(m) ==
    /\ IsFiniteSet(DOMAIN m)
    /\ \A k \in DOMAIN m : k \in LabelsValues /\ m[k] \in Seq(Int)

MaskFits(mask) == mask.BuiltIn \subseteq BuiltInField /\ "" \notin mask.Extensions

\* buckets with a lower bound that is a number
LevelFits(l) ==
    /\ MaskFits(l.Mask)
    /\ l.Operation \in STRING /\ l.Operations \in Seq(STRING)
    /\ l.RetentionBuckets # Nil =>
          Pow(l.RetentionBuckets.Base, l.RetentionBuckets.Offset) \in Int

\* a configuration the client library takes: no label has the name of another
WellFormed(s) ==
    LET byId == labelNamesByIds(s.Extensions)
    IN  /\ \A i, j \in LabelId : byId[i] = byId[j] /\ byId[i] # "" => i = j
        /\ \A i \in LabelId, f \in BuiltInField : byId[i] # BuiltInName[f]
        /\ \A n \in DOMAIN s.Aggregations :
              LET levels == s.Aggregations[n].Levels
              IN  /\ s.Aggregations[n] # None
                  /\ Len(levels) \in Nat /\ DOMAIN levels = 1 .. Len(levels)
                  /\ \A l \in DOMAIN levels : LevelFits(levels[l])

ASSUME AggregationAssumption == Grain \in Nat \ {0}
ASSUME ConfigsAssumption == \A c \in Configs : Accepted(c) => WellFormed(Initialised(c))

\* no code sets the level of a sample that is collected
ASSUME RawMetricAssumption ==
    \A m \in RawMetric :
        IsMetric(m.Values) /\ \A k \in DOMAIN m.Values : k.BuiltIn["Level"] = ""
-----------------------------------------------------------------------------
(* Operations on a list of quantities.                                     *)

Total(values) == FoldSeq(+, 0, values)

\* the i-th is the least that at least i of the values do not exceed
Sort(values) ==
    LET UpTo(x) == Cardinality({j \in DOMAIN values : values[j] <= x})
    IN  [i \in DOMAIN values |-> Min({x \in ToSet(values) : UpTo(x) >= i})]

\* round half up, away from zero, to a multiple of Grain
divideQtyInt64(x, n) ==
    LET d == n * Grain
        Round(y) == Grain * ((2 * y + d) \div (2 * d))
    IN  IF x >= 0 THEN Round(x) ELSE -Round(-x)

\* Fault: the median of an even number of values is the upper one.
AggregateUpperMedian(op, values, sorted) ==
    CASE op = "median" -> <<Sort(values)[1 + Len(values) \div 2]>>
      [] op = "p95"    -> <<Sort(values)[1 + ((Len(values) - 1) * 95) \div 100]>>
      [] op = "hist"   -> values
      [] OTHER         -> <<Max(ToSet(values) \cup {0})>>

\* an unknown operation leaves the zero quantity
aggregate(op, values, sorted) ==
    LET s == IF sorted THEN values ELSE Sort(values)
    IN  CASE op = "sum"    -> <<Total(values)>>
          [] op = "max"    -> IF sorted THEN <<values[Len(values)]>>
                              ELSE <<Max(ToSet(values) \cup {0})>>
          [] op = "avg"    -> <<divideQtyInt64(Total(values), Len(values))>>
          [] op = "p95"    -> <<s[1 + ((Len(s) - 1) * 95) \div 100]>>
          [] op = "median" -> <<s[1 + (Len(s) - 1) \div 2]>>
          [] op = "hist"   -> values
          [] OTHER         -> <<0>>
-----------------------------------------------------------------------------
(* One level: aggregateMetric.                                             *)

\* the labels of a sample once the mask and the overriders have been applied:
\* the key it is grouped under, and the values the filters look at
Mapped(mask, k) ==
    LET labels    == maskLabels(mask, k, names)
        values    == getLabelValues(mask, labels, names)
        overrides == overrideValues(values)
    IN  [key    |-> overrideLabels(labels, overrides, names),
         values |-> [n \in DOMAIN values |-> IF n \in DOMAIN overrides
                                             THEN overrides[n] ELSE values[n]]]

Passes(filters, values) ==
    \A f \in ToSet(filters) :
        /\ f.Present # Nil => \A n \in f.LabelNames : (Get(values, n) # "") = f.Present
        /\ \A n \in DOMAIN f.Labels : Get(values, n) \in f.Labels[n]
        /\ f.ClusterNames = {} \/ ClusterName \in f.ClusterNames

\* Fault: the samples that share a key replace each other.
IndexedLast(mask, m) ==
    LET kept == {k \in DOMAIN m : Passes(mask.Filters, Mapped(mask, k).values)}
    IN  [g \in {Mapped(mask, k).key : k \in kept} |->
            m[CHOOSE k \in kept : Mapped(mask, k).key = g]]

\* the values of the samples that share a key, appended in some order
Indexed(mask, m) ==
    LET kept == {k \in DOMAIN m : Passes(mask.Filters, Mapped(mask, k).values)}
        From(g) == SetToSeq({k \in kept : Mapped(mask, k).key = g})
    IN  [g \in {Mapped(mask, k).key : k \in kept} |->
            FlattenSeq([i \in DOMAIN From(g) |-> m[From(g)[i]]])]

Operations(l) == ToSet(l.Operations) \cup ({l.Operation} \ {""})

aggregateMetric(l, m) ==
    LET indexed == Indexed(l.Mask, m)
        sorted  == Operations(l) \cap {"p95", "median"} # {}
        Values(g) == IF sorted THEN Sort(indexed[g]) ELSE indexed[g]
    IN  [op \in Operations(l) |->
            [g \in {g \in DOMAIN indexed : indexed[g] # <<>>} |-> aggregate(op, Values(g), sorted)]]

\* the values a histogram has buckets for: those not below lowerBound
Large(buckets, values) ==
    {j \in DOMAIN values : Pow(buckets.Base, buckets.Offset) <= values[j]}

\* the index of the bucket of a value
Bucket(buckets, v) == LogFloor(buckets.Base, v) - buckets.Offset

\* bucketCounts[index]++ outside of the slice, which is as long as the bucket of
\* the maximum demands
IndexPanics(buckets, values) ==
    LET maxIndex == Bucket(buckets, Max(ToSet(values)))
    IN  /\ ~buckets.SaveMaxOnly
        /\ \E j \in Large(buckets, values) :
              LET index == Bucket(buckets, values[j])
              IN  ~(index \in Nat /\ index <= maxIndex)

\* Fault: no bucket for the maximum.
HistogramShort(buckets, values) ==
    LET maxVal == Max(ToSet(values))
        large  == Large(buckets, values)
    IN  [Base |-> buckets.Base, ExponentOffset |-> buckets.Offset,
         ZeroCount |-> Len(values) - Cardinality(large), MaxValue |-> maxVal,
         Counts |-> IF large = {} THEN EmptyMetric
                    ELSE [i \in 0 .. Bucket(buckets, maxVal) - 1 |->
                             Cardinality({j \in large : Bucket(buckets, values[j]) = i})]]

\* AddHistogramValues, of values that do not make it panic.  Whole numbers stand
\* for the floats; none is large if the maximum is below the lower bound.
AddHistogramValues(buckets, values) ==
    LET maxVal == Max(ToSet(values))
        large  == Large(buckets, values)
        counts == [i \in 0 .. Bucket(buckets, maxVal) |->
                      Cardinality({j \in large : Bucket(buckets, values[j]) = i})]
    IN  [Base |-> buckets.Base, ExponentOffset |-> buckets.Offset,
         ZeroCount |-> Len(values) - Cardinality(large), MaxValue |-> maxVal,
         Counts |-> IF buckets.SaveMaxOnly \/ large = {} THEN EmptyMetric ELSE counts]

\* the sample a level with a retention name saves for one key
SavedSample(l, op, k, values) ==
    [Labels |-> getLabelValues(l.Mask, k, names), Operation |-> op, Values |-> values,
     Histogram |-> IF op = "hist" /\ l.RetentionBuckets # Nil
                   THEN AddHistogramValues(l.RetentionBuckets, values) ELSE Nil]

\* what collectMetric and collectHistogramMetric render
Series(m) == [k \in DOMAIN m.Values |-> getLabelValues(m.Mask, k, names)]
-----------------------------------------------------------------------------
Init ==
    /\ spec \in Configs
    /\ phase = "loading" /\ agg = None
    /\ raw = [Source |-> "", Values |-> EmptyMetric] /\ metric = EmptyMetric
    /\ level = 1
    /\ sent = {} /\ saved = {}

\* the process ends on a configuration it does not accept
Load ==
    /\ phase = "loading"
    /\ IF Accepted(spec)
       THEN spec' = Initialised(spec) /\ phase' = "idle"
       ELSE spec' = spec /\ phase' = "rejected"
    /\ UNCHANGED <<agg, raw, level, metric, sent, saved>>

\* Fault: the metrics of the scrape before are sent again.
CollectAgain(i, m) ==
    /\ phase = "idle"
    /\ m.Source \in ToSet(GetSources(spec.Aggregations[i]))
    /\ phase' = "levels" /\ agg' = spec.Aggregations[i]
    /\ raw' = m /\ metric' = m.Values
    /\ level' = 1 /\ saved' = {}
    /\ UNCHANGED <<spec, sent>>

Collect(i, m) ==
    /\ phase = "idle"
    /\ m.Source \in ToSet(GetSources(spec.Aggregations[i]))
    /\ phase' = "levels" /\ agg' = spec.Aggregations[i]
    /\ raw' = m /\ metric' = m.Values
    /\ level' = 1 /\ sent' = {} /\ saved' = {}
    /\ UNCHANGED spec

CurrentLevel == agg.Levels[level]

Saves(l) == l.RetentionName # "" /\ spec.SaveSamplesLocally

SavingPanics(l, results) ==
    /\ Saves(l) /\ l.RetentionBuckets # Nil
    /\ \E op \in DOMAIN results \cap {"hist"} : \E k \in DOMAIN results[op] :
          IndexPanics(l.RetentionBuckets, results[op][k])

\* several operations on a level that is not the last: logged, and skipped
SkipLevel ==
    /\ phase = "levels" /\ level < Len(agg.Levels)
    /\ CurrentLevel.Operations # <<>>
    /\ level' = level + 1
    /\ UNCHANGED <<spec, phase, agg, raw, metric, sent, saved>>

\* the results of the operations are taken in the order of a map: any of them
\* may be the one the next level starts from
AggregateLevel ==
    /\ phase = "levels" /\ level <= Len(agg.Levels)
    /\ level < Len(agg.Levels) => CurrentLevel.Operations = <<>>
    /\ LET results == aggregateMetric(CurrentLevel, metric)
       IN  /\ ~SavingPanics(CurrentLevel, results)
           /\ \E op \in DOMAIN results : metric' = results[op]
           /\ saved' = IF ~Saves(CurrentLevel) THEN saved
                       ELSE saved \cup UNION {{SavedSample(CurrentLevel, op, k, results[op][k]) :
                                k \in DOMAIN results[op]} : op \in DOMAIN results}
           /\ sent' = IF CurrentLevel.NoExport THEN sent
                      ELSE sent \cup {[Index |-> level, Level |-> CurrentLevel.Mask.Level,
                               Operation |-> op, Mask |-> CurrentLevel.Mask, Values |-> results[op]] :
                               op \in DOMAIN results}
    /\ level' = level + 1
    /\ UNCHANGED <<spec, phase, agg, raw>>

\* a goroutine that panics ends the process
PanicLevel ==
    /\ phase = "levels" /\ level <= Len(agg.Levels)
    /\ level < Len(agg.Levels) => CurrentLevel.Operations = <<>>
    /\ SavingPanics(CurrentLevel, aggregateMetric(CurrentLevel, metric))
    /\ phase' = "panicked"
    /\ UNCHANGED <<spec, agg, raw, level, metric, sent, saved>>

Finish ==
    /\ phase = "levels" /\ level > Len(agg.Levels)
    /\ phase' = "idle"
    /\ UNCHANGED <<spec, agg, raw, level, metric, sent, saved>>

Next ==
    \/ Load
    \/ \E i \in DOMAIN spec.Aggregations, m \in RawMetric : Collect(i, m)
    \/ SkipLevel
    \/ AggregateLevel
    \/ PanicLevel
    \/ Finish

Spec == Init /\ [][Next]_vars
-----------------------------------------------------------------------------
(* Properties.                                                             *)

\* The types of the state: the level is one of the aggregation's or just
\* beyond the last, and a metric maps labels to lists of quantities.
TypeOK ==
    /\ phase \in {"loading", "rejected", "idle", "levels", "panicked"}
    /\ agg # None => level \in 1 .. Len(agg.Levels) + 1
    /\ agg = None => level = 1
    /\ IsMetric(raw.Values) /\ IsMetric(metric)
    /\ \A m \in sent : m.Operation \in STRING /\ m.Index < level /\ IsMetric(m.Values)

\* No level exports two samples under the same labels (collectMetric): the
\* client library would fail the whole scrape on the second.  Two samples
\* the mask or the overriders make alike must have been grouped.
SeriesDistinct ==
    \A m \in sent : \A k1, k2 \in DOMAIN m.Values : Series(m)[k1] = Series(m)[k2] => k1 = k2

\* Every series a level exports satisfies the filters of that level as it is
\* rendered: aggregateMetric filters on labels it computes before grouping,
\* and collectMetric computes the labels again from the overridden key.
ExportedPassFilters ==
    \A m \in sent : \A k \in DOMAIN m.Values : Passes(m.Mask.Filters, Series(m)[k])

Skipped(i) == i < Len(agg.Levels) /\ agg.Levels[i].Operations # <<>>

\* the levels up to i that are not skipped all apply op, filter nothing and
\* keep at most the labels of the level before
Uniform(op, i) ==
    LET applied == {j \in 1 .. i : ~Skipped(j)}
        Mask(j) == agg.Levels[j].Mask
    IN  /\ \A j \in applied : Operations(agg.Levels[j]) = {op} /\ Mask(j).Filters = <<>>
        /\ \A j1, j2 \in applied : j1 < j2 =>
              Mask(j2).BuiltIn \subseteq Mask(j1).BuiltIn /\ Mask(j2).Extensions \subseteq Mask(j1).Extensions

\* Aggregating level by level loses nothing and counts nothing twice: along
\* levels that all sum (or all take the maximum), each exported value is what
\* the operation gives for the collected samples that map to its labels
\* directly.
StagedIsDirect ==
    \A m \in sent :
        m.Operation \in {"sum", "max"} /\ Uniform(m.Operation, m.Index) =>
            m.Values = aggregateMetric([Mask |-> m.Mask, Operations |-> <<>>,
                                        Operation |-> m.Operation], raw.Values)[m.Operation]

\* The operations of one level agree with each other: they report the same
\* series, and in each the median is at most the 95th percentile, which is at
\* most the maximum; the average exceeds the maximum by no more than its
\* rounding.
StatisticsOrdered ==
    \A m1, m2 \in sent : m1.Index = m2.Index =>
        /\ DOMAIN m1.Values = DOMAIN m2.Values
        /\ m1.Operation = "median" /\ m2.Operation = "p95" =>
              \A k \in DOMAIN m1.Values : m1.Values[k][1] <= m2.Values[k][1]
        /\ m1.Operation = "p95" /\ m2.Operation = "max" =>
              \A k \in DOMAIN m1.Values : m1.Values[k][1] <= m2.Values[k][1]
        /\ m1.Operation = "avg" /\ m2.Operation = "max" =>
              \A k \in DOMAIN m1.Values : 2 * m1.Values[k][1] <= 2 * m2.Values[k][1] + Grain

\* A saved histogram accounts for every value: those below the lower bound
\* are in ZeroCount and each other one in a bucket, the last of which holds
\* the maximum (AddHistogramValues).  That is so whatever the logarithms are
\* rounded to; but a process may panic instead of saving one.
HistogramComplete ==
    \A s \in saved : s.Histogram # Nil =>
        LET h == s.Histogram
        IN  DOMAIN h.Counts # {} =>
                /\ h.ZeroCount + SumFunction(h.Counts) = Len(s.Values)
                /\ h.Counts[Max(DOMAIN h.Counts)] > 0
=============================================================================
