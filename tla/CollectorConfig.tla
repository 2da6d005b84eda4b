-------------------------- MODULE CollectorConfig --------------------------
(* The collector's configuration: what it accepts and what it fills in     *)
(* before the first scrape (ValidateCollectorSpecAndApplyDefaults of       *)
(* pkg/api/collectorcontrollerv1alpha1, init of pkg/collector/types.go).   *)
EXTENDS Labels

\* the names a source type knows; cgroup sources are configured, cluster
\* scoped and scheduler sources are not looked at
Sources ==
    [container |-> {"container", "requests_allocated", "limits_allocated", "utilization",
                    "avg_utilization", "requests_allocated_minus_utilization", "nr_periods",
                    "avg_nr_periods", "nr_throttled", "avg_nr_throttled", "oom_kill", "oom"},
     pod       |-> {"pod"},
     quota     |-> {"quota", "requests_quota_hard", "limits_quota_hard", "requests_quota_used",
                    "limits_quota_used", "requests_quota_hard_minus_used",
                    "limits_quota_hard_minus_used", "pvc_requests_quota_hard",
                    "pvc_requests_quota_used", "requests_quota_proposed",
                    "limits_quota_proposed", "requests_quota_hard_minus_proposed",
                    "limits_quota_hard_minus_proposed",
                    "requests_quota_max_observed_minus_hard",
                    "limits_quota_max_observed_minus_hard"},
     node      |-> {"node", "node_allocatable", "node_capacity", "node_requests",
                    "node_limits", "node_allocatable_minus_requests"},
     pvc       |-> {"pvc", "pvc_requests_allocated", "pvc_limits_allocated", "pvc_capacity"},
     pv        |-> {"pv", "pv_capacity"},
     namespace |-> {"namespace"}]

RQDSources ==
    {"requests_quota_proposed", "limits_quota_proposed", "requests_quota_hard_minus_proposed",
     "limits_quota_hard_minus_proposed", "requests_quota_max_observed_minus_hard",
     "limits_quota_max_observed_minus_hard"}

SourceTypes == DOMAIN Sources \cup {"cgroup", "cluster_scoped", "scheduler_health"}

AggregationOperations == {"sum", "max", "p95", "avg", "median", "hist"}

GetSources(a) == IF a.Type \in DOMAIN a.Sources THEN a.Sources[a.Type] ELSE <<>>
-----------------------------------------------------------------------------
(* ValidateCollectorSpecAndApplyDefaults.  A name is a tuple, so that a    *)
(* generated one differs from any given one; <<>> is the empty name.       *)

DefaultNames(spec) ==
    LET LevelName(l, j) ==
            IF l.Name # <<>> THEN l.Name
            ELSE IF spec.DefaultLevelNames THEN <<l.Mask.Level>> ELSE <<"unnamed-level", j>>
        Named(a, i) ==
            [a EXCEPT !.Name = IF @ # <<>> THEN @
                               ELSE IF spec.DefaultAggregationNames THEN <<a.Type>>
                               ELSE <<"unnamed-aggregation", i>>,
                      !.Levels = [j \in DOMAIN @ |->
                                     [a.Levels[j] EXCEPT !.Name = LevelName(a.Levels[j], j)]]]
    IN  [spec EXCEPT !.Aggregations = [i \in DOMAIN @ |-> Named(@[i], i)]]

\* one name for each aggregation, level, source and operation; the single
\* operation counts even when it is empty
CombinationsDistinct(spec) ==
    LET Ops(l)  == <<l.Operation>> \o l.Operations
        A       == spec.Aggregations
        entries == UNION {UNION {UNION {{<<i, j, s, o>> : o \in DOMAIN Ops(A[i].Levels[j])} :
                       s \in DOMAIN GetSources(A[i])} : j \in DOMAIN A[i].Levels} : i \in DOMAIN A}
        Name(e) == <<A[e[1]].Name, GetSources(A[e[1]])[e[3]], A[e[1]].Levels[e[2]].Name,
                     Ops(A[e[1]].Levels[e[2]])[e[4]]>>
    IN  Cardinality({Name(e) : e \in entries}) = Cardinality(entries)

\* the labels of side cars are not counted
ExtensionLabelsFit(spec) ==
    Len(FlattenSeq([k \in 1 .. Len(Kinds) - 1 |-> spec.Extensions[Kinds[k]]])) <= MaxExtensionLabels

RQDConsistent(spec) ==
    \/ spec.EnableRQD
    \/ \A i \in DOMAIN spec.Aggregations :
          spec.Aggregations[i].Type = "quota" =>
              ToSet(GetSources(spec.Aggregations[i])) \cap RQDSources = {}

SpecValid(spec) ==
    CombinationsDistinct(spec) /\ ExtensionLabelsFit(spec) /\ RQDConsistent(spec)

\* with resource quota descriptors the function has returned before this
DefaultDeletion(spec) ==
    IF spec.EnableRQD THEN spec
    ELSE [spec EXCEPT !.DeleteAge = IF @ = 0 THEN 30 ELSE @,
                      !.DeleteCycles = IF @ = 0 THEN 10 ELSE @]
-----------------------------------------------------------------------------
(* init of the collector.                                                  *)

defaultMetricsPrometheusCollector(spec) ==
    LET Op(l) == IF l.Operation = "" /\ l.Operations = <<>> THEN "sum" ELSE l.Operation
        Defaulted(a) == [a EXCEPT !.Levels = [j \in DOMAIN @ |->
                            [a.Levels[j] EXCEPT !.Operation = Op(a.Levels[j])]]]
        MaxAge(h) == IF h.MinPodAge = 0 THEN 15 ELSE IF h.MaxPodAge = 0 THEN 60 ELSE h.MaxPodAge
    IN  [spec EXCEPT
           !.Aggregations = [i \in DOMAIN @ |-> Defaulted(@[i])],
           !.SchedulerHealth = IF @ = Nil THEN Nil
                               ELSE [MinPodAge |-> @.MinPodAge, MaxPodAge |-> MaxAge(@)]]

initExtensionLabelIndexes(spec) == [spec EXCEPT !.Extensions = WithIds(@)]

\* an operation of the list is not looked at
LevelValid(spec, l) ==
    /\ l.Operations = <<>> => l.Operation \in AggregationOperations
    /\ l.Mask.Level # ""
    /\ \A f \in ToSet(l.Mask.Filters) :
          /\ f.LabelNames # {} \/ DOMAIN f.Labels # {}
          /\ f.LabelNames # {} => f.Present # Nil
    /\ l.HistogramResources \subseteq spec.Resources

AggregationValid(spec, a) ==
    /\ \A t \in DOMAIN a.Sources : \A s \in ToSet(a.Sources[t]) :
          /\ t \in DOMAIN Sources => s \in Sources[t] \cup spec.ExtensionSources
          /\ t = "cgroup" => s \in spec.CGroupSources
    /\ a.Type \in SourceTypes
    /\ a.Levels # <<>>
    /\ ~ /\ a.Type = "container"
         /\ a.Levels[1].Operations = <<>>
         /\ "utilization" \in ToSet(GetSources(a))
         /\ a.Levels[1].Operation \in {"sum", ""}
    /\ \A l \in ToSet(a.Levels) : LevelValid(spec, l)

validateMetricsPrometheusCollector(spec) ==
    /\ spec.SaveSamplesLocally => spec.PreComputeMetrics
    /\ \A a \in ToSet(spec.Aggregations) : AggregationValid(spec, a)
    /\ \A t \in ToSet(spec.Extensions["NodeTaints"]) :
          /\ t.LabelName # ""
          /\ ~(t.TaintKeys = <<>> /\ t.TaintValues = <<>> /\ t.TaintEffects = <<>>)

\* what the collector runs with
Initialised(spec) ==
    initExtensionLabelIndexes(defaultMetricsPrometheusCollector(DefaultDeletion(DefaultNames(spec))))

Accepted(spec) == SpecValid(DefaultNames(spec)) /\ validateMetricsPrometheusCollector(Initialised(spec))
=============================================================================
