--------------------------- MODULE MCAggregation ---------------------------
(* A TLC instance of Aggregation: containers of two pods in two namespaces *)
(* with a team label, and configurations with up to three levels.          *)
EXTENDS Aggregation

\* every team "b" is reported as team "a"
MCOverrideLabels(labels) ==
    [n \in {n \in DOMAIN labels : n = "team" /\ labels[n] = "b"} |-> "a"]

Label(name, key) ==
    [LabelName |-> name, LabelKeys |-> <<key>>, AnnotationKeys |-> <<>>, Value |-> "", ID |-> 0]

MCExtensions ==
    [k \in ToSet(Kinds) |-> CASE k = "Pods"  -> <<Label("team", "team")>>
                              [] k = "Nodes" -> <<Label("zone", "zone")>>
                              [] OTHER       -> <<>>]

MCMask(lvl, builtin, extensions, filters) ==
    [Level |-> lvl, BuiltIn |-> builtin, Extensions |-> extensions, Filters |-> filters]

PodMask   == MCMask("pod", {"PodName", "NamespaceName", "Level"}, {"team", "zone"}, <<>>)
SpaceMask == MCMask("ns", {"NamespaceName", "Level"}, {"team"}, <<>>)
AllMask   == MCMask("cluster", {"Level"}, {}, <<>>)

MCFilter(present, labelNames, labels, clusters) ==
    [Present |-> present, LabelNames |-> labelNames, Labels |-> labels, ClusterNames |-> clusters]

OnlyA      == MCFilter(Nil, {}, [team |-> {"a"}], {})
HasTeam    == MCFilter(TRUE, {"team"}, EmptyMetric, {"here"})
NoZone     == MCFilter(FALSE, {"zone"}, EmptyMetric, {})
OtherPlace == MCFilter(TRUE, {"team"}, EmptyMetric, {"there"})

MCLevel(mask, operation, operations) ==
    [Name |-> <<>>, Mask |-> mask, Operation |-> operation, Operations |-> operations,
     NoExport |-> FALSE, RetentionName |-> "", RetentionBuckets |-> Nil, HistogramResources |-> {}]

\* of whole values, a fraction bounds those from 1 on
MCPow(base, n) == IF n < 0 THEN 1 ELSE base ^ n

\* The floor of the quotient of two float64 logarithms.  Of the values here it is
\* the logarithm rounded down, with one exception: log 1000 / log 10 is
\* 2.9999999999999996.
MCLogFloor(base, v) ==
    IF base = 10 /\ v = 1000 THEN 2 ELSE Max({i \in 0 .. 9 : base ^ i <= v})

Retained(l, base, offset) ==
    [l EXCEPT !.RetentionName = "keep",
              !.RetentionBuckets = [Base |-> base, Offset |-> offset, SaveMaxOnly |-> offset = 2]]

MCConfig(sources, levels) ==
    [Extensions |-> MCExtensions,
     Aggregations |-> <<[Name |-> <<>>, Type |-> "container",
                         Sources |-> [container |-> sources], Levels |-> levels]>>,
     DefaultLevelNames |-> FALSE,
     DefaultAggregationNames |-> TRUE, EnableRQD |-> FALSE, DeleteAge |-> 0, DeleteCycles |-> 0,
     SchedulerHealth |-> [MinPodAge |-> 0, MaxPodAge |-> 0], ExtensionSources |-> {},
     CGroupSources |-> {}, Resources |-> {"cpu_cores"}, SaveSamplesLocally |-> TRUE,
     PreComputeMetrics |-> TRUE]

Statistics == <<"median", "p95", "avg", "hist">>

AcceptedConfigs ==
    {MCConfig(<<"requests_allocated">>,
        <<MCLevel(PodMask, "", <<>>), MCLevel(SpaceMask, "sum", <<>>), MCLevel(AllMask, "sum", <<>>)>>),
     MCConfig(<<"utilization">>,
        <<MCLevel(PodMask, "max", <<>>), MCLevel(SpaceMask, "", <<"sum">>),
          MCLevel(AllMask, "max", Statistics)>>),
     MCConfig(<<"utilization">>,
        <<[MCLevel(PodMask, "hist", <<>>) EXCEPT !.NoExport = TRUE],
          Retained(MCLevel(SpaceMask, "hist", Statistics \o <<"max", "sum">>), 2, 0)>>),
     MCConfig(<<"utilization">>, <<Retained(MCLevel(AllMask, "hist", <<>>), 2, -1)>>),
     MCConfig(<<"utilization">>, <<Retained(MCLevel(AllMask, "hist", <<>>), 2, 1)>>),
     MCConfig(<<"utilization">>, <<Retained(MCLevel(AllMask, "hist", <<>>), 2, 2)>>),
     MCConfig(<<"utilization">>, <<Retained(MCLevel(AllMask, "hist", <<>>), 10, 0)>>),
     MCConfig(<<"utilization">>, <<Retained(MCLevel(AllMask, "hist", <<>>), 10, 3)>>),
     MCConfig(<<"requests_allocated", "utilization">>,
        <<MCLevel([PodMask EXCEPT !.Filters = <<OnlyA, HasTeam>>], "max", <<>>),
          MCLevel([SpaceMask EXCEPT !.Filters = <<NoZone>>], "sum", <<>>)>>),
     MCConfig(<<"requests_allocated">>,
        <<MCLevel([PodMask EXCEPT !.Filters = <<OtherPlace>>], "avg", <<"max">>)>>)}

RejectedConfigs ==
    {MCConfig(<<"utilization">>, <<MCLevel(PodMask, "sum", <<>>)>>),
     MCConfig(<<"unknown">>, <<MCLevel(PodMask, "sum", <<>>)>>),
     MCConfig(<<"requests_allocated", "requests_allocated">>, <<MCLevel(PodMask, "sum", <<>>)>>)}

MCConfigs == AcceptedConfigs \cup RejectedConfigs

MCLabels(container, pod, namespace, team) ==
    [NoLabels EXCEPT !.BuiltIn.ContainerName = container, !.BuiltIn.PodName = pod,
                     !.BuiltIn.NamespaceName = namespace, !.Extension[0] = team]

MCKeys ==
    {MCLabels("c1", "p1", "n1", "a"), MCLabels("c2", "p1", "n1", "a"),
     MCLabels("c1", "p2", "n1", "b"), MCLabels("c1", "p3", "n2", "")}

MCValues(source) ==
    IF source = "utilization" THEN {<<>>, <<4, 1, 3>>, <<-1, 2>>} ELSE {<<-3>>, <<0>>, <<5>>}

\* of two containers, one with values on bounds of the buckets of base 10
MCOnBounds ==
    [Source |-> "utilization",
     Values |-> (MCLabels("c1", "p1", "n1", "a") :> <<1000, 10>>) @@
                (MCLabels("c1", "p3", "n2", "") :> <<3>>)]

MCRawMetric ==
    {MCOnBounds} \cup
    UNION {[Source : {s}, Values : UNION {[ks -> MCValues(s)] : ks \in SUBSET MCKeys}] :
           s \in {"utilization", "requests_allocated"}}
=============================================================================
