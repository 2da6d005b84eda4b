---------------------------- MODULE MCCollection ----------------------------
(* A TLC instance of Collection: two nodes; a pod whose container has been *)
(* restarted, a pod that is recreated on the other node with a higher      *)
(* limit under the same name, a completed one and a pending one; two       *)
(* quotas, one of them for a storage class.                                *)
EXTENDS Collection

Meta(labels) == [Labels |-> labels, Annotations |-> Empty]

Part(prefix, resource, class) == [Prefix |-> prefix, Resource |-> resource, StorageClass |-> class]

MCQuotaKey ==
    ("requests.cpu" :> Part("requests", "cpu", "")) @@ ("cpu" :> Part("", "cpu", ""))
        @@ ("limits.cpu" :> Part("limits", "cpu", ""))
        @@ ("gold.storage" :> Part("", "gold.storage", "gold"))

Status(name, id, state, age) ==
    [Name |-> name, ContainerID |-> id, ImageID |-> "image", State |-> state, Age |-> age]

Ctr(requests, limits) ==
    [Name |-> "c", Image |-> "i", Requests |-> [cpu |-> requests, memory |-> 1],
     Limits |-> [cpu |-> limits, memory |-> 4]]

Pod(name, uid, node, podPhase, ctr, statuses) ==
    [Name |-> name, Age |-> 3, Namespace |-> "a", UID |-> uid, Mirror |-> "", NodeName |-> node,
     Phase |-> podPhase, PriorityClass |-> "", Containers |-> <<ctr>>, Statuses |-> statuses,
     Owners |-> <<>>, Claims |-> <<>>, MicroVM |-> FALSE, ScheduledAfter |-> 0, meta |-> Meta(Empty)]

Restarted ==
    [Pod("p1", "u1", "n1", "Running", Ctr(2, 4),
         <<Status("c", <<"containerd", "x0">>, "terminated", 9),
           Status("c", <<"containerd", "x1">>, "running", 6)>>)
     EXCEPT !.Claims = <<"claim">>, !.meta = Meta([team |-> "t"]),
            !.Owners = <<[Name |-> "rs", Controller |-> TRUE, Kind |-> "replicaset",
                          API |-> <<"apps", "v1">>]>>]

Stateful(uid, node, limit) ==
    [Pod("p2", uid, node, "Running", Ctr(1, limit), <<Status("c", <<uid>>, "running", 6)>>)
     EXCEPT !.ScheduledAfter = 2]

CompletedPod == Pod("p3", "u3", "n1", "Succeeded", Ctr(1, 1), <<Status("c", <<"x3">>, "terminated", 6)>>)

Pending == Pod("p4", "u4", "", "Pending", Ctr(1, 1), <<>>)

MCNode(name) ==
    [Name |-> name, meta |-> Meta(Empty), Unschedulable |-> FALSE, Taints |-> <<>>, Conditions |-> {},
     Allocatable |-> [cpu |-> 4, memory |-> 4], Capacity |-> [cpu |-> 4, memory |-> 4]]

Quota(name, hard, used) ==
    [Name |-> name, Namespace |-> "a", meta |-> Meta(Empty), MatchExpressions |-> <<>>,
     Hard |-> DOMAIN hard, StatusHard |-> hard, StatusUsed |-> used]

Sampler(node, affinity, deleted, state) ==
    [Name |-> "sampler", NodeName |-> node,
     Statuses |-> <<Status("metrics-node-sampler", <<"s">>, state, 6)>>,
     AffinityNode |-> affinity, Deleted |-> deleted]

Claim(namespace) ==
    [Name |-> "claim", Requests |-> [storage |-> 1], Limits |-> Empty, Namespace |-> namespace,
     Phase |-> "Bound", meta |-> Meta(Empty), Capacity |-> [storage |-> 2], VolumeName |-> "volume"]

Volume ==
    [StorageClass |-> "gold", Name |-> "volume", Phase |-> "Bound", meta |-> Meta(Empty),
     Capacity |-> [storage |-> 2], Hostname |-> "n1", ClaimRef |-> [Name |-> "claim", Namespace |-> "a"]]

MCCluster(pods, nodes, samplers) ==
    [Pods |-> pods, Nodes |-> nodes, Namespaces |-> <<[Name |-> "a", meta |-> Meta(Empty)]>>,
     Quotas |-> <<Quota("q1", ("requests.cpu" :> 5) @@ ("limits.cpu" :> 6), "requests.cpu" :> 2),
                  Quota("q2", "gold.storage" :> 3, "gold.storage" :> 1)>>,
     RQDs |-> <<[Name |-> "q1", Namespace |-> "a", Strategy |-> "s", Proposed |-> "requests.cpu" :> 4,
                 MaxObserved |-> "requests.cpu" :> 6]>>,
     PVCs |-> <<Claim("a"), Claim("b"), Claim("c")>>, PVs |-> <<Volume>>, Samplers |-> samplers,
     Controllers |-> <<[Annotations |-> Empty, Name |-> "rs", Namespace |-> "a",
                        Owners |-> <<[Name |-> "d", Controller |-> TRUE, Kind |-> "deployment",
                                      API |-> <<"apps", "v1">>]>>]>>,
     ClusterScoped |-> [ext |-> <<[Entries |-> <<[Labels |-> [priority_class |-> "high"],
                                                  Values |-> [cpu |-> 7]]>>]>>]]

MCClusters ==
    {MCCluster(<<Restarted, Stateful("u2", "n1", 3), CompletedPod>>, <<MCNode("n1"), MCNode("n2")>>,
               <<Sampler("n1", "", FALSE, "running"), Sampler("", "n2", FALSE, "waiting")>>),
     MCCluster(<<Restarted, Stateful("u5", "n2", 5), Pending>>, <<MCNode("n1"), MCNode("n2")>>,
               <<Sampler("n1", "", FALSE, "running"), Sampler("n2", "", FALSE, "")>>)}

\* more memory than the limit of 4, on average too
Usage(who, ids, cpu, avg) ==
    [ContainerID |-> ids[2], PodName |-> who[1], ContainerName |-> who[2],
     NamespaceName |-> who[3], PodUID |-> ids[1], Cpu |-> cpu, Memory |-> <<6, 5>>, Network |-> Empty,
     Periods |-> <<9, 1>>, Throttled |-> <<1, 9>>, AvgCpu |-> avg, AvgMemory |-> 5,
     AvgNetwork |-> Empty, AvgPeriods |-> 5, AvgThrottled |-> 5, Oom |-> 0, OomKill |-> 0]

CGroup(level, cpu) == [Cpu |-> cpu, Memory |-> <<4>>, AvgCpu |-> 1, AvgMemory |-> 4, Level |-> level]

ByName(pod, cpu, avg) == Usage(<<pod, "c", "a">>, <<"", "">>, cpu, avg)
ById(uid, id, cpu, avg) == Usage(<<"", "", "">>, <<uid, id>>, cpu, avg)

MCResponses ==
    {[Containers |-> <<ById("u1", "x1", <<5, 1>>, 5), ByName("p2", <<4, 2>>, 4),
                       ById("u1", "x0", <<0, 0>>, 0), ById("u3", "x3", <<1, 0>>, 1)>>,
      Node |-> "n1", CGroups |-> <<CGroup(<<>>, <<8>>), CGroup(<<"kubepods">>, <<7>>)>>],
     [Containers |-> <<ById("u1", "x1", <<2, 3>>, 3), ById("u1", "", <<1>>, 1)>>,
      Node |-> "n1", CGroups |-> <<CGroup(<<>>, <<3>>)>>],
     [Containers |-> <<ByName("p2", <<6, 1>>, 6)>>,
      Node |-> "n2", CGroups |-> <<CGroup(<<>>, <<6>>)>>]}

Extensions ==
    [k \in ToSet(Kinds) |-> IF k = "Pods" THEN <<[LabelName |-> "team", LabelKeys |-> <<"team">>,
                                                  AnnotationKeys |-> <<>>, Value |-> "", ID |-> 0]>>
                            ELSE <<>>]

MCConfig ==
    [Extensions |-> Extensions, Resources |-> {"cpu", "memory", "items", "storage", "gold.storage", "time", "periods"},
     SchedulerHealth |-> [MinPodAge |-> 1, MaxPodAge |-> 5], EnableRQD |-> TRUE, UseQuotaName |-> FALSE,
     CGroupRoot |-> [Name |-> "root", AvgName |-> ""],
     CGroupSources |-> (<<>> :> [Name |-> "top", AvgName |-> "avg_top"]),
     RestrictMaxUtilization |-> TRUE, RestrictMaxPeriods |-> 8,
     UnhealthyNodeConditions |-> <<[Status |-> "False", Type |-> "Ready"]>>,
     ClusterScopedSources |-> <<"ext">>,
     SampleMasks |-> [node |-> [Level |-> "node", Extensions |-> {}, BuiltIn |-> {"NodeName"}, Filters |-> <<>>]]]

\* collect_containers and collect_cgroups in any order, then the others
MCRank ==
    [collect_containers |-> 0, collect_cgroups |-> 0, collect_quotas |-> 1, collect_nodes |-> 2,
     collect_pvs |-> 3, collect_pvcs |-> 4, collect_namespace |-> 5, collect_cluster_scoped |-> 6]

NoOverride(labels) == Empty
=============================================================================
