----------------------------- MODULE Collection -----------------------------
(* One scrape of the collector (collect and the functions it runs in       *)
(* pkg/collector/collector.go), over the responses samplers have pushed.   *)
(*                                                                         *)
(* A scrape lists the objects of the cluster, takes the response of each   *)
(* node, and runs the collection functions at once; each labels and counts *)
(* its objects.  The lists run at once too, so they may see different      *)
(* states of the cluster, and one may fail.  Responses are shared by       *)
(* pointer: collectContainers restricts the samples of a response in       *)
(* place, and the next scrape reads what it wrote.  Meanwhile samplers go  *)
(* on pushing and responses expire.                                        *)
(*                                                                         *)
(* Metric names are <<source type, source, resource>>.  Each function      *)
(* keeps its own metrics, so they are one atomic step each.  Aggregation   *)
(* models what becomes of a metric, CollectorServing when scrapes happen.  *)
EXTENDS Values

CONSTANTS
    Clusters,       \* the states of the cluster
    Responses,      \* the responses samplers may push
    Config,         \* the configuration, initialised
    MaxPushes,      \* bound: responses pushed
    MayFail,        \* bound: the lists that may fail
    MayLag,         \* bound: the lists that may see a later state
    Rank            \* bound: a collection function returns once those of a
                    \* lower rank have; any order if the ranks are equal

VARIABLES
    cluster,    \* what the API server holds
    received,   \* history: the responses pushed, in order
    heap,       \* the same responses as they are in memory now
    responses,  \* node -> index in heap of its cached response
    phase,      \* "idle", "collecting" or "crashed"
    warm,       \* the process runs for longer than maxWaitTimeForUtilization
    failed,     \* the lists that failed in this scrape
    o,          \* the CapacityObjects of this scrape
    done,       \* the collection functions that have returned
    metrics,    \* what they have collected
    usageOf,    \* container -> where collectContainers found its samples
    missing,    \* containers and nodes reported without samples -> reason
    saved       \* source type -> the sample list written locally

vars == <<cluster, received, heap, responses, phase, warm, failed, o, done, metrics,
          usageOf, missing, saved>>

Lists ==
    {"list_pods", "list_nodes", "list_namespaces", "list_quotas", "list_pvcs", "list_pvs",
     "list_cluster_scoped", "list_sampler_pods"}
        \cup (IF Config.EnableRQD THEN {"list_rqds"} ELSE {})

CollectorFuncs ==
    {"collect_containers", "collect_quotas", "collect_nodes", "collect_pvs", "collect_pvcs",
     "collect_namespace", "collect_cgroups", "collect_cluster_scoped"}

ASSUME CollectionAssumption ==
    /\ MaxPushes \in Nat /\ MayFail \subseteq Lists /\ MayLag \subseteq Lists
    /\ Rank \in [CollectorFuncs -> Nat]

NoObjects ==
    [Pods |-> <<>>, Nodes |-> <<>>, Namespaces |-> <<>>, Quotas |-> <<>>, RQDs |-> <<>>,
     PVCs |-> <<>>, PVs |-> <<>>, Samplers |-> <<>>, ClusterScoped |-> Empty,
     Utilization |-> Empty]

\* the fields of CapacityObjects that are lists
ListFields == DOMAIN NoObjects \ {"ClusterScoped", "Utilization"}

UniqueBy(list, Key(_)) == \A i, j \in DOMAIN list : Key(list[i]) = Key(list[j]) => i = j

NameOf(x) == x.Name

QualifiedName(x) == <<x.Namespace, x.Name>>

\* the API server holds one object of a name, in each namespace if it has
\* namespaces; a pod one container of a name; a response a sample once
ASSUME ObjectsAssumption ==
    /\ \A c \in Clusters :
          /\ \A f \in {"Nodes", "Namespaces", "PVs"} : UniqueBy(c[f], NameOf)
          /\ \A f \in {"Pods", "Quotas", "RQDs", "PVCs"} : UniqueBy(c[f], QualifiedName)
          /\ \A pod \in ToSet(c.Pods) : UniqueBy(pod.Containers, NameOf)
    /\ \A r \in Responses : IsInjective(r.Containers) /\ IsInjective(r.CGroups)

\* what the samples of a container are attributed by
KeyFields == {"NamespaceName", "PodName", "ContainerName", "PodUID", "ContainerID"}

IsList(list) == list \in Seq(ToSet(list)) /\ Nil \notin ToSet(list)

\* a status list, where every status has an age
StatusesFit(pod) ==
    /\ pod.Statuses \in Seq(ToSet(pod.Statuses))
    /\ \A s \in ToSet(pod.Statuses) : s.Age \in Nat

ASSUME FieldsAssumption ==
    /\ \A c \in Clusters :
          /\ \A f \in ListFields : IsList(c[f])
          /\ \A pod \in ToSet(c.Pods) :
                /\ IsList(pod.Containers) /\ StatusesFit(pod)
                /\ \A x \in ToSet(pod.Containers), r \in {"cpu", "memory"} :
                      Qty(x.Requests, r) \in Nat /\ Qty(x.Limits, r) \in Nat
    /\ \A r \in Responses :
          /\ {"Containers", "CGroups", "Node"} \subseteq DOMAIN r
          /\ r.Containers \in Seq(ToSet(r.Containers)) /\ r.CGroups \in Seq(ToSet(r.CGroups))
          /\ \A s \in ToSet(r.Containers) :
                /\ KeyFields \cup {"Cpu", "Memory", "AvgCpu"} \subseteq DOMAIN s
                /\ s.Cpu \in Seq(Int) /\ s.Memory \in Seq(Int) /\ s.AvgCpu \in Int

IsText(map) == \A k \in DOMAIN map : map[k] \in STRING

\* a ResourceList
IsAmounts(list) == \A r \in DOMAIN list : list[r] \in Int

OwnersFit(owners) ==
    /\ owners \in Seq(ToSet(owners))
    /\ \A r \in ToSet(owners) : {r.Name, r.Kind} \subseteq STRING /\ r.API \in Seq(STRING) \ {<<>>}

\* the fields of the objects of a list that hold text
TextFields ==
    [Pods |-> {"Name", "Namespace", "NodeName", "PriorityClass"}, Nodes |-> {"Name"}, Namespaces |-> {"Name"},
     Quotas |-> {"Name", "Namespace"}, PVCs |-> {"Name", "Namespace", "Phase"},
     PVs |-> {"Name", "StorageClass", "Phase", "Hostname"}]

\* those that hold quantities
AmountFields ==
    [Nodes |-> {"Allocatable", "Capacity"}, Quotas |-> {"StatusHard", "StatusUsed"}, PVs |-> {"Capacity"},
     RQDs |-> {"Proposed", "MaxObserved"}, PVCs |-> {"Requests", "Limits", "Capacity"}]

\* those of a sample
ListsOfSample == {"Cpu", "Memory", "Periods", "Throttled"}
NumbersOfSample == {"AvgCpu", "AvgMemory", "AvgPeriods", "AvgThrottled", "Oom", "OomKill"}

\* Go's types of what is read: API objects, responses and the configuration
ASSUME ObjectTypes ==
    \A c \in Clusters :
        /\ \A f \in DOMAIN TextFields : \A x \in ToSet(c[f]) :
              /\ \A g \in TextFields[f] : x[g] \in STRING
              /\ IsText(x.meta.Labels) /\ IsText(x.meta.Annotations)
        /\ \A f \in DOMAIN AmountFields : \A x \in ToSet(c[f]) : \A g \in AmountFields[f] : IsAmounts(x[g])
        /\ \A pod \in ToSet(c.Pods) :
              /\ pod.Age \in Int \cup {Nil} /\ pod.ScheduledAfter \in Int /\ OwnersFit(pod.Owners)
              /\ \A s \in ToSet(pod.Statuses) : s.ImageID \in STRING
              /\ \A x \in ToSet(pod.Containers) :
                    {x.Name, x.Image} \subseteq STRING /\ IsAmounts(x.Requests) /\ IsAmounts(x.Limits)
        /\ \A n \in ToSet(c.Nodes) :
              n.Taints \in Seq(ToSet(n.Taints)) /\ \A t \in ToSet(n.Taints) : t.Value \in STRING
        /\ \A q \in ToSet(c.Quotas) : \A e \in ToSet(q.MatchExpressions) : e.Values \subseteq STRING
        /\ \A f \in {"Quotas", "RQDs"} : \A x \in ToSet(c[f]) : \A g \in AmountFields[f] :
              DOMAIN x[g] \subseteq DOMAIN QuotaKey
        /\ \A d \in ToSet(c.RQDs) : d.Strategy \in STRING
        /\ c.Controllers \in Seq(ToSet(c.Controllers))
        /\ \A x \in ToSet(c.Controllers) : IsText(x.Annotations) /\ OwnersFit(x.Owners)
        /\ \A k \in DOMAIN c.ClusterScoped :
              /\ c.ClusterScoped[k] \in Seq(ToSet(c.ClusterScoped[k]))
              /\ \A x \in ToSet(c.ClusterScoped[k]) :
                    /\ x.Entries \in Seq(ToSet(x.Entries))
                    /\ \A e \in ToSet(x.Entries) : IsText(e.Labels) /\ IsAmounts(e.Values)

ASSUME ResponseTypes ==
    \A r \in Responses :
        /\ \A s \in ToSet(r.Containers) :
              /\ ListsOfSample \cup NumbersOfSample \cup {"Network", "AvgNetwork"} \subseteq DOMAIN s
              /\ \A f \in ListsOfSample : s[f] \in Seq(Int)
              /\ \A f \in NumbersOfSample : s[f] \in Int
              /\ \A k \in DOMAIN s.Network : s.Network[k] \in Seq(Int)
              /\ IsAmounts(s.AvgNetwork)
        /\ \A g \in ToSet(r.CGroups) :
              /\ g.Level \in Seq(STRING) /\ g.Cpu \in Seq(Int) /\ g.Memory \in Seq(Int)
              /\ g.AvgCpu \in Int /\ g.AvgMemory \in Int

ASSUME ConfigTypes ==
    /\ \A k \in ToSet(Kinds) : Config.Extensions[k] \in Seq(ToSet(Config.Extensions[k]))
    /\ \A k \in ToSet(Kinds) \ {"NodeTaints"} : \A v \in ToSet(Config.Extensions[k]) :
          v.Value \in STRING /\ v.LabelKeys \in Seq(STRING) /\ v.AnnotationKeys \in Seq(STRING)
    /\ \A t \in ToSet(Config.Extensions["NodeTaints"]) : {t.LabelValue, t.LabelNegativeValue} \subseteq STRING
    /\ Config.ClusterScopedSources \in Seq(STRING)
    /\ Config.RestrictMaxPeriods \in Int
    /\ \A k \in DOMAIN QuotaKey : QuotaKey[k].Resource \in DOMAIN QuotaKey /\ QuotaKey[k].StorageClass \in STRING

\* like EmptyIsString
ASSUME LiteralsAreStrings == {Undefined, "true", "false", "core", "v1", "pod", "."} \subseteq STRING

\* list -> the field of CapacityObjects it fills
FieldOf ==
    [list_pods |-> "Pods", list_nodes |-> "Nodes", list_namespaces |-> "Namespaces",
     list_quotas |-> "Quotas", list_rqds |-> "RQDs", list_pvcs |-> "PVCs", list_pvs |-> "PVs",
     list_sampler_pods |-> "Samplers", list_cluster_scoped |-> "ClusterScoped"]
-----------------------------------------------------------------------------
(* The indexes listCapacityObjects builds.                                 *)

ItemAt(items, i) == IF i = 0 THEN Nil ELSE items[i]

\* of two items with the same key the later one is in the map
Named(items, name) == ItemAt(items, SelectLastInSeq(items, LAMBDA x : x.Name = name))

NamedIn(items, namespace, name) ==
    ItemAt(items, SelectLastInSeq(items, LAMBDA x : x.Namespace = namespace /\ x.Name = name))

PodsByNodeName(node) == {p \in ToSet(o.Pods) : p.NodeName = node}

\* a pod is in the list of a claim once for each of its volumes that has the
\* claim; Claims are those of the volumes
PodsByPVC(pvc) ==
    UNION {{<<p, j>> : j \in {j \in DOMAIN p.Claims : p.Claims[j] = pvc.Name}} :
           p \in {p \in ToSet(o.Pods) : p.Namespace = pvc.Namespace}}

\* a pod that is not scheduled yet has the node in its affinity, or ""
SamplersByNode ==
    LET Add(m, p) ==
            IF p.NodeName # "" THEN Put(m, p.NodeName, p)
            ELSE IF p.AffinityNode = "" \/ (p.AffinityNode \in DOMAIN m /\ p.Deleted) THEN m
            ELSE Put(m, p.AffinityNode, p)
    IN  FoldLeft(Add, Empty, o.Samplers)
-----------------------------------------------------------------------------
(* The workload of a pod.  API versions are lists of their parts.          *)

getAPIGroupVersion(api) ==
    IF Len(api) < 2 THEN [Group |-> "core", Version |-> api[1]]
    ELSE [Group |-> api[1], Version |-> api[2]]

OwnerWorkload(name, kind, api) ==
    [Name |-> name, Kind |-> kind, APIGroup |-> getAPIGroupVersion(api).Group,
     APIVersion |-> getAPIGroupVersion(api).Version]

AnnotatedWorkload(a) ==
    [Name |-> a["workload-name"], Kind |-> Get(a, "workload-kind"),
     APIGroup |-> Get(a, "workload-api-group"), APIVersion |-> Get(a, "workload-api-version")]

ControllerOf(owners) == ItemAt(owners, SelectInSeq(owners, LAMBDA r : r.Controller))

\* the owner of a replica set or job is read when the pod is collected
getWorkloadFor(ref, namespace) ==
    LET rs == NamedIn(cluster.Controllers, namespace, ref.Name)
    IN  IF rs = Nil THEN OwnerWorkload(ref.Name, ref.Kind, ref.API)
        ELSE IF "workload-name" \in DOMAIN rs.Annotations THEN AnnotatedWorkload(rs.Annotations)
        ELSE LET top == ControllerOf(rs.Owners)
             IN  IF top = Nil THEN OwnerWorkload(ref.Name, ref.Kind, ref.API)
                 ELSE OwnerWorkload(top.Name, top.Kind, ref.API)

getWorkloadForPod(pod) ==
    LET ref == ControllerOf(pod.Owners)
    IN  IF "workload-name" \in DOMAIN pod.meta.Annotations
        THEN AnnotatedWorkload(pod.meta.Annotations)
        ELSE IF ref = Nil THEN OwnerWorkload(pod.Name, "pod", <<"v1">>)
        ELSE IF ref.Kind \in {"replicaset", "job"} THEN getWorkloadFor(ref, pod.Namespace)
        ELSE OwnerWorkload(ref.Name, ref.Kind, ref.API)
-----------------------------------------------------------------------------
(* Metrics and local samples.                                              *)

\* what one object adds to the metrics: name -> labels and value
Points(type, values, labels, resources) ==
    [n \in {n \in UNION {{<<type, s, r>> : r \in DOMAIN values[s]} : s \in DOMAIN values} :
               n[3] \in resources} |->
        [Labels |-> labels, Value |-> values[n[2]][n[3]]]]

addValuesToMetrics(values, labels, type) == Points(type, values, labels, Config.Resources)

\* an object's position is the indexes of the loops that reach it, outermost
\* first
Later(p, q) == \E d \in DOMAIN p : p[d] > q[d] /\ \A e \in 1 .. d - 1 : p[e] = q[e]

ForEach(list, Op(_)) == [p \in {<<i>> : i \in DOMAIN list} |-> Op(list[p[1]])]

\* the metrics of the objects at all positions; a later value for the same
\* labels replaces the earlier one
Collected(points) ==
    [n \in UNION {DOMAIN points[p] : p \in DOMAIN points} |->
        LET at      == {p \in DOMAIN points : n \in DOMAIN points[p]}
            With(l) == {p \in at : points[p][n].Labels = l}
            Latest(P) == CHOOSE p \in P : \A q \in P \ {p} : Later(p, q)
        IN  [l \in {points[p][n].Labels : p \in at} |-> points[Latest(With(l))][n].Value]]

names == labelNamesByIds(Config.Extensions)

\* NewSample, AddQuantityValues and AddIntValues for one object
NewSample(type, labels, values, resources) ==
    [Labels |-> getLabelValues(Config.SampleMasks[type], labels, names),
     Values |-> UNION {{<<s, r, values[s][r]>> : r \in DOMAIN values[s] \cap resources} :
                       s \in DOMAIN values}]

\* SaveSamplesToFile: nothing for a type without a mask; a failed write is
\* only logged
SaveSamplesToFile(type, samples) ==
    IF type \notin DOMAIN Config.SampleMasks THEN saved' = saved
    ELSE saved' \in {saved, Put(saved, type, samples)}
-----------------------------------------------------------------------------
(* The samplers' side.                                                     *)

Init ==
    /\ cluster \in Clusters
    /\ received = <<>> /\ heap = <<>> /\ responses = Empty
    /\ phase = "idle" /\ warm = FALSE /\ failed = {} /\ o = NoObjects
    /\ done = {} /\ metrics = Empty /\ usageOf = Empty /\ missing = Empty /\ saved = Empty

scrape == <<phase, warm, failed, o, done, metrics, usageOf, missing, saved>>

\* Fault: the response before is cached.
PushBehind(r) ==
    /\ Len(received) < MaxPushes /\ phase # "crashed"
    /\ received' = Append(received, r)
    /\ heap' = Append(heap, r)
    /\ responses' = Put(responses, r.Node, Len(heap))
    /\ UNCHANGED <<cluster, scrape>>

\* CacheMetrics, and what UtilizationServer models around it
Push(r) ==
    /\ Len(received) < MaxPushes /\ phase # "crashed"
    /\ received' = Append(received, r)
    /\ heap' = Append(heap, r)
    /\ responses' = Put(responses, r.Node, Len(heap) + 1)
    /\ UNCHANGED <<cluster, scrape>>

ClearMetrics(n) ==
    /\ phase # "crashed" /\ n \in DOMAIN responses
    /\ responses' = [m \in DOMAIN responses \ {n} |-> responses[m]]
    /\ UNCHANGED <<cluster, received, heap, scrape>>

ClusterChanges(c) ==
    /\ phase = "idle" /\ c # cluster
    /\ cluster' = c
    /\ UNCHANGED <<received, heap, responses, scrape>>

WarmUp ==
    /\ phase = "idle" /\ ~warm
    /\ warm' = TRUE
    /\ UNCHANGED <<cluster, received, heap, responses, phase, failed, o, done, metrics,
                   usageOf, missing, saved>>
-----------------------------------------------------------------------------
(* Listing.                                                                *)

\* what wait may return: the first result written to the channel, whether it
\* is an error or not
wait(fns, failing) == {IF f \in failing THEN f ELSE Nil : f \in fns}

Listed(list, bad, late, next) ==
    IF list \in bad \/ list \notin Lists THEN NoObjects[FieldOf[list]]
    ELSE IF list \in late THEN next[FieldOf[list]] ELSE cluster[FieldOf[list]]

\* listClusterScoped reports no error; what it could not list is absent
listCapacityObjects(bad, late, next) ==
    /\ phase = "idle"
    /\ failed' = bad
    /\ cluster' = IF late = {} THEN cluster ELSE next
    /\ done' = {} /\ metrics' = Empty /\ usageOf' = Empty /\ missing' = Empty /\ saved' = Empty
    /\ \E err \in wait(Lists, bad \ {"list_cluster_scoped"}) :
          IF err # Nil THEN phase' = "idle" /\ o' = NoObjects
          ELSE /\ phase' = "collecting"
               /\ o' = [f \in DOMAIN NoObjects |->
                          IF f = "Utilization" THEN responses
                          ELSE Listed(CHOOSE l \in DOMAIN FieldOf : FieldOf[l] = f, bad, late, next)]
    /\ UNCHANGED <<received, heap, responses, warm>>

\* the functions only share what they read and, between collectContainers and
\* collectCGroups, the responses
Turn(f) ==
    /\ phase = "collecting" /\ f \notin done
    /\ \A g \in CollectorFuncs : Rank[g] < Rank[f] => g \in done

\* f returns with metrics m; what else it changes is up to the caller
Returns(f, m) ==
    /\ Turn(f)
    /\ done' = done \cup {f}
    /\ metrics' = Put(metrics, f, m)

Undisturbed == UNCHANGED <<cluster, received, heap, responses, phase, warm, failed, o, usageOf>>
-----------------------------------------------------------------------------
(* Volumes, namespaces, nodes, cluster scoped collections.                 *)

PVLabels(pv) ==
    LET pvc  == IF pv.ClaimRef = Nil THEN Nil
                ELSE NamedIn(o.PVCs, pv.ClaimRef.Namespace, pv.ClaimRef.Name)
        node == IF pv.Hostname = "" THEN Nil ELSE Named(o.Nodes, pv.Hostname)
    IN  [BuiltIn   |-> BuiltInForPV(NoLabels.BuiltIn, pv, pvc, node),
         Extension |-> ExtensionForPV(Config.Extensions, NoLabels.Extension, pv, node)]

PVPoints(pv) == addValuesToMetrics(GetValuesForPV(pv), PVLabels(pv), "pv")

collectPVs ==
    /\ Returns("collect_pvs", Collected(ForEach(o.PVs, PVPoints)))
    /\ Undisturbed /\ UNCHANGED <<missing, saved>>

\* the pod of a claim, when the list has one entry
PVCLabels(pvc) ==
    LET pods == PodsByPVC(pvc)
        pod  == IF Cardinality(pods) = 1 THEN (CHOOSE p \in pods : TRUE)[1] ELSE Nil
        w    == IF pod = Nil THEN Nil ELSE getWorkloadForPod(pod)
        node == IF pod = Nil THEN Nil ELSE Named(o.Nodes, pod.NodeName)
        pv   == Named(o.PVs, pvc.VolumeName)
    IN  [BuiltIn   |-> BuiltInForPVC(NoLabels.BuiltIn, pvc, pv, pod, w, node),
         Extension |-> ExtensionForPVC(Config.Extensions, NoLabels.Extension, pvc, pv,
                                       Named(o.Namespaces, pvc.Namespace), pod, node)]

PVCPoints(pvc) == addValuesToMetrics(GetValuesForPVC(pvc), PVCLabels(pvc), "pvc")

collectPVCs ==
    /\ Returns("collect_pvcs", Collected(ForEach(o.PVCs, PVCPoints)))
    /\ Undisturbed /\ UNCHANGED <<missing, saved>>

NamespaceLabels(n) ==
    [BuiltIn   |-> BuiltInForNamespace(NoLabels.BuiltIn, n),
     Extension |-> ExtensionForNamespace(Config.Extensions, NoLabels.Extension, n)]

NamespacePoints(n) == Points("namespace", [namespace |-> Items], NamespaceLabels(n), {"items"})

collectNamespaces ==
    /\ Returns("collect_namespace", Collected(ForEach(o.Namespaces, NamespacePoints)))
    /\ Undisturbed /\ UNCHANGED <<missing, saved>>

NodeLabels(n) ==
    [BuiltIn   |-> BuiltInForNode(NoLabels.BuiltIn, n),
     Extension |-> ExtensionForNode(Config.Extensions, NoLabels.Extension, n)]

NodeValues(n) == GetValuesForNode(n, PodsByNodeName(n.Name))

NodePoints(n) == addValuesToMetrics(NodeValues(n), NodeLabels(n), "node")

collectNodes ==
    /\ Returns("collect_nodes", Collected(ForEach(o.Nodes, NodePoints)))
    /\ SaveSamplesToFile("node",
           {NewSample("node", NodeLabels(n), NodeValues(n), Config.Resources) : n \in ToSet(o.Nodes)})
    /\ Undisturbed /\ UNCHANGED missing

\* Entries: the parsed annotation, empty when it is absent or unreadable
collectClusterScoped ==
    LET Labels(entry) == [NoLabels EXCEPT !.BuiltIn = BuiltInForClusterScoped(@, entry.Labels)]
        sources    == Config.ClusterScopedSources
        Objects(k) == IF sources[k] \in DOMAIN o.ClusterScoped THEN o.ClusterScoped[sources[k]] ELSE <<>>
        At(k)      == UNION {{<<k, i, j>> : j \in DOMAIN Objects(k)[i].Entries} : i \in DOMAIN Objects(k)}
        Added(k, entry) ==
            addValuesToMetrics(Put(Empty, sources[k], Single(entry.Values)), Labels(entry), "cluster_scoped")
    IN  /\ Returns("collect_cluster_scoped",
               Collected([p \in UNION {At(k) : k \in DOMAIN sources} |->
                             Added(p[1], Objects(p[1])[p[2]].Entries[p[3]])]))
        /\ SaveSamplesToFile("cluster_scoped", {})
        /\ Undisturbed /\ UNCHANGED missing
-----------------------------------------------------------------------------
(* Quotas.                                                                 *)

QuotaLabels(q) ==
    LET rqd == NamedIn(o.RQDs, q.Namespace, q.Name)
    IN  [BuiltIn   |-> BuiltInForQuota(NoLabels.BuiltIn, q, rqd, Config.UseQuotaName),
         Extension |-> ExtensionForQuota(Config.Extensions, NoLabels.Extension, q,
                                         Named(o.Namespaces, q.Namespace))]

QuotaValues(q) == GetValuesForQuota(q, NamedIn(o.RQDs, q.Namespace, q.Name), Config.EnableRQD)

StorageClasses(q) ==
    {QuotaKey[k].StorageClass : k \in DOMAIN q.StatusHard \cap q.Hard \cap Config.Resources} \ {""}

\* the resources of a source that are reported
Reported(q, s) ==
    IF s = "quota" THEN {"items"} ELSE DOMAIN QuotaValues(q)[s] \cap Config.Resources

\* the sources that do not set the storage class for all they report
Exposed(q) ==
    {s \in DOMAIN QuotaValues(q) : \E r \in Reported(q, s) :
        s = "quota" \/ QuotaKey[r].StorageClass = "" \/ r \notin q.Hard}

\* the labels are one variable for all the sources of a quota, which are taken
\* in the order of a map: a source may find the storage class that one before
\* it has set.  class says which, for each exposed source
QuotaPoints(q, class) ==
    LET values   == QuotaValues(q)
        Prior(s) == [QuotaLabels(q) EXCEPT !.BuiltIn.StorageClass = Get(class, s)]
        At(s, r) == IF s = "quota" \/ QuotaKey[r].StorageClass = "" THEN Prior(s)
                    ELSE [Prior(s) EXCEPT !.BuiltIn =
                             BuiltInForPVCQuota(@, q, r, QuotaKey[r].StorageClass)]
    IN  [n \in UNION {{<<"quota", s, r>> : r \in Reported(q, s)} : s \in DOMAIN values} |->
            [Labels |-> At(n[2], n[3]), Value |-> values[n[2]][n[3]]]]

\* the sample of a quota has the labels from before, and leaves the item out
collectQuota ==
    LET Q == o.Quotas
        Saved(q) == [s \in DOMAIN QuotaValues(q) \ {"quota"} |-> QuotaValues(q)[s]]
        exposed == UNION {{<<i, s>> : s \in Exposed(Q[i])} : i \in {i \in DOMAIN Q : StorageClasses(Q[i]) # {}}}
        Classes(i) == {""} \cup StorageClasses(Q[i])
        Chosen(class, i) == [s \in {e[2] : e \in {e \in exposed : e[1] = i}} |-> class[<<i, s>>]]
    IN  /\ Turn("collect_quotas")
        /\ \E class \in [exposed -> UNION {Classes(i) : i \in DOMAIN Q}] :
              /\ \A e \in exposed : class[e] \in Classes(e[1])
              /\ Returns("collect_quotas",
                     Collected([p \in {<<i>> : i \in DOMAIN Q} |-> QuotaPoints(Q[p[1]], Chosen(class, p[1]))]))
        /\ SaveSamplesToFile("quota",
               {NewSample("quota", QuotaLabels(q), Saved(q), Config.Resources) : q \in ToSet(Q)})
        /\ Undisturbed /\ UNCHANGED missing
-----------------------------------------------------------------------------
(* Cgroups of the nodes.  A cgroup is the list of directories from the     *)
(* root; the sources are configured for the parent, the label is the base. *)

getCGroupMetricSource(cgroup) ==
    IF cgroup = <<>> THEN Config.CGroupRoot
    ELSE IF Front(cgroup) \in DOMAIN Config.CGroupSources THEN Config.CGroupSources[Front(cgroup)]
    ELSE [Name |-> "", AvgName |-> ""]

CGroupValues(g) ==
    LET src == getCGroupMetricSource(g.Level)
    IN  [s \in {src.Name, src.AvgName} \ {""} |->
            IF s = src.Name THEN [cpu |-> g.Cpu, memory |-> g.Memory]
            ELSE [cpu |-> <<g.AvgCpu>>, memory |-> <<g.AvgMemory>>]]

CGroupLabels(n, g) ==
    [NodeLabels(n) EXCEPT !.BuiltIn =
        BuiltInForCGroup(@, IF g.Level = <<>> THEN "." ELSE Last(g.Level))]

\* the state of a container status is "running", "terminated", "waiting" or
\* "" when none is given; Age is the time since it started, in minutes
SamplerMissingReason(p) ==
    LET i == SelectInSeq(p.Statuses, LAMBDA s : s.Name = "metrics-node-sampler")
    IN  IF p.Deleted THEN "sampler-pod-terminated"
        ELSE IF i = 0 THEN "unknown"
        ELSE LET s == p.Statuses[i]
             IN  CASE s.State = "running" /\ s.Age < 5 -> "sampler-container-recently-running"
                   [] s.State = "running" /\ s.Age >= 5 -> "unknown"
                   [] s.State = "terminated" -> "sampler-container-terminated"
                   [] s.State = "waiting" -> "sampler-container-waiting"
                   [] s.State = "" -> "panic"

nodeMissingReason(n) ==
    LET unhealthy == SelectInSeq(Config.UnhealthyNodeConditions, LAMBDA c : c \in n.Conditions)
    IN  IF unhealthy # 0 THEN "node-unhealthy"
        ELSE IF n.Name \notin DOMAIN SamplersByNode THEN "sampler-pod-missing"
        ELSE SamplerMissingReason(SamplersByNode[n.Name])

\* Fault: the response that is cached by now, not the one of this scrape.
LatestCGroups(n) ==
    heap[IF n.Name \in DOMAIN responses THEN responses[n.Name] ELSE o.Utilization[n.Name]].CGroups

AggregatedMetrics(n) == heap[o.Utilization[n.Name]].CGroups

CGroups ==
    UNION {{<<i, j>> : j \in DOMAIN AggregatedMetrics(o.Nodes[i])} :
           i \in {i \in DOMAIN o.Nodes : o.Nodes[i].Name \in DOMAIN o.Utilization}}

CGroupPoints(n, j) ==
    LET g == AggregatedMetrics(n)[j]
    IN  Points("cgroup", CGroupValues(g), CGroupLabels(n, g), {"cpu", "memory"})

\* a nil dereference in a goroutine ends the process
collectCGroups ==
    LET seen   == {n \in ToSet(o.Nodes) : n.Name \in DOMAIN o.Utilization}
        unseen == ToSet(o.Nodes) \ seen
        Reason == [k \in {<<"node", n.Name>> : n \in unseen} |-> nodeMissingReason(Named(o.Nodes, k[2]))]
    IN  /\ Turn("collect_cgroups")
        /\ IF "panic" \in Range(Reason)
           THEN phase' = "crashed" /\ UNCHANGED <<done, metrics, missing, saved>>
           ELSE /\ phase' = phase
                /\ Returns("collect_cgroups",
                       Collected([p \in CGroups |-> CGroupPoints(o.Nodes[p[1]], p[2])]))
                /\ missing' = Merge(Reason, missing)
                /\ SaveSamplesToFile("cgroup",
                       UNION {{NewSample("cgroup", CGroupLabels(n, g), CGroupValues(g), {"cpu", "memory"}) :
                               g \in ToSet(AggregatedMetrics(n))} : n \in seen})
        /\ UNCHANGED <<cluster, received, heap, responses, warm, failed, o, usageOf>>
-----------------------------------------------------------------------------
(* Containers.  A container is <<index of its pod, index in the pod>>; its *)
(* samples are <<index in heap, index in the response>>.                   *)

normalizeContainerID(id) == Last(id)

\* running ones first, the youngest first; the sort is in place, on objects
\* shared with the informer's cache, and keeps the order of equal ones as
\* long as there are fewer than 12 (sort.Slice is stable for short lists)
Precedes(statuses, i, j) ==
    LET Running(k) == statuses[k].State = "running"
        Less(a, b) == Running(a) /\ (Running(b) => statuses[a].Age < statuses[b].Age)
    IN  Less(i, j) \/ (~Less(j, i) /\ i < j)

SortedStatuses(pod) ==
    LET Position(i) == 1 + Cardinality({j \in DOMAIN pod.Statuses : Precedes(pod.Statuses, j, i)})
    IN  [p \in DOMAIN pod.Statuses |->
            pod.Statuses[CHOOSE i \in DOMAIN pod.Statuses : Position(i) = p]]

\* Fault: the first status with the name counts, running or not.
FirstStatus(pod, name) ==
    LET i == SelectInSeq(pod.Statuses, LAMBDA s : s.Name = name)
    IN  IF i = 0 THEN "" ELSE normalizeContainerID(pod.Statuses[i].ContainerID)

\* a later status replaces the first when it is running
getContainerNameToID(pod, name) ==
    LET sorted == SortedStatuses(pod)
        first  == SelectInSeq(sorted, LAMBDA s : s.Name = name)
        live   == SelectLastInSeq(sorted, LAMBDA s : s.Name = name /\ s.State = "running")
    IN  IF first = 0 THEN ""
        ELSE normalizeContainerID(sorted[IF live = 0 THEN first ELSE live].ContainerID)

\* a mirror pod is known by the UID in its annotation
PodUID(pod) == IF pod.Mirror = "" THEN pod.UID ELSE pod.Mirror

\* the key of the samples of a container, Nil when they cannot be attributed
ContainerKey(c) ==
    IF "" \notin {c.PodName, c.ContainerName, c.NamespaceName}
    THEN <<"name", c.NamespaceName, c.PodName, c.ContainerName>>
    ELSE IF "" \in {c.PodUID, c.ContainerID} THEN Nil
    ELSE <<"id", c.PodUID, c.ContainerID>>

Entry(e) == heap[e[1]].Containers[e[2]]

\* the samples of the responses of this scrape
Samples == UNION {ToSet(heap[h].Containers) : h \in Range(o.Utilization)}

\* key -> samples; of two nodes that report the same key, the one the map
\* yields later (order) remains, and of two samples of a response the later
GetContainerUsageSummary(order) ==
    LET Having(n, k) == {i \in DOMAIN heap[o.Utilization[n]].Containers :
                            ContainerKey(Entry(<<o.Utilization[n], i>>)) = k}
        Node(k) == order[SelectLastInSeq(order, LAMBDA n : Having(n, k) # {})]
    IN  [k \in {ContainerKey(s) : s \in Samples} \ {Nil} |->
            <<o.Utilization[Node(k)], Max(Having(Node(k), k))>>]

\* by names first, else by ids
UsageFor(summary, pod, container) ==
    LET byName == <<"name", pod.Namespace, pod.Name, container.Name>>
        byId   == <<"id", PodUID(pod), getContainerNameToID(pod, container.Name)>>
    IN  IF byName \in DOMAIN summary THEN summary[byName]
        ELSE IF byId \in DOMAIN summary THEN summary[byId] ELSE Nil

AtMost(max, v) == IF v > max THEN max ELSE v

AllAtMost(max, values) == [i \in DOMAIN values |-> AtMost(max, values[i])]

\* Fault: the pre-computed average keeps its value.
AverageUnrestricted(usage, containers) ==
    LET Limit(r) == Min({Qty(c.Limits, r) : c \in containers})
    IN  IF containers # {} /\ Config.RestrictMaxUtilization
        THEN [usage EXCEPT !.Cpu = AllAtMost(Limit("cpu"), @),
                           !.Memory = AllAtMost(Limit("memory"), @)]
        ELSE usage

\* the samples once each container that has found them has restricted them
\* in place; a container without a limit has the limit 0
Restricted(usage, containers) ==
    LET Limit(r) == Min({Qty(c.Limits, r) : c \in containers})
        u == IF Config.RestrictMaxUtilization
             THEN [usage EXCEPT !.Cpu = AllAtMost(Limit("cpu"), @),
                                !.Memory = AllAtMost(Limit("memory"), @),
                                !.AvgCpu = AtMost(Limit("cpu"), @)]
             ELSE usage
    IN  IF containers = {} THEN usage
        ELSE IF ~(Config.RestrictMaxPeriods > 0) THEN u
        ELSE [u EXCEPT !.Periods = AllAtMost(Config.RestrictMaxPeriods, @),
                       !.Throttled = AllAtMost(Config.RestrictMaxPeriods, @)]

\* the key it is given holds names, never the id the statuses are compared
\* with: only a status without an id matches
containerMissingReason(pod) ==
    LET i == SelectInSeq(SortedStatuses(pod), LAMBDA s : normalizeContainerID(s.ContainerID) = "")
        s == SortedStatuses(pod)[i]
    IN  IF pod.MicroVM THEN "container-pod-microvm"
        ELSE IF pod.Phase # "Running" THEN "container-pod-phase"
        ELSE IF i # 0 /\ s.State # "running" THEN "container-not-running"
        ELSE IF i # 0 /\ s.Age < 1 THEN "container-recently-started"
        ELSE IF pod.NodeName \notin DOMAIN o.Utilization THEN "no-metrics-for-node"
        ELSE "node-missing-container"

PodLabels(pod) ==
    LET node == Named(o.Nodes, pod.NodeName)
    IN  [BuiltIn   |-> BuiltInForPod(NoLabels.BuiltIn, pod, getWorkloadForPod(pod), node),
         Extension |-> ExtensionForPod(Config.Extensions, NoLabels.Extension, pod, node,
                                       Named(o.Namespaces, pod.Namespace))]

\* of several statuses with the name, the last of the sorted ones
ContainerLabels(pod, c) ==
    [PodLabels(pod) EXCEPT !.BuiltIn =
        BuiltInForContainerStatus(BuiltInForContainer(@, c), Named(SortedStatuses(pod), c.Name))]

PodPoints(pod) ==
    Merge(addValuesToMetrics(GetValuesForPod(pod), PodLabels(pod), "pod"),
          addValuesToMetrics(GetValuesForSchedulerHealth(pod, Config.SchedulerHealth), PodLabels(pod),
                             "scheduler_health"))

Containers == UNION {{<<i, j>> : j \in DOMAIN o.Pods[i].Containers} : i \in DOMAIN o.Pods}

PodOf(c) == o.Pods[c[1]]

ContainerOf(c) == PodOf(c).Containers[c[2]]

Found(summary) == [c \in Containers |-> UsageFor(summary, PodOf(c), ContainerOf(c))]

\* the containers that have found the samples e restrict them in place
After(found, e) ==
    Restricted(Entry(e), {ContainerOf(c) : c \in {c \in Containers : found[c] = e}})

\* a container does so just before it reads them, after those in front of it
ReadBy(found, c) ==
    Restricted(Entry(found[c]),
               {ContainerOf(d) : d \in {d \in Containers : found[d] = found[c] /\ (d = c \/ Later(c, d))}})

ContainerValues(found, c) ==
    GetValuesForContainer(ContainerOf(c), PodOf(c), IF found[c] = Nil THEN Nil ELSE ReadBy(found, c))

ContainerMetrics(found) ==
    LET ContainerPoints(c) ==
            addValuesToMetrics(ContainerValues(found, c), ContainerLabels(PodOf(c), ContainerOf(c)), "container")
    IN  Collected(Merge(ForEach(o.Pods, PodPoints), [c \in Containers |-> ContainerPoints(c)]))

MissingContainers(found) ==
    [k \in {<<"container", c[1], c[2]>> : c \in {c \in Containers : warm /\ found[c] = Nil}} |->
        containerMissingReason(o.Pods[k[2]])]

collectContainers ==
    /\ \E order \in SetToSeqs(DOMAIN o.Utilization) :
          LET found == Found(GetContainerUsageSummary(order))
          IN  /\ Returns("collect_containers", ContainerMetrics(found))
              /\ usageOf' = found
              /\ heap' = [h \in DOMAIN heap |-> [heap[h] EXCEPT !.Containers =
                             [i \in DOMAIN @ |-> After(found, <<h, i>>)]]]
              /\ missing' = Merge(MissingContainers(found), missing)
              /\ SaveSamplesToFile("container",
                     {NewSample("container", ContainerLabels(PodOf(c), ContainerOf(c)),
                                ContainerValues(found, c), Config.Resources) : c \in Containers})
    /\ UNCHANGED <<cluster, received, responses, phase, warm, failed, o>>
-----------------------------------------------------------------------------
(* The end of a scrape: the functions return no error, and side car        *)
(* metrics are copied from files.                                          *)

FinishScrape ==
    /\ phase = "collecting" /\ done = CollectorFuncs
    /\ phase' = "idle"
    /\ UNCHANGED <<cluster, received, heap, responses, warm, failed, o, done, metrics,
                   usageOf, missing, saved>>

\* the process starts again without responses
Restart ==
    /\ phase = "crashed"
    /\ phase' = "idle" /\ warm' = FALSE /\ responses' = Empty /\ o' = NoObjects /\ failed' = {}
    /\ done' = {} /\ metrics' = Empty /\ usageOf' = Empty /\ missing' = Empty /\ saved' = Empty
    /\ UNCHANGED <<cluster, received, heap>>

Next ==
    \/ \E r \in Responses : Push(r)
    \/ \E n \in DOMAIN responses : ClearMetrics(n)
    \/ \E c \in Clusters : ClusterChanges(c)
    \/ WarmUp
    \/ \E bad \in SUBSET MayFail, late \in SUBSET MayLag, next \in Clusters :
          listCapacityObjects(bad, late, next)
    \/ collectContainers
    \/ collectQuota
    \/ collectNodes
    \/ collectPVs
    \/ collectPVCs
    \/ collectNamespaces
    \/ collectCGroups
    \/ collectClusterScoped
    \/ FinishScrape
    \/ Restart

Spec == Init /\ [][Next]_vars
-----------------------------------------------------------------------------
(* Properties.                                                             *)

\* The types of the state: what is cached and what a scrape took are
\* responses that were pushed by the node they are kept for, and a container
\* points into them.
TypeOK ==
    /\ phase \in {"idle", "collecting", "crashed"} /\ warm \in BOOLEAN
    /\ failed \subseteq MayFail /\ done \subseteq CollectorFuncs
    /\ Len(heap) = Len(received) /\ Len(received) <= MaxPushes
    /\ \A f \in {responses, o.Utilization} : \A n \in DOMAIN f :
          f[n] \in DOMAIN received /\ received[f[n]].Node = n
    /\ \A c \in DOMAIN usageOf : usageOf[c] # Nil =>
          usageOf[c][1] \in Range(o.Utilization) /\ usageOf[c][2] \in DOMAIN heap[usageOf[c][1]].Containers
    /\ DOMAIN metrics = done
    /\ \A f \in done : \A n \in DOMAIN metrics[f] : \A l \in DOMAIN metrics[f][n] :
          l \in LabelsValues /\ metrics[f][n][l] \in Seq(Int)

Metric(f, name) == IF name \in DOMAIN metrics[f] THEN metrics[f][name] ELSE Empty

\* Each object listed is counted once, under labels of its own: no two
\* containers, pods, nodes, quotas, namespaces or volumes share their labels,
\* where the second would silently replace the first (addValuesToMetrics).
ItemsConserved ==
    LET Counted(f, type, n) == f \in done => Cardinality(DOMAIN Metric(f, <<type, type, "items">>)) = n
    IN  phase = "collecting" =>
            /\ Counted("collect_containers", "container", Cardinality(Containers))
            /\ Counted("collect_containers", "pod", Len(o.Pods))
            /\ Counted("collect_nodes", "node", Len(o.Nodes))
            /\ Counted("collect_quotas", "quota", Len(o.Quotas))
            /\ Counted("collect_namespace", "namespace", Len(o.Namespaces))
            /\ Counted("collect_pvs", "pv", Len(o.PVs))
            /\ Counted("collect_pvcs", "pvc", Len(o.PVCs))

\* The requests reported for a node are the sum of the requests reported for
\* the containers on it: collectNodes and collectContainers compute them
\* separately, and disagree if they differ on which pods still count.
NodeRequestsMatch ==
    phase = "collecting" /\ {"collect_nodes", "collect_containers"} \subseteq done =>
        \A n \in ToSet(o.Nodes), r \in {"cpu", "memory"} \cap Config.Resources :
            LET m  == Metric("collect_containers", <<"container", "requests_allocated", r>>)
                on == [l \in {l \in DOMAIN m : l.BuiltIn.NodeName = n.Name} |-> m[l][1]]
            IN  Metric("collect_nodes", <<"node", "node_requests", r>>)[NodeLabels(n)]
                    = <<SumFunction(on)>>

\* the limits the containers with the name of c have ever had
LimitsOf(pod, container, r) ==
    {Qty(c.Limits, r) : c \in {c \in UNION {ToSet(p.Containers) :
        p \in {p \in UNION {ToSet(x.Pods) : x \in Clusters} :
                  p.Namespace = pod.Namespace /\ p.Name = pod.Name}} : c.Name = container.Name}}

\* the samples of the resource r
SamplesOf(usage, r) == IF r = "cpu" THEN usage.Cpu ELSE usage.Memory

\* the containers whose samples are reported, and the resources; of completed
\* pods the zeros at the end are left out, and they are left out here
Measured ==
    {c \in Containers : usageOf[c] # Nil /\ ~Completed(PodOf(c)) /\
        \A r \in {"cpu", "memory"} : SamplesOf(received[usageOf[c][1]].Containers[usageOf[c][2]], r) # <<>>}
        \X ({"cpu", "memory"} \cap Config.Resources)

\* The samples of cpu and memory reported for a container never exceed its
\* limit, nor does the average of cpu, and they are otherwise what the sampler
\* pushed, however many scrapes have restricted the response in place before.
\* Only a limit that has changed since may have left its mark on the response.
\* The limit of a container that has none is 0, and so is what is reported.
\* (The average of memory is reported as it was pushed.)
ReportedIsClamped ==
    phase = "collecting" /\ "collect_containers" \in done /\ Config.RestrictMaxUtilization =>
        \A m \in Measured :
            LET c         == m[1]
                r         == m[2]
                container == ContainerOf(c)
                limit     == Qty(container.Limits, r)
                pushed    == received[usageOf[c][1]].Containers[usageOf[c][2]]
                Shown(s)  == Metric("collect_containers", <<"container", s, r>>)
                                [ContainerLabels(PodOf(c), container)]
            IN  /\ \A i \in DOMAIN SamplesOf(pushed, r) : Shown("utilization")[i] <= limit
                /\ r = "cpu" => Shown("avg_utilization")[1] <= limit
                /\ LimitsOf(PodOf(c), container, r) = {limit} =>
                      /\ Shown("utilization") = AllAtMost(limit, SamplesOf(pushed, r))
                      /\ r = "cpu" => Shown("avg_utilization") = <<AtMost(limit, pushed.AvgCpu)>>

\* The samples used for a container are its own: they carry its names, or
\* else the UID of its pod and the id of a status of the container, which is
\* a running one if any is.  And they are not overlooked: without samples, no
\* response of the scrape has any for a running one (getContainerNameToID).
UsageIsOwn ==
    phase = "collecting" /\ "collect_containers" \in done =>
        \A c \in Containers :
            LET pod   == o.Pods[c[1]]
                name  == pod.Containers[c[2]].Name
                mine  == {s \in ToSet(pod.Statuses) : s.Name = name}
                live  == {s \in mine : s.State = "running"}
                Ids(S) == {<<"id", PodUID(pod), normalizeContainerID(s.ContainerID)>> : s \in S}
                keys  == {ContainerKey(e) : e \in Samples}
            IN  IF usageOf[c] = Nil
                THEN Cardinality(live) = 1 => Ids(live) \cap keys = {}
                ELSE ContainerKey(Entry(usageOf[c])) \in
                        {<<"name", pod.Namespace, pod.Name, name>>}
                            \cup (IF live = {} THEN Ids(mine) ELSE Ids(live))

\* The containers and the cgroups of a node are reported from one response,
\* although the two functions run at different times and samplers push in
\* between.
OneResponsePerScrape ==
    phase = "collecting" /\ {"collect_cgroups", "collect_containers"} \subseteq done =>
        \A n \in {n \in ToSet(o.Nodes) : n.Name \in DOMAIN o.Utilization} :
            \E r \in DOMAIN received :
                /\ received[r].Node = n.Name
                /\ \A c \in Containers : usageOf[c] # Nil =>
                      (received[usageOf[c][1]].Node = n.Name => usageOf[c][1] = r)
                /\ \A g \in ToSet(received[r].CGroups) : \A s \in DOMAIN CGroupValues(g) :
                      LET m == Metric("collect_cgroups", <<"cgroup", s, "cpu">>)
                      IN  /\ CGroupLabels(n, g) \in DOMAIN m
                          /\ m[CGroupLabels(n, g)] = CGroupValues(g)[s].cpu

\* wait "returns the first error encountered, or nil if no errors" (its
\* comment): a scrape goes on only when every list has succeeded.
WaitReportsErrors == phase = "collecting" => failed \subseteq {"list_cluster_scoped"}
=============================================================================
