------------------------------- MODULE Labels -------------------------------
(* Metric labels of the collector (pkg/collector: labels.go,               *)
(* builtin_labels.go, extension_labels.go).  A sample carries 22 built in  *)
(* labels and up to MaxExtensionLabels labels that the configuration       *)
(* defines; a label that is not set is "".  The generated code of          *)
(* extension_labels.go keeps one struct field and one switch case for each *)
(* extension id; here that is one function of the id.  The parallel lists  *)
(* of names and values are one function from names to values: the names of *)
(* a configuration are distinct, because the Prometheus client panics on a *)
(* description with a repeated name.                                       *)
EXTENDS Integers, FiniteSets, Sequences, SequencesExt

CONSTANTS
    Nil,                  \* a Go nil
    MaxExtensionLabels,   \* 100 in the code
    OverrideLabels(_)     \* what the registered LabelOverriders, applied one
                          \* after the other, return for a map of labels

ASSUME LabelsAssumption == MaxExtensionLabels \in Nat \ {0}

\* a fact of TLA+ that the provers do not know
ASSUME EmptyIsString == "" \in STRING

Undefined == "undefined"

LabelId == 0 .. MaxExtensionLabels - 1

\* field of builtInLabelsValues -> name of the metric label
BuiltInName ==
    [ContainerName |-> "exported_container", ContainerImage |-> "container_image",
     ContainerImageID |-> "container_image_id", PodName |-> "exported_pod",
     NamespaceName |-> "exported_namespace", NodeName |-> "exported_node",
     NodeUnschedulable |-> "node_unschedulable", WorkloadName |-> "workload_name",
     WorkloadKind |-> "workload_kind", WorkloadAPIGroup |-> "workload_api_group",
     WorkloadAPIVersion |-> "workload_api_version", App |-> "app",
     PriorityClass |-> "priority_class", Scheduled |-> "scheduled",
     Level |-> "level", QuotaName |-> "quota_name",
     AllocationStrategy |-> "allocation_strategy", PVCName |-> "exported_pvc",
     PVName |-> "exported_pv", StorageClass |-> "storage_class",
     CGroup |-> "cgroup", Phase |-> "phase"]

BuiltInField == DOMAIN BuiltInName

LabelsValues == [BuiltIn : [BuiltInField -> STRING], Extension : [LabelId -> STRING]]

NoLabels == [BuiltIn |-> [f \in BuiltInField |-> ""], Extension |-> [i \in LabelId |-> ""]]

Get(map, key) == IF key \in DOMAIN map THEN map[key] ELSE ""
-----------------------------------------------------------------------------
(* Extension labels: a configuration e has a list of labels for each kind  *)
(* of object, in the order in which init numbers them.                     *)

Kinds == <<"Pods", "Quota", "Nodes", "Namespaces", "NodeTaints", "PVCs", "PVs", "SideCars">>

FirstId(e, k) ==
    LET before == {n \in DOMAIN Kinds : \E i \in n + 1 .. Len(Kinds) : Kinds[i] = k}
    IN  Len(FlattenSeq([n \in before |-> e[Kinds[n]]]))

\* the ids are the positions in the configuration; an id beyond the limit is
\* given out like any other
WithIds(e) ==
    [k \in DOMAIN e |->
        [i \in DOMAIN e[k] |-> [e[k][i] EXCEPT !.ID = FirstId(e, k) + i - 1]]]

AllLabels(e) == UNION {ToSet(e[k]) : k \in DOMAIN e}

labelNamesByIds(e) ==
    [id \in LabelId |->
        LET ls == {v \in AllLabels(e) : v.ID = id}
        IN  IF ls = {} THEN "" ELSE (CHOOSE v \in ls : TRUE).LabelName]

\* SetValue in a loop over the labels ext: values are the ones it is called
\* with, by the index in ext.  The last call for an id counts; the switch over
\* the ids has no default case
SetValue(labels, ext, values) ==
    [id \in LabelId |->
        LET calls == {i \in DOMAIN values : ext[i].ID = id}
        IN  IF calls = {} THEN labels[id] ELSE values[Max(calls)]]

\* the first of the keys of the label found in the metadata, or its default;
\* "" for none
MetadataValue(v, meta) ==
    LET candidates ==
            [i \in DOMAIN v.LabelKeys |-> Get(meta.Labels, v.LabelKeys[i])]
                \o [i \in DOMAIN v.AnnotationKeys |-> Get(meta.Annotations, v.AnnotationKeys[i])]
        found == SelectInSeq(candidates, LAMBDA x : x # "")
    IN  IF found = 0 THEN v.Value ELSE candidates[found]

SetLabelsForMetadata(labels, ext, meta) ==
    SetValue(labels, ext, [i \in {i \in DOMAIN ext : MetadataValue(ext[i], meta) # ""} |->
                              MetadataValue(ext[i], meta)])

\* the first requirement decides
isMatchNodeTaintRequirements(requirements, value) ==
    LET rs == SelectSeq(requirements, LAMBDA r : r.Operator \in {"In", "NotIn"})
    IN  rs # <<>> => (rs[1].Operator = "In") = (value \in rs[1].Values)

isMatchNodeTaint(t, taint) ==
    /\ isMatchNodeTaintRequirements(t.TaintKeys, taint.Key)
    /\ isMatchNodeTaintRequirements(t.TaintValues, taint.Value)
    /\ isMatchNodeTaintRequirements(t.TaintEffects, taint.Effect)

getLabelValueForNodeTaint(t, node) ==
    LET i == SelectInSeq(node.Taints, LAMBDA taint : isMatchNodeTaint(t, taint))
    IN  IF i = 0 THEN t.LabelNegativeValue
        ELSE IF t.LabelValue # "" THEN t.LabelValue ELSE node.Taints[i].Value

ExtensionForSideCars(e, labels) ==
    SetValue(labels, e["SideCars"], [i \in DOMAIN e["SideCars"] |-> e["SideCars"][i].Value])

ExtensionForNamespace(e, labels, namespace) ==
    LET l == ExtensionForSideCars(e, labels)
    IN  IF namespace = Nil THEN l
        ELSE SetLabelsForMetadata(l, e["Namespaces"], namespace.meta)

ExtensionForNode(e, labels, node) ==
    LET l == ExtensionForSideCars(e, labels)
    IN  IF node = Nil THEN l
        ELSE SetValue(SetLabelsForMetadata(l, e["Nodes"], node.meta), e["NodeTaints"],
                      [i \in DOMAIN e["NodeTaints"] |-> getLabelValueForNodeTaint(e["NodeTaints"][i], node)])

ExtensionForQuota(e, labels, quota, namespace) ==
    LET l == ExtensionForNamespace(e, labels, namespace)
    IN  IF quota = Nil THEN l ELSE SetLabelsForMetadata(l, e["Quota"], quota.meta)

ExtensionForPod(e, labels, pod, node, namespace) ==
    LET l == IF pod = Nil THEN labels ELSE SetLabelsForMetadata(labels, e["Pods"], pod.meta)
    IN  ExtensionForNode(e, ExtensionForQuota(e, l, Nil, namespace), node)

ExtensionForPV(e, labels, pv, node) ==
    ExtensionForNode(e, IF pv = Nil THEN labels
                        ELSE SetLabelsForMetadata(labels, e["PVs"], pv.meta), node)

ExtensionForPVC(e, labels, pvc, pv, namespace, pod, node) ==
    LET l == IF pvc = Nil THEN labels ELSE SetLabelsForMetadata(labels, e["PVCs"], pvc.meta)
    IN  ExtensionForPod(e, ExtensionForPV(e, l, pv, node), pod, node, namespace)
-----------------------------------------------------------------------------
(* Built in labels.                                                        *)

Flag(b) == IF b THEN "true" ELSE "false"

BuiltInForContainer(labels, c) ==
    IF c = Nil THEN labels
    ELSE [labels EXCEPT !.ContainerName = c.Name, !.ContainerImage = c.Image]

BuiltInForContainerStatus(labels, status) ==
    IF status = Nil THEN labels ELSE [labels EXCEPT !.ContainerImageID = status.ImageID]

BuiltInForPod(labels, p, w, node) ==
    IF p = Nil THEN [labels EXCEPT !.PodName = Undefined]
    ELSE [labels EXCEPT
            !.PodName = p.Name, !.NamespaceName = p.Namespace, !.NodeName = p.NodeName,
            !.NodeUnschedulable = IF node = Nil THEN @ ELSE Flag(node.Unschedulable),
            !.WorkloadAPIGroup = w.APIGroup, !.WorkloadAPIVersion = w.APIVersion,
            !.WorkloadKind = w.Kind, !.WorkloadName = w.Name,
            !.App = Get(p.meta.Labels, "app"),
            !.PriorityClass = p.PriorityClass, !.Scheduled = Flag(p.NodeName # "")]

BuiltInForNode(labels, node) ==
    IF node = Nil THEN [labels EXCEPT !.NodeName = Undefined]
    ELSE [labels EXCEPT !.NodeName = node.Name, !.NodeUnschedulable = Flag(node.Unschedulable)]

BuiltInForCGroup(labels, level) == [labels EXCEPT !.CGroup = level]

\* the expressions that name exactly one class: two different ones conflict
PriorityClassOf(class, expressions) ==
    LET scopes == {s \in ToSet(expressions) :
                     s.Scope = "PriorityClass" /\ Cardinality(s.Values) = 1 /\ s.Operator = "In"}
        named  == ({class} \cup UNION {s.Values : s \in scopes}) \ {""}
    IN  CASE Cardinality(named) = 0 -> ""
          [] Cardinality(named) = 1 -> CHOOSE c \in named : TRUE
          [] OTHER -> Undefined

BuiltInForQuota(labels, quota, rqd, useQuotaName) ==
    IF quota = Nil THEN [labels EXCEPT !.QuotaName = Undefined]
    ELSE [labels EXCEPT
            !.AllocationStrategy = IF rqd = Nil THEN Undefined ELSE rqd.Strategy,
            !.NamespaceName = quota.Namespace, !.QuotaName = quota.Name,
            !.PriorityClass = IF useQuotaName THEN quota.Name
                              ELSE PriorityClassOf(@, quota.MatchExpressions)]

BuiltInForNamespace(labels, namespace) ==
    [labels EXCEPT !.NamespaceName = IF namespace = Nil THEN Undefined ELSE namespace.Name]

\* class: the part of the resource's name before the first dot
BuiltInForPVCQuota(labels, quota, resource, class) ==
    IF resource \in quota.Hard THEN [labels EXCEPT !.StorageClass = class] ELSE labels

setLabelsForPersistentVolume(labels, pv) ==
    IF pv = Nil THEN [labels EXCEPT !.PVName = Undefined]
    ELSE [labels EXCEPT !.PVName = pv.Name, !.StorageClass = pv.StorageClass, !.Phase = pv.Phase]

\* Fault: the namespace of a claim is left to its pod.
ClaimWithoutNamespace(labels, pvc) ==
    IF pvc = Nil THEN [labels EXCEPT !.PVCName = Undefined]
    ELSE [labels EXCEPT !.PVCName = pvc.Name, !.Phase = pvc.Phase]

setLabelsForPersistentVolumeClaim(labels, pvc) ==
    IF pvc = Nil THEN [labels EXCEPT !.PVCName = Undefined]
    ELSE [labels EXCEPT !.PVCName = pvc.Name, !.NamespaceName = pvc.Namespace, !.Phase = pvc.Phase]

BuiltInForPV(labels, pv, pvc, node) ==
    LET l == IF node = Nil THEN [labels EXCEPT !.NodeName = pv.Hostname]
             ELSE BuiltInForNode(labels, node)
    IN  IF pv = Nil THEN [labels EXCEPT !.PVName = Undefined]
        ELSE setLabelsForPersistentVolume(setLabelsForPersistentVolumeClaim(l, pvc), pv)

BuiltInForPVC(labels, pvc, pv, pod, w, node) ==
    IF pvc = Nil THEN [labels EXCEPT !.PVCName = Undefined]
    ELSE setLabelsForPersistentVolumeClaim(
            setLabelsForPersistentVolume(BuiltInForPod(labels, pod, w, node), pv), pvc)

BuiltInForClusterScoped(labels, discovered) ==
    [labels EXCEPT !.PriorityClass = Get(discovered, "priority_class")]
-----------------------------------------------------------------------------
(* Masks.  A mask keeps the built in fields mask.BuiltIn and the extension *)
(* labels that mask.Extensions names; names is labelNamesByIds of the      *)
(* configuration.                                                          *)

initInternalLabelsMask(mask, names) == {id \in LabelId : names[id] \in mask.Extensions}

builtInMask(mask, labels) ==
    [f \in BuiltInField |-> IF f \in mask.BuiltIn THEN labels[f] ELSE ""]

extensionMask(mask, labels, names) ==
    [id \in LabelId |-> IF id \in initInternalLabelsMask(mask, names) THEN labels[id] ELSE ""]

\* Fault: the extension labels are not cleared.
MaskBuiltInOnly(mask, m, names) ==
    [BuiltIn |-> builtInMask(mask, m.BuiltIn), Extension |-> m.Extension]

maskLabels(mask, m, names) ==
    [BuiltIn   |-> builtInMask(mask, m.BuiltIn),
     Extension |-> extensionMask(mask, m.Extension, names)]

getBuiltInLabelNames(mask) == {BuiltInName[f] : f \in mask.BuiltIn}

getExtensionLabelNames(mask, names) == {names[id] : id \in initInternalLabelsMask(mask, names)}

getLabelNames(mask, names) == getBuiltInLabelNames(mask) \cup getExtensionLabelNames(mask, names)

\* the value listed for the name n
getBuiltInLabelValues(mask, labels, n) == labels[CHOOSE f \in mask.BuiltIn : BuiltInName[f] = n]

getExtensionLabelValues(labels, names, n) == labels[CHOOSE id \in LabelId : names[id] = n]

\* the level is the mask's, whatever the sample says
getLabelValues(mask, m, names) ==
    [n \in getLabelNames(mask, names) |->
        IF n = "level" THEN mask.Level
        ELSE IF n \in getBuiltInLabelNames(mask) THEN getBuiltInLabelValues(mask, m.BuiltIn, n)
             ELSE getExtensionLabelValues(m.Extension, names, n)]

\* the labels the overriders change, of those the mask keeps
overrideValues(values) ==
    LET l == OverrideLabels(values)
    IN  [n \in DOMAIN l \cap DOMAIN values |-> l[n]]

getOverrideBuiltInLabelValues(labels, overrides) ==
    [f \in BuiltInField |->
        IF BuiltInName[f] \in DOMAIN overrides THEN overrides[BuiltInName[f]] ELSE labels[f]]

getOverrideExtensionLabelValues(labels, overrides, names) ==
    [id \in LabelId |->
        IF names[id] \in DOMAIN overrides THEN overrides[names[id]] ELSE labels[id]]

\* Fault: the extension labels keep their values.
OverrideBuiltInOnly(labels, overrides, names) ==
    [BuiltIn   |-> getOverrideBuiltInLabelValues(labels.BuiltIn, overrides),
     Extension |-> labels.Extension]

overrideLabels(labels, overrides, names) ==
    [BuiltIn   |-> getOverrideBuiltInLabelValues(labels.BuiltIn, overrides),
     Extension |-> getOverrideExtensionLabelValues(labels.Extension, overrides, names)]
=============================================================================
