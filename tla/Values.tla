------------------------------- MODULE Values -------------------------------
(* The values of the metric sources of one object (ValueReader of          *)
(* pkg/collector/values.go).  A value maps resources to lists of           *)
(* quantities: the ResourceList of the code has one quantity for each      *)
(* resource, its MultiResourceList one for each sample.  Quantities are    *)
(* whole numbers of the smallest unit of their resource.                   *)
EXTENDS Labels

CONSTANTS
    QuotaKey,        \* the keys of a quota's lists, parsed: key -> its prefix
                     \* ("requests", "limits" or ""), the resource without
                     \* the prefix, and the storage class it names, or ""
    ResourceNames    \* the resources getProposedQuota looks for

Empty == [x \in {} |-> <<>>]

\* the assignment of v to the key k of a map
Put(m, k, v) == [x \in DOMAIN m \cup {k} |-> IF x = k THEN v ELSE m[x]]

\* the entries of two maps; those of the first where both have a key
Merge(a, b) == [x \in DOMAIN a \cup DOMAIN b |-> IF x \in DOMAIN a THEN a[x] ELSE b[x]]

Single(list) == [r \in DOMAIN list |-> <<list[r]>>]

Items == [items |-> <<1>>]

\* list.Cpu() and list.Memory(): zero when the list has none
Qty(list, r) == IF r \in DOMAIN list THEN list[r] ELSE 0

Completed(pod) == pod.Phase \in {"Succeeded", "Failed"}

NonEmpty(value) == [r \in {r \in DOMAIN value : value[r] # <<>>} |-> value[r]]
-----------------------------------------------------------------------------
(* Containers and pods.                                                    *)

\* the zeros at the end are dropped once the pod has completed
Stripped(pod, values) ==
    SubSeq(values, 1, IF Completed(pod) THEN Max({0} \cup {i \in DOMAIN values : values[i] # 0})
                      ELSE Len(values))

createValue(pod, values, r) == NonEmpty(Put(Empty, r, Stripped(pod, values)))

AllocatedValues(container, pod) ==
    IF Completed(pod) THEN Empty
    ELSE [requests_allocated |-> Single(container.Requests),
          limits_allocated   |-> Single(container.Limits)]

\* a completed pod has no requests: what it used is missing from zero
UtilizationValues(container, pod, usage) ==
    LET measured == NonEmpty([cpu    |-> Stripped(pod, usage.Cpu),
                              memory |-> Stripped(pod, usage.Memory)])
        requests == IF Completed(pod) THEN Empty ELSE container.Requests
    IN  [avg_utilization |-> Single(Merge([cpu |-> usage.AvgCpu, memory |-> usage.AvgMemory], usage.AvgNetwork)),
         utilization |-> Merge(measured, NonEmpty(usage.Network)),
         requests_allocated_minus_utilization |->
            [r \in DOMAIN measured |->
                [i \in DOMAIN measured[r] |-> Qty(requests, r) - measured[r][i]]]]

PeriodValues(pod, usage) ==
    [nr_periods       |-> createValue(pod, usage.Periods, "periods"),
     avg_nr_periods   |-> [periods |-> <<usage.AvgPeriods>>],
     nr_throttled     |-> createValue(pod, usage.Throttled, "periods"),
     avg_nr_throttled |-> [periods |-> <<usage.AvgThrottled>>],
     oom_kill         |-> [items |-> <<usage.OomKill>>],
     oom              |-> [items |-> <<usage.Oom>>]]

\* the two early returns: without cpu or memory samples, without periods
GetValuesForContainer(container, pod, usage) ==
    LET known  == Merge([container |-> Items], AllocatedValues(container, pod))
        used   == Merge(known, UtilizationValues(container, pod, usage))
    IN  IF usage = Nil THEN known
        ELSE IF usage.Cpu = <<>> \/ usage.Memory = <<>> THEN known
        ELSE IF usage.Periods = <<>> \/ usage.Throttled = <<>> THEN used
        ELSE Merge(used, PeriodValues(pod, usage))

GetValuesForPod(pod) == [pod |-> Items]

\* pod.ScheduledAfter: from creation to the condition PodScheduled, 0 if the
\* pod does not have it
GetValuesForSchedulerHealth(pod, s) ==
    LET wait == IF pod.NodeName # "" THEN pod.ScheduledAfter
                ELSE IF pod.Age > s.MinPodAge THEN pod.Age ELSE 0
    IN  IF s = Nil \/ pod.Age = Nil THEN Empty
        ELSE IF pod.Age > s.MaxPodAge \/ wait = 0 THEN Empty
        ELSE [pod_schedule_wait |-> [time |-> <<wait>>]]
-----------------------------------------------------------------------------
(* Quotas.                                                                 *)

\* one of the two lists splitRequestsLimitsQuota returns
splitRequestsLimitsQuota(input, prefix) ==
    LET keys == {k \in DOMAIN input : QuotaKey[k].Prefix = prefix}
    IN  [r \in {QuotaKey[k].Resource : k \in keys} |->
            input[CHOOSE k \in keys : QuotaKey[k].Resource = r]]

subLists(a, b) == [r \in DOMAIN a \cap DOMAIN b |-> a[r] - b[r]]

getProposedQuota(proposed, prefix) ==
    LET list == splitRequestsLimitsQuota(proposed, prefix)
    IN  [r \in DOMAIN list \cap ResourceNames |-> list[r]]

getRequestsPVCQuota(input) ==
    [k \in {k \in DOMAIN input : QuotaKey[k].StorageClass # ""} |-> input[k]]

\* MaxObserved: the parsed annotation; nothing when it is absent or unreadable
DescriptorValues(quota, rqd) ==
    LET Hard(p)     == splitRequestsLimitsQuota(quota.StatusHard, p)
        Proposed(p) == IF rqd = Nil THEN Empty ELSE getProposedQuota(rqd.Proposed, p)
        Observed(p) == IF rqd = Nil THEN Empty ELSE splitRequestsLimitsQuota(rqd.MaxObserved, p)
    IN  [requests_quota_proposed |-> Single(Proposed("requests")),
         limits_quota_proposed   |-> Single(Proposed("limits")),
         requests_quota_hard_minus_proposed |->
            Single(subLists(Hard("requests"), Proposed("requests"))),
         limits_quota_hard_minus_proposed |->
            Single(subLists(Hard("limits"), Proposed("limits"))),
         requests_quota_max_observed_minus_hard |->
            Single(subLists(Observed("requests"), Hard("requests"))),
         limits_quota_max_observed_minus_hard |->
            Single(subLists(Observed("limits"), Hard("limits")))]

GetValuesForQuota(quota, rqd, enableRqd) ==
    LET Hard(p) == splitRequestsLimitsQuota(quota.StatusHard, p)
        Used(p) == splitRequestsLimitsQuota(quota.StatusUsed, p)
        values  ==
            [requests_quota_hard |-> Single(Hard("requests")),
             limits_quota_hard   |-> Single(Hard("limits")),
             requests_quota_used |-> Single(Used("requests")),
             limits_quota_used   |-> Single(Used("limits")),
             requests_quota_hard_minus_used |-> Single(subLists(Hard("requests"), Used("requests"))),
             limits_quota_hard_minus_used   |-> Single(subLists(Hard("limits"), Used("limits"))),
             pvc_requests_quota_hard |-> Single(getRequestsPVCQuota(quota.StatusHard)),
             pvc_requests_quota_used |-> Single(getRequestsPVCQuota(quota.StatusUsed)),
             quota |-> Items]
    IN  IF enableRqd THEN Merge(values, DescriptorValues(quota, rqd)) ELSE values
-----------------------------------------------------------------------------
(* Nodes and volumes.                                                      *)

\* pods: a set, since no pod is in the list of its node twice
NodeTotal(pods, list) ==
    LET containers == UNION {{<<p, j>> : j \in DOMAIN p.Containers} : p \in pods}
        Sum(r)     == SumFunction([c \in containers |-> Qty(c[1].Containers[c[2]][list], r)])
    IN  [cpu |-> Sum("cpu"), memory |-> Sum("memory")]

\* Fault: completed pods count as if they still held their requests.
RequestsOfAllPods(pods) ==
    [Requests |-> NodeTotal(pods, "Requests"), Limits |-> NodeTotal(pods, "Limits")]

getNodeRequestsLimits(pods) ==
    LET live == {p \in pods : ~Completed(p)}
    IN  [Requests |-> NodeTotal(live, "Requests"), Limits |-> NodeTotal(live, "Limits")]

getAllocatableMinusRequests(allocatable, requests) ==
    [r \in {"cpu", "memory"} |-> Qty(allocatable, r) - Qty(requests, r)]

GetValuesForNode(node, pods) ==
    LET totals == getNodeRequestsLimits(pods)
    IN  [node |-> Items,
         node_allocatable |-> Single(node.Allocatable),
         node_capacity |-> Single(node.Capacity),
         node_requests |-> Single(totals.Requests),
         node_limits |-> Single(totals.Limits),
         node_allocatable_minus_requests |->
            Single(getAllocatableMinusRequests(node.Allocatable, totals.Requests))]

GetValuesForPVC(pvc) ==
    [pvc |-> Items, pvc_requests_allocated |-> Single(pvc.Requests),
     pvc_limits_allocated |-> Single(pvc.Limits), pvc_capacity |-> Single(pvc.Capacity)]

GetValuesForPV(pv) == [pv |-> Items, pv_capacity |-> Single(pv.Capacity)]
=============================================================================
