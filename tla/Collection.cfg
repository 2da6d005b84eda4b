\* Two responses may be pushed by one node and one by the other, in any order,
\* before, between and during scrapes.  The list of pods may see the cluster
\* after a change that the other lists have missed; that of quotas may fail.
SPECIFICATION Spec
CONSTANTS
    Nil = Nil
    MaxExtensionLabels = 1
    OverrideLabels <- NoOverride
    QuotaKey <- MCQuotaKey
    ResourceNames = {"cpu", "memory"}
    Clusters <- MCClusters
    Responses <- MCResponses
    Config <- MCConfig
    MaxPushes = 2
    MayFail = {"list_quotas"}
    MayLag = {"list_pods"}
    Rank <- MCRank
INVARIANTS
    TypeOK
    ItemsConserved
    NodeRequestsMatch
    ReportedIsClamped
    UsageIsOwn
    OneResponsePerScrape
