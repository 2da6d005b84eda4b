\* The overrider joins the teams a and b.  Values of one sample are several
\* for utilization, negative ones included, and the list may be empty.  One
\* metric has values on the bounds of buckets, where logarithms round down.
SPECIFICATION Spec
CONSTANTS
    Nil = Nil
    None = None
    MaxExtensionLabels = 2
    OverrideLabels <- MCOverrideLabels
    Configs <- MCConfigs
    RawMetric <- MCRawMetric
    ClusterName = "here"
    Grain = 2
    Pow <- MCPow
    LogFloor <- MCLogFloor
INVARIANTS
    TypeOK
    SeriesDistinct
    ExportedPassFilters
    StagedIsDirect
    StatisticsOrdered
    HistogramComplete
\* a rejected configuration ends the process
CHECK_DEADLOCK FALSE
