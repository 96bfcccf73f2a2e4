\* Every split of a matcher of up to two segments of up to two codes, over
\* an unparsable code and codes of each class; and for each resource type
\* the statistics of two resources over up to two pages of up to two
\* datapoints, with names each map has and lacks; every response shape of
\* one collection (see Responses); and every params map of four names.
CONSTANTS
    CodeVals = {0, 200, 302, 404, 503}
    MaxSegs = 2
    MaxCodes = 2
    ResourceIds = {r1, r2}
    Averages = {1, 2}
    MaxPages = 2
    MaxPoints = 2
SPECIFICATION Spec
INVARIANTS
    TypeOK
    HealthCodeComplete
    MetricsComplete
    NormalizeWrapsArrays
    NextTokenLifted
    SignOrderIndependent
    BackendIdRoundTrip
    GroupConfigReadsBack
