\* The classes ToOnecloudHealthCode reports against the accepted ones.
CONSTANTS
    CodeVals = {0, 200, 302, 404, 503}
    MaxSegs = 2
    MaxCodes = 2
    ResourceIds = {r1}
    Averages = {1}
    MaxPages = 1
    MaxPoints = 0
SPECIFICATION Spec
INVARIANTS
    HealthCodeExact
