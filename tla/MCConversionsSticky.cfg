\* Target group attribute lists of up to two pairs, read by GetStickySession.
CONSTANTS
    CodeVals = {0, 200, 302, 404, 503}
    MaxSegs = 2
    MaxCodes = 2
    ResourceIds = {r1}
    Averages = {1}
    MaxPages = 1
    MaxPoints = 0
SPECIFICATION Spec
INVARIANT
    StickyCookieTimeoutParsed
