\* Group membership under every invoke outcome and concurrent other users,
\* DeleteElb under every invoke outcome, and a certificate object's caches
\* while other sessions delete and re-upload certificates.  A DeleteElb that
\* has returned has nothing left to do, so deadlock is not checked.
CONSTANTS
    Targets = {t1, t2}
    Ports = {80, 443}
    Weights = {1, 2}
    None = None
    ReadOnly = FALSE
    g1 = g1
    g2 = g2
    g3 = g3
    c1 = c1
    c2 = c2
    c3 = c3
SPECIFICATION Spec
SYMMETRY TargetSymmetry
CHECK_DEADLOCK FALSE
INVARIANTS
    TypeOK
    ParsedMatchesBody
PROPERTIES
    SyncMovesTarget
    RemoveAllClears
