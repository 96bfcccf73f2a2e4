\* DeleteElb under every invoke outcome: a DeleteTargetGroup call that fails
\* while DeleteLoadBalancer succeeds.
CONSTANTS
    Targets = {t1, t2}
    Ports = {80, 443}
    Weights = {1, 2}
    None = None
    ReadOnly = FALSE
    g1 = g1
    g2 = g2
    g3 = g3
    c1 = c1
    c2 = c2
    c3 = c3
SPECIFICATION Spec
SYMMETRY TargetSymmetry
CHECK_DEADLOCK FALSE
INVARIANT
    DeleteElbRemovesItsGroups
