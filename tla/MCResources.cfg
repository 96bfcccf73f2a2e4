\* Snapshots, instance backups, certificates and a rule, under every invoke
\* outcome, with either owner id the client can have been built with; and
\* one Reset of a volume attached to up to three instances, with instance
\* terminations and the new volume settling available or in error; and
\* sub-account management over two accounts and two projects.
CONSTANTS
    b1 = b1
    b2 = b2
    b3 = b3
    i1 = i1
    i2 = i2
    i3 = i3
    Old = Old
    New = New
    Accounts = {a1, a2}
    Projects = {p1, p2}
    Snaps = {s1, s2}
    Certs = {c1, c2}
    Rules = {r1, r2}
    Me = Me
    Other = Other
    NoUser = NoUser
    None = None
    ReadOnly = FALSE
    Faults = {"apierr", "lost", "noreply"}
SPECIFICATION Spec
\* A behaviour of the resources part stops once every id of the bound is
\* taken and the caller holds no object of its kind, and Reset stops once
\* it has returned.
CHECK_DEADLOCK FALSE
INVARIANTS
    TypeOK
    SubAccountsAsListed
    ResetMovesAttachments
    ResetLeavesAtMostOneBare
PROPERTIES
    ResetTerminates
