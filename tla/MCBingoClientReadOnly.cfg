\* A read-only account: what invoke refuses while NewBingoCloudClient runs.
CONSTANTS
    d1 = d1
    d2 = d2
    d3 = d3
    Disks <- MCDisks
    DiskOrder <- MCDiskOrder
    Storages = {s1, s2}
    Me = Me
    Other = Other
    NoUser = NoUser
    None = None
    PageSize = 1
    ReadOnly = TRUE
    Faults = {"apierr", "lost", "noreply"}
SPECIFICATION Spec
INVARIANTS
    ReadOnlyAsSpecified
