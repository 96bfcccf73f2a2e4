\* GetIDisks against a changing cloud.  Every call succeeds here: an invoke
\* failure only ends a listing with an error, and it would also end any
\* loop, which would make the termination property hold for that reason
\* alone.
CONSTANTS
    d1 = d1
    d2 = d2
    d3 = d3
    Disks <- MCDisks
    DiskOrder <- MCDiskOrder
    Storages = {s1, s2}
    Me = Me
    Other = Other
    NoUser = NoUser
    None = None
    PageSize = 1
    ReadOnly = FALSE
    Faults = {}
SPECIFICATION Spec
PROPERTIES
    ImplementsDiskListing
