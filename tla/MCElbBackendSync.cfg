\* SyncConf's result: which backend the object describes afterwards.
CONSTANTS
    Targets = {t1, t2}
    Ports = {80, 443}
    Weights = {1, 2}
    None = None
    ReadOnly = FALSE
    Faults = {"apierr", "noreply"}
SPECIFICATION Spec
INVARIANTS
    SyncReturnsSynced
