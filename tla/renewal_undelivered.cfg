SPECIFICATION Spec
CONSTANTS
    Devices = {d1, d2}
    Validity = 5
    Threshold <- From2
    Sched = sched
    Manual = {}
    Overlap = FALSE
    IssueOnly = FALSE
    MaxTrouble = 1
    DeployFaults = TRUE
    VaultFaults = FALSE
    Deletes = FALSE
    Switched = {}
    Crashes = FALSE
    NoCert = NoCert
    Foreign = Foreign
INVARIANTS NoExpiry
