SPECIFICATION Spec
CONSTANTS
    Devices = {d1, d2, d3}
    Validity = 5
    Threshold <- From2
    Sched = sched
    Manual = {api}
    Overlap = TRUE
    IssueOnly = FALSE
    MaxTrouble = 1
    DeployFaults = FALSE
    VaultFaults = FALSE
    Deletes = FALSE
    Switched = {d1}
    Crashes = FALSE
    NoCert = NoCert
    Foreign = Foreign
INVARIANTS NoExpiry
