SPECIFICATION FairSpec
CONSTANTS
    Devices = {d1, d2}
    Validity = 2
    Threshold <- From0
    Sched = sched
    Manual = {api}
    Overlap = FALSE
    IssueOnly = TRUE
    MaxTrouble = 1
    DeployFaults = TRUE
    VaultFaults = TRUE
    Deletes = TRUE
    Switched = {d1}
    Crashes = TRUE
    NoCert = NoCert
    Foreign = Foreign
INVARIANTS TypeOK OnePerDay
PROPERTIES FleetAttempted Renewed
