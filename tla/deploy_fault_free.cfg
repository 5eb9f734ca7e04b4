SPECIFICATION FairSpec
CONSTANTS
    Labels = {tpA, tpB, tpX}
    A = tpA
    B = tpB
    MaxIssued = 2
    Leftovers = {tpA, tpB}
    NoLabel = NoLabel
    Absent = Absent
    Empty = Empty
    NoFile = NoFile
    Runs = {r1, r2}
    Serialised = TRUE
    Lagging = TRUE
    Staging = TRUE
    RawErrors = FALSE
    Errors = {}
    LateErrors = {}
    Refusals = {}
    Crashes = FALSE
    MaxReloads = 0
PROPERTIES FaultFreeDeploys
CHECK_DEADLOCK FALSE
