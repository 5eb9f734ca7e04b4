SPECIFICATION Spec
CONSTANTS
    Labels = {tpA, tpB, tpX}
    A = tpA
    B = tpB
    MaxIssued = 2
    Leftovers = {}
    NoLabel = NoLabel
    Absent = Absent
    Empty = Empty
    NoFile = NoFile
    Runs = {r1, r2}
    Serialised = TRUE
    Lagging = TRUE
    Staging = FALSE
    RawErrors = TRUE
    Errors <- AllCalls
    LateErrors <- AllCalls
    Refusals <- Refusable
    Crashes = TRUE
    MaxReloads = 1
INVARIANTS TypeOK ServingSound DeployedIsDurable RolledBackRestores OneDeployed
PROPERTIES BoundUntouched CutoverImplemented LedgerTruthful
SYMMETRY RunSymmetry
CHECK_DEADLOCK FALSE
