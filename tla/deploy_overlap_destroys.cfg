SPECIFICATION Spec
CONSTANTS
    Labels = {tpA, tpB, tpX}
    A = tpA
    B = tpB
    MaxIssued = 2
    Leftovers = {}
    NoLabel = NoLabel
    Absent = Absent
    Empty = Empty
    NoFile = NoFile
    Runs = {r1, r2}
    Serialised = FALSE
    Lagging = TRUE
    Staging = FALSE
    RawErrors = FALSE
    Errors = {}
    LateErrors = {}
    Refusals = {}
    Crashes = FALSE
    MaxReloads = 0
PROPERTIES BoundUntouched
CHECK_DEADLOCK FALSE
