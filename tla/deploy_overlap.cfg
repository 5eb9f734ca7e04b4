SPECIFICATION FairSpec
CONSTANTS
    Labels = {tpA, tpB}
    A = tpA
    B = tpB
    MaxIssued = 1
    Leftovers = {}
    NoLabel = NoLabel
    Absent = Absent
    Empty = Empty
    NoFile = NoFile
    Runs = {r1, r2}
    Serialised = FALSE
    Lagging = TRUE
    Staging = FALSE
    RawErrors = FALSE
    Errors <- AllButCleanup
    LateErrors = {"import"}
    Refusals = {}
    Crashes = FALSE
    MaxReloads = 0
INVARIANTS BundleGone
PROPERTIES RunsEnd
CHECK_DEADLOCK FALSE
