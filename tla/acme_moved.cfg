SPECIFICATION Spec
CONSTANTS
    Orders = {o1, o2}
    Names = {n1}
    NamesOf <- Mixed
    Servers = {s1}
    Hidden = {}
    Directories = {ca1, ca2}
    Faults = {"move"}
    Exclusive = TRUE
    NoDir = NoDir
    NoKey = NoKey
    NoUri = NoUri
    NoName = NoName
CHECK_DEADLOCK FALSE
INVARIANTS AccountAtDirectory
