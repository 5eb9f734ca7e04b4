SPECIFICATION FairSpec
CONSTANTS
    Orders = {o1, o2}
    Names = {n1}
    NamesOf <- Mixed
    Servers = {s1}
    Hidden = {}
    Directories = {ca1, ca2}
    Faults = {"kill", "unanswered", "undeleted", "move", "sweep"}
    Exclusive = TRUE
    NoDir = NoDir
    NoKey = NoKey
    NoUri = NoUri
    NoName = NoName
CHECK_DEADLOCK FALSE
INVARIANTS TypeOK AccountSound AccountKept ChallengesStand NoLeftovers
PROPERTIES PromisesKept OrdersEnd
