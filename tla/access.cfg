SPECIFICATION Spec
CONSTANTS
    Requests = {r1, r2}
    People = {p1, p2}
    Browsers = {b1}
    Roles = {"viewer", "admin"}
    Bootstrap = {p1}
    Allowed = {p1, p2}
    DefaultRole = "viewer"
    ApiToken = FALSE
    MaxRows = 2
    MaxServed = 4
    Stored <- OneGrant
    None = None
    NoRow = NoRow
    Keep = Keep
    p1 = p1
    p2 = p2
    b1 = b1
CHECK_DEADLOCK FALSE
SYMMETRY Servers
INVARIANTS TypeOK GrantsAsDecided DisabledStaysOut UsesOwnToken SignedOutForgotten
PROPERTIES StillRefreshable
