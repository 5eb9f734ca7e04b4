SPECIFICATION Spec
CONSTANTS
    Requests = {r1, r2}
    Cas = {c1, c2}
    Slugs = {t1, t2}
    Fqdns = {d1, d2}
    Orgs = {o1}
    MaxRows = 2
    MaxServed = 3
    Stored <- SmallStores
    None = None
    NoRow = NoRow
    Keep = Keep
    Lost = Lost
    c1 = c1
    c2 = c2
    t1 = t1
    t2 = t2
    d1 = d1
    d2 = d2
    o1 = o1
CHECK_DEADLOCK FALSE
SYMMETRY Servers
INVARIANTS TypeOK AsAsked CertificatesFit CredentialsOwn OneTenantPerOrg ChecksSuffice DoctorTruthful
