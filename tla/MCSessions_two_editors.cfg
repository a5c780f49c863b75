\* Two edits of one client at the same time.
CONSTANTS
    a = a
    c = c
    A = A
    B = B
    p = p
    q = q
    k1 = k1
    k2 = k2
    k3 = k3
    g1 = g1
    s1 = s1
    s2 = s2
    s3 = s3
    NoOrg = NoOrg
    NoSession = NoSession
    NoGrant = NoGrant
    NoProgram = NoProgram
    Same = Same
    Users = {c}
    Orgs = {A, B}
    Programs = {p, q}
    Included <- TwoOrganizations
    InitialUsers <- AdminAndClient
    SessionIds = {k1}
    Grants = {}
    Slots = {s1, s2}
    Ops <- TwoEditors
    Edits <- AllKinds
SPECIFICATION Spec
PROPERTIES
    ReassignmentRevokes
CHECK_DEADLOCK FALSE
