\* Two exchanges of previews beside two edits of the client.
CONSTANTS
    a = a
    c = c
    A = A
    B = B
    p = p
    q = q
    k1 = k1
    k2 = k2
    k3 = k3
    g1 = g1
    s1 = s1
    s2 = s2
    s3 = s3
    NoOrg = NoOrg
    NoSession = NoSession
    NoGrant = NoGrant
    NoProgram = NoProgram
    Same = Same
    Users = {a, c}
    Orgs = {A, B}
    Programs = {p, q}
    Included <- TwoOrganizations
    InitialUsers <- AdminAndClient
    SessionIds = {}
    Grants = {g1}
    Slots = {s1, s2}
    Ops <- Previewing
    Edits <- Moves
SPECIFICATION Spec
INVARIANTS
    TypeOK
    PreviewWithinAssignment
PROPERTIES
    ImplementsPreviewGrants
CHECK_DEADLOCK FALSE
