SPECIFICATION Spec
CONSTANTS
    acme = acme  beta = beta  gamma = gamma  delta = delta
    p1 = p1  p2 = p2
    s1 = s1  s2 = s2  s3 = s3
    NoOrg = NoOrg  NoSurvey = NoSurvey  Idle = Idle  Nothing = Nothing
    Orgs <- MCOrgs
    content <- MCcontent
    OneCategory = {p1}
    PrivacyThreshold = 2
    Programs = {p1, p2}
    Surveys = {s1, s2, s3}
    year <- MCyear
    replaces <- MCreplaces
    snapshot <- MCsnapshot
    Enrollments <- MCEnrollments
    Clients = {acme}
    Filters <- MCFilters
    Asks <- MCAsks
INVARIANTS
    TypeOK
    
    EntitledOnly
    OneSurvey
    SameShareEverywhere
    
    TotalsAgree
