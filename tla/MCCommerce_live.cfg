\* Stripe's retries against failing calls and dying processes.
CONSTANTS
    o1 = o1
    o2 = o2
    o3 = o3
    s1 = s1
    s2 = s2
    NoOrder = NoOrder
    Orders = {o1, o2}
    Slots = {s1, s2}
    Kind <- LiveKinds
    Items <- LiveItems
    Ops = {"checkout", "webhook", "confirm", "reconcile"}
    HasDeal = TRUE
    InitialEnrollment <- Client
    MaxErrors = 2
    MaxCrashes = 1
SPECIFICATION FairSpec
INVARIANTS
    TypeOK
    CardPaidOnlyIfFunded
    ProcessedImpliesPaid
    PaidOrdersGranted
PROPERTIES
    FundedIsFulfilled
    FundedReachesCrm
CHECK_DEADLOCK FALSE
