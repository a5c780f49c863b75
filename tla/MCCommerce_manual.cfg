\* A debit and an invoice confirmed by hand, twice at the same time, beside the webhook.
CONSTANTS
    o1 = o1
    o2 = o2
    o3 = o3
    s1 = s1
    s2 = s2
    NoOrder = NoOrder
    Orders = {o2, o3}
    Slots = {s1, s2}
    Kind <- OtherKinds
    Items <- OtherItems
    Ops = {"checkout", "webhook", "ach", "invoice"}
    HasDeal = TRUE
    InitialEnrollment <- Client
    MaxErrors = 2
    MaxCrashes = 1
SPECIFICATION Spec
INVARIANTS
    ClaimIsExclusive
    OrphansAreAbandoned
    AuditedOnce
    AccessIsPaidFor
PROPERTIES
    ImplementsLedger
CHECK_DEADLOCK FALSE
