\* Two payments of one enrollment are fulfilled at the same time.
CONSTANTS
    o1 = o1
    o2 = o2
    o3 = o3
    s1 = s1
    s2 = s2
    NoOrder = NoOrder
    Orders = {o1, o2}
    Slots = {s1, s2}
    Kind <- Cards
    Items <- AddOns
    Ops = {"checkout", "webhook"}
    HasDeal = FALSE
    InitialEnrollment <- Client
    MaxErrors = 0
    MaxCrashes = 0
SPECIFICATION Spec
INVARIANTS
    PaidOrdersGranted
CHECK_DEADLOCK FALSE
