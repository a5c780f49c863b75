SPECIFICATION Spec
CONSTANTS
  A = A
  B = B
  T = T
  ea = ea
  eb = eb
  P = P
  c1 = c1
  c2 = c2
  X = X
  cus1 = cus1
  s1 = s1
  s2 = s2
  Orgs = {A, B, T}
  Ids = {ea, eb}
  Program = P
  programOf <- MCProgram
  Source <- MCSource
  Listing <- MCListing
  CrmTables <- MCTables
  InitialOrgs <- MCOrgs
  InitialOrg <- MCOrg
  Slots = {s1, s2}
  Ops <- MCOps
  Deletable = {B, P}
  Edited = {eb}
  MaxVersion = 2
  Companies = {c1, c2}
  Accounts = {X}
  Names = {"a", "b", "c", "t"}
  Customers = {cus1}
  NoAccount = NoAccount
  NoCustomer = NoCustomer
  Gone = Gone
  Nothing = Nothing
CHECK_DEADLOCK FALSE
INVARIANTS
  TypeOK
  EntitlementsConsistent
  AcceptedPlansApply
PROPERTIES
  ReviewedIsApplied
