SPECIFICATION Spec
CONSTANTS
  root = root
  ann = ann
  s1 = s1
  s2 = s2
  Users = {root, ann}
  Admin = root
  Keys = {k1}
  Slots = {s1, s2}
  Ops <- MCOps
  Present <- MCPresent
  NoUser = NoUser
  NoKey = NoKey
CHECK_DEADLOCK FALSE
INVARIANTS
  TypeOK
  OneSuperAdmin
  SecondFactorUsable
  TemporaryMustChange
PROPERTIES
  SuperAdminKept
