SPECIFICATION Spec
CONSTANTS
  Clerks = {c1, c2}
  Accounts = {1, 2, 3}
  Beginnings <- Cases
  Roles = {"SUPER_ADMIN", "ADMIN", "SALES"}
  Users = {11, 12}
  Groups = {"team"}
  Latest = 3
INVARIANTS TypeOK RecipientsAreLinked CirclesNeedARequest
PROPERTIES PowerIsGranted NoDeadToken AuditIsTheHistory
SYMMETRY Twins
