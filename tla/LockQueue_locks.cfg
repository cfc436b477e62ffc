SPECIFICATION Spec
CONSTANTS
  u1 = u1  u2 = u2  c1 = c1  c2 = c2  c3 = c3
  Users = {u1, u2}
  NoUser = NoUser
  Clients = {c1, c2, c3}
  UserOf <- ThreeClients
  Items = {i1, i2}
  NoItem = NoItem
  Slots = {s1, s2, s3}
  Priorities = {0}
  MaxEdits = 0
  MaxFailures = 0
SYMMETRY SymmetryOfTabs
CONSTRAINT OneInRoom
INVARIANTS
  OwnerIndexed
  MirrorAgrees
PROPERTIES
  TableSpec
