SPECIFICATION Spec
CONSTANTS
  u1 = u1  u2 = u2  c1 = c1  c2 = c2  c3 = c3
  Users = {u1, u2}
  NoUser = NoUser
  Clients = {c1, c2}
  UserOf <- TwoClients
  Items = {i1}
  NoItem = NoItem
  Slots = {s1, s2}
  Priorities = {0}
  MaxEdits = 1
  MaxFailures = 0
SYMMETRY Symmetry
PROPERTIES
  NoEditDropped
