SPECIFICATION Spec
CONSTANTS
  Users = {u1, u2}
  NoUser = NoUser
  Clients = {c1, c2, c3}
  Projects = {p1, p2}
  MaxMessages = 2
SYMMETRY Symmetry
INVARIANTS
  TypeOK
  RegistryAgrees
  NoShareStranded
  ShareAccountedFor
  RoomsAlive
  DeliveredInOrder
PROPERTIES
  MailboxSpec
\* The sockets are opened once: when all are closed nothing is left to do.
CHECK_DEADLOCK FALSE
