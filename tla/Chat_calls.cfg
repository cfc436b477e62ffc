SPECIFICATION Spec
CONSTANTS
  Users = {1, 2}
  Rooms <- MCRooms
  Sockets = {k, l}
  Slots = {s1, s2}
  Limit = 1
  MaxOld = 2
  MaxCalls = 2
  MaxFailures = 1
  None = None
SYMMETRY Symmetry
CONSTRAINTS Apart OneReads
INVARIANTS TypeOK RecipientNotified MarkedOnce AllRead 
CHECK_DEADLOCK FALSE
