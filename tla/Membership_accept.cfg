SPECIFICATION Spec
CONSTANTS
  Users = {a, b}
  Sockets = {}
  Channels = {"projectInvitations"}
  Projects = {p}
  NameOf <- MCNameOf
  Roles = {"editor"}
  Slots = {s1, s2}
  MaxRequests = 4
  MaxFailures = 0
  None = None
SYMMETRY Symmetry
INVARIANT AcceptedOnce
CHECK_DEADLOCK FALSE
