SPECIFICATION Spec
CONSTANTS
  Users = {a, b}
  Sockets = {k, l}
  Channels = {"friendRequests"}
  None = None
  Slots = {s1, s2}
  MaxCalls = 3
  MaxFailures = 1
SYMMETRY Symmetry
INVARIANTS TypeOK SubscriptionsAgree AcceptedBefriended AloneOneAnswer AloneOnePerPair
CHECK_DEADLOCK FALSE
