SPECIFICATION CommentsSpec
CONSTANTS
  Users = {a, b}
  Sockets = {k}
  Channels = {"projectInvitations"}
  Projects = {p, q}
  NameOf <- MCNameOf
  Roles = {"editor", "viewer"}
  Slots = {s1, s2}
  MaxRequests = 4
  MaxFailures = 1
  None = None
SYMMETRY Symmetry
INVARIANTS CommentsTypeOK CommentsRefer AloneHeardLatest AcceptedHasJoined AloneOneStory JoinedIsAnswered
PROPERTY AloneFinal
CHECK_DEADLOCK FALSE
