SPECIFICATION Spec
CONSTANTS
  Clients = {c1}
  u1 = u1
  u2 = u2
  Uuids = {u1, u2}
  Batches <- MCBatches
  Slots = {s1, s2}
  MaxMessages = 2
  MaxFailures = 0
SYMMETRY Symmetry
PROPERTY BackupIsCurrent
CHECK_DEADLOCK FALSE
