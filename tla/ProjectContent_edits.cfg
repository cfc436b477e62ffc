SPECIFICATION Spec
CONSTANTS
  Clients = {c1}
  u1 = u1
  u2 = u2
  Uuids = {u1, u2}
  Batches <- MCBatches
  Slots = {s1, s2}
  MaxMessages = 2
  MaxFailures = 1
SYMMETRY Symmetry
INVARIANTS TypeOK AloneIsExact HistoryLeads NotesUnique SeenAsStored
PROPERTY RestoreUndoable
CHECK_DEADLOCK FALSE
