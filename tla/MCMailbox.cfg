SPECIFICATION Spec
CONSTANTS
  Owners = {u1, u2}
  Known = {u1}
  Limit = 2
  TTL = 1
  MaxMessages = 3
  MaxRequests = 2
  MaxTime = 2
  MaxFaults = 2
INVARIANTS
  TypeOK
  HandedOnce
  WithinLimit
PROPERTIES
  LeavesForItsOwner
  LostOnlyWithAnswer
  StoredIsServed
