SPECIFICATION Spec
CONSTANTS
  Self = self
  Peers = {p1}
  NoPeer = nobody
  Secrets = {p1}
  MaxSkip = 2
  CounterMod = 8
  HistoryLimit = 1
  MaxMade = 3
  MaxArrivals = 3
  MaxOpens = 1
  MaxTexts = 1
  MaxFaults = 1
CHECK_DEADLOCK FALSE
INVARIANTS
  TypeOK
  SentRowsWereSent
PROPERTIES
  HistoryIsChannel
  ReadInTheEnd
  AnnouncedIsShown
