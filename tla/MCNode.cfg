SPECIFICATION Spec
CONSTANTS
  Senders = {send}
  Fetchers = {}
  BadFetchers = {badFetch}
  Finders = {find}
  FirstMessages = {first}
  BadRequests = {bad}
  Requests = {first, bad}
  Background = background
  Bundle = bundle
  Timers = {"SendDummy", "RepublishDht"}
  RecordTTL = 2
  MaxTime = 2
  MaxQueued = 1
  MaxFaults = 1
INVARIANTS TypeOK PendingUnderWay
PROPERTIES CommandsAnswered LookupsAnswered RequestsAnswered RecordReturns
CHECK_DEADLOCK FALSE
