SPECIFICATION SpecWithArm
CONSTANTS
  Senders = {send}
  Fetchers = {}
  BadFetchers = {badFetch}
  Finders = {find}
  FirstMessages = {first}
  BadRequests = {bad}
  Requests = {first, bad}
  Background = background
  Bundle = bundle
  Timers = {"SendDummy", "RepublishDht"}
  RecordTTL = 2
  MaxTime = 1
  MaxQueued = 1
  MaxFaults = 0
PROPERTY SendReturns
CHECK_DEADLOCK FALSE
