SPECIFICATION Spec
CONSTANTS
  Senders = {}
  Fetchers = {}
  BadFetchers = {}
  Finders = {}
  FirstMessages = {}
  BadRequests = {}
  Requests = {}
  Background = background
  Bundle = bundle
  Timers = {"SendDummy", "RepublishDht"}
  RecordTTL = 2
  MaxTime = 4
  MaxQueued = 1
  MaxFaults = 0
PROPERTY PublishedIsValid
CHECK_DEADLOCK FALSE
