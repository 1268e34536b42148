SPECIFICATION Spec
CONSTANTS
  Self = self
  Holders = {h1}
  RecordTTL = 1
  MaxTime = 2
  MaxFaults = 2
INVARIANTS
  TypeOK
  KeysOutliveProcess
PROPERTIES
  OnlyExpiryRefuses
  DeadPrekeysFade
  ComesUpAgain
