SPECIFICATION Spec
CONSTANTS
  A = A
  B = B
  Users = {A, B}
  MaxSkip = 2
  CounterMod = 8
  SendsAB = 3
  SendsBA = 1
  RestartsOfA = 1
  RestartsOfB = 1
  MaxFailures = 1
  MaxSends <- MCMaxSends
  MaxRestarts <- MCMaxRestarts
INVARIANTS
  TypeOK
  DeliveredOnce
  OtpkUsedOnce
  FirstMessageOpens
  RowFollowsSession
PROPERTIES
  LiveSessionKept
CHECK_DEADLOCK FALSE
