SPECIFICATION Spec
CONSTANTS
  A = A
  B = B
  Users = {A, B}
  MaxSkip = 2
  CounterMod = 8
  SendsAB = 1
  SendsBA = 1
  RestartsOfA = 0
  RestartsOfB = 0
  MaxFailures = 0
  MaxSends <- MCMaxSends
  MaxRestarts <- MCMaxRestarts
INVARIANTS
  OppositeOrigins
CHECK_DEADLOCK FALSE
