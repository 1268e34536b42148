SPECIFICATION Spec
CONSTANTS
  A = A
  B = B
  Secrets = {s1, s2}
  MaxSkip = 2
  CounterMod = 4
  SendsOfA = 5
  SendsOfB = 2
  MaxSends <- MCMaxSends
INVARIANTS
  TypeOK
  KeysAreFresh
  ForwardSecrecy
  OnlyAgreedDeliver
  NothingSkippedIsLost
PROPERTIES
  StoreNeverRewinds
  ChannelSpec
CHECK_DEADLOCK FALSE
