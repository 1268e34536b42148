SPECIFICATION Spec
CONSTANTS
  r1 = r1
  r2 = r2
  r3 = r3
  r4 = r4
  r5 = r5
  r6 = r6
  alice = alice
  bob = bob
  Relays = {r1, r2, r3, r4, r6}
  Keyed = {r1, r2, r3, r4}
  Outdated = {r3}
  Addressable = {r1, r2, r3, r5}
  Peers = {alice, bob}
  Published <- MCPublished
  Sender = sender
  MinHops = 2
  MaxHops = 3
  Spare = 1
  FailureThreshold = 2
  MaxSends = 1
  MaxReports = 1
  MaxFaults = 2
INVARIANT BlobsAreEnvelopes
CHECK_DEADLOCK FALSE
