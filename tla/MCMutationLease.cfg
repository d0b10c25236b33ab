CONSTANTS
  Rooms = {r1, r2}
  NoLease = NoLease
  TTL = 2
  RenewBefore = 1
  MaxTime = 3
  MaxRequests = 5
SYMMETRY Symmetry
SPECIFICATION Spec
CHECK_DEADLOCK FALSE
INVARIANTS
  CommandsInFenceOrder
  EffectOnce
  LeasesAreExclusive
