SPECIFICATION Spec
CONSTANTS
  a1 = a1
  a2 = a2
  a3 = a3
  b1 = b1
  NoBasis = NoBasis
  Bases = {a1, a2, a3, b1}
  ScopeOf <- MCScopeOf
  Ids = {i1, i2, i3}
  Clients = {c1, c2}
  MaxPending = 2
  Ttl = 1
  ClaimTtl = 1
  MaxTime = 1
SYMMETRY MCSymmetry
INVARIANTS PendingCapped PendingUnique
PROPERTIES EachLifecycle
