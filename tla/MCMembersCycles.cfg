CONSTANTS
  k1 = k1
  kX = kX
  a1 = a1
  a2 = a2
  a9 = a9
  d1 = d1
  d9 = d9
  e1 = e1
  e2 = e2
  free = free
  r1 = r1
  r2 = r2
  r3 = r3
  p1 = p1
  p2 = p2
  p3 = p3
  Ed25519Keys = {k1}
  P256Keys = {}
  OtherKid = kX
  EvtIds = {e1, e2}
  AttIds = {a1, a2, a9}
  EvdIds = {d1, d9}
  RelIds = {r1, r2, r3}
  PrfIds = {p1, p2, p3}
  EmptyId = EmptyId
  U64Max = 3
  DidRefs = {}
  Inputs <- MCInputs
  ProofOf <- MCProofOf
  CtxOf <- MCCtxOf
SPECIFICATION Spec
INVARIANT DefaultProfileAllowsCycles
