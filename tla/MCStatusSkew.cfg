CONSTANTS
  k1 = k1
  k2 = k2
  k3 = k3
  kX = kX
  a1 = a1
  a2 = a2
  a3 = a3
  d1 = d1
  did1 = did1
  Ed25519Keys = {k1, k2, k3}
  P256Keys = {}
  OtherKid = kX
  EvtIds = {}
  AttIds = {a1, a2, a3}
  EvdIds = {d1}
  RelIds = {}
  PrfIds = {}
  EmptyId = EmptyId
  U64Max = 3
  DidRefs = {did1}
  Inputs <- MCInputs
  ProofOf <- MCProofOf
  CtxOf <- MCCtxOf
SPECIFICATION Spec
INVARIANT StatusWithinSkewApplies
