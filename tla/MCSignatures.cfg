CONSTANTS
  kE = kE
  kP = kP
  kX = kX
  a1 = a1
  a2 = a2
  Ed25519Keys = {kE}
  P256Keys = {kP}
  OtherKid = kX
  EvtIds = {}
  AttIds = {a1, a2}
  EvdIds = {}
  RelIds = {}
  PrfIds = {}
  EmptyId = EmptyId
  U64Max = 3
  DidRefs = {}
  Inputs <- MCInputs
  ProofOf <- MCProofOf
  CtxOf <- MCCtxOf
SPECIFICATION Spec
INVARIANTS TypeOK InvalidCarriesCode
PROPERTY ImplementsVerdict
