CONSTANTS
  p0 = p0
  p1 = p1
  p2 = p2
  p3 = p3
  p4 = p4
  p5 = p5
  p6 = p6
  Ids = {p0, p1, p2, p3, p4, p5, p6}
  Documents <- MCDocuments
  MaxTransitiveDepth = 2
  MaxReferencedProofs = 2
  UsizeMax = 15
SPECIFICATION Spec
INVARIANTS TypeOK NamedOnce AncestryIsClosest BudgetIsFetches
PROPERTY Terminates
