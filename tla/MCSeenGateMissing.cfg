CONSTANTS
  i1 = i1
  i2 = i2
  i3 = i3
  f1 = f1
  f2 = f2
  k1 = k1
  k2 = k2
  Files = {f1, f2}
  Keys = {k1, k2}
  Invocations = {i1, i2, i3}
  Jobs <- MCJobs
SYMMETRY Symmetry
SPECIFICATION Spec
INVARIANT MissingStoreRefused
