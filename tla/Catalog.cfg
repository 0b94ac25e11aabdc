SPECIFICATION Spec
CONSTANTS
  Syncs = {s1, s2}
  Refreshes = {r1}
  Loads = {l1}
  Files = {f1, f2, f3, f4}
  NoFile = NoFile
  Ttl = 0
  Unpriced = {2}
  MaxTime = 1
  MaxVersion = 2
SYMMETRY MCSymmetry
INVARIANTS
  TypeOK
  CacheIsTheWriters
  FailsOnlyWithoutACache
