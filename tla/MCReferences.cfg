SPECIFICATION Spec
CONSTANTS
  x = x
  y = y
  z = z
  b1 = b1
  b2 = b2
  Nil = Nil
  Names = {x, y}
  Buckets = {b1}
  Bucket <- Hash
  Refs = {r1, r2, r3}
  Objects = {o1, o2, o3}
  ClearInChains = FALSE
  MaxLeaks = 1
SYMMETRY Alike
INVARIANTS
  CountsExact
  InstancesExact
  NoDangling
PROPERTIES
  CopyOnWrite
  NamesKept
