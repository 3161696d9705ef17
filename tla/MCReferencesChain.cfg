SPECIFICATION Spec
CONSTANTS
  x = x
  y = y
  z = z
  b1 = b1
  b2 = b2
  Nil = Nil
  Names = {x, y}
  Buckets = {b1}
  Bucket <- Hash
  Refs = {r1, r2, r3}
  Objects = {o1, o2, o3}
  ClearInChains = TRUE
  MaxLeaks = 1
INVARIANT NoDangling
