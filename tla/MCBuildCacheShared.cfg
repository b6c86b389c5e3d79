\* Two invocations share the cache root; either may be killed.
CONSTANTS
  a = a
  b = b
  x = x
  y = y
  z = z
  Absent = Absent
  Free = Free
  Proc = {p1, p2}
  Node = {a, b}
  Blob = {x, y, z}
  Deps <- MCDeps
  Products <- MCProducts
  Roots = {b}
  Clearing = {}
  Tracing = {}
  MaxStarts <- OneStart
SPECIFICATION FairSpec
PROPERTIES
  BuildEnds
  ImplementsResultCache
CHECK_DEADLOCK FALSE
