\* Two cargos and a dry run on one target directory.
CONSTANTS
  s = s
  c = c
  r = r
  x = x
  y = y
  z = z
  Absent = Absent
  Free = Free
  Proc = {p1, p2, p3}
  Task = {s, c}
  Blob = {x, y, z}
  Deps <- MCDeps
  Stable = {s}
  Reads <- MCReads
  Peeks <- MCPeeks
  Products <- MCProducts
  Jobs = 1
  Dry = {p3}
  MaxStarts <- OneStart
SPECIFICATION Spec
INVARIANTS
  TreeAsStored
PROPERTY ImplementsResultCache
CHECK_DEADLOCK FALSE
