\* Two invocations: one unlinks the manifest the other has just stored.
CONSTANTS
  a = a
  b = b
  x = x
  y = y
  z = z
  Absent = Absent
  Free = Free
  Proc = {p1, p2}
  Node = {a, b}
  Blob = {x, y, z}
  Deps <- MCDeps
  Products <- MCProducts
  Roots = {b}
  Clearing = {}
  Tracing = {}
  MaxStarts <- OneStart
SPECIFICATION Spec
INVARIANTS
  FailureHasCause
CHECK_DEADLOCK FALSE
