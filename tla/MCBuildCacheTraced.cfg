\* A plain invocation beside one given --strace, both sometimes --clear.
CONSTANTS
  a = a
  b = b
  x = x
  y = y
  z = z
  Absent = Absent
  Free = Free
  Proc = {p1, p2}
  Node = {a, b}
  Blob = {x, y, z}
  Deps <- MCDeps
  Products <- MCProducts
  Roots = {b}
  Clearing = {p1, p2}
  Tracing = {p2}
  MaxStarts <- TracedOnce
SPECIFICATION Spec
INVARIANTS
  TypeOK
  StoredIsComplete
  InputsComplete
  ManifestSound
  SuccessIsCached
  LoneFailureHasCause
PROPERTY ValidKept
CHECK_DEADLOCK FALSE
