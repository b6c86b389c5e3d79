\* Two cargos with two jobs each on one target directory, killed anywhere; the
\* second may also be what is started after the first.
CONSTANTS
  s = s
  c = c
  r = r
  x = x
  y = y
  z = z
  Absent = Absent
  Free = Free
  Proc = {p1, p2}
  Task = {s, c, r}
  Blob = {x, z}
  Deps <- MCDeps
  Stable = {s, r}
  Reads <- MCReads
  Peeks <- MCPeeks
  Products <- SureProducts
  Jobs = 2
  Dry = {}
  MaxStarts <- OneStart
SPECIFICATION FairSpec
INVARIANTS
  TypeOK
  NoGraphDeadlock
  SuccessIsCached
PROPERTY CargoEnds
CHECK_DEADLOCK FALSE
