\* Two cargos that install two artifacts, which share a blob, twice.
CONSTANTS
  lib = lib
  bin = bin
  x = x
  d1 = d1
  d2 = d2
  Empty = Empty
  Proc = {p1, p2}
  Output = {lib, bin}
  Blob = {x}
  Dest = {d1, d2}
  Content <- MCContent
  Exec <- MCExec
  Place <- MCPlace
  Rounds = 2
SPECIFICATION Spec
INVARIANTS
  LoneCasIntact
  InstalledAsStored
CHECK_DEADLOCK FALSE
