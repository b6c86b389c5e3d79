\* Two cargos install the same artifacts.
CONSTANTS
  lib = lib
  bin = bin
  x = x
  d1 = d1
  d2 = d2
  Empty = Empty
  Proc = {p1, p2}
  Output = {lib}
  Blob = {x}
  Dest = {d1, d2}
  Content <- MCContent
  Exec <- MCExec
  Place <- MCPlace
  Rounds = 1
SPECIFICATION Spec
INVARIANTS
  CasIntact
CHECK_DEADLOCK FALSE
