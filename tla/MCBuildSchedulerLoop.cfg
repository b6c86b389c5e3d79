\* With and without -k, two hosts of which one or both drop, a diamond.
CONSTANTS
  a = a
  b = b
  c = c
  d = d
  e = e
  Here = Here
  Nobody = Nobody
  Node = {a, b, c, d, e}
  Deps <- Diamond
  Roots = {e}
  LocalOnly = {b}
  Host = {h1, h2}
  Cores <- OneCore
  Jobs = 1
  Flags = {TRUE, FALSE}
  MaxLosses = 2
SPECIFICATION FairSpec
INVARIANTS
  TypeOK
  SlotsRespected
  OncePerNode
  DepsBuilt
  NeverStuck
  AllPossibleBuilt
PROPERTY LoopTerminates
CHECK_DEADLOCK FALSE
