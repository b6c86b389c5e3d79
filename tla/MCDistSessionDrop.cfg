\* The first session drops at any point and is dialled again.
CONSTANTS
  u1 = u1
  u2 = u2
  x = x
  y = y
  z = z
  NoUid = NoUid
  Uid = {u1, u2}
  Blob = {x, y, z}
  Inputs <- MCInputs
  Outputs <- MCOutputs
  MaxConns = 2
SPECIFICATION FairSpec
INVARIANTS
  TypeOK
  JobFollowsItsBlobs
  CrossesOnce
  FirstSessionFailureIsReal
  BlobsBeforeResult
  NoLostWakeup
PROPERTY EveryNodeEnds
CHECK_DEADLOCK FALSE
