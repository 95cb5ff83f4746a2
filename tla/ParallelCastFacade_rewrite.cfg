\* Every op graph of three ops, each with up to two inputs, over a one- and
\* a two-device placement and two SBP signatures, and every HashMap order.
CONSTANTS
  NumOps = 3
  NumIbns = 2
  p1 = p1
  p2 = p2
  Placements <- MCPlacements
  ParallelNum <- MCParallelNum
  Sbps = {"S0", "B"}
SPECIFICATION Spec
\* AddParallelCastFacadeOp returns once both loops are done.
CHECK_DEADLOCK FALSE
INVARIANT TypeOK
INVARIANT InputsReadCompatibleBlobs
INVARIANT OneFacadePerNeed
