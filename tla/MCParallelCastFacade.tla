------------------------ MODULE MCParallelCastFacade ------------------------
(* Model-checking instance of ParallelCastFacade.                          *)
EXTENDS ParallelCastFacade

CONSTANTS p1, p2

\* A single-device placement and a two-device one: an edge between them
\* changes parallel_num.
MCPlacements == {p1, p2}
MCParallelNum == [p \in MCPlacements |-> IF p = p1 THEN 1 ELSE 2]

=============================================================================
