--------------------------- MODULE MCPriorityQueue --------------------------
(* Small instances of PriorityQueue for TLC. *)
EXTENDS PriorityQueue, TLC

CONSTANTS h1, h2, h3, h4, h5, h6

FourHandlers == {h1, h2, h3, h4}
SixHandlers  == {h1, h2, h3, h4, h5, h6}

TwoSizes   == 1 .. 2
ThreeSizes == 1 .. 3

\* Handlers differ only in their names; sound for the runs without liveness.
HandlerSymmetry == Permutations(Handler)
=============================================================================
