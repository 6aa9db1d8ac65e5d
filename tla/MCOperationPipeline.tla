------------------------- MODULE MCOperationPipeline --------------------------
(* TLC instance of OperationPipeline.  The clients are interchangeable. *)
EXTENDS OperationPipeline, TLC

CONSTANTS c1, c2, c3

MCClients2 == {c1, c2}
MCClients3 == {c1, c2, c3}
MCSymmetry2 == Permutations(MCClients2)
MCSymmetry3 == Permutations(MCClients3)
=============================================================================
