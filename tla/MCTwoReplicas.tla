---------------------------- MODULE MCTwoReplicas -----------------------------
(* TLC instance of TwoReplicas; characters are numbers. *)
EXTENDS TwoReplicas

MCChar == 1..999
=============================================================================
