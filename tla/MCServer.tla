------------------------------ MODULE MCServer ------------------------------
(* Two clients compete for one place in the hub; queues of one frame and      *)
(* batches of two make overflow, partial batches and the last flush happen.   *)
EXTENDS Server, TLC

Symmetry == Permutations(Clients)
=============================================================================
