----------------------------- MODULE MCHubSteps -----------------------------
(* Two clients with queues of two frames, four broadcasts: every queue can    *)
(* overflow, more than once, while its client is kicked, removed or shut down.*)
EXTENDS HubSteps, TLC

Symmetry == Permutations(Clients)
=============================================================================
