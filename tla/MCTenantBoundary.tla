---------------------------- MODULE MCTenantBoundary ----------------------------
(* Values of the constants of TenantBoundary for TLC.                      *)
EXTENDS TenantBoundary, TLC

Symmetry == Permutations(Calls) \cup Permutations(Slots) \cup Permutations(Owners)
=============================================================================
