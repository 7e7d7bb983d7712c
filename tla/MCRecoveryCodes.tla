--------------------------- MODULE MCRecoveryCodes ---------------------------
(* Values of the constants of RecoveryCodes for TLC.                       *)
EXTENDS RecoveryCodes, TLC

Symmetry == Permutations(Procs) \cup Permutations(Codes) \cup Permutations(Users)
=============================================================================
