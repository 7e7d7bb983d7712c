----------------------------- MODULE MCFormVersions -----------------------------
(* Values of the constants of FormVersions for TLC.                        *)
EXTENDS FormVersions, TLC

Symmetry == Permutations(Procs) \cup Permutations(Shelters) \cup Permutations(Templates)
            \cup Permutations(Versions) \cup Permutations(Submissions)
            \cup Permutations(Definitions)
=============================================================================
