---------------------------- MODULE MCAdoptionCases ----------------------------
(* Values of the constants of AdoptionCases for TLC.                       *)
EXTENDS AdoptionCases, TLC

Symmetry == Permutations(Procs) \cup Permutations(Shelters) \cup Permutations(Users)
            \cup Permutations(Cases) \cup Permutations(Events) \cup Permutations(Submissions)
=============================================================================
