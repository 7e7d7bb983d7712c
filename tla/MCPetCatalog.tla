------------------------------ MODULE MCPetCatalog ------------------------------
(* Symmetry of the constants of PetCatalog for TLC.                        *)
EXTENDS PetCatalog, TLC

Symmetry == Permutations(Procs) \cup Permutations(Shelters)
              \cup Permutations(Pets) \cup Permutations(Media)
=============================================================================
