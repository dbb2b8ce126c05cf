--------------------------- MODULE MCSignedExits ---------------------------
(* Instances of SignedExits for TLC: validators and clients are model      *)
(* values; those in the same state at the start are interchangeable.       *)
EXTENDS SignedExits, TLC

Symmetry == Permutations(Established) \cup Permutations(Validators \ Established)
                \cup Permutations(Clients)
=============================================================================
