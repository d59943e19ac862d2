----------------------------- MODULE MCIdentity -----------------------------
(* Module Identity on small instances. *)
EXTENDS Identity, TLC

Symmetry == Permutations(Users) \cup Permutations(Gadgets) \cup Permutations(Workers)
              \cup Permutations(Codes)
=============================================================================
