--------------------------- MODULE MCPublication ---------------------------
(* Model values and symmetry for checking Publication on a small instance. *)
EXTENDS Publication, TLC

Symmetry == Permutations(Proc) \cup Permutations(File) \cup Permutations(Digest)
=============================================================================
