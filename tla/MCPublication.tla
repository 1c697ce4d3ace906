---------------------------- MODULE MCPublication ----------------------------
(* Instances of Publication for TLC. *)
EXTENDS Publication, TLC

PublicationSymmetry == Permutations(Attempts) \cup Permutations(Publishers)
=============================================================================
