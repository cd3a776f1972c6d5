-------------------------------- MODULE MCWeb --------------------------------
(* Instances of Web for TLC. *)
EXTENDS Web, TLC

WebSymmetry ==
    Permutations(Adds) \cup Permutations(Options) \cup Permutations(Lists)

=============================================================================
