------------------------------ MODULE MCSessions ------------------------------
(* Instances of Sessions for TLC. *)
EXTENDS Sessions, TLC

\* Requests of one kind are interchangeable.
SessionSymmetry ==
    Permutations(LoginReqs) \cup Permutations(RefreshReqs) \cup Permutations(Browsers)
      \cup Permutations(LogoutReqs) \cup Permutations(ResetReqs)

=============================================================================
