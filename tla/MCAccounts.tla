------------------------------ MODULE MCAccounts ------------------------------
(* Instances of Accounts for TLC. *)
EXTENDS Accounts, TLC

MCInviteRoles == {"firm_member"}

\* Requests of one kind are interchangeable.
AccountSymmetry ==
    Permutations(SignupReqs) \cup Permutations(AcceptReqs) \cup Permutations(SeedRuns)

=============================================================================
