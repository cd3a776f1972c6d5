----------------------------- MODULE MCProposals -----------------------------
(* Instances of Proposals for TLC. *)
EXTENDS ProposalsInvariant, TLC

CONSTANTS retainer, oneOff   \* a recurring package and one that is not

MCPackages  == {retainer, oneOff}
MCRecurring == {retainer}
BothMenus   == {{retainer, oneOff}}
OneOffMenu  == {{oneOff}}
MixedMenus  == BothMenus \cup OneOffMenu
SingleMenus == {{retainer}, {oneOff}}
AllMenus    == BothMenus \cup SingleMenus

\* Requests of one kind are interchangeable; so are proposals.
RequestSymmetry ==
    Permutations(Proposals) \cup Permutations(SendReqs) \cup Permutations(ViewReqs)
      \cup Permutations(SelectReqs) \cup Permutations(SignReqs)

=============================================================================
