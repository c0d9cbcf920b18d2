----------------------------- MODULE MCFlowTiers -----------------------------
(* Small instances of FlowTiers for TLC. *)
EXTENDS FlowTiers

\* Both tiers, and a folder in one of them.
MCPlaces == {<<"local", "">>, <<"workspace", "">>, <<"workspace", "z">>}

MCSymmetry == Permutations(Clients)
=============================================================================
