------------------------- MODULE MCFixtureBootstrap -------------------------
(* Two runs of up over one state directory for TLC. *)
EXTENDS FixtureBootstrap, TLC

CONSTANTS a1, a2, b1, b2

MCSupplies == {[a |-> a1, b |-> b1], [a |-> a1, b |-> b2], [a |-> a2, b |-> b1]}
MCSymmetry == Permutations(Runs)
=============================================================================
