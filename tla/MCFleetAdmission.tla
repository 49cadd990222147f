-------------------------- MODULE MCFleetAdmission --------------------------
(* Small fleets for TLC. *)
EXTENDS FleetAdmission, TLC

MCOnePerPool == [l \in Launchers |-> CHOOSE p \in Pools : TRUE]
MCOneReplica == [p \in Pools |-> 1]
MCTwoReplicas == [p \in Pools |-> 2]
MCOneEach == CHOOSE f \in [Launchers -> Pools] : \A p \in Pools : \E l \in Launchers : f[l] = p
MCSymmetry == Permutations(Ops)

\* What the proof of CallsEnd leaves to TLC holds in every state.
MCFairSpec ==
    Init /\ [][Assert(CallsCanGoOn, "a call cannot go on") /\ Next]_vars /\ Fairness
=============================================================================
