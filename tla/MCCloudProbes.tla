--------------------------- MODULE MCCloudProbes ----------------------------
(* Either probe for TLC, with a worker that an earlier one left behind. *)
EXTENDS CloudProbes, TLC

CONSTANT earlier

MCIdentities == 1 .. 2
MCSkews == {-3, 0, 3, 7}

\* What the proof of NothingEverStays leaves to TLC holds in every state.
MCFairSpec ==
    /\ ProbeInit /\ [][Assert(ProbesCanGoOn, "nothing can go on") /\ ProbeNext]_probeVars
    /\ ProbeFairness
=============================================================================
