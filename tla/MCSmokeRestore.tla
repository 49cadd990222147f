--------------------------- MODULE MCSmokeRestore ---------------------------
(* The smoke over a fixture of two pools for TLC. *)
EXTENDS SmokeRestore, TLC

MCOrder == <<"fixture-a", "fixture-b">>

\* What the proof of SmokeAlwaysEnds leaves to TLC holds in every state.
MCFairSpec ==
    /\ Init /\ [][Assert(SmokeCanGoOn, "the smoke cannot go on") /\ Next]_vars
    /\ WF_vars(Smoke) /\ WF_vars(Tick)
=============================================================================
