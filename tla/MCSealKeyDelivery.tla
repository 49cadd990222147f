-------------------------- MODULE MCSealKeyDelivery -------------------------
(* The supervisor for TLC, beside a second setup-key run or a once command. *)
EXTENDS SealKeyDelivery, TLC

CONSTANT k2

\* The second setup-key and the once command do not both run.
OneMore ==
    \/ setup[k2] = "start"
    \/ \A d \in Once : step[d] = Idle

\* What the proof of WaitingIsAlwaysServed leaves to TLC holds in every state.
MCFairSpec ==
    Init /\ [][Assert(KeyCanGoOn, "no key can go on") /\ Next /\ OneMore']_vars /\ Fairness
=============================================================================
