---------------------------- MODULE CloudProbes -----------------------------
(***************************************************************************)
(* Either probe with the Cloud, from its start to its end, and what it     *)
(* promises about its room.                                                *)
(***************************************************************************)
EXTENDS RevocationProbe, AssignmentProbe

probeVars == <<roomVars, revocationVars, assignmentVars>>

ProbeInit == ProbeRoomInit /\ RevocationInit /\ AssignmentInit

ProbeNext ==
    \/ RoomStep /\ UNCHANGED <<revocationVars, assignmentVars>>
    \/ RevocationStep /\ UNCHANGED assignmentVars
    \/ AssignmentStep /\ UNCHANGED revocationVars

ProbeMoves ==
    \/ RoomWork /\ UNCHANGED <<revocationVars, assignmentVars>>
    \/ RevocationWork /\ UNCHANGED assignmentVars
    \/ AssignmentWork /\ UNCHANGED revocationVars

\* The agent of a job connects, and is disconnected with its room.
Attended(d) == WF_probeVars((AgentJoins(d) \/ AgentLeaves(d)) /\ UNCHANGED revocationVars)

AgentFairness == \A d \in Dispatches : Attended(d)

\* Every await of a probe ends in some way, if by the timeout of its request.
\* The Cloud opens or removes a room in the end, and an agent connects or leaves.
ProbeFairness ==
    /\ WF_probeVars(ProbeMoves)
    /\ WF_probeVars(CarryOutCreate /\ UNCHANGED <<revocationVars, assignmentVars>>)
    /\ WF_probeVars(EmptyRoom /\ UNCHANGED <<revocationVars, assignmentVars>>)
    /\ AgentFairness

ProbeSpec == ProbeInit /\ [][ProbeNext]_probeVars

ProbeFairSpec == ProbeSpec /\ ProbeFairness

-----------------------------------------------------------------------------
(* Properties.                                                             *)

ProbeTypeOK ==
    /\ RevocationTypeOK /\ AssignmentTypeOK
    /\ status \in {"none", "observed", "unproven"}
    /\ report \in [status : {"observed", "unproven"}, removed : BOOLEAN] \cup {NoReport}
    /\ room \in {"none", "open", "removed", "reopened"}

Promise == INSTANCE OwnedRoom

\* Whatever fails, comes late or is lost: a report of something observed comes
\* after the room, which no late request opens again, and no report calls a
\* room removed that was not.
KeepsPromise == Promise!RoomSpec

\* Until nothing is left, something can happen: a probe at any of its awaits, a
\* request that is on its way, a room that is empty, an agent with a job to join
\* or no room to stay in.
ProbesCanGoOn ==
    /\ ~Ended => ENABLED <<ProbeMoves>>_probeVars
    /\ asked => ENABLED <<CarryOutCreate /\ UNCHANGED <<revocationVars, assignmentVars>>>>_probeVars
    /\ RoomIsOpen /\ ~caller =>
          ENABLED <<EmptyRoom /\ UNCHANGED <<revocationVars, assignmentVars>>>>_probeVars
    /\ \A d \in Dispatches :
          job[d].state = "assigned" \/ (job[d].state = "running" /\ room = "removed") =>
             ENABLED <<(AgentJoins(d) \/ AgentLeaves(d)) /\ UNCHANGED revocationVars>>_probeVars

\* Also of a probe that fails or dies before its cleanup, neither a room nor a
\* job stays behind.
NothingStays == <>[](~RoomIsOpen /\ \A d \in Dispatches : ~Busy(d))

=============================================================================
