-------------------------- MODULE CloudProbesProofs -------------------------
(***************************************************************************)
(* Proofs about the two probes of LiveKit Cloud: the domains of their      *)
(* variables, what they report, and that they implement OwnedRoom.         *)
(*                                                                         *)
(* The inductive invariant says for each place of a script what it knows   *)
(* there of its room, its jobs and its tokens, because the Cloud may empty *)
(* the room, offer jobs and let time pass at each of them.                 *)
(***************************************************************************)
EXTENDS CloudProbes, TLAPS

RevocationPcs == {"refresh", "leave", "revoke", "acknowledged", "wait", "attempt"}
AssignmentPcs == {"start", "dispatch", "poll", "bound", "look", "undispatch"}
CommonPcs == {"create", "created", "join", "close", "delete", "write", "done", "dead"}

\* The domains of what both scripts share.
RoomTypeOK ==
    /\ probe \in {"revocation", "assignment"}
    /\ pc \in CommonPcs \cup (IF probe = "revocation" THEN RevocationPcs ELSE AssignmentPcs)
    /\ created \in BOOLEAN /\ asked \in BOOLEAN /\ caller \in BOOLEAN

\* The room at each place of a script: it is asked for once, and a script that
\* calls it removed has seen it removed.
RoomAt ==
    /\ asked => room = "none" /\ ~created /\ pc \notin {"start", "create"}
    /\ pc \in {"start", "create"} => room = "none"
    /\ pc = "created" /\ ~asked => room # "none"
    /\ pc \in {"start", "create", "created"} => ~created
    /\ created => room # "none"
    /\ pc \in {"join", "refresh", "leave", "revoke", "acknowledged", "wait", "attempt",
               "dispatch", "poll", "bound", "look"} => created
    /\ status = "observed" => created
    /\ pc \in {"write", "done"} /\ created => room \in {"removed", "reopened"}
    /\ pc \in {"undispatch", "close", "delete", "write", "done"} => status # "none"
    /\ status = "observed" => pc \in {"undispatch", "close", "delete", "write", "done", "dead"}
    /\ report # NoReport => pc = "done" /\ report = [status |-> status, removed |-> created]

\* What was observed cannot open the room again.
ObservedAt ==
    status = "observed" =>
        /\ \A d \in Dispatches : job[d].state # "assigned"
        /\ pc \in {"write", "done"} => room = "removed"

\* The jobs at each place of the assignment probe.
AssignmentAt ==
    /\ job["stale"].state \in {"none", "offered", "deleted"}
    /\ job["valid"].state \in {"assigned", "running", "ended"} => job["valid"].worker = current
    /\ (probe = "assignment" /\ status = "observed") \/ pc \in {"bound", "look"} =>
            job["valid"].state \in {"running", "ended"} /\ job["valid"].id = registered
    /\ probe = "revocation" => \A d \in Dispatches : job[d].state = "none"

\* The tokens of the identity at each place of the revocation probe.
RevocationAt ==
    /\ pc \in {"refresh", "leave", "revoke", "acknowledged"} => initial[identity] <= Seconds(now)
    /\ pc = "wait" => initial[identity] < cutoff /\ refreshed[identity] < cutoff
    /\ pc = "attempt" =>
            initial[identity] < revoked[identity] /\ refreshed[identity] < revoked[identity]
    /\ pc \in {"start", "create"} \/ Working => \A i \in cases : i < identity
    /\ CoveredTokensAreRevoked

ProbeInv == ProbeTypeOK /\ RoomTypeOK /\ RoomAt /\ ObservedAt /\ AssignmentAt /\ RevocationAt

\* The later of two times.
LEMMA MaxOfTwo ==
    ASSUME NEW m \in Int, NEW n \in Int
    PROVE  Max({m, n}) \in Int /\ Max({m, n}) >= m /\ Max({m, n}) >= n
<1>1. \E x \in {m, n} : \A y \in {m, n} : x >= y OBVIOUS
<1>2. Max({m, n}) \in {m, n} /\ \A y \in {m, n} : Max({m, n}) >= y BY <1>1 DEF Max
<1>. QED BY <1>2

\* Seconds do not run backwards.
LEMMA SecondsGrow ==
    ASSUME NEW t \in Int
    PROVE  Seconds(t) \in Int /\ Seconds(t) <= Seconds(t + 1)
BY DEF Seconds

LEMMA ProbeBegins == ProbeInit => ProbeInv
<1>. SUFFICES ASSUME ProbeInit PROVE ProbeInv
    OBVIOUS
<1>. USE RevocationAssumption, AssignmentAssumption
     DEF ProbeInit, ProbeRoomInit, RevocationInit, AssignmentInit, Dispatches, Ids
<1>1. RevocationTypeOK BY DEF RevocationTypeOK
<1>2. AssignmentTypeOK BY DEF AssignmentTypeOK
<1>3. ProbeTypeOK BY <1>1, <1>2 DEF ProbeTypeOK
<1>4. RoomTypeOK BY DEF RoomTypeOK, CommonPcs, AssignmentPcs
<1>5. RoomAt /\ ObservedAt BY DEF RoomAt, ObservedAt
<1>6. AssignmentAt BY DEF AssignmentAt
<1>7. RevocationAt BY DEF RevocationAt, CoveredTokensAreRevoked
<1>. QED BY <1>3, <1>4, <1>5, <1>6, <1>7 DEF ProbeInv

\* Both scripts keep to their own places.
LEMMA RoomTypeGoesOn ==
    ASSUME ProbeInv, [ProbeNext]_probeVars
    PROVE  RoomTypeOK'
<1>. USE RevocationAssumption, AssignmentAssumption
     DEF ProbeInv, RoomTypeOK, ProbeTypeOK, CommonPcs, RevocationPcs, AssignmentPcs,
         Dispatches, Ids, Working, roomVars, revocationVars, assignmentVars
<1>1. CASE CreateRoom /\ UNCHANGED <<revocationVars, assignmentVars>>
    BY <1>1 DEF CreateRoom
<1>2. CASE RoomCreated /\ UNCHANGED <<revocationVars, assignmentVars>>
    BY <1>2 DEF RoomCreated
<1>3. CASE Fail /\ UNCHANGED <<revocationVars, assignmentVars>>
    BY <1>3 DEF Fail, FirstCleanup
<1>4. CASE CloseBrowser /\ UNCHANGED <<revocationVars, assignmentVars>>
    BY <1>4 DEF CloseBrowser
<1>5. CASE DeleteRoom /\ UNCHANGED <<revocationVars, assignmentVars>>
    BY <1>5 DEF DeleteRoom, RoomIsOpen
<1>6. CASE WriteReport /\ UNCHANGED <<revocationVars, assignmentVars>>
    BY <1>6 DEF WriteReport
<1>7. CASE Die /\ UNCHANGED <<revocationVars, assignmentVars>>
    BY <1>7 DEF Die, Ended
<1>8. CASE CarryOutCreate /\ UNCHANGED <<revocationVars, assignmentVars>>
    BY <1>8 DEF CarryOutCreate
<1>9. CASE EmptyRoom /\ UNCHANGED <<revocationVars, assignmentVars>>
    BY <1>9 DEF EmptyRoom, RoomIsOpen
<1>10. CASE ConnectIdentity /\ UNCHANGED assignmentVars
    BY <1>10 DEF ConnectIdentity, EnterRoom
<1>11. CASE RefreshToken /\ UNCHANGED assignmentVars
    BY <1>11 DEF RefreshToken
<1>12. CASE LeaveIdentity /\ UNCHANGED assignmentVars
    BY <1>12 DEF LeaveIdentity
<1>13. CASE FirstRemoval /\ UNCHANGED assignmentVars
    BY <1>13 DEF FirstRemoval, Revoke
<1>14. CASE AwaitCutoff /\ UNCHANGED assignmentVars
    BY <1>14 DEF AwaitCutoff
<1>15. CASE SecondRemoval /\ UNCHANGED assignmentVars
    BY <1>15 DEF SecondRemoval, Revoke
<1>16. CASE AttemptRefused /\ UNCHANGED assignmentVars
    BY <1>16 DEF AttemptRefused
<1>17. CASE Pass /\ UNCHANGED assignmentVars
    BY <1>17 DEF Pass
<1>18. CASE ReadRegistration /\ UNCHANGED revocationVars
    BY <1>18 DEF ReadRegistration, Move
<1>19. CASE EnterAssignmentRoom /\ UNCHANGED revocationVars
    BY <1>19 DEF EnterAssignmentRoom, EnterRoom
<1>20. CASE DispatchValid /\ UNCHANGED revocationVars
    BY <1>20 DEF DispatchValid, Dispatch, Fail, FirstCleanup, Move
<1>21. CASE BindJob /\ UNCHANGED revocationVars
    BY <1>21 DEF BindJob, Move
<1>22. CASE DispatchStale /\ UNCHANGED revocationVars
    BY <1>22 DEF DispatchStale, Dispatch, Fail, FirstCleanup, Move
<1>23. CASE SeeNoStaleJob /\ UNCHANGED revocationVars
    BY <1>23 DEF SeeNoStaleJob
<1>24. CASE DeleteDispatches /\ UNCHANGED revocationVars
    BY <1>24 DEF DeleteDispatches, Move
<1>25. ASSUME NEW w \in Workers, Register(w), UNCHANGED revocationVars PROVE RoomTypeOK'
    BY <1>25 DEF Register
<1>26. ASSUME NEW w \in Workers, NEW d \in Dispatches, Accept(w, d), UNCHANGED revocationVars
       PROVE RoomTypeOK'
    BY <1>26 DEF Accept
<1>27. ASSUME NEW w \in Workers, NEW d \in Dispatches, Reject(w, d), UNCHANGED revocationVars
       PROVE RoomTypeOK'
    BY <1>27 DEF Reject
<1>28. ASSUME NEW d \in Dispatches, AgentJoins(d), UNCHANGED revocationVars
       PROVE RoomTypeOK'
    BY <1>28 DEF AgentJoins
<1>29. ASSUME NEW d \in Dispatches, AgentLeaves(d), UNCHANGED revocationVars
       PROVE RoomTypeOK'
    BY <1>29 DEF AgentLeaves
<1>30. CASE UNCHANGED probeVars BY <1>30 DEF probeVars
<1>. QED
    BY <1>1, <1>2, <1>3, <1>4, <1>5, <1>6, <1>7, <1>8, <1>9, <1>10, <1>11, <1>12,
       <1>13, <1>14, <1>15, <1>16, <1>17, <1>18, <1>19, <1>20, <1>21, <1>22, <1>23,
       <1>24, <1>25, <1>26, <1>27, <1>28, <1>29, <1>30, Zenon
    DEF ProbeNext, RoomStep, RoomWork, RevocationStep, RevocationWork, AssignmentStep,
        AssignmentWork, WorkerStep

\* The room is asked for, opened and removed as the script knows it.
LEMMA RoomGoesOn ==
    ASSUME ProbeInv, [ProbeNext]_probeVars
    PROVE  RoomAt'
<1>. USE RevocationAssumption, AssignmentAssumption
     DEF ProbeInv, RoomTypeOK, ProbeTypeOK, RoomAt, ObservedAt, AssignmentAt,
         CommonPcs, RevocationPcs, AssignmentPcs,
         Dispatches, Ids, Working, roomVars, revocationVars, assignmentVars
<1>1. CASE CreateRoom /\ UNCHANGED <<revocationVars, assignmentVars>>
    BY <1>1 DEF CreateRoom
<1>2. CASE RoomCreated /\ UNCHANGED <<revocationVars, assignmentVars>>
    BY <1>2 DEF RoomCreated
<1>3. CASE Fail /\ UNCHANGED <<revocationVars, assignmentVars>>
    BY <1>3 DEF Fail, FirstCleanup
<1>4. CASE CloseBrowser /\ UNCHANGED <<revocationVars, assignmentVars>>
    BY <1>4 DEF CloseBrowser
<1>5. CASE DeleteRoom /\ UNCHANGED <<revocationVars, assignmentVars>>
    BY <1>5 DEF DeleteRoom, RoomIsOpen
<1>6. CASE WriteReport /\ UNCHANGED <<revocationVars, assignmentVars>>
    BY <1>6 DEF WriteReport
<1>7. CASE Die /\ UNCHANGED <<revocationVars, assignmentVars>>
    BY <1>7 DEF Die, Ended
<1>8. CASE CarryOutCreate /\ UNCHANGED <<revocationVars, assignmentVars>>
    BY <1>8 DEF CarryOutCreate
<1>9. CASE EmptyRoom /\ UNCHANGED <<revocationVars, assignmentVars>>
    BY <1>9 DEF EmptyRoom, RoomIsOpen
<1>10. CASE ConnectIdentity /\ UNCHANGED assignmentVars
    BY <1>10 DEF ConnectIdentity, EnterRoom
<1>11. CASE RefreshToken /\ UNCHANGED assignmentVars
    BY <1>11 DEF RefreshToken
<1>12. CASE LeaveIdentity /\ UNCHANGED assignmentVars
    BY <1>12 DEF LeaveIdentity
<1>13. CASE FirstRemoval /\ UNCHANGED assignmentVars
    BY <1>13 DEF FirstRemoval, Revoke
<1>14. CASE AwaitCutoff /\ UNCHANGED assignmentVars
    BY <1>14 DEF AwaitCutoff
<1>15. CASE SecondRemoval /\ UNCHANGED assignmentVars
    BY <1>15 DEF SecondRemoval, Revoke
<1>16. CASE AttemptRefused /\ UNCHANGED assignmentVars
    BY <1>16 DEF AttemptRefused
<1>17. CASE Pass /\ UNCHANGED assignmentVars
    BY <1>17 DEF Pass
<1>18. CASE ReadRegistration /\ UNCHANGED revocationVars
    BY <1>18 DEF ReadRegistration, Move
<1>19. CASE EnterAssignmentRoom /\ UNCHANGED revocationVars
    BY <1>19 DEF EnterAssignmentRoom, EnterRoom
<1>20. CASE DispatchValid /\ UNCHANGED revocationVars
    <2>1. /\ pc = "dispatch" /\ UNCHANGED <<probe, created, report, asked, room, caller>>
          /\ \/ pc' = "poll" /\ UNCHANGED status
             \/ pc' = FirstCleanup /\ status' = "unproven"
        BY <1>20 DEF DispatchValid, Dispatch, Fail, Move
    <2>. QED BY <2>1 DEF FirstCleanup
<1>21. CASE BindJob /\ UNCHANGED revocationVars
    BY <1>21 DEF BindJob, Move
<1>22. CASE DispatchStale /\ UNCHANGED revocationVars
    <2>1. /\ pc = "bound" /\ UNCHANGED <<probe, created, report, asked, room, caller>>
          /\ \/ pc' = "look" /\ UNCHANGED status
             \/ pc' = FirstCleanup /\ status' = "unproven"
        BY <1>22 DEF DispatchStale, Dispatch, Fail, Move
    <2>. QED BY <2>1 DEF FirstCleanup
<1>23. CASE SeeNoStaleJob /\ UNCHANGED revocationVars
    BY <1>23 DEF SeeNoStaleJob
<1>24. CASE DeleteDispatches /\ UNCHANGED revocationVars
    BY <1>24 DEF DeleteDispatches, Move
<1>25. ASSUME NEW w \in Workers, Register(w), UNCHANGED revocationVars PROVE RoomAt'
    BY <1>25 DEF Register
<1>26. ASSUME NEW w \in Workers, NEW d \in Dispatches, Accept(w, d), UNCHANGED revocationVars
       PROVE RoomAt'
    BY <1>26 DEF Accept
<1>27. ASSUME NEW w \in Workers, NEW d \in Dispatches, Reject(w, d), UNCHANGED revocationVars
       PROVE RoomAt'
    BY <1>27 DEF Reject
<1>28. ASSUME NEW d \in Dispatches, AgentJoins(d), UNCHANGED revocationVars PROVE RoomAt'
    BY <1>28 DEF AgentJoins
<1>29. ASSUME NEW d \in Dispatches, AgentLeaves(d), UNCHANGED revocationVars PROVE RoomAt'
    BY <1>29 DEF AgentLeaves
<1>30. CASE UNCHANGED probeVars BY <1>30 DEF probeVars
<1>. QED
    BY <1>1, <1>2, <1>3, <1>4, <1>5, <1>6, <1>7, <1>8, <1>9, <1>10, <1>11, <1>12,
       <1>13, <1>14, <1>15, <1>16, <1>17, <1>18, <1>19, <1>20, <1>21, <1>22, <1>23,
       <1>24, <1>25, <1>26, <1>27, <1>28, <1>29, <1>30, Zenon
    DEF ProbeNext, RoomStep, RoomWork, RevocationStep, RevocationWork, AssignmentStep,
        AssignmentWork, WorkerStep

\* Every other variable keeps its domain.
LEMMA ProbeTypeGoesOn ==
    ASSUME ProbeInv, [ProbeNext]_probeVars
    PROVE  ProbeTypeOK'
<1>. USE RevocationAssumption, AssignmentAssumption, ReportAssumption
     DEF ProbeInv, RoomTypeOK, ProbeTypeOK, RevocationTypeOK, AssignmentTypeOK,
         CommonPcs, RevocationPcs, AssignmentPcs,
         Dispatches, Ids, Working, roomVars, revocationVars, assignmentVars
<1>1. CASE CreateRoom /\ UNCHANGED <<revocationVars, assignmentVars>>
    BY <1>1 DEF CreateRoom
<1>2. CASE RoomCreated /\ UNCHANGED <<revocationVars, assignmentVars>>
    BY <1>2 DEF RoomCreated
<1>3. CASE Fail /\ UNCHANGED <<revocationVars, assignmentVars>>
    BY <1>3 DEF Fail, FirstCleanup
<1>4. CASE CloseBrowser /\ UNCHANGED <<revocationVars, assignmentVars>>
    BY <1>4 DEF CloseBrowser
<1>5. CASE DeleteRoom /\ UNCHANGED <<revocationVars, assignmentVars>>
    BY <1>5 DEF DeleteRoom, RoomIsOpen
<1>6. CASE WriteReport /\ UNCHANGED <<revocationVars, assignmentVars>>
    BY <1>6 DEF WriteReport, RoomAt
<1>7. CASE Die /\ UNCHANGED <<revocationVars, assignmentVars>>
    BY <1>7 DEF Die, Ended
<1>8. CASE CarryOutCreate /\ UNCHANGED <<revocationVars, assignmentVars>>
    BY <1>8 DEF CarryOutCreate
<1>9. CASE EmptyRoom /\ UNCHANGED <<revocationVars, assignmentVars>>
    BY <1>9 DEF EmptyRoom, RoomIsOpen
<1>10. CASE ConnectIdentity /\ UNCHANGED assignmentVars
    BY <1>10, SecondsGrow DEF ConnectIdentity, EnterRoom
<1>11. CASE RefreshToken /\ UNCHANGED assignmentVars
    BY <1>11, SecondsGrow DEF RefreshToken
<1>12. CASE LeaveIdentity /\ UNCHANGED assignmentVars
    BY <1>12 DEF LeaveIdentity
<1>13. CASE FirstRemoval /\ UNCHANGED assignmentVars
    <2>1. revoked[identity] \in Int /\ Seconds(now) \in Int BY SecondsGrow
    <2>2. Max({revoked[identity], Seconds(now)}) \in Int
        BY <2>1, MaxOfTwo
    <2>. QED BY <1>13, <2>2 DEF FirstRemoval, Revoke
<1>14. CASE AwaitCutoff /\ UNCHANGED assignmentVars
    BY <1>14, MaxOfTwo, SecondsGrow DEF AwaitCutoff, ChooseCutoff
<1>15. CASE SecondRemoval /\ UNCHANGED assignmentVars
    <2>1. revoked[identity] \in Int /\ cutoff \in Int BY SecondsGrow
    <2>2. Max({revoked[identity], cutoff}) \in Int
        BY <2>1, MaxOfTwo
    <2>. QED BY <1>15, <2>2 DEF SecondRemoval, Revoke
<1>16. CASE AttemptRefused /\ UNCHANGED assignmentVars
    BY <1>16 DEF AttemptRefused
<1>17. CASE Pass /\ UNCHANGED assignmentVars
    BY <1>17 DEF Pass
<1>18. CASE ReadRegistration /\ UNCHANGED revocationVars
    BY <1>18 DEF ReadRegistration, Move
<1>19. CASE EnterAssignmentRoom /\ UNCHANGED revocationVars
    BY <1>19 DEF EnterAssignmentRoom, EnterRoom
<1>20. CASE DispatchValid /\ UNCHANGED revocationVars
    BY <1>20 DEF DispatchValid, Dispatch, Fail, FirstCleanup, Move
<1>21. CASE BindJob /\ UNCHANGED revocationVars
    BY <1>21 DEF BindJob, Move
<1>22. CASE DispatchStale /\ UNCHANGED revocationVars
    BY <1>22 DEF DispatchStale, Dispatch, Fail, FirstCleanup, Move
<1>23. CASE SeeNoStaleJob /\ UNCHANGED revocationVars
    BY <1>23 DEF SeeNoStaleJob
<1>24. CASE DeleteDispatches /\ UNCHANGED revocationVars
    BY <1>24 DEF DeleteDispatches, Move
<1>25. ASSUME NEW w \in Workers, Register(w), UNCHANGED revocationVars PROVE ProbeTypeOK'
    BY <1>25 DEF Register
<1>26. ASSUME NEW w \in Workers, NEW d \in Dispatches, Accept(w, d), UNCHANGED revocationVars
       PROVE ProbeTypeOK'
    BY <1>26 DEF Accept, Accepts
<1>27. ASSUME NEW w \in Workers, NEW d \in Dispatches, Reject(w, d), UNCHANGED revocationVars
       PROVE ProbeTypeOK'
    BY <1>27 DEF Reject
<1>28. ASSUME NEW d \in Dispatches, AgentJoins(d), UNCHANGED revocationVars
       PROVE ProbeTypeOK'
    BY <1>28 DEF AgentJoins
<1>29. ASSUME NEW d \in Dispatches, AgentLeaves(d), UNCHANGED revocationVars
       PROVE ProbeTypeOK'
    BY <1>29 DEF AgentLeaves
<1>30. CASE UNCHANGED probeVars BY <1>30 DEF probeVars
<1>. HIDE DEF ProbeInv, RoomTypeOK, ProbeTypeOK, RevocationTypeOK, AssignmentTypeOK,
         Working, roomVars, revocationVars, assignmentVars
<1>. QED
    BY <1>1, <1>2, <1>3, <1>4, <1>5, <1>6, <1>7, <1>8, <1>9, <1>10, <1>11, <1>12,
       <1>13, <1>14, <1>15, <1>16, <1>17, <1>18, <1>19, <1>20, <1>21, <1>22, <1>23,
       <1>24, <1>25, <1>26, <1>27, <1>28, <1>29, <1>30, Zenon
    DEF ProbeNext, RoomStep, RoomWork, RevocationStep, RevocationWork, AssignmentStep,
        AssignmentWork, WorkerStep

\* No job is about to open the room of what was observed.
LEMMA ObservedGoesOn ==
    ASSUME ProbeInv, [ProbeNext]_probeVars
    PROVE  ObservedAt'
<1>. USE RevocationAssumption, AssignmentAssumption, ReportAssumption
     DEF ProbeInv, RoomTypeOK, ProbeTypeOK, RevocationTypeOK, AssignmentTypeOK, RoomAt,
         ObservedAt, AssignmentAt, CommonPcs, RevocationPcs, AssignmentPcs,
         Dispatches, Ids, Working, roomVars, revocationVars, assignmentVars
<1>1. CASE CreateRoom /\ UNCHANGED <<revocationVars, assignmentVars>>
    BY <1>1 DEF CreateRoom
<1>2. CASE RoomCreated /\ UNCHANGED <<revocationVars, assignmentVars>>
    BY <1>2 DEF RoomCreated
<1>3. CASE Fail /\ UNCHANGED <<revocationVars, assignmentVars>>
    BY <1>3 DEF Fail, FirstCleanup
<1>4. CASE CloseBrowser /\ UNCHANGED <<revocationVars, assignmentVars>>
    BY <1>4 DEF CloseBrowser
<1>5. CASE DeleteRoom /\ UNCHANGED <<revocationVars, assignmentVars>>
    BY <1>5 DEF DeleteRoom, RoomIsOpen
<1>6. CASE WriteReport /\ UNCHANGED <<revocationVars, assignmentVars>>
    BY <1>6 DEF WriteReport
<1>7. CASE Die /\ UNCHANGED <<revocationVars, assignmentVars>>
    BY <1>7 DEF Die, Ended
<1>8. CASE CarryOutCreate /\ UNCHANGED <<revocationVars, assignmentVars>>
    BY <1>8 DEF CarryOutCreate
<1>9. CASE EmptyRoom /\ UNCHANGED <<revocationVars, assignmentVars>>
    BY <1>9 DEF EmptyRoom, RoomIsOpen
<1>10. CASE ConnectIdentity /\ UNCHANGED assignmentVars
    BY <1>10 DEF ConnectIdentity, EnterRoom
<1>11. CASE RefreshToken /\ UNCHANGED assignmentVars
    BY <1>11 DEF RefreshToken
<1>12. CASE LeaveIdentity /\ UNCHANGED assignmentVars
    BY <1>12 DEF LeaveIdentity
<1>13. CASE FirstRemoval /\ UNCHANGED assignmentVars
    BY <1>13 DEF FirstRemoval, Revoke
<1>14. CASE AwaitCutoff /\ UNCHANGED assignmentVars
    BY <1>14 DEF AwaitCutoff, ChooseCutoff
<1>15. CASE SecondRemoval /\ UNCHANGED assignmentVars
    BY <1>15 DEF SecondRemoval, Revoke
<1>16. CASE AttemptRefused /\ UNCHANGED assignmentVars
    BY <1>16 DEF AttemptRefused
<1>17. CASE Pass /\ UNCHANGED assignmentVars
    BY <1>17 DEF Pass
<1>18. CASE ReadRegistration /\ UNCHANGED revocationVars
    BY <1>18 DEF ReadRegistration, Move
<1>19. CASE EnterAssignmentRoom /\ UNCHANGED revocationVars
    BY <1>19 DEF EnterAssignmentRoom, EnterRoom
<1>20. CASE DispatchValid /\ UNCHANGED revocationVars
    BY <1>20 DEF DispatchValid, Dispatch, Fail, FirstCleanup, Move
<1>21. CASE BindJob /\ UNCHANGED revocationVars
    BY <1>21 DEF BindJob, Move
<1>22. CASE DispatchStale /\ UNCHANGED revocationVars
    BY <1>22 DEF DispatchStale, Dispatch, Fail, FirstCleanup, Move
<1>23. CASE SeeNoStaleJob /\ UNCHANGED revocationVars
    BY <1>23 DEF SeeNoStaleJob
<1>24. CASE DeleteDispatches /\ UNCHANGED revocationVars
    BY <1>24 DEF DeleteDispatches, Move
<1>25. ASSUME NEW w \in Workers, Register(w), UNCHANGED revocationVars PROVE ObservedAt'
    BY <1>25 DEF Register
<1>26. ASSUME NEW w \in Workers, NEW d \in Dispatches, Accept(w, d), UNCHANGED revocationVars
       PROVE ObservedAt'
    BY <1>26 DEF Accept, Accepts
<1>27. ASSUME NEW w \in Workers, NEW d \in Dispatches, Reject(w, d), UNCHANGED revocationVars
       PROVE ObservedAt'
    BY <1>27 DEF Reject
<1>28. ASSUME NEW d \in Dispatches, AgentJoins(d), UNCHANGED revocationVars
       PROVE ObservedAt'
    BY <1>28 DEF AgentJoins
<1>29. ASSUME NEW d \in Dispatches, AgentLeaves(d), UNCHANGED revocationVars
       PROVE ObservedAt'
    BY <1>29 DEF AgentLeaves
<1>30. CASE UNCHANGED probeVars BY <1>30 DEF probeVars
<1>. HIDE DEF ProbeInv, RoomTypeOK, ProbeTypeOK, RevocationTypeOK, AssignmentTypeOK,
         RoomAt, ObservedAt, AssignmentAt, Working, roomVars, revocationVars,
         assignmentVars
<1>. QED
    BY <1>1, <1>2, <1>3, <1>4, <1>5, <1>6, <1>7, <1>8, <1>9, <1>10, <1>11, <1>12,
       <1>13, <1>14, <1>15, <1>16, <1>17, <1>18, <1>19, <1>20, <1>21, <1>22, <1>23,
       <1>24, <1>25, <1>26, <1>27, <1>28, <1>29, <1>30, Zenon
    DEF ProbeNext, RoomStep, RoomWork, RevocationStep, RevocationWork, AssignmentStep,
        AssignmentWork, WorkerStep

\* Only the worker of the settings takes a job, and only the valid one.
LEMMA AssignmentGoesOn ==
    ASSUME ProbeInv, [ProbeNext]_probeVars
    PROVE  AssignmentAt'
<1>. USE RevocationAssumption, AssignmentAssumption, ReportAssumption
     DEF ProbeInv, RoomTypeOK, ProbeTypeOK, RevocationTypeOK, AssignmentTypeOK, RoomAt,
         AssignmentAt, CommonPcs, RevocationPcs, AssignmentPcs,
         Dispatches, Ids, Working, roomVars, revocationVars, assignmentVars
<1>1. CASE CreateRoom /\ UNCHANGED <<revocationVars, assignmentVars>>
    BY <1>1 DEF CreateRoom
<1>2. CASE RoomCreated /\ UNCHANGED <<revocationVars, assignmentVars>>
    BY <1>2 DEF RoomCreated
<1>3. CASE Fail /\ UNCHANGED <<revocationVars, assignmentVars>>
    BY <1>3 DEF Fail, FirstCleanup
<1>4. CASE CloseBrowser /\ UNCHANGED <<revocationVars, assignmentVars>>
    BY <1>4 DEF CloseBrowser
<1>5. CASE DeleteRoom /\ UNCHANGED <<revocationVars, assignmentVars>>
    BY <1>5 DEF DeleteRoom, RoomIsOpen
<1>6. CASE WriteReport /\ UNCHANGED <<revocationVars, assignmentVars>>
    BY <1>6 DEF WriteReport
<1>7. CASE Die /\ UNCHANGED <<revocationVars, assignmentVars>>
    BY <1>7 DEF Die, Ended
<1>8. CASE CarryOutCreate /\ UNCHANGED <<revocationVars, assignmentVars>>
    BY <1>8 DEF CarryOutCreate
<1>9. CASE EmptyRoom /\ UNCHANGED <<revocationVars, assignmentVars>>
    BY <1>9 DEF EmptyRoom, RoomIsOpen
<1>10. CASE ConnectIdentity /\ UNCHANGED assignmentVars
    BY <1>10 DEF ConnectIdentity, EnterRoom
<1>11. CASE RefreshToken /\ UNCHANGED assignmentVars
    BY <1>11 DEF RefreshToken
<1>12. CASE LeaveIdentity /\ UNCHANGED assignmentVars
    BY <1>12 DEF LeaveIdentity
<1>13. CASE FirstRemoval /\ UNCHANGED assignmentVars
    BY <1>13 DEF FirstRemoval, Revoke
<1>14. CASE AwaitCutoff /\ UNCHANGED assignmentVars
    BY <1>14 DEF AwaitCutoff, ChooseCutoff
<1>15. CASE SecondRemoval /\ UNCHANGED assignmentVars
    BY <1>15 DEF SecondRemoval, Revoke
<1>16. CASE AttemptRefused /\ UNCHANGED assignmentVars
    BY <1>16 DEF AttemptRefused
<1>17. CASE Pass /\ UNCHANGED assignmentVars
    BY <1>17 DEF Pass
<1>18. CASE ReadRegistration /\ UNCHANGED revocationVars
    BY <1>18 DEF ReadRegistration, Move
<1>19. CASE EnterAssignmentRoom /\ UNCHANGED revocationVars
    BY <1>19 DEF EnterAssignmentRoom, EnterRoom
<1>20. CASE DispatchValid /\ UNCHANGED revocationVars
    <2>1. /\ pc = "dispatch" /\ UNCHANGED <<probe, registered>>
          /\ job' = [job EXCEPT !["valid"].state = "offered"] /\ job["valid"].state = "none"
          /\ \/ pc' = "poll" /\ UNCHANGED status
             \/ pc' = FirstCleanup /\ status' = "unproven"
        BY <1>20 DEF DispatchValid, Dispatch, Fail, Move
    <2>2. pc' \notin {"bound", "look"} \/ "valid" = "stale"
        BY <2>1 DEF FirstCleanup
    <2>3. job' = [job EXCEPT !["valid"] = job'["valid"]]
          /\ job'["valid"].state = "offered"
        BY <2>1
    <2>. QED BY <2>1, <2>2, <2>3 DEF FirstCleanup
<1>21. CASE BindJob /\ UNCHANGED revocationVars
    BY <1>21 DEF BindJob, Move
<1>22. CASE DispatchStale /\ UNCHANGED revocationVars
    BY <1>22 DEF DispatchStale, Dispatch, Fail, FirstCleanup, Move
<1>23. CASE SeeNoStaleJob /\ UNCHANGED revocationVars
    BY <1>23 DEF SeeNoStaleJob
<1>24. CASE DeleteDispatches /\ UNCHANGED revocationVars
    BY <1>24 DEF DeleteDispatches, Move
<1>25. ASSUME NEW w \in Workers, Register(w), UNCHANGED revocationVars PROVE AssignmentAt'
    BY <1>25 DEF Register
<1>26. ASSUME NEW w \in Workers, NEW d \in Dispatches, Accept(w, d), UNCHANGED revocationVars
       PROVE AssignmentAt'
    BY <1>26 DEF Accept, Accepts
<1>27. ASSUME NEW w \in Workers, NEW d \in Dispatches, Reject(w, d), UNCHANGED revocationVars
       PROVE AssignmentAt'
    BY <1>27 DEF Reject
<1>28. ASSUME NEW d \in Dispatches, AgentJoins(d), UNCHANGED revocationVars
       PROVE AssignmentAt'
    BY <1>28 DEF AgentJoins
<1>29. ASSUME NEW d \in Dispatches, AgentLeaves(d), UNCHANGED revocationVars
       PROVE AssignmentAt'
    BY <1>29 DEF AgentLeaves
<1>30. CASE UNCHANGED probeVars BY <1>30 DEF probeVars
<1>. HIDE DEF ProbeInv, RoomTypeOK, ProbeTypeOK, RevocationTypeOK, AssignmentTypeOK,
         RoomAt, AssignmentAt, Working, roomVars, revocationVars, assignmentVars
<1>. QED
    BY <1>1, <1>2, <1>3, <1>4, <1>5, <1>6, <1>7, <1>8, <1>9, <1>10, <1>11, <1>12,
       <1>13, <1>14, <1>15, <1>16, <1>17, <1>18, <1>19, <1>20, <1>21, <1>22, <1>23,
       <1>24, <1>25, <1>26, <1>27, <1>28, <1>29, <1>30, Zenon
    DEF ProbeNext, RoomStep, RoomWork, RevocationStep, RevocationWork, AssignmentStep,
        AssignmentWork, WorkerStep

\* The cutoff is past every token of the identity.
LEMMA RevocationGoesOn ==
    ASSUME ProbeInv, [ProbeNext]_probeVars
    PROVE  RevocationAt'
<1>. USE RevocationAssumption, AssignmentAssumption, ReportAssumption
     DEF ProbeInv, RoomTypeOK, ProbeTypeOK, RevocationTypeOK, AssignmentTypeOK, RoomAt,
         RevocationAt, CoveredTokensAreRevoked, CommonPcs, RevocationPcs,
         AssignmentPcs,
         Dispatches, Ids, Working, roomVars, revocationVars, assignmentVars
<1>1. CASE CreateRoom /\ UNCHANGED <<revocationVars, assignmentVars>>
    BY <1>1 DEF CreateRoom
<1>2. CASE RoomCreated /\ UNCHANGED <<revocationVars, assignmentVars>>
    BY <1>2 DEF RoomCreated
<1>3. CASE Fail /\ UNCHANGED <<revocationVars, assignmentVars>>
    BY <1>3 DEF Fail, FirstCleanup
<1>4. CASE CloseBrowser /\ UNCHANGED <<revocationVars, assignmentVars>>
    BY <1>4 DEF CloseBrowser
<1>5. CASE DeleteRoom /\ UNCHANGED <<revocationVars, assignmentVars>>
    BY <1>5 DEF DeleteRoom, RoomIsOpen
<1>6. CASE WriteReport /\ UNCHANGED <<revocationVars, assignmentVars>>
    BY <1>6 DEF WriteReport
<1>7. CASE Die /\ UNCHANGED <<revocationVars, assignmentVars>>
    BY <1>7 DEF Die, Ended
<1>8. CASE CarryOutCreate /\ UNCHANGED <<revocationVars, assignmentVars>>
    BY <1>8 DEF CarryOutCreate
<1>9. CASE EmptyRoom /\ UNCHANGED <<revocationVars, assignmentVars>>
    BY <1>9 DEF EmptyRoom, RoomIsOpen
<1>10. CASE ConnectIdentity /\ UNCHANGED assignmentVars
    BY <1>10, SecondsGrow DEF ConnectIdentity, EnterRoom
<1>11. CASE RefreshToken /\ UNCHANGED assignmentVars
    BY <1>11, SecondsGrow DEF RefreshToken
<1>12. CASE LeaveIdentity /\ UNCHANGED assignmentVars
    BY <1>12 DEF LeaveIdentity
<1>13. CASE FirstRemoval /\ UNCHANGED assignmentVars
    <2>. DEFINE m == Max({revoked[identity], Seconds(now)})
    <2>1. revoked[identity] \in Int /\ Seconds(now) \in Int BY SecondsGrow
    <2>2. m \in Int /\ m >= revoked[identity] /\ m >= Seconds(now) BY <2>1, MaxOfTwo
    <2>3. revoked' = [revoked EXCEPT ![identity] = m] BY <1>13 DEF FirstRemoval, Revoke
    <2>. HIDE DEF m
    <2>4. \A i \in Identities : revoked'[i] \in Int /\ revoked'[i] >= revoked[i]
        BY <2>1, <2>2, <2>3
    <2>5. revoked'[identity] >= Seconds(now) BY <2>2, <2>3
    <2>. QED BY <1>13, <2>1, <2>4, <2>5 DEF FirstRemoval
<1>14. CASE AwaitCutoff /\ UNCHANGED assignmentVars
    <2>. DEFINE m == Max({Seconds(now), refreshed[identity]})
    <2>1. Seconds(now) \in Int /\ refreshed[identity] \in Int BY SecondsGrow
    <2>2. m \in Int /\ m >= Seconds(now) /\ m >= refreshed[identity] BY <2>1, MaxOfTwo
    <2>3. cutoff' = m + 2 /\ pc = "acknowledged" /\ pc' = "wait"
        BY <1>14 DEF AwaitCutoff, ChooseCutoff
    <2>. HIDE DEF m
    <2>4. initial[identity] < cutoff' /\ refreshed[identity] < cutoff'
        BY <2>1, <2>2, <2>3
    <2>. QED BY <1>14, <2>3, <2>4 DEF AwaitCutoff
<1>15. CASE SecondRemoval /\ UNCHANGED assignmentVars
    <2>. DEFINE m == Max({revoked[identity], cutoff})
    <2>1. revoked[identity] \in Int /\ cutoff \in Int BY SecondsGrow
    <2>2. m \in Int /\ m >= revoked[identity] /\ m >= cutoff BY <2>1, MaxOfTwo
    <2>3. revoked' = [revoked EXCEPT ![identity] = m] BY <1>15 DEF SecondRemoval, Revoke
    <2>. HIDE DEF m
    <2>4. \A i \in Identities : revoked'[i] \in Int /\ revoked'[i] >= revoked[i]
        BY <2>1, <2>2, <2>3
    <2>5. revoked'[identity] >= cutoff BY <2>2, <2>3
    <2>. QED BY <1>15, <2>1, <2>4, <2>5 DEF SecondRemoval
<1>16. CASE AttemptRefused /\ UNCHANGED assignmentVars
    BY <1>16 DEF AttemptRefused
<1>17. CASE Pass /\ UNCHANGED assignmentVars
    BY <1>17, SecondsGrow DEF Pass
<1>18. CASE ReadRegistration /\ UNCHANGED revocationVars
    BY <1>18 DEF ReadRegistration, Move
<1>19. CASE EnterAssignmentRoom /\ UNCHANGED revocationVars
    BY <1>19 DEF EnterAssignmentRoom, EnterRoom
<1>20. CASE DispatchValid /\ UNCHANGED revocationVars
    BY <1>20 DEF DispatchValid, Dispatch, Fail, FirstCleanup, Move
<1>21. CASE BindJob /\ UNCHANGED revocationVars
    BY <1>21 DEF BindJob, Move
<1>22. CASE DispatchStale /\ UNCHANGED revocationVars
    BY <1>22 DEF DispatchStale, Dispatch, Fail, FirstCleanup, Move
<1>23. CASE SeeNoStaleJob /\ UNCHANGED revocationVars
    BY <1>23 DEF SeeNoStaleJob
<1>24. CASE DeleteDispatches /\ UNCHANGED revocationVars
    BY <1>24 DEF DeleteDispatches, Move
<1>25. ASSUME NEW w \in Workers, Register(w), UNCHANGED revocationVars PROVE RevocationAt'
    BY <1>25 DEF Register
<1>26. ASSUME NEW w \in Workers, NEW d \in Dispatches, Accept(w, d), UNCHANGED revocationVars
       PROVE RevocationAt'
    BY <1>26 DEF Accept, Accepts
<1>27. ASSUME NEW w \in Workers, NEW d \in Dispatches, Reject(w, d), UNCHANGED revocationVars
       PROVE RevocationAt'
    BY <1>27 DEF Reject
<1>28. ASSUME NEW d \in Dispatches, AgentJoins(d), UNCHANGED revocationVars
       PROVE RevocationAt'
    BY <1>28 DEF AgentJoins
<1>29. ASSUME NEW d \in Dispatches, AgentLeaves(d), UNCHANGED revocationVars
       PROVE RevocationAt'
    BY <1>29 DEF AgentLeaves
<1>30. CASE UNCHANGED probeVars BY <1>30 DEF probeVars
<1>. HIDE DEF ProbeInv, RoomTypeOK, ProbeTypeOK, RevocationTypeOK, AssignmentTypeOK,
         RoomAt, RevocationAt, CoveredTokensAreRevoked, Working, roomVars,
         revocationVars, assignmentVars
<1>. QED
    BY <1>1, <1>2, <1>3, <1>4, <1>5, <1>6, <1>7, <1>8, <1>9, <1>10, <1>11, <1>12,
       <1>13, <1>14, <1>15, <1>16, <1>17, <1>18, <1>19, <1>20, <1>21, <1>22, <1>23,
       <1>24, <1>25, <1>26, <1>27, <1>28, <1>29, <1>30, Zenon
    DEF ProbeNext, RoomStep, RoomWork, RevocationStep, RevocationWork, AssignmentStep,
        AssignmentWork, WorkerStep

LEMMA ProbeGoesOn == ProbeInv /\ [ProbeNext]_probeVars => ProbeInv'
BY RoomTypeGoesOn, RoomGoesOn, ProbeTypeGoesOn, ObservedGoesOn, AssignmentGoesOn,
   RevocationGoesOn DEF ProbeInv

LEMMA ProbeInvHolds == ProbeSpec => []ProbeInv
BY ProbeBegins, ProbeGoesOn, PTL DEF ProbeSpec

\* Every variable of the probes and of the Cloud stays in its domain, for any
\* identities, clocks and workers.
THEOREM ProbeTypeCorrect == ProbeSpec => []ProbeTypeOK
<1>1. ProbeInv => ProbeTypeOK BY DEF ProbeInv
<1>. QED BY <1>1, ProbeInvHolds, PTL

\* The cutoff the revocation probe computes is past every token of an identity
\* it reports as covered, however far apart the clocks are.
THEOREM CoveredAreRevoked == ProbeSpec => []CoveredTokensAreRevoked
<1>1. ProbeInv => CoveredTokensAreRevoked BY DEF ProbeInv, RevocationAt
<1>. QED BY <1>1, ProbeInvHolds, PTL

\* What the assignment probe reports as observed holds from then on, beside any
\* number of workers of earlier probes and however often a worker registers.
THEOREM ObservedHolds == ProbeSpec => []ObservedAssignmentHolds
<1>1. ProbeInv => ObservedAssignmentHolds
    BY DEF ProbeInv, AssignmentAt, ObservedAssignmentHolds
<1>. QED BY <1>1, ProbeInvHolds, PTL

-----------------------------------------------------------------------------
(* The promise of OwnedRoom.  Only what changes the room or the report     *)
(* matters.                                                                *)

\* Every step of either probe or of the Cloud is one of OwnedRoom, or none.
LEMMA ProbeStepKeepsPromise ==
    ASSUME ProbeInv, [ProbeNext]_probeVars
    PROVE  [Promise!RoomNext]_<<room, report>>
<1>. USE ReportAssumption DEF ProbeInv, ProbeTypeOK, RoomTypeOK, RoomAt, RoomIsOpen
<1>1. CASE UNCHANGED <<room, report>> BY <1>1
<1>2. ASSUME NEW next, EnterRoom(next) PROVE [Promise!RoomNext]_<<room, report>>
    <2>1. CASE room = "removed"
        BY <1>2, <2>1 DEF EnterRoom, Promise!RoomNext, Promise!OpenRoom, Promise!Observed
    <2>2. CASE room # "removed" BY <1>1, <1>2, <2>2 DEF EnterRoom
    <2>. QED BY <2>1, <2>2
<1>3. CASE DeleteRoom BY <1>3 DEF DeleteRoom, Promise!RoomNext, Promise!RemoveRoom
<1>4. CASE WriteReport
    <2>1. /\ report = NoReport /\ pc = "write"
          /\ report' = [status |-> status, removed |-> created] /\ room' = room
        BY <1>4 DEF WriteReport
    <2>2. status \in {"observed", "unproven"} /\ created \in BOOLEAN BY <2>1
    <2>3. created => room \in {"removed", "reopened"} BY <2>1
    <2>4. status = "observed" => created /\ room = "removed" BY <2>1 DEF ObservedAt
    <2>5. Promise!Report(status, created)
        BY <2>1, <2>3, <2>4 DEF Promise!Report
    <2>. QED BY <2>2, <2>5 DEF Promise!RoomNext
<1>5. CASE CarryOutCreate
    <2>1. room = "none" /\ room' = "open" /\ report' = report /\ status # "observed"
        BY <1>5 DEF CarryOutCreate
    <2>2. report # NoReport => report.status # "observed" BY <2>1
    <2>. QED BY <2>1, <2>2 DEF Promise!RoomNext, Promise!OpenRoom, Promise!Observed
<1>6. CASE EmptyRoom BY <1>6 DEF EmptyRoom, Promise!RoomNext, Promise!RemoveRoom
<1>7. ASSUME NEW d \in Dispatches, AgentJoins(d) PROVE [Promise!RoomNext]_<<room, report>>
    <2>1. job[d].state = "assigned" /\ report' = report BY <1>7 DEF AgentJoins
    <2>2. status # "observed" BY <2>1 DEF ObservedAt
    <2>3. ~Promise!Observed BY <2>2 DEF Promise!Observed
    <2>4. CASE room = "removed"
        BY <1>7, <2>1, <2>3, <2>4 DEF AgentJoins, Promise!RoomNext, Promise!OpenRoom
    <2>5. CASE room # "removed" BY <1>1, <1>7, <2>5 DEF AgentJoins
    <2>. QED BY <2>4, <2>5
<1>. HIDE DEF ProbeInv, ProbeTypeOK, RoomTypeOK, RoomAt
<1>8. CASE RoomStep
    <2>1. \/ DeleteRoom \/ WriteReport \/ CarryOutCreate \/ EmptyRoom \/ UNCHANGED <<room, report>>
        BY <1>8 DEF RoomStep, RoomWork, CreateRoom, RoomCreated, Fail, CloseBrowser, Die
    <2>. QED BY <1>1, <1>3, <1>4, <1>5, <1>6, <2>1
<1>9. CASE RevocationStep
    <2>1. EnterRoom("refresh") \/ UNCHANGED <<room, report>>
        BY <1>9 DEF RevocationStep, RevocationWork, ConnectIdentity, RefreshToken, LeaveIdentity,
           FirstRemoval, AwaitCutoff, SecondRemoval, AttemptRefused, Pass, roomVars
    <2>. QED BY <1>1, <1>2, <2>1
<1>10. CASE AssignmentWork
    <2>1. EnterRoom("dispatch") \/ UNCHANGED <<room, report>>
        BY <1>10 DEF AssignmentWork, ReadRegistration, EnterAssignmentRoom, DispatchValid,
           BindJob, DispatchStale, SeeNoStaleJob, DeleteDispatches, Dispatch, Fail, Move
    <2>. QED BY <1>1, <1>2, <2>1
<1>11. CASE WorkerStep
    <2>1. (\E d \in Dispatches : AgentJoins(d)) \/ UNCHANGED <<room, report>>
        BY <1>11 DEF WorkerStep, Register, Accept, Reject, AgentLeaves, roomVars
    <2>. QED BY <1>1, <1>7, <2>1
<1>12. CASE UNCHANGED probeVars BY <1>1, <1>12 DEF probeVars, roomVars
<1>. QED BY <1>8, <1>9, <1>10, <1>11, <1>12 DEF ProbeNext, AssignmentStep

\* Both probes implement OwnedRoom: what they report of the room is true, and a
\* report of something observed stays so.
THEOREM ProbesKeepPromise == ProbeSpec => KeepsPromise
<1>1. ProbeInit => Promise!RoomInit BY DEF ProbeInit, ProbeRoomInit, Promise!RoomInit
<1>2. ProbeInv /\ [ProbeNext]_probeVars => [Promise!RoomNext]_<<room, report>>
    BY ProbeStepKeepsPromise
<1>. QED BY <1>1, <1>2, ProbeInvHolds, PTL DEF ProbeSpec, KeepsPromise, Promise!RoomSpec

-----------------------------------------------------------------------------
(* Nothing stays.                                                          *)

\* The browser is gone before the end, and a job is dispatched to a room.
GoneAt ==
    /\ pc \in {"delete", "write", "done", "dead"} => ~caller
    /\ \A d \in Dispatches : job[d].state # "none" => created

\* The places that may follow a place while the same identity is probed.
Onward(s, t) ==
    \/ t \in {"undispatch", "close"} /\ s \notin {"undispatch", "close", "delete", "write"}
    \/ t = "dead"
    \/ s = "start" /\ t = "create"
    \/ s = "create" /\ t = "created"
    \/ s = "created" /\ t = "join"
    \/ s = "join" /\ t \in {"refresh", "dispatch"}
    \/ s = "refresh" /\ t = "leave"
    \/ s = "leave" /\ t = "revoke"
    \/ s = "revoke" /\ t = "acknowledged"
    \/ s = "acknowledged" /\ t = "wait"
    \/ s = "wait" /\ t = "attempt"
    \/ s = "dispatch" /\ t = "poll"
    \/ s = "poll" /\ t = "bound"
    \/ s = "bound" /\ t = "look"
    \/ s = "undispatch" /\ t = "close"
    \/ s = "close" /\ t \in {"delete", "write"}
    \/ s = "delete" /\ t = "write"
    \/ s = "write" /\ t = "done"

\* A step of a script leads on, or to the next identity.
Forward ==
    /\ ~Ended
    /\ \/ identity' = identity /\ pc' # pc /\ Onward(pc, pc')
       \/ pc = "attempt" /\ pc' = "join" /\ identity' = identity + 1

LEMMA ProbeGoesForward ==
    ASSUME ProbeInv, ProbeMoves
    PROVE  Forward
<1>. USE DEF Forward, Ended, Onward
<1>1. CASE RoomWork /\ UNCHANGED <<revocationVars, assignmentVars>>
    <2>1. identity' = identity BY <1>1 DEF revocationVars
    <2>2. CASE CreateRoom BY <2>1, <2>2 DEF CreateRoom
    <2>3. CASE RoomCreated BY <2>1, <2>3 DEF RoomCreated
    <2>4. CASE Fail BY <2>1, <2>4 DEF Fail, FirstCleanup, Working
    <2>5. CASE CloseBrowser BY <2>1, <2>5 DEF CloseBrowser
    <2>6. CASE DeleteRoom BY <2>1, <2>6 DEF DeleteRoom
    <2>7. CASE WriteReport BY <2>1, <2>7 DEF WriteReport
    <2>8. CASE Die BY <2>1, <2>8 DEF Die
    <2>. QED BY <1>1, <2>2, <2>3, <2>4, <2>5, <2>6, <2>7, <2>8 DEF RoomWork
<1>2. CASE RevocationWork
    <2>1. CASE ConnectIdentity BY <2>1 DEF ConnectIdentity, EnterRoom
    <2>2. CASE RefreshToken BY <2>2 DEF RefreshToken
    <2>3. CASE LeaveIdentity BY <2>3 DEF LeaveIdentity, revocationVars
    <2>4. CASE FirstRemoval BY <2>4 DEF FirstRemoval
    <2>5. CASE AwaitCutoff BY <2>5 DEF AwaitCutoff
    <2>6. CASE SecondRemoval BY <2>6 DEF SecondRemoval
    <2>7. CASE AttemptRefused BY <2>7 DEF AttemptRefused
    <2>. QED BY <1>2, <2>1, <2>2, <2>3, <2>4, <2>5, <2>6, <2>7 DEF RevocationWork
<1>3. CASE AssignmentWork /\ UNCHANGED revocationVars
    <2>1. identity' = identity BY <1>3 DEF revocationVars
    <2>2. CASE ReadRegistration BY <2>1, <2>2 DEF ReadRegistration, Move
    <2>3. CASE EnterAssignmentRoom BY <2>1, <2>3 DEF EnterAssignmentRoom, EnterRoom
    <2>4. CASE DispatchValid
        BY <2>1, <2>4 DEF DispatchValid, Dispatch, Move, Fail, FirstCleanup
    <2>5. CASE BindJob BY <2>1, <2>5 DEF BindJob, Move
    <2>6. CASE DispatchStale
        BY <2>1, <2>6 DEF DispatchStale, Dispatch, Move, Fail, FirstCleanup
    <2>7. CASE SeeNoStaleJob BY <2>1, <2>7 DEF SeeNoStaleJob
    <2>8. CASE DeleteDispatches BY <2>1, <2>8 DEF DeleteDispatches, Move
    <2>. QED BY <1>3, <2>2, <2>3, <2>4, <2>5, <2>6, <2>7, <2>8 DEF AssignmentWork
<1>. QED BY <1>1, <1>2, <1>3 DEF ProbeMoves

\* Whatever is no step of a script leaves it where it is.
ProbeWaits ==
    /\ UNCHANGED <<pc, identity, caller, created>>
    /\ \A d \in Dispatches : job[d].state = "none" => job'[d].state = "none"

LEMMA ProbeMovesOrWaits ==
    ASSUME ProbeInv, [ProbeNext]_probeVars
    PROVE  ProbeMoves \/ ProbeWaits
<1>. USE DEF ProbeWaits, roomVars, revocationVars, assignmentVars
<1>1. CASE CarryOutCreate /\ UNCHANGED <<revocationVars, assignmentVars>>
    BY <1>1, Zenon DEF CarryOutCreate
<1>2. CASE EmptyRoom /\ UNCHANGED <<revocationVars, assignmentVars>>
    BY <1>2, Zenon DEF EmptyRoom
<1>3. CASE Pass /\ UNCHANGED assignmentVars BY <1>3, Zenon DEF Pass
<1>4. ASSUME NEW w \in Workers, Register(w), UNCHANGED revocationVars PROVE ProbeWaits
    BY <1>4, Zenon DEF Register
<1>5. ASSUME NEW w \in Workers, NEW d \in Dispatches, Accept(w, d) \/ Reject(w, d),
             UNCHANGED revocationVars
      PROVE ProbeWaits
    BY <1>5 DEF Accept, Reject, ProbeInv, ProbeTypeOK, AssignmentTypeOK
<1>6. ASSUME NEW d \in Dispatches, AgentJoins(d) \/ AgentLeaves(d), UNCHANGED revocationVars
      PROVE ProbeWaits
    BY <1>6 DEF AgentJoins, AgentLeaves, ProbeInv, ProbeTypeOK, AssignmentTypeOK
<1>7. CASE UNCHANGED probeVars BY <1>7, Zenon DEF probeVars
<1>. HIDE DEF ProbeWaits
<1>. QED
    BY <1>1, <1>2, <1>3, <1>4, <1>5, <1>6, <1>7, Zenon
    DEF ProbeNext, ProbeMoves, RoomStep, RevocationStep, AssignmentStep, WorkerStep

LEMMA GoneGoesOn ==
    ASSUME ProbeInv, GoneAt, [ProbeNext]_probeVars
    PROVE  GoneAt'
<1>. USE DEF GoneAt, Dispatches
<1>1. CASE RoomWork /\ UNCHANGED <<revocationVars, assignmentVars>>
    <2>1. job' = job BY <1>1 DEF assignmentVars
    <2>2. CASE CreateRoom BY <2>1, <2>2 DEF CreateRoom
    <2>3. CASE RoomCreated BY <2>1, <2>3 DEF RoomCreated
    <2>4. CASE Fail BY <2>1, <2>4 DEF Fail, FirstCleanup
    <2>5. CASE CloseBrowser BY <2>1, <2>5 DEF CloseBrowser
    <2>6. CASE DeleteRoom BY <2>1, <2>6 DEF DeleteRoom
    <2>7. CASE WriteReport BY <2>1, <2>7 DEF WriteReport
    <2>8. CASE Die BY <2>1, <2>8 DEF Die
    <2>. QED BY <1>1, <2>2, <2>3, <2>4, <2>5, <2>6, <2>7, <2>8 DEF RoomWork
<1>2. CASE RevocationWork /\ UNCHANGED assignmentVars
    <2>1. job' = job BY <1>2 DEF assignmentVars
    <2>2. created' = created /\ pc' \notin {"delete", "write", "done", "dead"}
        BY <1>2 DEF RevocationWork, ConnectIdentity, EnterRoom, RefreshToken, LeaveIdentity,
           FirstRemoval, AwaitCutoff, SecondRemoval, AttemptRefused
    <2>. QED BY <2>1, <2>2
<1>3. CASE AssignmentWork
    <2>1. created' = created /\ pc' \notin {"delete", "write", "done", "dead"}
        BY <1>3 DEF AssignmentWork, ReadRegistration, EnterAssignmentRoom, EnterRoom, DispatchValid,
           BindJob, DispatchStale, SeeNoStaleJob, DeleteDispatches, Dispatch, Move, Fail,
           FirstCleanup
    <2>2. CASE DispatchValid \/ DispatchStale
        BY <2>1, <2>2 DEF DispatchValid, DispatchStale, ProbeInv, RoomAt
    <2>3. CASE DeleteDispatches
        BY <2>1, <2>3 DEF DeleteDispatches, ProbeInv, ProbeTypeOK, AssignmentTypeOK
    <2>4. CASE ReadRegistration \/ EnterAssignmentRoom \/ BindJob \/ SeeNoStaleJob
        <3>1. job' = job
            BY <2>4 DEF ReadRegistration, EnterAssignmentRoom, BindJob, SeeNoStaleJob, assignmentVars
        <3>. QED BY <2>1, <3>1
    <2>. QED BY <1>3, <2>2, <2>3, <2>4 DEF AssignmentWork
<1>4. CASE ProbeWaits BY <1>4 DEF ProbeWaits
<1>. QED BY <1>1, <1>2, <1>3, <1>4, ProbeMovesOrWaits DEF ProbeMoves

LEMMA GoneAtHolds == ProbeSpec => []GoneAt
<1>1. ProbeInit => GoneAt
    BY DEF ProbeInit, ProbeRoomInit, AssignmentInit, GoneAt, Dispatches
<1>. QED BY <1>1, GoneGoesOn, ProbeInvHolds, PTL DEF ProbeSpec

\* A script is at a place with an identity, or has left that place.
At(i, s) == identity = i /\ pc = s

Beyond(i, s) ==
    \/ identity = i /\ pc # s /\ Onward(s, pc)
    \/ s = "attempt" /\ At(i + 1, "join")

Ends(i, s) == At(i, s) ~> Beyond(i, s)

\* Whatever a script awaits ends in some way.
LEMMA AwaitEnds ==
    ASSUME NEW i \in Identities, NEW s, s \notin {"done", "dead"}
    PROVE  ProbeFairSpec /\ []ProbesCanGoOn => Ends(i, s)
<1>. DEFINE Here == At(i, s)
            There == Beyond(i, s)
<1>1. ProbeInv /\ Here /\ [ProbeNext]_probeVars =>
        \/ There'
        \/ Here' /\ ~<<ProbeMoves>>_probeVars
    <2>. SUFFICES ASSUME ProbeInv, Here, [ProbeNext]_probeVars
                  PROVE  There' \/ (Here' /\ ~<<ProbeMoves>>_probeVars)
        OBVIOUS
    <2>1. CASE ProbeMoves BY <2>1, ProbeGoesForward DEF Forward, At, Beyond
    <2>2. CASE ~ProbeMoves BY <2>2, ProbeMovesOrWaits DEF ProbeWaits, At
    <2>. QED BY <2>1, <2>2
<1>2. ProbesCanGoOn /\ Here => ENABLED <<ProbeMoves>>_probeVars
    BY DEF ProbesCanGoOn, Ended, At
<1>. QED BY <1>1, <1>2, ProbeInvHolds, PTL DEF ProbeFairSpec, ProbeSpec, ProbeFairness, Ends

\* With an identity a script gets to its end, or to the next identity.
IdentityOver(i) == Ended \/ At(i + 1, "join")

Passes(i) == (identity = i) ~> IdentityOver(i)

LEMMA IdentityEnds ==
    ASSUME NEW i \in Identities
    PROVE  ProbeFairSpec /\ []ProbesCanGoOn => Passes(i)
<1>. DEFINE Fair == ProbeFairSpec /\ []ProbesCanGoOn
            Over == IdentityOver(i)
<1>1. Fair => (At(i, "write") ~> Over)
    <2>1. Fair => Ends(i, "write") BY AwaitEnds
    <2>2. Beyond(i, "write") => Over
        BY DEF Beyond, Onward, At, IdentityOver, Ended
    <2>. QED BY <2>1, <2>2, PTL DEF Ends
<1>2. Fair => (At(i, "delete") ~> Over)
    <2>1. Fair => Ends(i, "delete") BY AwaitEnds
    <2>2. Beyond(i, "delete") => Over \/ At(i, "write")
        BY DEF Beyond, Onward, At, IdentityOver, Ended
    <2>. QED BY <2>1, <2>2, <1>1, PTL DEF Ends
<1>3. Fair => (At(i, "close") ~> Over)
    <2>1. Fair => Ends(i, "close") BY AwaitEnds
    <2>2. Beyond(i, "close") => Over \/ At(i, "delete") \/ At(i, "write")
        BY DEF Beyond, Onward, At, IdentityOver, Ended
    <2>. QED BY <2>1, <2>2, <1>2, <1>1, PTL DEF Ends
<1>4. Fair => (At(i, "undispatch") ~> Over)
    <2>1. Fair => Ends(i, "undispatch") BY AwaitEnds
    <2>2. Beyond(i, "undispatch") => Over \/ At(i, "close")
        BY DEF Beyond, Onward, At, IdentityOver, Ended
    <2>. QED BY <2>1, <2>2, <1>3, PTL DEF Ends
<1>5. Fair => (At(i, "attempt") ~> Over)
    <2>1. Fair => Ends(i, "attempt") BY AwaitEnds
    <2>2. Beyond(i, "attempt") => Over \/ At(i, "undispatch") \/ At(i, "close")
        BY DEF Beyond, Onward, At, IdentityOver, Ended
    <2>. QED BY <2>1, <2>2, <1>4, <1>3, PTL DEF Ends
<1>6. Fair => (At(i, "wait") ~> Over)
    <2>1. Fair => Ends(i, "wait") BY AwaitEnds
    <2>2. Beyond(i, "wait") => Over \/ At(i, "undispatch") \/ At(i, "close") \/ At(i, "attempt")
        BY DEF Beyond, Onward, At, IdentityOver, Ended
    <2>. QED BY <2>1, <2>2, <1>4, <1>3, <1>5, PTL DEF Ends
<1>7. Fair => (At(i, "acknowledged") ~> Over)
    <2>1. Fair => Ends(i, "acknowledged") BY AwaitEnds
    <2>2. Beyond(i, "acknowledged") => Over \/ At(i, "undispatch") \/ At(i, "close") \/ At(i, "wait")
        BY DEF Beyond, Onward, At, IdentityOver, Ended
    <2>. QED BY <2>1, <2>2, <1>4, <1>3, <1>6, PTL DEF Ends
<1>8. Fair => (At(i, "revoke") ~> Over)
    <2>1. Fair => Ends(i, "revoke") BY AwaitEnds
    <2>2. Beyond(i, "revoke") => Over \/ At(i, "undispatch") \/ At(i, "close") \/ At(i, "acknowledged")
        BY DEF Beyond, Onward, At, IdentityOver, Ended
    <2>. QED BY <2>1, <2>2, <1>4, <1>3, <1>7, PTL DEF Ends
<1>9. Fair => (At(i, "leave") ~> Over)
    <2>1. Fair => Ends(i, "leave") BY AwaitEnds
    <2>2. Beyond(i, "leave") => Over \/ At(i, "undispatch") \/ At(i, "close") \/ At(i, "revoke")
        BY DEF Beyond, Onward, At, IdentityOver, Ended
    <2>. QED BY <2>1, <2>2, <1>4, <1>3, <1>8, PTL DEF Ends
<1>10. Fair => (At(i, "refresh") ~> Over)
    <2>1. Fair => Ends(i, "refresh") BY AwaitEnds
    <2>2. Beyond(i, "refresh") => Over \/ At(i, "undispatch") \/ At(i, "close") \/ At(i, "leave")
        BY DEF Beyond, Onward, At, IdentityOver, Ended
    <2>. QED BY <2>1, <2>2, <1>4, <1>3, <1>9, PTL DEF Ends
<1>11. Fair => (At(i, "look") ~> Over)
    <2>1. Fair => Ends(i, "look") BY AwaitEnds
    <2>2. Beyond(i, "look") => Over \/ At(i, "undispatch") \/ At(i, "close")
        BY DEF Beyond, Onward, At, IdentityOver, Ended
    <2>. QED BY <2>1, <2>2, <1>4, <1>3, PTL DEF Ends
<1>12. Fair => (At(i, "bound") ~> Over)
    <2>1. Fair => Ends(i, "bound") BY AwaitEnds
    <2>2. Beyond(i, "bound") => Over \/ At(i, "undispatch") \/ At(i, "close") \/ At(i, "look")
        BY DEF Beyond, Onward, At, IdentityOver, Ended
    <2>. QED BY <2>1, <2>2, <1>4, <1>3, <1>11, PTL DEF Ends
<1>13. Fair => (At(i, "poll") ~> Over)
    <2>1. Fair => Ends(i, "poll") BY AwaitEnds
    <2>2. Beyond(i, "poll") => Over \/ At(i, "undispatch") \/ At(i, "close") \/ At(i, "bound")
        BY DEF Beyond, Onward, At, IdentityOver, Ended
    <2>. QED BY <2>1, <2>2, <1>4, <1>3, <1>12, PTL DEF Ends
<1>14. Fair => (At(i, "dispatch") ~> Over)
    <2>1. Fair => Ends(i, "dispatch") BY AwaitEnds
    <2>2. Beyond(i, "dispatch") => Over \/ At(i, "undispatch") \/ At(i, "close") \/ At(i, "poll")
        BY DEF Beyond, Onward, At, IdentityOver, Ended
    <2>. QED BY <2>1, <2>2, <1>4, <1>3, <1>13, PTL DEF Ends
<1>15. Fair => (At(i, "join") ~> Over)
    <2>1. Fair => Ends(i, "join") BY AwaitEnds
    <2>2. Beyond(i, "join") => Over \/ At(i, "undispatch") \/ At(i, "close") \/
              At(i, "refresh") \/ At(i, "dispatch")
        BY DEF Beyond, Onward, At, IdentityOver, Ended
    <2>. QED BY <2>1, <2>2, <1>4, <1>3, <1>10, <1>14, PTL DEF Ends
<1>16. Fair => (At(i, "created") ~> Over)
    <2>1. Fair => Ends(i, "created") BY AwaitEnds
    <2>2. Beyond(i, "created") => Over \/ At(i, "undispatch") \/ At(i, "close") \/ At(i, "join")
        BY DEF Beyond, Onward, At, IdentityOver, Ended
    <2>. QED BY <2>1, <2>2, <1>4, <1>3, <1>15, PTL DEF Ends
<1>17. Fair => (At(i, "create") ~> Over)
    <2>1. Fair => Ends(i, "create") BY AwaitEnds
    <2>2. Beyond(i, "create") => Over \/ At(i, "undispatch") \/ At(i, "close") \/ At(i, "created")
        BY DEF Beyond, Onward, At, IdentityOver, Ended
    <2>. QED BY <2>1, <2>2, <1>4, <1>3, <1>16, PTL DEF Ends
<1>18. Fair => (At(i, "start") ~> Over)
    <2>1. Fair => Ends(i, "start") BY AwaitEnds
    <2>2. Beyond(i, "start") => Over \/ At(i, "undispatch") \/ At(i, "close") \/ At(i, "create")
        BY DEF Beyond, Onward, At, IdentityOver, Ended
    <2>. QED BY <2>1, <2>2, <1>4, <1>3, <1>17, PTL DEF Ends
<1>19. ProbeInv /\ identity = i =>
          Over \/ At(i, "write") \/ At(i, "delete") \/ At(i, "close") \/
          At(i, "undispatch") \/ At(i, "attempt") \/ At(i, "wait") \/
          At(i, "acknowledged") \/ At(i, "revoke") \/ At(i, "leave") \/
          At(i, "refresh") \/ At(i, "look") \/ At(i, "bound") \/ At(i, "poll") \/
          At(i, "dispatch") \/ At(i, "join") \/ At(i, "created") \/
          At(i, "create") \/ At(i, "start")
    BY DEF ProbeInv, RoomTypeOK, CommonPcs, RevocationPcs, AssignmentPcs, At, IdentityOver, Ended
<1>. QED
    BY <1>1, <1>2, <1>3, <1>4, <1>5, <1>6, <1>7, <1>8, <1>9,
       <1>10, <1>11, <1>12, <1>13, <1>14, <1>15, <1>16, <1>17, <1>18, <1>19,
       ProbeInvHolds, PTL DEF ProbeFairSpec, Passes

\* The script probes two identities, one after the other, and then ends.
LEMMA ProbeEnds ==
    ASSUME Identities = 1 .. 2
    PROVE  ProbeFairSpec /\ []ProbesCanGoOn => <>[]Ended
<1>. DEFINE Fair == ProbeFairSpec /\ []ProbesCanGoOn
<1>1. Fair => Passes(1) BY IdentityEnds
<1>2. Fair => Passes(2) BY IdentityEnds
<1>3. ProbeInv => identity = 1 \/ identity = 2
    BY DEF ProbeInv, ProbeTypeOK, RevocationTypeOK
<1>4. IdentityOver(1) => Ended \/ identity = 2 BY DEF IdentityOver, At
<1>5. ProbeInv /\ IdentityOver(2) => Ended
    BY DEF IdentityOver, At, ProbeInv, ProbeTypeOK, RevocationTypeOK
<1>6. ProbeInv /\ Ended /\ [ProbeNext]_probeVars => Ended'
    BY ProbeGoesForward, ProbeMovesOrWaits DEF Forward, ProbeWaits, Ended
<1>. QED
    BY <1>1, <1>2, <1>3, <1>4, <1>5, <1>6, ProbeInvHolds, PTL
    DEF ProbeFairSpec, ProbeSpec, Passes

\* After the end only the Cloud and the workers go on: a request is carried out
\* once, and a job is offered, assigned, run and ended in this order.
JobsGoOn(d) ==
    /\ job[d].state \in {"none", "deleted", "ended"} => job'[d].state = job[d].state
    /\ job[d].state = "running" => job'[d].state \in {"running", "ended"}
    /\ job[d].state = "assigned" => job'[d].state \in {"assigned", "running"}
    /\ job[d].state = "offered" => job'[d].state \in {"offered", "assigned"}

LEMMA AfterTheEnd ==
    ASSUME ProbeInv, GoneAt, Ended, [ProbeNext]_probeVars
    PROVE  /\ Ended' /\ ~caller'
           /\ ~asked => ~asked'
           /\ \A d \in Dispatches : JobsGoOn(d)
           /\ ~asked /\ (\A d \in Dispatches : job[d].state # "assigned") =>
                 (~RoomIsOpen => ~RoomIsOpen')
<1>. DEFINE Calm == /\ Ended' /\ ~caller'
                    /\ ~asked => ~asked'
                    /\ \A d \in Dispatches : JobsGoOn(d)
                    /\ ~asked /\ (\A d \in Dispatches : job[d].state # "assigned") =>
                          (~RoomIsOpen => ~RoomIsOpen')
<1>. SUFFICES Calm OBVIOUS
<1>0. ~ProbeMoves BY ProbeGoesForward DEF Forward
<1>. USE DEF JobsGoOn, Ended, GoneAt, RoomIsOpen
<1>1. CASE CarryOutCreate /\ UNCHANGED <<revocationVars, assignmentVars>>
    BY <1>1 DEF CarryOutCreate, assignmentVars
<1>2. CASE EmptyRoom /\ UNCHANGED <<revocationVars, assignmentVars>>
    BY <1>2 DEF EmptyRoom, assignmentVars
<1>3. ~Pass BY DEF Pass, Working
<1>4. ASSUME NEW w \in Workers, Register(w) PROVE Calm
    BY <1>4 DEF Register, roomVars
<1>5. ASSUME NEW w \in Workers, NEW d \in Dispatches, Accept(w, d) \/ Reject(w, d)
      PROVE Calm
    BY <1>5 DEF Accept, Reject, roomVars, ProbeInv, ProbeTypeOK, AssignmentTypeOK
<1>6. ASSUME NEW d \in Dispatches, AgentJoins(d) \/ AgentLeaves(d) PROVE Calm
    BY <1>6 DEF AgentJoins, AgentLeaves, roomVars, ProbeInv, ProbeTypeOK, AssignmentTypeOK
<1>7. CASE UNCHANGED probeVars
    BY <1>7 DEF probeVars, roomVars, assignmentVars
<1>. HIDE DEF Calm
<1>. QED
    BY <1>0, <1>1, <1>2, <1>3, <1>4, <1>5, <1>6, <1>7, Zenon
    DEF ProbeNext, ProbeMoves, RoomStep, RevocationStep, AssignmentStep, WorkerStep

Settles(d) == <>[](job[d].state # "assigned")

Leaves(d) == <>[]~Busy(d)

\* An agent that has a job joins its room, and its job is not offered again.
LEMMA JobSettles ==
    ASSUME Identities = 1 .. 2, NEW d \in Dispatches
    PROVE  ProbeFairSpec /\ []ProbesCanGoOn => Settles(d)
<1>. DEFINE Is(s)  == job[d].state = s
            Goes   == (AgentJoins(d) \/ AgentLeaves(d)) /\ UNCHANGED revocationVars
            Past   == Is("none") \/ Is("deleted") \/ Is("running") \/ Is("ended")
            Ready  == Is("offered")
            Taken  == Is("assigned")
<1>1. ProbeInv /\ GoneAt /\ Ended /\ [ProbeNext]_probeVars =>
          /\ Past => Past'
          /\ Taken => Taken' \/ Past'
          /\ Ready => Ready' \/ Taken'
    BY AfterTheEnd DEF JobsGoOn
<1>2. ProbeInv /\ Taken /\ <<Goes>>_probeVars => Past'
    BY DEF AgentJoins, AgentLeaves, ProbeInv, ProbeTypeOK, AssignmentTypeOK
<1>3. ProbesCanGoOn /\ Taken => ENABLED <<Goes>>_probeVars
    BY DEF ProbesCanGoOn
<1>4. ProbeInv => Past \/ Ready \/ Taken
    BY DEF ProbeInv, ProbeTypeOK, AssignmentTypeOK
<1>5. Taken => ~Past /\ ~Ready
    OBVIOUS
<1>6. AgentFairness => Attended(d)
    BY DEF AgentFairness
<1>7. ProbeFairSpec /\ []ProbesCanGoOn => <>[]Ended
    BY ProbeEnds
<1>8. job[d].state # "assigned" <=> ~Taken
    OBVIOUS
<1>. QED
    BY <1>1, <1>2, <1>3, <1>4, <1>5, <1>6, <1>7, <1>8, ProbeInvHolds, GoneAtHolds, PTL
    DEF ProbeFairSpec, ProbeSpec, ProbeFairness, Attended, Settles

\* Once no agent is on its way, the empty room is removed for good.
LEMMA RoomCloses ==
    ASSUME Identities = 1 .. 2
    PROVE  ProbeFairSpec /\ []ProbesCanGoOn => <>[](Ended /\ ~RoomIsOpen)
<1>. DEFINE Fair == ProbeFairSpec /\ []ProbesCanGoOn
            Quiet == job["valid"].state # "assigned" /\ job["stale"].state # "assigned"
            Opens == CarryOutCreate /\ UNCHANGED <<revocationVars, assignmentVars>>
            Empties == EmptyRoom /\ UNCHANGED <<revocationVars, assignmentVars>>
<1>1. Fair => <>[]Quiet
    <2>1. Fair => Settles("valid") BY JobSettles DEF Dispatches
    <2>2. Fair => Settles("stale") BY JobSettles DEF Dispatches
    <2>. QED BY <2>1, <2>2, PTL DEF Settles
<1>2. ProbeInv /\ GoneAt /\ Ended /\ [ProbeNext]_probeVars =>
          /\ Ended' /\ ~caller'
          /\ ~asked => ~asked'
          /\ ~asked /\ Quiet => (~RoomIsOpen => ~RoomIsOpen')
    BY AfterTheEnd DEF Dispatches
<1>3. (<<Opens>>_probeVars => ~asked') /\ (<<Empties>>_probeVars => ~RoomIsOpen')
    BY DEF CarryOutCreate, EmptyRoom, RoomIsOpen
<1>4. ProbesCanGoOn =>
          /\ asked => ENABLED <<Opens>>_probeVars
          /\ RoomIsOpen /\ ~caller => ENABLED <<Empties>>_probeVars
    BY DEF ProbesCanGoOn
<1>5. Fair => <>[]Ended
    BY ProbeEnds
<1>. QED
    BY <1>1, <1>2, <1>3, <1>4, <1>5, ProbeInvHolds, GoneAtHolds, PTL
    DEF ProbeFairSpec, ProbeSpec, ProbeFairness

\* An agent that runs is disconnected with the room.
LEMMA AgentIsFreed ==
    ASSUME Identities = 1 .. 2, NEW d \in Dispatches
    PROVE  ProbeFairSpec /\ []ProbesCanGoOn => Leaves(d)
<1>. DEFINE Is(s)  == job[d].state = s
            Goes   == (AgentJoins(d) \/ AgentLeaves(d)) /\ UNCHANGED revocationVars
            Closed == Ended /\ ~RoomIsOpen
            Taken  == Is("assigned")
            Runs   == Is("running")
<1>1. ProbeInv /\ GoneAt /\ Ended /\ [ProbeNext]_probeVars /\ ~Taken => (~Runs => ~Runs')
    BY AfterTheEnd DEF JobsGoOn, ProbeInv, ProbeTypeOK, AssignmentTypeOK
<1>2. ProbeInv /\ Runs /\ <<Goes>>_probeVars => ~Runs'
    BY DEF AgentJoins, AgentLeaves, ProbeInv, ProbeTypeOK, AssignmentTypeOK
<1>3. ProbeInv /\ GoneAt /\ ProbesCanGoOn /\ Runs /\ Closed => ENABLED <<Goes>>_probeVars
    <2>. SUFFICES ASSUME ProbeInv, GoneAt, ProbesCanGoOn, Runs, Closed
                  PROVE  ENABLED <<Goes>>_probeVars
        OBVIOUS
    <2>1. room = "removed" BY DEF ProbeInv, ProbeTypeOK, RoomAt, GoneAt, RoomIsOpen
    <2>. QED BY <2>1 DEF ProbesCanGoOn
<1>4. Busy(d) <=> Taken \/ Runs
    BY DEF Busy
<1>5. job[d].state # "assigned" <=> ~Taken
    OBVIOUS
<1>6. AgentFairness => Attended(d)
    BY DEF AgentFairness
<1>7. ProbeFairSpec /\ []ProbesCanGoOn => Settles(d)
    BY JobSettles
<1>8. ProbeFairSpec /\ []ProbesCanGoOn => <>[](Ended /\ ~RoomIsOpen)
    BY RoomCloses
<1>. QED
    BY <1>1, <1>2, <1>3, <1>4, <1>5, <1>6, <1>7, <1>8, ProbeInvHolds, GoneAtHolds, PTL
    DEF ProbeFairSpec, ProbeSpec, ProbeFairness, Attended, Settles, Leaves

\* However a probe ends, whatever request it left behind is carried out, the room
\* it opened is removed, and no agent is left with a job.
THEOREM NothingEverStays ==
    ASSUME Identities = 1 .. 2
    PROVE  ProbeFairSpec /\ []ProbesCanGoOn => NothingStays
<1>. DEFINE Fair == ProbeFairSpec /\ []ProbesCanGoOn
<1>1. Fair => Leaves("valid") BY AgentIsFreed DEF Dispatches
<1>2. Fair => Leaves("stale") BY AgentIsFreed DEF Dispatches
<1>3. ~Busy("valid") /\ ~Busy("stale") => \A d \in Dispatches : ~Busy(d) BY DEF Dispatches
<1>. QED BY <1>1, <1>2, <1>3, RoomCloses, PTL DEF Leaves, NothingStays

=============================================================================
