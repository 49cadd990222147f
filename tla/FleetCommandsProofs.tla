------------------------ MODULE FleetCommandsProofs -------------------------
(***************************************************************************)
(* Proofs about FleetCommands, for every fleet and any number of deploys   *)
(* and rollbacks.  The commands make their decisions by calls of           *)
(* FleetAdmission, so that its invariant carries over; a redeploy, which   *)
(* is no step of FleetAdmission, is shown to keep it.                      *)
(***************************************************************************)
EXTENDS FleetCommands, FleetAdmissionProofs, FiniteSetTheorems

-----------------------------------------------------------------------------
(* The invariant of FleetAdmission under the commands.                     *)

\* The commands ask for what the CLI can ask for.
LEMMA WithdrawnType ==
    ASSUME NEW p \in Pools
    PROVE  /\ Withdrawn(p) \in Requests /\ Resumed(p) \in Requests
           /\ Withdrawn(p).pool = p /\ ~Accepting(Withdrawn(p))
<1>1. Withdrawn(p) \in Request /\ Resumed(p) \in Request
    BY DEF Withdrawn, Resumed, Request, MaybeEvidence
<1>2. /\ ~Withdrawn(p).initial /\ ~Withdrawn(p).recovery /\ Withdrawn(p).evidence = NoEvidence
      /\ ~Withdrawn(p).retiring /\ Withdrawn(p).pool = p
    BY DEF Withdrawn
<1>3. /\ Resumed(p).initial /\ Resumed(p).recovery /\ Resumed(p).evidence = NoEvidence
      /\ ~Resumed(p).retiring
    BY DEF Withdrawn, Resumed
<1>. QED BY <1>1, <1>2, <1>3 DEF Requests, Accepting

\* A redeploy counts jobs.
LEMMA JobsAreCounted ==
    ASSUME TypeOK, NEW p \in Pools
    PROVE  Cardinality(Jobs(p)) \in Nat /\ (Cardinality(Jobs(p)) > 0 => Busy(p))
<1>1. IsFiniteSet(Members(p)) BY CommandAssumption, FS_Subset DEF Members
<1>2. IsFiniteSet(1 .. MaxWork) BY FleetAssumption, FS_Interval
<1>3. IsFiniteSet(Members(p) \X (1 .. MaxWork)) BY <1>1, <1>2, FS_Product
<1>4. IsFiniteSet(Jobs(p)) BY <1>3, FS_Subset DEF Jobs
<1>5. ASSUME Jobs(p) # {} PROVE Busy(p)
    <2>1. PICK j \in Members(p) \X (1 .. MaxWork) : j[2] <= launcher[j[1]].jobs
        BY <1>5 DEF Jobs
    <2>2. launcher[j[1]].jobs \in Nat BY <2>1 DEF TypeOK, LauncherState, Members
    <2>. QED BY <2>1, <2>2, FleetAssumption DEF Busy
<1>. QED BY <1>4, <1>5, FS_CardinalityType, FS_EmptySet

\* A redeploy ends incarnations, and moves what they did to the duties.
LEMMA RedeployEffect ==
    ASSUME TypeOK, NEW d \in Deploys, Redeploy(d)
    PROVE  /\ UNCHANGED <<pool, legacyDrained, dataReady, op, puts, back>>
           /\ \A l \in Launchers : launcher'[l] = launcher[l] \/ launcher'[l] = NoIncarnation
           /\ \A p \in Pools : Quiet(p) => Quiet(p)'
           /\ \A p \in Pools : ~Busy(p) => ~Busy(p)'
           /\ TypeOK'
<1>1. UNCHANGED <<pool, legacyDrained, dataReady, op, puts, back>> BY DEF Redeploy
<1>2. /\ \A l \in Launchers : launcher'[l] = launcher[l] \/ launcher'[l] = NoIncarnation
      /\ launcher' \in [Launchers -> LauncherState]
    <2>1. NoIncarnation \in LauncherState BY DEF NoIncarnation, LauncherState
    <2>. QED BY <2>1 DEF Redeploy, TypeOK
<1>3. DeployPool[d] \in Pools BY CommandAssumption
<1>4. Cardinality(Jobs(DeployPool[d])) \in Nat BY <1>3, JobsAreCounted
<1>5. duties' = [duties EXCEPT ![DeployPool[d]] = @ + Cardinality(Jobs(DeployPool[d]))]
    BY DEF Redeploy
<1>6. duties' \in [Pools -> Nat] BY <1>3, <1>4, <1>5 DEF TypeOK
<1>7. ASSUME NEW p \in Pools, Quiet(p) PROVE Quiet(p)'
    BY <1>2, <1>7 DEF Quiet, Members, Accepting, NoIncarnation
<1>8. ASSUME NEW p \in Pools, ~Busy(p) PROVE ~Busy(p)'
    <2>1. duties'[p] = 0
        <3>1. duties[p] = 0 BY <1>8 DEF Busy, TypeOK
        <3>2. p = DeployPool[d] => Cardinality(Jobs(p)) = 0 BY <1>3, <1>4, <1>8, JobsAreCounted
        <3>. QED BY <1>3, <1>5, <3>1, <3>2 DEF TypeOK
    <2>2. \A l \in Members(p) : launcher'[l].jobs = launcher[l].jobs \/ launcher'[l].jobs = 0
        BY <1>2 DEF Members, NoIncarnation
    <2>. QED BY <1>8, <2>1, <2>2 DEF Busy, Members
<1>. QED BY <1>1, <1>2, <1>6, <1>7, <1>8 DEF TypeOK

LEMMA RedeployKeeps ==
    ASSUME IInv, NEW d \in Deploys, Redeploy(d)
    PROVE  IInv'
<1>1. TypeOK BY DEF IInv
<1>2. UNCHANGED <<pool, legacyDrained, op, puts>> /\ TypeOK' BY <1>1, RedeployEffect
<1>3. /\ \A l \in Launchers : launcher'[l] = launcher[l] \/ launcher'[l] = NoIncarnation
      /\ \A p \in Pools : Quiet(p) => Quiet(p)'
      /\ \A p \in Pools : ~Busy(p) => ~Busy(p)'
    BY <1>1, RedeployEffect
<1>4. LauncherInv'
    <2>. SUFFICES ASSUME NEW l \in Launchers
                  PROVE  LET p == pool[PoolOf[l]]
                         IN  /\ launcher'[l].ack <= launcher'[l].applied
                             /\ launcher'[l].applied <= p.revision
                             /\ launcher'[l].applied = p.revision =>
                                   /\ launcher'[l].initial = p.initial
                                   /\ launcher'[l].recovery = p.recovery
                             /\ ~launcher'[l].live => launcher'[l] = NoIncarnation
        BY <1>2 DEF LauncherInv
    <2>1. CASE launcher'[l] = launcher[l] BY <2>1 DEF IInv, LauncherInv
    <2>2. CASE launcher'[l] = NoIncarnation
        <3>1. launcher'[l].ack = 0 /\ launcher'[l].applied = 0 BY <2>2 DEF NoIncarnation
        <3>2. pool[PoolOf[l]].revision \in Nat \ {0}
            BY <1>1, FleetAssumption DEF TypeOK, PoolState
        <3>. QED BY <2>2, <3>1, <3>2
    <2>. QED BY <1>3, <2>1, <2>2
<1>5. PutInv'
    BY <1>1, <1>2, <1>3 DEF IInv, PutInv, TypeOK, PutMessage, Request, FirstCutoverAuthorized
<1>6. SenderInv' BY <1>2 DEF IInv, SenderInv
<1>7. RetiredInv' BY <1>2, <1>3 DEF IInv, RetiredInv
<1>8. WithdrawnInv' BY <1>2, <1>3 DEF IInv, WithdrawnInv
<1>9. WorkIsAuthorized' BY <1>2, <1>3 DEF IInv, WorkIsAuthorized
<1>. QED BY <1>2, <1>4, <1>5, <1>6, <1>7, <1>8, <1>9 DEF IInv

-----------------------------------------------------------------------------
(* Every other step of the commands is one of FleetAdmission.              *)

LEMMA FailIsFailedCall ==
    ASSUME TypeOK, NEW d \in Deploys, DeployFail(d)
    PROVE  [Next]_vars
<1>. DEFINE o == DeployOp[d]
<1>1. o \in Ops BY CommandAssumption
<1>2. CASE op[o].pc = "idle"
    BY <1>1, <1>2 DEF DeployFail, Next, Client, Refuse
<1>3. CASE op[o].pc = "waiting"
    BY <1>1, <1>3 DEF DeployFail, Next, Client, Unavailable
<1>4. CASE op[o].pc \notin {"idle", "waiting"}
    <2>1. op' = op BY <1>1, <1>4 DEF DeployFail, TypeOK
    <2>. QED BY <2>1 DEF DeployFail, vars
<1>. QED BY <1>2, <1>3, <1>4

LEMMA CommandStepIsNext ==
    ASSUME TypeOK, [CommandNext]_allVars
    PROVE  [Next]_vars \/ \E d \in Deploys : Redeploy(d)
<1>1. ASSUME NEW d \in Deploys,
             FirstCheck(d) \/ DeployCall(d) \/ DeployPoll(d) \/ DeployFail(d) \/ Redeploy(d)
      PROVE  [Next]_vars \/ Redeploy(d)
    <2>1. DeployOp[d] \in Ops /\ DeployPool[d] \in Pools BY CommandAssumption
    <2>2. CASE FirstCheck(d) BY <2>2 DEF FirstCheck
    <2>3. CASE DeployCall(d)
        BY <2>1, <2>3, WithdrawnType DEF DeployCall, Next, Client
    <2>4. CASE DeployPoll(d) BY <2>1, <2>4 DEF DeployPoll, Next, Client
    <2>5. CASE DeployFail(d) BY <2>5, FailIsFailedCall
    <2>. QED BY <1>1, <2>2, <2>3, <2>4, <2>5
<1>2. ASSUME NEW b \in Rollbacks,
             RollbackCheck(b) \/ RollbackCall(b) \/ RollbackPoll(b) \/ RollbackFail(b)
      PROVE  [Next]_vars
    <2>1. /\ EnableOp[b] \in Ops /\ LeaveOp[b] \in Ops
          /\ Source[b] \in Pools /\ Goal[b] \in Pools
        BY CommandAssumption
    <2>2. CASE RollbackCheck(b) \/ RollbackFail(b) BY <2>2 DEF RollbackCheck, RollbackFail
    <2>3. CASE RollbackCall(b)
        BY <2>1, <2>3, WithdrawnType DEF RollbackCall, Next, Client
    <2>4. CASE RollbackPoll(b) BY <2>1, <2>4 DEF RollbackPoll, Next, Client
    <2>. QED BY <1>2, <2>2, <2>3, <2>4
<1>3. CASE OtherStep
    <2>1. CASE \E o \in FreeOps : Client(o) BY <2>1 DEF FreeOps, Next
    <2>2. CASE \E o \in Ops \ FreeOps : Timeout(o) \/ Unavailable(o) \/ Expire(o)
        BY <2>2 DEF Next, Client
    <2>3. CASE (\E m \in puts : ApplyPut(m)) \/ Fleet BY <2>3 DEF Next
    <2>. QED BY <1>3, <2>1, <2>2, <2>3 DEF OtherStep
<1>4. CASE UNCHANGED allVars BY <1>4 DEF allVars
<1>. QED BY <1>1, <1>2, <1>3, <1>4, Zenon DEF CommandNext, CommandStep

LEMMA CommandsKeepIInv == IInv /\ [CommandNext]_allVars => IInv'
BY CommandStepIsNext, RedeployKeeps, StepInv DEF IInv

-----------------------------------------------------------------------------
(* The invariant of the commands.                                          *)

\* The call of a deploy asks to withdraw its pool, and a deploy that goes on
\* has seen it succeed.
OwnCall ==
    \A d \in Deploys :
        LET o == DeployOp[d]
        IN  /\ op[o].pc \in {"sent", "waiting", "ok"} => op[o].request = Withdrawn(DeployPool[d])
            /\ deploy[d].pc \in {"ready", "submitted"} => op[o].pc = "ok"

CommandInv == IInv /\ CommandTypeOK /\ OwnCall /\ DeploysDoNotLeanOnEachOther

LEMMA CommandBegins == CommandInit => CommandInv
<1>. SUFFICES ASSUME CommandInit PROVE CommandInv
    OBVIOUS
<1>1. IInv BY InitInv DEF CommandInit
<1>2. CommandTypeOK BY <1>1 DEF IInv, CommandInit, CommandTypeOK, DeployState
<1>3. \A o \in Ops : op[o].pc = "idle" BY DEF CommandInit, Init, Process
<1>4. OwnCall BY <1>3, CommandAssumption DEF OwnCall, CommandInit
<1>5. DeploysDoNotLeanOnEachOther BY DEF DeploysDoNotLeanOnEachOther, CommandInit
<1>. QED BY <1>1, <1>2, <1>4, <1>5 DEF CommandInv

LEMMA CommandTypeGoesOn ==
    ASSUME CommandInv, [CommandNext]_allVars
    PROVE  CommandTypeOK'
<1>. USE DEF CommandTypeOK
<1>1. TypeOK' BY CommandsKeepIInv DEF CommandInv, IInv
<1>2. lineage' \in [Pools -> Lineages]
    <2>1. lineage' = lineage \/ \E d \in Deploys : Redeploy(d)
        BY Zenon DEF CommandNext, CommandStep, OtherStep, FirstCheck, DeployCall, DeployPoll,
           DeployFail, RollbackCheck, RollbackCall, RollbackPoll, RollbackFail, allVars, cmdVars
    <2>. QED BY <2>1, CommandAssumption DEF CommandInv, Redeploy
<1>3. deploy' \in [Deploys -> DeployState]
    <2>1. ASSUME NEW d \in Deploys PROVE Busy(DeployPool[d]) \in BOOLEAN BY Zenon DEF Busy
    <2>2. \A d \in Deploys : deploy[d] \in DeployState BY DEF CommandInv
    <2>3. ASSUME NEW d \in Deploys, FirstCheck(d) \/ DeployPoll(d) \/ DeployFail(d) \/ Redeploy(d)
          PROVE  deploy' \in [Deploys -> DeployState]
        <3>1. CASE FirstCheck(d)
            BY <3>1, <2>2 DEF FirstCheck, CommandInv, DeployState
        <3>2. CASE DeployFail(d) BY <3>2, <2>2 DEF DeployFail, CommandInv, DeployState
        <3>3. CASE Redeploy(d) BY <3>3, <2>2 DEF Redeploy, CommandInv, DeployState
        <3>4. CASE DeployPoll(d)
            <4>1. \/ deploy' = [deploy EXCEPT ![d] = [pc |-> "ready", relied |-> Busy(DeployPool[d])]]
                  \/ deploy' = [deploy EXCEPT ![d].pc = "failed"]
                BY <3>4 DEF DeployPoll
            <4>2. [pc |-> "ready", relied |-> Busy(DeployPool[d])] \in DeployState
                BY <2>1 DEF DeployState
            <4>3. [deploy[d] EXCEPT !.pc = "failed"] \in DeployState BY <2>2 DEF DeployState
            <4>. QED BY <4>1, <4>2, <4>3 DEF CommandInv
        <3>. QED BY <2>3, <3>1, <3>2, <3>3, <3>4
    <2>4. \/ deploy' = deploy
          \/ \E d \in Deploys : FirstCheck(d) \/ DeployPoll(d) \/ DeployFail(d) \/ Redeploy(d)
        BY Zenon DEF CommandNext, CommandStep, OtherStep, DeployCall, RollbackCheck,
           RollbackCall, RollbackPoll, RollbackFail, allVars, cmdVars
    <2>. QED BY <2>3, <2>4 DEF CommandInv
<1>4. back' \in [Rollbacks -> {"start", "enabling", "leaving", "done", "failed"}]
    <2>1. \/ back' = back
          \/ \E b \in Rollbacks : RollbackCheck(b) \/ RollbackPoll(b) \/ RollbackFail(b)
        BY Zenon DEF CommandNext, CommandStep, OtherStep, FirstCheck, DeployCall, DeployPoll,
           DeployFail, Redeploy, RollbackCall, allVars, cmdVars
    <2>2. \/ back' = back
          \/ \E b \in Rollbacks, s \in {"enabling", "leaving", "done", "failed"} :
                back' = [back EXCEPT ![b] = s]
        BY <2>1 DEF RollbackCheck, RollbackPoll, RollbackFail
    <2>. QED BY <2>2 DEF CommandInv
<1>. QED BY <1>1, <1>2, <1>3, <1>4

-----------------------------------------------------------------------------
(* The call of a deploy.                                                   *)

\* A call that has succeeded is over.
LEMMA OkStays ==
    ASSUME IInv, [CommandNext]_allVars, NEW o \in Ops, op[o].pc = "ok"
    PROVE  op'[o] = op[o]
<1>0. TypeOK BY DEF IInv
<1>1. CASE \E d \in Deploys : Redeploy(d) BY <1>0, <1>1, RedeployEffect
<1>2. ASSUME NEW n \in Ops, Client(n) PROVE op'[o] = op[o]
    BY <1>0, <1>2 DEF TypeOK, Client, Call, Refuse, Timeout, Unavailable, Poll, Expire
<1>3. ASSUME NEW m \in puts, ApplyPut(m) PROVE op'[o] = op[o]
    <2>1. m.op \in Ops BY <1>0, <1>3 DEF TypeOK, PutMessage
    <2>. QED BY <1>0, <1>3, <2>1 DEF TypeOK, ApplyPut
<1>4. CASE Fleet BY <1>0, <1>4, FleetFrame
<1>5. CASE UNCHANGED vars BY <1>5 DEF vars
<1>. QED BY <1>0, <1>1, <1>2, <1>3, <1>4, <1>5, CommandStepIsNext DEF Next

\* Only the deploy itself makes its call.
LEMMA OwnCallIsMadeOnce ==
    ASSUME CommandInv, [CommandNext]_allVars, NEW d \in Deploys, op[DeployOp[d]].pc = "idle",
           op'[DeployOp[d]].pc \in {"sent", "waiting", "ok"}
    PROVE  op'[DeployOp[d]].request = Withdrawn(DeployPool[d])
<1>. DEFINE o == DeployOp[d]
<1>0. o \in Ops /\ TypeOK BY CommandAssumption DEF CommandInv, IInv
<1>1. op'[o] # op[o] BY <1>0 DEF TypeOK, OpState
<1>2. ASSUME NEW n \in Ops, Client(n) PROVE n = o
    BY <1>0, <1>1, <1>2 DEF TypeOK, Client, Call, Refuse, Timeout, Unavailable, Poll, Expire
<1>3. ASSUME NEW c \in Deploys,
             FirstCheck(c) \/ DeployCall(c) \/ DeployPoll(c) \/ DeployFail(c) \/ Redeploy(c)
      PROVE  op'[o].request = Withdrawn(DeployPool[d])
    <2>1. DeployOp[c] \in Ops /\ DeployPool[c] \in Pools BY CommandAssumption
    <2>2. CASE FirstCheck(c) BY <1>1, <2>2 DEF FirstCheck, vars
    <2>3. CASE DeployCall(c)
        <3>1. Call(DeployOp[c], Withdrawn(DeployPool[c])) BY <2>3 DEF DeployCall
        <3>2. DeployOp[c] = o BY <1>2, <2>1, <3>1, WithdrawnType DEF Client
        <3>3. c = d BY <3>2, CommandAssumption
        <3>. QED BY <1>0, <3>1, <3>3 DEF Call, TypeOK, OpState
    <2>4. CASE DeployPoll(c)
        <3>1. Poll(DeployOp[c]) BY <2>4 DEF DeployPoll
        <3>2. DeployOp[c] = o BY <1>2, <2>1, <3>1 DEF Client
        <3>. QED BY <3>1, <3>2 DEF Poll
    <2>5. CASE DeployFail(c)
        <3>1. op'[o] = op[o] \/ op'[o] = Process("failed") BY <1>0, <2>5 DEF DeployFail, TypeOK
        <3>. QED BY <1>1, <3>1 DEF Process
    <2>6. CASE Redeploy(c) BY <1>1, <2>6 DEF Redeploy
    <2>. QED BY <1>3, <2>2, <2>3, <2>4, <2>5, <2>6
<1>4. ASSUME NEW b \in Rollbacks,
             RollbackCheck(b) \/ RollbackCall(b) \/ RollbackPoll(b) \/ RollbackFail(b)
      PROVE  FALSE
    <2>1. /\ EnableOp[b] \in Ops /\ LeaveOp[b] \in Ops
          /\ Source[b] \in Pools /\ Goal[b] \in Pools
          /\ EnableOp[b] # o /\ LeaveOp[b] # o
        BY CommandAssumption
    <2>2. CASE RollbackCheck(b) \/ RollbackFail(b)
        BY <1>1, <2>2 DEF RollbackCheck, RollbackFail, vars
    <2>3. CASE RollbackCall(b) BY <1>2, <2>1, <2>3, WithdrawnType DEF RollbackCall, Client
    <2>4. CASE RollbackPoll(b) BY <1>2, <2>1, <2>4 DEF RollbackPoll, Client
    <2>. QED BY <1>4, <2>2, <2>3, <2>4
<1>5. CASE OtherStep
    <2>1. o \notin FreeOps /\ FreeOps \subseteq Ops BY DEF FreeOps
    <2>2. CASE \E n \in FreeOps : Client(n) BY <1>2, <2>1, <2>2
    <2>3. CASE \E n \in Ops \ FreeOps : Timeout(n) \/ Unavailable(n) \/ Expire(n)
        BY <1>2, <2>3 DEF Client, Timeout, Unavailable, Expire
    <2>4. ASSUME NEW m \in puts, ApplyPut(m) PROVE FALSE
        <3>1. m.op \in Ops BY <1>0, <2>4 DEF TypeOK, PutMessage
        <3>. QED BY <1>0, <1>1, <2>4, <3>1 DEF ApplyPut, TypeOK
    <2>5. CASE Fleet BY <1>0, <1>1, <2>5, FleetFrame
    <2>. QED BY <1>5, <2>2, <2>3, <2>4, <2>5 DEF OtherStep
<1>6. CASE UNCHANGED allVars BY <1>1, <1>6 DEF allVars, vars
<1>. QED BY <1>3, <1>4, <1>5, <1>6, Zenon DEF CommandNext, CommandStep


\* The request of a call is set once, before its PUT.
LEMMA RequestStays ==
    ASSUME IInv, [CommandNext]_allVars, NEW o \in Ops, op[o].pc # "idle",
           op'[o].pc \in {"sent", "waiting", "ok"}
    PROVE  op'[o].request = op[o].request /\ op[o].pc \in {"sent", "waiting", "ok"}
<1>0. TypeOK /\ Process("failed").pc = "failed" BY DEF IInv, Process
<1>1. CASE \E d \in Deploys : Redeploy(d) BY <1>0, <1>1, RedeployEffect
<1>2. ASSUME NEW n \in Ops, Client(n) PROVE op'[o] = op[o] \/ n = o
    BY <1>0, <1>2 DEF TypeOK, Client, Call, Refuse, Timeout, Unavailable, Poll, Expire
<1>3. ASSUME Client(o)
      PROVE  op'[o].request = op[o].request /\ op[o].pc \in {"sent", "waiting", "ok"}
    <2>1. CASE Refuse(o) \/ Timeout(o) \/ Unavailable(o)
        BY <1>0, <2>1 DEF Refuse, Timeout, Unavailable, TypeOK
    <2>2. CASE Poll(o)
        <3>1. op'[o] = Process("failed") \/ op'[o] = [op[o] EXCEPT !.pc = "ok"]
            BY <1>0, <2>2 DEF Poll, TypeOK
        <3>. QED BY <1>0, <2>2, <3>1 DEF Poll, TypeOK, OpState
    <2>3. CASE Expire(o) BY <1>0, <2>3 DEF Expire, TypeOK, OpState
    <2>. QED BY <1>3, <2>1, <2>2, <2>3 DEF Client, Call
<1>4. ASSUME NEW m \in puts, ApplyPut(m)
      PROVE  op'[o].request = op[o].request /\ op[o].pc \in {"sent", "waiting", "ok"}
    <2>1. m.op \in Ops BY <1>0, <1>4 DEF TypeOK, PutMessage
    <2>2. \/ op'[o] = op[o] \/ op'[o] = Process("failed")
          \/ /\ op[o].pc = "sent"
             /\ op'[o] = [op[o] EXCEPT !.pc = "waiting",
                                       !.revision = pool[m.request.pool].revision + 1]
        BY <1>0, <1>4, <2>1 DEF TypeOK, ApplyPut
    <2>. QED BY <1>0, <2>2 DEF TypeOK, OpState
<1>5. CASE Fleet BY <1>0, <1>5, FleetFrame DEF TypeOK, OpState
<1>6. CASE UNCHANGED vars BY <1>0, <1>6 DEF vars, TypeOK, OpState
<1>7. op'[o] = op[o] => op[o].pc \in {"sent", "waiting", "ok"} BY <1>0
<1>. QED
    BY <1>0, <1>1, <1>2, <1>3, <1>4, <1>5, <1>6, <1>7, CommandStepIsNext, RedeployEffect DEF Next

\* What a step does to one deploy.
LEMMA DeployMoves ==
    ASSUME CommandTypeOK, [CommandNext]_allVars, NEW d \in Deploys, deploy'[d] # deploy[d]
    PROVE  \/ FirstCheck(d) /\ deploy'[d].pc = "checked"
           \/ DeployPoll(d)
           \/ DeployFail(d) /\ deploy'[d].pc = "failed"
           \/ Redeploy(d) /\ deploy'[d] = [deploy[d] EXCEPT !.pc = "submitted"]
<1>. USE DEF CommandTypeOK
<1>1. \E c \in Deploys : FirstCheck(c) \/ DeployPoll(c) \/ DeployFail(c) \/ Redeploy(c)
    BY Zenon DEF CommandNext, CommandStep, OtherStep, DeployCall, RollbackCheck,
       RollbackCall, RollbackPoll, RollbackFail, allVars, cmdVars
<1>2. PICK c \in Deploys : FirstCheck(c) \/ DeployPoll(c) \/ DeployFail(c) \/ Redeploy(c)
    BY <1>1
<1>3. deploy[c] \in DeployState OBVIOUS
<1>4. c = d BY <1>2 DEF FirstCheck, DeployPoll, DeployFail, Redeploy
<1>5. CASE FirstCheck(c) BY <1>3, <1>4, <1>5 DEF FirstCheck, DeployState
<1>6. CASE DeployFail(c) BY <1>3, <1>4, <1>6 DEF DeployFail, DeployState
<1>7. CASE Redeploy(c) BY <1>3, <1>4, <1>7 DEF Redeploy, DeployState
<1>. QED BY <1>2, <1>4, <1>5, <1>6, <1>7

LEMMA OwnCallGoesOn ==
    ASSUME CommandInv, [CommandNext]_allVars
    PROVE  OwnCall'
<1>. SUFFICES ASSUME NEW d \in Deploys
              PROVE  LET o == DeployOp[d]
                     IN  /\ op'[o].pc \in {"sent", "waiting", "ok"} =>
                              op'[o].request = Withdrawn(DeployPool[d])
                         /\ deploy'[d].pc \in {"ready", "submitted"} => op'[o].pc = "ok"
    BY DEF OwnCall, Withdrawn
<1>. DEFINE o == DeployOp[d]
<1>0. o \in Ops /\ IInv /\ CommandTypeOK BY CommandAssumption DEF CommandInv
<1>1. ASSUME op'[o].pc \in {"sent", "waiting", "ok"}
      PROVE  op'[o].request = Withdrawn(DeployPool[d])
    <2>1. CASE op[o].pc = "idle" BY <1>1, <2>1, OwnCallIsMadeOnce
    <2>2. CASE op[o].pc # "idle" BY <1>0, <1>1, <2>2, RequestStays DEF CommandInv, OwnCall
    <2>. QED BY <2>1, <2>2
<1>2. ASSUME deploy'[d].pc \in {"ready", "submitted"} PROVE op'[o].pc = "ok"
    <2>1. CASE deploy'[d] = deploy[d]
        BY <1>0, <1>2, <2>1, OkStays DEF CommandInv, OwnCall
    <2>2. CASE deploy'[d] # deploy[d]
        <3>1. CASE DeployPoll(d)
            <4>1. \/ op'[o].pc = "ok"
                  \/ deploy' = [deploy EXCEPT ![d].pc = "failed"]
                BY <3>1 DEF DeployPoll
            <4>2. deploy[d] \in DeployState /\ deploy \in [Deploys -> DeployState]
                BY <1>0 DEF CommandTypeOK
            <4>3. deploy' = [deploy EXCEPT ![d].pc = "failed"] => deploy'[d].pc = "failed"
                BY <4>2 DEF DeployState
            <4>. QED BY <1>2, <4>1, <4>3
        <3>2. CASE Redeploy(d)
            <4>1. op[o].pc = "ok" BY <3>2 DEF Redeploy, CommandInv, OwnCall
            <4>. QED BY <1>0, <4>1, OkStays
        <3>. QED BY <1>0, <1>2, <2>2, <3>1, <3>2, DeployMoves
    <2>. QED BY <2>1, <2>2
<1>. QED BY <1>1, <1>2

-----------------------------------------------------------------------------
(* Deploys and the recovery pool of the other.                             *)

\* The revision of a pool never goes back.
LEMMA RevisionGrows ==
    ASSUME IInv, [CommandNext]_allVars, NEW p \in Pools
    PROVE  pool'[p] = pool[p] \/ pool'[p].revision > pool[p].revision
<1>1. CASE \E d \in Deploys : Redeploy(d) BY <1>1, RedeployEffect DEF IInv
<1>2. CASE Next /\ pool'[p] # pool[p]
    <2>1. pool'[p].revision = pool[p].revision + 1 /\ pool[p].revision \in Nat
        BY <1>2, PoolStep DEF IInv, TypeOK, PoolState
    <2>. QED BY <2>1
<1>3. CASE UNCHANGED vars BY <1>3 DEF vars
<1>. QED BY <1>1, <1>2, <1>3, CommandStepIsNext DEF IInv

\* A withdrawal that stands has stood ever since it succeeded.
LEMMA StandsSince ==
    ASSUME CommandInv, [CommandNext]_allVars, NEW d \in Deploys, op[DeployOp[d]].pc = "ok",
           WithdrawalStands(d)'
    PROVE  WithdrawalStands(d) /\ pool'[DeployPool[d]] = pool[DeployPool[d]]
<1>. DEFINE o == DeployOp[d]
            p == DeployPool[d]
<1>1. o \in Ops /\ p \in Pools /\ IInv BY CommandAssumption DEF CommandInv
<1>2. op'[o] = op[o] BY <1>1, OkStays
<1>3. op[o].request.pool = p BY <1>1, WithdrawnType DEF CommandInv, OwnCall
<1>4. /\ op[o].revision <= pool[p].revision
      /\ op[o].revision \in Nat /\ pool[p].revision \in Nat
    BY <1>1, <1>3 DEF IInv, WithdrawnInv, TypeOK, OpState, PoolState
<1>5. pool'[p].revision = op[o].revision /\ op[o].revision > 0
    BY <1>2 DEF WithdrawalStands
<1>6. pool'[p] = pool[p] \/ pool'[p].revision > pool[p].revision BY <1>1, RevisionGrows
<1>7. pool'[p] = pool[p] BY <1>4, <1>5, <1>6
<1>. QED BY <1>5, <1>7 DEF WithdrawalStands

\* As long as it stands, the pool takes nothing over.
LEMMA StandingIsWithdrawn ==
    ASSUME CommandInv, NEW d \in Deploys, op[DeployOp[d]].pc = "ok", WithdrawalStands(d)
    PROVE  ~Accepting(pool[DeployPool[d]]) /\ Quiet(DeployPool[d])
<1>1. DeployOp[d] \in Ops /\ DeployPool[d] \in Pools BY CommandAssumption
<1>2. op[DeployOp[d]].request = Withdrawn(DeployPool[d]) BY DEF CommandInv, OwnCall
<1>. QED
    BY <1>1, <1>2, WithdrawnType DEF CommandInv, IInv, WithdrawnInv, WithdrawalStands

\* A deploy that goes on and leans on another pool has found one.
LEMMA LeansOnAnother ==
    ASSUME CommandInv, NEW d \in Deploys, DeployPoll(d), deploy'[d].pc \in {"ready", "submitted"},
           deploy'[d].relied
    PROVE  UNCHANGED pool /\ \E q \in Pools \ {DeployPool[d]} : pool[q].recovery
<1>1. deploy[d] \in DeployState /\ deploy \in [Deploys -> DeployState]
    BY DEF CommandInv, CommandTypeOK
<1>2. deploy' = [deploy EXCEPT ![d].pc = "failed"] => deploy'[d].pc = "failed"
    BY <1>1 DEF DeployState
<1>3. /\ IF Busy(DeployPool[d]) THEN Covered(d) ELSE Retirable(DeployPool[d])
      /\ deploy' = [deploy EXCEPT ![d] = [pc |-> "ready", relied |-> Busy(DeployPool[d])]]
    BY <1>2 DEF DeployPoll
<1>4. Busy(DeployPool[d]) BY <1>1, <1>3
<1>5. UNCHANGED pool BY DEF DeployPoll, Poll
<1>. QED BY <1>3, <1>4, <1>5 DEF Covered, Alternative

LEMMA NoneLeansOnTheOther ==
    ASSUME CommandInv, [CommandNext]_allVars
    PROVE  DeploysDoNotLeanOnEachOther'
<1>. DEFINE Leans(d) == deploy[d].pc \in {"ready", "submitted"} /\ deploy[d].relied
            Both(c, d) == /\ DeployPool[c] # DeployPool[d] /\ Pools = {DeployPool[c], DeployPool[d]}
                          /\ Leans(c) /\ WithdrawalStands(c)
                          /\ Leans(d) /\ WithdrawalStands(d)
<1>. SUFFICES ASSUME NEW c \in Deploys, NEW d \in Deploys, Both(c, d)' PROVE FALSE
    BY DEF DeploysDoNotLeanOnEachOther
<1>1. ~Both(c, d) BY DEF CommandInv, DeploysDoNotLeanOnEachOther
<1>2. ASSUME NEW e \in Deploys, Leans(e)', WithdrawalStands(e)', ~DeployPoll(e)
      PROVE  Leans(e) /\ op[DeployOp[e]].pc = "ok"
    <2>1. CommandTypeOK /\ deploy[e] \in DeployState BY DEF CommandInv, CommandTypeOK
    <2>2. CASE deploy'[e] = deploy[e] BY <1>2, <2>2 DEF CommandInv, OwnCall
    <2>3. CASE deploy'[e] # deploy[e]
        <3>1. Redeploy(e) /\ deploy'[e] = [deploy[e] EXCEPT !.pc = "submitted"]
            BY <1>2, <2>1, <2>3, DeployMoves
        <3>2. deploy[e].pc = "ready" /\ deploy[e].relied
            BY <1>2, <2>1, <3>1 DEF Redeploy, DeployState
        <3>. QED BY <3>2 DEF CommandInv, OwnCall
    <2>. QED BY <2>2, <2>3
<1>3. ASSUME NEW a \in Deploys, NEW b \in Deploys, Both(a, b)', DeployPoll(a) PROVE FALSE
    <2>1. DeployOp[a] # DeployOp[b] /\ DeployOp[a] \in Ops /\ DeployOp[b] \in Ops
        BY <1>3, CommandAssumption
    <2>2. UNCHANGED pool /\ pool[DeployPool[b]].recovery
        BY <1>3, LeansOnAnother
    <2>3. op'[DeployOp[b]] = op[DeployOp[b]]
        BY <1>3, <2>1 DEF DeployPoll, Poll, CommandInv, IInv, TypeOK
    <2>4. op'[DeployOp[b]].pc = "ok" BY <1>3, OwnCallGoesOn DEF OwnCall
    <2>5. WithdrawalStands(b) BY <1>3, <2>2, <2>3 DEF WithdrawalStands
    <2>. QED BY <2>2, <2>3, <2>4, <2>5, StandingIsWithdrawn DEF Accepting
<1>4. CASE ~DeployPoll(c) /\ ~DeployPoll(d)
    <2>1. Leans(c) /\ WithdrawalStands(c) BY <1>2, <1>4, StandsSince
    <2>2. Leans(d) /\ WithdrawalStands(d) BY <1>2, <1>4, StandsSince
    <2>. QED BY <1>1, <2>1, <2>2
<1>5. Both(d, c)' OBVIOUS
<1>. QED BY <1>3, <1>4, <1>5

LEMMA CommandGoesOn == CommandInv /\ [CommandNext]_allVars => CommandInv'
BY CommandsKeepIInv, CommandTypeGoesOn, OwnCallGoesOn, NoneLeansOnTheOther DEF CommandInv

LEMMA CommandInvHolds == CommandSpec => []CommandInv
BY CommandBegins, CommandGoesOn, PTL DEF CommandSpec

\* Every variable of the calls, the fleet and the commands stays in its domain.
THEOREM CommandTypeCorrect == CommandSpec => []CommandTypeOK
<1>1. CommandInv => CommandTypeOK BY DEF CommandInv
<1>. QED BY <1>1, CommandInvHolds, PTL

\* However many deploys run, no two that found an alternative for their pool's
\* work are the alternative of each other.
THEOREM DeploysNeverLeanOnEachOther == CommandSpec => []DeploysDoNotLeanOnEachOther
<1>1. CommandInv => DeploysDoNotLeanOnEachOther BY DEF CommandInv
<1>. QED BY <1>1, CommandInvHolds, PTL

\* Redeploys and rollbacks beside the calls leave intact what a retirement, the
\* legacy drain and an acknowledged withdrawal promise.
THEOREM CommandsKeepFleetSafe ==
    CommandSpec => [](RetiredPoolIsIdle /\ WorkIsAuthorized /\ WithdrawalIsInForce)
<1>1. CommandInv => RetiredPoolIsIdle /\ WorkIsAuthorized
    BY DEF CommandInv, IInv, RetiredInv, RetiredPoolIsIdle
<1>2. CommandInv => WithdrawalIsInForce
    BY DEF CommandInv, IInv, TypeOK, OpState, Request, WithdrawnInv, WithdrawalIsInForce
<1>. QED BY <1>1, <1>2, CommandInvHolds, PTL


-----------------------------------------------------------------------------
(* Refinement: the commands too implement AdmissionControl.                *)

\* A redeploy decides nothing and begins no work.
LEMMA RedeployRefines ==
    ASSUME IInv, NEW d \in Deploys, Redeploy(d)
    PROVE  Control!Work
<1> DEFINE busy == [p \in Pools |-> Busy(p)]
<1>1. /\ UNCHANGED <<pool, legacyDrained>>
      /\ \A p \in Pools : ~Busy(p) => ~Busy(p)'
    BY RedeployEffect DEF IInv
<1>2. busy' \in [Pools -> BOOLEAN] BY DEF Busy
<1>. QED BY <1>1, <1>2 DEF Control!Work

\* Deploys, redeploys and rollbacks, of several calls each, that run beside plain
\* calls and fail anywhere: every behaviour of them all is one of
\* AdmissionControl, where a decision is taken at once.
THEOREM CommandsRefineControl == CommandSpec => RefinesControl
<1>1. CommandInit => Control!Init BY InitRefines DEF CommandInit
<1>2. IInv /\ IInv' /\ [CommandNext]_allVars => [Control!Next]_Control!vars
    BY CommandStepIsNext, RedeployRefines, StepRefines DEF IInv, Control!Next
<1>3. CommandInv => IInv BY DEF CommandInv
<1>. QED BY <1>1, <1>2, <1>3, CommandInvHolds, PTL DEF CommandSpec, RefinesControl, Control!Spec

-----------------------------------------------------------------------------
(* What a redeploy replaces.                                               *)

OneDeployPerPool == \A c, d \in Deploys : DeployPool[c] = DeployPool[d] => c = d

\* What the second check found stands until the redeploy: a pool left idle
\* stays so, and the lineage it runs is the one the deploy brings.
ReadyAsChecked ==
    \A d \in Deploys : deploy[d].pc = "ready" =>
        IF deploy[d].relied THEN lineage[DeployPool[d]] = Target[d]
                            ELSE WithdrawalStands(d) => ~Busy(DeployPool[d])

LEMMA IdleStays ==
    ASSUME CommandInv, [CommandNext]_allVars, NEW d \in Deploys, op[DeployOp[d]].pc = "ok",
           WithdrawalStands(d), ~Busy(DeployPool[d])
    PROVE  ~Busy(DeployPool[d])'
<1>1. /\ DeployPool[d] \in Pools /\ TypeOK
      /\ ~Accepting(pool[DeployPool[d]]) /\ Quiet(DeployPool[d])
    BY CommandAssumption, StandingIsWithdrawn DEF CommandInv, IInv
<1>2. CASE \E e \in Deploys : Redeploy(e) BY <1>1, <1>2, RedeployEffect
<1>3. CASE Fleet BY <1>1, <1>3, FleetKeepsIdle
<1>4. CASE UNCHANGED <<launcher, duties>> BY <1>4 DEF Busy, Members
<1>. QED
    BY <1>1, <1>2, <1>3, <1>4, CommandStepIsNext, ClientFrame, ApplyPutEffect DEF Next, vars

LEMMA ReadyGoesOn ==
    ASSUME OneDeployPerPool, CommandInv, ReadyAsChecked, [CommandNext]_allVars
    PROVE  ReadyAsChecked'
<1>. SUFFICES ASSUME NEW d \in Deploys, deploy'[d].pc = "ready"
              PROVE  IF deploy'[d].relied THEN lineage'[DeployPool[d]] = Target[d]
                     ELSE WithdrawalStands(d)' => ~Busy(DeployPool[d])'
    BY DEF ReadyAsChecked
<1>0. CommandTypeOK /\ deploy[d] \in DeployState /\ DeployPool[d] \in Pools
    BY CommandAssumption DEF CommandInv, CommandTypeOK
<1>1. CASE deploy'[d] = deploy[d]
    <2>1. op[DeployOp[d]].pc = "ok" BY <1>1 DEF CommandInv, OwnCall
    <2>2. ASSUME NEW e \in Deploys, Redeploy(e) PROVE e # d
        BY <1>0, <1>1, <2>2 DEF Redeploy, DeployState, CommandTypeOK
    <2>3. lineage'[DeployPool[d]] = lineage[DeployPool[d]]
        <3>1. lineage' = lineage \/ \E e \in Deploys : Redeploy(e)
            BY Zenon DEF CommandNext, CommandStep, OtherStep, FirstCheck, DeployCall, DeployPoll,
               DeployFail, RollbackCheck, RollbackCall, RollbackPoll, RollbackFail, allVars, cmdVars
        <3>. QED BY <1>0, <2>2, <3>1 DEF OneDeployPerPool, Redeploy, CommandTypeOK
    <2>4. CASE deploy[d].relied BY <1>1, <2>3, <2>4 DEF ReadyAsChecked
    <2>5. CASE ~deploy[d].relied BY <1>1, <2>1, <2>5, StandsSince, IdleStays DEF ReadyAsChecked
    <2>. QED BY <2>4, <2>5
<1>2. CASE deploy'[d] # deploy[d]
    <2>1. DeployPoll(d) BY <1>0, <1>2, DeployMoves DEF DeployState
    <2>2. deploy' = [deploy EXCEPT ![d].pc = "failed"] => deploy'[d].pc = "failed"
        BY <1>0 DEF DeployState, CommandTypeOK
    <2>3. /\ IF Busy(DeployPool[d]) THEN Covered(d) ELSE Retirable(DeployPool[d])
          /\ deploy' = [deploy EXCEPT ![d] = [pc |-> "ready", relied |-> Busy(DeployPool[d])]]
          /\ UNCHANGED <<lineage, launcher, duties>>
        BY <2>1, <2>2 DEF DeployPoll, Poll
    <2>4. deploy'[d].relied <=> Busy(DeployPool[d]) BY <1>0, <2>3 DEF CommandTypeOK
    <2>. QED BY <2>3, <2>4 DEF Covered, Busy, Members
<1>. QED BY <1>1, <1>2

\* If no two deploys are for one pool, a deploy whose withdrawal still stands
\* replaces an idle pool, or one that keeps its lineage and whose work another
\* pool has been found for.
THEOREM RedeployStrandsNothing ==
    ASSUME OneDeployPerPool
    PROVE  CommandSpec => IdleRedeployStrandsNothing
<1>1. CommandInit => ReadyAsChecked BY DEF CommandInit, ReadyAsChecked
<1>2. CommandInv /\ ReadyAsChecked /\ [CommandNext]_allVars => ReadyAsChecked' BY ReadyGoesOn
<1>3. CommandInv /\ ReadyAsChecked =>
        \A d \in Deploys : Redeploy(d) /\ WithdrawalStands(d) =>
            \/ ~Busy(DeployPool[d])
            \/ deploy[d].relied /\ lineage'[DeployPool[d]] = lineage[DeployPool[d]]
    <2>. SUFFICES ASSUME CommandInv, ReadyAsChecked, NEW d \in Deploys, Redeploy(d),
                         WithdrawalStands(d), deploy[d].relied
                  PROVE  lineage'[DeployPool[d]] = lineage[DeployPool[d]]
        BY DEF ReadyAsChecked, Redeploy
    <2>. QED BY CommandAssumption DEF CommandInv, CommandTypeOK, ReadyAsChecked, Redeploy
<1>. QED
    BY <1>1, <1>2, <1>3, CommandInvHolds, PTL DEF CommandSpec, IdleRedeployStrandsNothing

-----------------------------------------------------------------------------
(* A rollback on its own.                                                  *)

\* No call returns to where it has not been made.
LEMMA NeverIdleAgain ==
    ASSUME TypeOK, [CommandNext]_allVars, NEW o \in Ops, op'[o].pc = "idle"
    PROVE  op'[o] = op[o]
<1>. SUFFICES ASSUME op'[o] # op[o] PROVE FALSE
    OBVIOUS
<1>0. op[o] \in OpState /\ Process("failed").pc = "failed" BY DEF TypeOK, Process
<1>1. CASE \E d \in Deploys : Redeploy(d) BY <1>1, RedeployEffect
<1>2. ASSUME NEW n \in Ops, Client(n) PROVE FALSE
    <2>1. n = o
        BY <1>2 DEF TypeOK, Client, Call, Refuse, Timeout, Unavailable, Poll, Expire
    <2>2. CASE \E r \in Requests : Call(o, r) BY <1>0, <2>2 DEF Call, TypeOK, OpState
    <2>3. CASE Refuse(o) \/ Timeout(o) \/ Unavailable(o)
        BY <1>0, <2>3 DEF Refuse, Timeout, Unavailable, TypeOK
    <2>4. CASE Poll(o)
        <3>1. op'[o] = Process("failed") \/ op'[o] = [op[o] EXCEPT !.pc = "ok"]
            BY <2>4 DEF Poll, TypeOK
        <3>. QED BY <1>0, <3>1 DEF OpState
    <2>5. CASE Expire(o) BY <1>0, <2>5 DEF Expire, TypeOK, OpState
    <2>. QED BY <1>2, <2>1, <2>2, <2>3, <2>4, <2>5 DEF Client
<1>3. ASSUME NEW m \in puts, ApplyPut(m) PROVE FALSE
    <2>1. m.op \in Ops BY <1>3 DEF TypeOK, PutMessage
    <2>2. \/ op'[o] = Process("failed")
          \/ op'[o] = [op[o] EXCEPT !.pc = "waiting", !.revision = pool[m.request.pool].revision + 1]
        BY <1>3, <2>1 DEF TypeOK, ApplyPut
    <2>. QED BY <1>0, <2>2 DEF OpState
<1>4. CASE Fleet BY <1>4, FleetFrame
<1>5. CASE UNCHANGED vars BY <1>5 DEF vars
<1>. QED BY <1>1, <1>2, <1>3, <1>4, <1>5, CommandStepIsNext DEF Next

\* As long as nothing else decides, only rollbacks, what is on its way and the
\* fleet make steps.
LEMMA AloneMoves ==
    ASSUME CommandInv, [CommandNext]_allVars, Undisturbed'
    PROVE  /\ Undisturbed
           /\ \/ \E b \in Rollbacks :
                    RollbackCheck(b) \/ RollbackCall(b) \/ RollbackPoll(b) \/ RollbackFail(b)
              \/ /\ UNCHANGED back
                 /\ \/ \E o \in Ops : Timeout(o) \/ Unavailable(o) \/ Expire(o)
                    \/ \E m \in puts : ApplyPut(m)
                    \/ Fleet
                    \/ UNCHANGED vars
<1>0. /\ TypeOK /\ CommandTypeOK
      /\ \A d \in Deploys : deploy[d] \in DeployState
      /\ FreeOps \subseteq Ops
    BY DEF CommandInv, IInv, CommandTypeOK, FreeOps
<1>1. ASSUME NEW d \in Deploys PROVE deploy'[d] = deploy[d]
    <2>. SUFFICES ASSUME deploy'[d] # deploy[d] PROVE FALSE
        OBVIOUS
    <2>1. deploy'[d].pc = "start" BY DEF Undisturbed
    <2>2. CASE DeployPoll(d)
        <3>1. \/ deploy'[d] = [pc |-> "ready", relied |-> Busy(DeployPool[d])]
              \/ deploy'[d] = [deploy[d] EXCEPT !.pc = "failed"]
            BY <1>0, <2>2 DEF DeployPoll, CommandTypeOK
        <3>. QED BY <1>0, <2>1, <3>1 DEF DeployState
    <2>3. CASE deploy'[d] = [deploy[d] EXCEPT !.pc = "submitted"]
        BY <1>0, <2>1, <2>3 DEF DeployState
    <2>. QED BY <1>0, <2>1, <2>2, <2>3, DeployMoves
<1>2. \A d \in Deploys : deploy[d].pc = "start" /\ deploy'[d].pc = "start"
    BY <1>1 DEF Undisturbed
<1>3. \A o \in FreeOps : op'[o] = op[o] /\ op[o].pc = "idle"
    BY <1>0, NeverIdleAgain DEF Undisturbed
<1>4. Undisturbed BY <1>2, <1>3 DEF Undisturbed
<1>5. ASSUME NEW d \in Deploys,
             FirstCheck(d) \/ DeployCall(d) \/ DeployPoll(d) \/ DeployFail(d) \/ Redeploy(d)
      PROVE  FALSE
    <2>1. CASE FirstCheck(d) BY <1>0, <1>2, <2>1 DEF FirstCheck, CommandTypeOK, DeployState
    <2>2. CASE DeployFail(d) BY <1>0, <1>2, <2>2 DEF DeployFail, CommandTypeOK, DeployState
    <2>. QED BY <1>2, <1>5, <2>1, <2>2 DEF DeployCall, DeployPoll, Redeploy
<1>6. ASSUME NEW o \in FreeOps, Client(o) PROVE FALSE
    <2>1. o \in Ops /\ op'[o] = op[o] /\ op[o].pc = "idle" /\ Process("failed").pc = "failed"
        BY <1>0, <1>3 DEF Process
    <2>2. CASE \E r \in Requests : Call(o, r) BY <1>0, <2>1, <2>2 DEF Call, TypeOK, OpState
    <2>3. CASE Refuse(o) BY <1>0, <2>1, <2>3 DEF Refuse, TypeOK
    <2>. QED
        BY <1>6, <2>1, <2>2, <2>3 DEF Client, Timeout, Unavailable, Poll, Expire
<1>7. CASE \E b \in Rollbacks :
              RollbackCheck(b) \/ RollbackCall(b) \/ RollbackPoll(b) \/ RollbackFail(b)
    BY <1>4, <1>7
<1>8. CASE OtherStep BY <1>4, <1>6, <1>8 DEF OtherStep, cmdVars
<1>9. CASE UNCHANGED allVars BY <1>4, <1>9 DEF allVars, vars, cmdVars
<1>. QED BY <1>5, <1>7, <1>8, <1>9 DEF CommandNext, CommandStep

\* The source is left only once the target is asked to take over, and what is on
\* its way asks for nothing else.
Alone(b) ==
    /\ \E p \in Pools : pool[p].recovery
    /\ \A d \in Deploys : op[DeployOp[d]].pc = "idle"
    /\ \A m \in puts :
          /\ op[m.op].pc # "idle"
          /\ m.op = EnableOp[b] => m.request = Resumed(Goal[b])
          /\ m.op = LeaveOp[b] => m.request = Withdrawn(Source[b])
    /\ op[EnableOp[b]].pc \in {"sent", "waiting", "ok"} =>
          op[EnableOp[b]].request = Resumed(Goal[b])
    /\ back[b] \in {"start", "enabling"} => op[LeaveOp[b]].pc = "idle"
    /\ back[b] \in {"enabling", "leaving"} => Source[b] # Goal[b]
    /\ back[b] = "leaving" \/ op[LeaveOp[b]].pc # "idle" =>
          Source[b] # Goal[b] /\ pool[Goal[b]].recovery

AloneInv(b) == Undisturbed => Alone(b)

OneRollback(b) == Rollbacks = {b} /\ EnableOp[b] # LeaveOp[b]

LEMMA ResumedIs ==
    ASSUME NEW p \in Pools
    PROVE  /\ Resumed(p).pool = p /\ Resumed(p).recovery /\ Resumed(p).evidence = NoEvidence
           /\ Withdrawn(p).pool = p
BY DEF Resumed, Withdrawn

LEMMA PutsAlone ==
    ASSUME CommandInv, NEW b, OneRollback(b), Undisturbed, Alone(b), NEW m \in puts, ApplyPut(m)
    PROVE  /\ m.op \in {EnableOp[b], LeaveOp[b]} /\ op[m.op].pc # "idle"
           /\ \E p \in Pools : pool'[p].recovery
           /\ pool[Goal[b]].recovery /\ Source[b] # Goal[b] => pool'[Goal[b]].recovery
           /\ \A o \in Ops : op[o].pc = "idle" => op'[o] = op[o]
           /\ puts' \subseteq puts /\ \A o \in Ops : op[o].pc # "idle" => op'[o].pc # "idle"
<1>0. TypeOK /\ m.op \in Ops /\ m.request \in Request /\ Goal[b] \in Pools /\ Source[b] \in Pools
    BY CommandAssumption DEF CommandInv, IInv, TypeOK, PutMessage, OneRollback
<1>1. op[m.op].pc # "idle" BY DEF Alone
<1>2. m.op \in {EnableOp[b], LeaveOp[b]}
    BY <1>0, <1>1 DEF Undisturbed, FreeOps, OneRollback, Alone
<1>3. /\ m.op = EnableOp[b] => m.request.pool = Goal[b] /\ m.request.recovery
      /\ m.op = LeaveOp[b] => m.request.pool = Source[b]
    BY <1>0, ResumedIs DEF Alone
<1>4. \/ pool' = pool
      \/ /\ \A p \in Pools \ {m.request.pool} : pool'[p] = pool[p]
         /\ pool'[m.request.pool].recovery = m.request.recovery
    BY <1>0 DEF ApplyPut, TypeOK, PoolState, Request
<1>5. pool[Goal[b]].recovery /\ Source[b] # Goal[b] => pool'[Goal[b]].recovery
    BY <1>0, <1>2, <1>3, <1>4
<1>6. \E p \in Pools : pool'[p].recovery
    <2>1. CASE m.op = EnableOp[b] BY <1>0, <1>3, <1>4, <2>1 DEF Alone
    <2>2. CASE m.op = LeaveOp[b]
        <3>1. pool[Goal[b]].recovery /\ Source[b] # Goal[b] BY <1>1, <2>2 DEF Alone
        <3>. QED BY <1>0, <1>5, <3>1
    <2>. QED BY <1>2, <2>1, <2>2
<1>7. \A o \in Ops : op[o].pc = "idle" => op'[o] = op[o]
    BY <1>0, <1>1 DEF ApplyPut, TypeOK
<1>8. \A o \in Ops : op[o].pc # "idle" => op'[o].pc # "idle"
    <2>1. ASSUME NEW o \in Ops, op[o].pc # "idle" PROVE op'[o].pc # "idle"
        <3>0. op[o] \in OpState /\ Process("failed").pc = "failed" BY <1>0 DEF TypeOK, Process
        <3>1. \/ op'[o] = op[o] \/ op'[o] = Process("failed")
              \/ op'[o] = [op[o] EXCEPT !.pc = "waiting",
                                        !.revision = pool[m.request.pool].revision + 1]
            BY <1>0 DEF TypeOK, ApplyPut
        <3>. QED BY <2>1, <3>0, <3>1 DEF OpState
    <2>. QED BY <2>1
<1>. QED BY <1>1, <1>2, <1>5, <1>6, <1>7, <1>8 DEF ApplyPut

LEMMA AloneGoesOn ==
    ASSUME CommandInv, NEW b, OneRollback(b), AloneInv(b), [CommandNext]_allVars
    PROVE  AloneInv(b)'
<1>. SUFFICES ASSUME Undisturbed' PROVE Alone(b)'
    BY DEF AloneInv
<1>. DEFINE e == EnableOp[b]
            l == LeaveOp[b]
            g == Goal[b]
            s == Source[b]
<1>0. /\ TypeOK /\ CommandTypeOK /\ IInv /\ b \in Rollbacks /\ e # l
      /\ e \in Ops /\ l \in Ops /\ g \in Pools /\ s \in Pools
      /\ \A d \in Deploys : DeployOp[d] \in Ops /\ DeployOp[d] # e /\ DeployOp[d] # l
      /\ \A m \in puts : m.op \in Ops
    BY CommandAssumption DEF CommandInv, IInv, CommandTypeOK, OneRollback, TypeOK, PutMessage
<1>1. Undisturbed /\ Alone(b) BY AloneMoves DEF AloneInv
<1>2. \A o \in Ops : op[o].pc # "idle" => op'[o].pc # "idle" BY <1>0, NeverIdleAgain
<1>3. op[e].pc # "idle" /\ op'[e].pc \in {"sent", "waiting", "ok"} => op'[e].request = Resumed(g)
    BY <1>0, <1>1, RequestStays DEF Alone
<1>4. ASSUME UNCHANGED <<pool, puts, back>>, \A o \in Ops : op[o].pc = "idle" => op'[o] = op[o]
      PROVE  Alone(b)'
    BY <1>0, <1>1, <1>2, <1>3, <1>4 DEF Alone
<1>5. CASE RollbackCheck(b)
    <2>1. back'[b] = "enabling" /\ s # g /\ back[b] = "start" /\ UNCHANGED <<pool, puts, op>>
        BY <1>0, <1>5 DEF RollbackCheck, vars, CommandTypeOK
    <2>. QED BY <1>1, <2>1 DEF Alone
<1>6. CASE RollbackFail(b)
    <2>1. back'[b] = "failed" /\ UNCHANGED <<pool, puts, op>>
        BY <1>0, <1>6 DEF RollbackFail, vars, CommandTypeOK
    <2>. QED BY <1>1, <2>1 DEF Alone
<1>7. CASE back[b] = "enabling" /\ Call(e, Resumed(g)) /\ UNCHANGED back
    <2>1. /\ op'[e].pc = "sent" /\ op'[e].request = Resumed(g)
          /\ \A o \in Ops \ {e} : op'[o] = op[o]
          /\ \A m \in puts' : m \in puts \/ (m.op = e /\ m.request = Resumed(g))
          /\ UNCHANGED pool
        BY <1>0, <1>7 DEF Call, TypeOK, OpState
    <2>. QED BY <1>0, <1>1, <1>7, <2>1 DEF Alone
<1>8. CASE back[b] = "leaving" /\ Call(l, Withdrawn(s)) /\ UNCHANGED back
    <2>1. /\ op'[l].pc = "sent" /\ \A o \in Ops \ {l} : op'[o] = op[o]
          /\ \A m \in puts' : m \in puts \/ (m.op = l /\ m.request = Withdrawn(s))
          /\ UNCHANGED pool
        BY <1>0, <1>8 DEF Call, TypeOK, OpState
    <2>. QED BY <1>0, <1>1, <1>8, <2>1 DEF Alone
<1>9. CASE back[b] = "enabling" /\ RollbackPoll(b)
    <2>1. /\ Poll(e) /\ UNCHANGED <<pool, puts>>
          /\ back'[b] = IF op'[e].pc = "ok" THEN "leaving" ELSE "failed"
        BY <1>0, <1>9 DEF RollbackPoll, Poll, CommandTypeOK
    <2>2. \A o \in Ops : op[o].pc = "idle" => op'[o] = op[o] BY <1>0, <2>1 DEF Poll, TypeOK
    <2>3. ASSUME op'[e].pc = "ok" PROVE pool[g].recovery
        <3>1. Process("failed").pc = "failed" BY DEF Process
        <3>2. StillDesired(e) BY <1>0, <2>1, <2>3, <3>1 DEF Poll, TypeOK
        <3>3. op[e].request = Resumed(g) BY <1>1, <2>1 DEF Alone, Poll
        <3>. QED BY <1>0, <3>2, <3>3, ResumedIs DEF StillDesired
    <2>. QED BY <1>0, <1>1, <1>2, <1>3, <1>9, <2>1, <2>2, <2>3 DEF Alone
<1>10. CASE back[b] = "leaving" /\ RollbackPoll(b)
    <2>1. Poll(l) /\ UNCHANGED <<pool, puts>> /\ back'[b] \in {"done", "failed"}
        BY <1>0, <1>10 DEF RollbackPoll, Poll, CommandTypeOK
    <2>2. \A o \in Ops : op[o].pc = "idle" => op'[o] = op[o] BY <1>0, <2>1 DEF Poll, TypeOK
    <2>. QED BY <1>0, <1>1, <1>2, <1>3, <1>10, <2>1, <2>2 DEF Alone
<1>11. ASSUME NEW m \in puts, ApplyPut(m), UNCHANGED back PROVE Alone(b)'
    <2>1. /\ \E p \in Pools : pool'[p].recovery
          /\ pool[g].recovery /\ s # g => pool'[g].recovery
          /\ \A o \in Ops : op[o].pc = "idle" => op'[o] = op[o]
          /\ puts' \subseteq puts
        BY <1>1, <1>11, PutsAlone
    <2>. QED BY <1>0, <1>1, <1>2, <1>3, <1>11, <2>1 DEF Alone
<1>12. ASSUME NEW o \in Ops, Timeout(o) \/ Unavailable(o) \/ Expire(o), UNCHANGED back
       PROVE  Alone(b)'
    <2>1. UNCHANGED <<pool, puts>> /\ \A n \in Ops : op[n].pc = "idle" => op'[n] = op[n]
        BY <1>0, <1>12 DEF Timeout, Unavailable, Expire, TypeOK
    <2>. QED BY <1>4, <1>12, <2>1
<1>13. CASE Fleet /\ UNCHANGED back BY <1>0, <1>4, <1>13, FleetFrame
<1>14. CASE UNCHANGED vars /\ UNCHANGED back BY <1>4, <1>14 DEF vars
<1>15. ASSUME NEW c \in Rollbacks,
              RollbackCheck(c) \/ RollbackCall(c) \/ RollbackPoll(c) \/ RollbackFail(c)
       PROVE  Alone(b)'
    <2>1. c = b BY DEF OneRollback
    <2>. QED
        BY <1>5, <1>6, <1>7, <1>8, <1>9, <1>10, <1>15, <2>1 DEF RollbackCall, RollbackPoll, cmdVars
<1>. QED BY <1>11, <1>12, <1>13, <1>14, <1>15, AloneMoves

\* A rollback that runs alone, in a fleet where some pool takes sessions over,
\* never leaves it without one, wherever it fails and whatever of it comes late.
THEOREM RollbackAlwaysKeepsRecovery ==
    ASSUME NEW b, OneRollback(b)
    PROVE  CommandInit /\ (\E p \in Pools : pool[p].recovery) /\ [][CommandNext]_allVars
           => []RollbackKeepsRecovery
<1>1. CommandInit /\ (\E p \in Pools : pool[p].recovery) => AloneInv(b)
    BY CommandAssumption DEF CommandInit, Init, AloneInv, Alone, OneRollback, Process
<1>2. CommandInv /\ AloneInv(b) /\ [CommandNext]_allVars => AloneInv(b)' BY AloneGoesOn
<1>3. AloneInv(b) => RollbackKeepsRecovery BY DEF AloneInv, Alone, RollbackKeepsRecovery
<1>. QED BY <1>1, <1>2, <1>3, CommandBegins, CommandGoesOn, PTL

-----------------------------------------------------------------------------
(* A deploy on its own.                                                    *)

\* What a deploy has on its way asks for nothing but the withdrawal of its pool.
OwnPuts == \A d \in Deploys : \A m \in puts :
              m.op = DeployOp[d] => m.request = Withdrawn(DeployPool[d])

\* What the second check found, as long as nothing else has decided: a pool for
\* the work, or none, and none that begins.
FoundAt(d) ==
    LET p == DeployPool[d]
    IN  IF deploy[d].relied
        THEN \E q \in Pools \ {p} :
                pool[q].recovery /\ ~pool[q].retiring /\ lineage[q] = Target[d]
        ELSE ~Accepting(pool[p]) /\ Quiet(p) /\ ~Busy(p)

LoneAt == \A d \in Deploys : deploy[d].pc = "ready" /\ Lone(d) => FoundAt(d)

LEMMA OwnPutsGoOn ==
    ASSUME CommandInv, OwnPuts, [CommandNext]_allVars
    PROVE  OwnPuts'
<1>. SUFFICES ASSUME NEW d \in Deploys, NEW m \in puts', m.op = DeployOp[d], m \notin puts
              PROVE  m.request = Withdrawn(DeployPool[d])
    BY DEF OwnPuts, Withdrawn
<1>. DEFINE o == DeployOp[d]
<1>0. o \in Ops /\ TypeOK /\ SenderInv' BY CommandAssumption, CommandsKeepIInv DEF CommandInv, IInv
<1>1. PICK n \in Ops, r \in Requests : Call(n, r)
    <2>1. CASE \E e \in Deploys : Redeploy(e) BY <2>1 DEF Redeploy
    <2>2. CASE \E n \in Ops : Client(n)
        BY <2>2 DEF Client, Refuse, Timeout, Unavailable, Poll, Expire
    <2>3. CASE \E n \in puts : ApplyPut(n) BY <2>3 DEF ApplyPut
    <2>4. CASE Fleet BY <1>0, <2>4, FleetFrame
    <2>5. CASE UNCHANGED vars BY <2>5 DEF vars
    <2>. QED BY <1>0, <2>1, <2>2, <2>3, <2>4, <2>5, CommandStepIsNext DEF Next
<1>2. m.op = n /\ m.request = r BY <1>1 DEF Call
<1>3. op[o].pc = "idle" /\ op'[o].pc = "sent" /\ op'[o].request = m.request
    BY <1>0, <1>1, <1>2 DEF Call, TypeOK, OpState
<1>. QED BY <1>3, OwnCallIsMadeOnce

LEMMA FoundGoesOn ==
    ASSUME CommandInv, OwnPuts, LoneAt, [CommandNext]_allVars
    PROVE  LoneAt'
<1>. SUFFICES ASSUME NEW d \in Deploys, deploy'[d].pc = "ready", Lone(d)'
              PROVE  FoundAt(d)'
    BY DEF LoneAt
<1>. DEFINE o == DeployOp[d]
            p == DeployPool[d]
<1>0. /\ CommandTypeOK /\ TypeOK /\ IInv /\ deploy[d] \in DeployState
      /\ p \in Pools /\ o \in Ops
    BY CommandAssumption DEF CommandInv, CommandTypeOK
<1>1. Lone(d) BY <1>0, NeverIdleAgain DEF Lone
<1>2. ASSUME NEW e \in Deploys, Redeploy(e) PROVE FALSE
    <2>1. CASE e = d BY <1>0, <1>2, <2>1 DEF Redeploy, DeployState, CommandTypeOK
    <2>2. CASE e # d
        <3>1. op[DeployOp[e]].pc = "ok" BY <1>2 DEF Redeploy, CommandInv, OwnCall
        <3>2. DeployOp[e] \in Ops \ {o} BY <2>2, CommandAssumption
        <3>. QED BY <1>1, <3>1, <3>2 DEF Lone
    <2>. QED BY <2>1, <2>2
<1>3. lineage' = lineage
    BY <1>2, Zenon DEF CommandNext, CommandStep, OtherStep, FirstCheck, DeployCall, DeployPoll,
       DeployFail, RollbackCheck, RollbackCall, RollbackPoll, RollbackFail, allVars, cmdVars
<1>4. CASE deploy'[d] = deploy[d]
    <2>1. FoundAt(d) BY <1>1, <1>4 DEF LoneAt
    <2>2. ASSUME NEW m \in puts, ApplyPut(m) PROVE FoundAt(d)'
        <3>1. m.op \in Ops /\ op[m.op].pc # "idle" BY <1>0, <2>2, ApplyPutEffect DEF IInv, SenderInv
        <3>2. m.request = Withdrawn(p) BY <1>1, <3>1 DEF Lone, OwnPuts
        <3>3. /\ UNCHANGED <<launcher, duties>>
              /\ \A q \in Pools \ {p} : pool'[q] = pool[q]
              /\ pool'[p] = pool[p] \/ ~Accepting(pool'[p])
            BY <1>0, <2>2, <3>2, WithdrawnType, ApplyPutEffect DEF Accepting
        <3>. QED BY <1>0, <1>3, <1>4, <2>1, <3>3 DEF FoundAt, Quiet, Busy, Members
    <2>3. CASE Fleet
        <3>1. pool' = pool BY <1>0, <2>3, FleetFrame
        <3>2. ~Accepting(pool[p]) /\ Quiet(p) /\ ~Busy(p) => Quiet(p)' /\ ~Busy(p)'
            BY <1>0, <2>3, FleetKeepsIdle, FleetKeepsQuiet
        <3>. QED BY <1>3, <1>4, <2>1, <3>1, <3>2 DEF FoundAt
    <2>4. CASE UNCHANGED <<pool, launcher, duties>>
        BY <1>3, <1>4, <2>1, <2>4 DEF FoundAt, Quiet, Busy, Members
    <2>. QED
        BY <1>0, <1>2, <2>2, <2>3, <2>4, CommandStepIsNext, ClientFrame DEF Next, vars
<1>5. CASE deploy'[d] # deploy[d]
    <2>1. DeployPoll(d) BY <1>0, <1>5, DeployMoves DEF DeployState
    <2>2. deploy' = [deploy EXCEPT ![d].pc = "failed"] => deploy'[d].pc = "failed"
        BY <1>0 DEF DeployState, CommandTypeOK
    <2>3. /\ IF Busy(p) THEN Covered(d) ELSE Retirable(p)
          /\ deploy' = [deploy EXCEPT ![d] = [pc |-> "ready", relied |-> Busy(p)]]
          /\ UNCHANGED <<pool, launcher, duties>>
        BY <2>1, <2>2 DEF DeployPoll, Poll
    <2>4. deploy'[d].relied <=> Busy(p) BY <1>0, <2>3 DEF CommandTypeOK
    <2>5. CASE Busy(p)
        BY <1>3, <2>3, <2>4, <2>5 DEF FoundAt, Covered, Alternative
    <2>6. CASE ~Busy(p)
        <3>1. ~Accepting(pool[p]) /\ Quiet(p) BY <1>0, <2>3, <2>6, RetirableIsIdle DEF Retirable, IInv
        <3>. QED BY <2>3, <2>4, <2>6, <3>1 DEF FoundAt, Quiet, Busy, Members
    <2>. QED BY <2>5, <2>6
<1>. QED BY <1>4, <1>5

\* A deploy beside which nothing else has decided has the work of its pool replaced
\* only while another pool of its lineage takes it over, whatever its
\* launchers, those of the other pool and its own late requests do.
THEOREM LoneDeploysKeepRecovery == CommandSpec => LoneDeployKeepsRecovery
<1>1. CommandInit => OwnPuts /\ LoneAt BY DEF CommandInit, Init, OwnPuts, LoneAt
<1>2. CommandInv /\ OwnPuts /\ LoneAt /\ [CommandNext]_allVars => OwnPuts' /\ LoneAt'
    BY OwnPutsGoOn, FoundGoesOn
<1>3. CommandInv /\ LoneAt =>
        \A d \in Deploys : Redeploy(d) /\ Lone(d) /\ Busy(DeployPool[d]) =>
            \E q \in Pools \ {DeployPool[d]} :
                /\ pool[q].recovery /\ ~pool[q].retiring
                /\ lineage[q] = lineage'[DeployPool[d]]
    BY CommandAssumption DEF CommandInv, CommandTypeOK, LoneAt, FoundAt, Redeploy
<1>. QED BY <1>1, <1>2, <1>3, CommandInvHolds, PTL DEF CommandSpec, LoneDeployKeepsRecovery

=============================================================================
