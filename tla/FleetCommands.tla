--------------------------- MODULE FleetCommands ----------------------------
(***************************************************************************)
(* The commands that make more than one admission decision, or act on the  *)
(* provider after one: deploy_approved of scripts/runtime_provider.py and  *)
(* the rollback command of scripts/runtime_fleet.py, running beside plain  *)
(* withdraw, resume, retire and cutover calls.                             *)
(*                                                                         *)
(* Every admission decision is a set_admission call of FleetAdmission.     *)
(***************************************************************************)
EXTENDS FleetAdmission

CONSTANTS Lineages,   \* compatibility inventories an image can have
          Deploys,    \* invocations of deploy-approved
          DeployPool, \* the pool whose service a deploy replaces
          DeployOp,   \* the set_admission call of a deploy
          Target,     \* the lineage of a deploy's approved image
          Rollbacks,  \* invocations of rollback
          Source,     \* the pool a rollback leaves
          Goal,       \* the pool it returns to
          EnableOp,   \* its set_admission call on the target pool
          LeaveOp     \* its set_admission call on the source pool

\* Every command makes calls of its own.
ASSUME CommandAssumption ==
    /\ IsFiniteSet(Launchers)
    /\ DeployPool \in [Deploys -> Pools]
    /\ DeployOp \in [Deploys -> Ops]
    /\ Target \in [Deploys -> Lineages]
    /\ Source \in [Rollbacks -> Pools]
    /\ Goal \in [Rollbacks -> Pools]
    /\ EnableOp \in [Rollbacks -> Ops]
    /\ LeaveOp \in [Rollbacks -> Ops]
    /\ \A c, d \in Deploys : DeployOp[c] = DeployOp[d] => c = d
    /\ \A d \in Deploys, b \in Rollbacks : DeployOp[d] \notin {EnableOp[b], LeaveOp[b]}

VARIABLES lineage, \* compatibility lineage of a pool's incarnations and duties
          deploy,  \* progress of each deploy-approved
          back     \* progress of each rollback

cmdVars == <<lineage, deploy, back>>
allVars == <<vars, cmdVars>>

\* relied: the second check found duties and leaned on another pool.
DeployState == [pc : {"start", "checked", "ready", "submitted", "failed"}, relied : BOOLEAN]

\* The calls no command owns are plain invocations of the CLI.
FreeOps == Ops \ ({DeployOp[d] : d \in Deploys} \cup {EnableOp[b] : b \in Rollbacks}
                                                \cup {LeaveOp[b] : b \in Rollbacks})

Withdrawn(p) == [pool |-> p, initial |-> FALSE, recovery |-> FALSE, retiring |-> FALSE,
                 evidence |-> NoEvidence]

Resumed(p) == [Withdrawn(p) EXCEPT !.initial = TRUE, !.recovery = TRUE]

-----------------------------------------------------------------------------
(* deploy_approved.                                                        *)

\* require_recovery_alternative: another pool takes over sessions of this
\* lineage, and its incarnations have acknowledged that.
Alternative(p, build) ==
    /\ dataReady
    /\ \E q \in Pools \ {p} :
          /\ pool[q].recovery
          /\ ~pool[q].retiring
          /\ FirstCutoverAuthorized(q, NoEvidence)
          /\ lineage[q] = build
          /\ PoolAck(q)

\* A slip to be caught: the lineage of the duties is not compared.
CoveredAnyLineage(d) == Alternative(DeployPool[d], Target[d])

\* A slip to be caught: no other pool is looked for.
CoveredByNone(d) == lineage[DeployPool[d]] = Target[d]

\* What both checks demand of a pool that has obligations.
Covered(d) ==
    LET p == DeployPool[d]
    IN  lineage[p] = Target[d] /\ Alternative(p, Target[d])

\* pool_has_obligations needs an acknowledged pool before it can answer.
FirstCheck(d) ==
    /\ deploy[d].pc = "start"
    /\ dataReady
    /\ PoolAck(DeployPool[d])
    /\ Busy(DeployPool[d]) => Covered(d)
    /\ deploy' = [deploy EXCEPT ![d].pc = "checked"]
    /\ UNCHANGED <<vars, lineage, back>>

\* The call that withdraws the pool.
DeployCall(d) ==
    /\ deploy[d].pc = "checked"
    /\ Call(DeployOp[d], Withdrawn(DeployPool[d]))
    /\ UNCHANGED cmdVars

\* A slip to be caught: the withdrawal is not followed by a second check.
DeployPollOnce(d) ==
    /\ deploy[d].pc = "checked"
    /\ Poll(DeployOp[d])
    /\ deploy' = [deploy EXCEPT ![d] =
          IF op'[DeployOp[d]].pc = "ok" THEN [pc |-> "ready", relied |-> Busy(DeployPool[d])]
                                        ELSE [@ EXCEPT !.pc = "failed"]]
    /\ UNCHANGED <<lineage, back>>

\* The second check reads the very snapshot with which the call returns.
DeployPoll(d) ==
    LET p == DeployPool[d]
        o == DeployOp[d]
    IN  /\ deploy[d].pc = "checked"
        /\ Poll(o)
        /\ \/ /\ op'[o].pc = "ok"
              /\ IF Busy(p) THEN Covered(d) ELSE Retirable(p)
              /\ deploy' = [deploy EXCEPT ![d] = [pc |-> "ready", relied |-> Busy(p)]]
           \/ /\ op'[o].pc = "ok"
              /\ ~IF Busy(p) THEN Covered(d) ELSE Retirable(p)
              /\ deploy' = [deploy EXCEPT ![d].pc = "failed"]
           \/ /\ op'[o].pc = "failed"
              /\ deploy' = [deploy EXCEPT ![d].pc = "failed"]
        /\ UNCHANGED <<lineage, back>>

\* A check fails, the registry is unavailable, Railway refuses, or the
\* operator's process ends.
DeployFail(d) ==
    /\ deploy[d].pc \notin {"submitted", "failed"}
    /\ op[DeployOp[d]].pc # "sent"
    /\ deploy' = [deploy EXCEPT ![d].pc = "failed"]
    /\ op' = [op EXCEPT ![DeployOp[d]] =
          IF @.pc \in {"idle", "waiting"} THEN Process("failed") ELSE @]
    /\ UNCHANGED <<pool, launcher, duties, legacyDrained, dataReady, puts, lineage, back>>

\* What the incarnations of a pool are doing, each job under its number.
Jobs(p) == {j \in Members(p) \X (1 .. MaxWork) : j[2] <= launcher[j[1]].jobs}

\* railway service redeploy: the provider replaces the pool's incarnations;
\* what they were doing stays behind as duties.
Redeploy(d) ==
    LET p == DeployPool[d]
    IN  /\ deploy[d].pc = "ready"
        /\ deploy' = [deploy EXCEPT ![d].pc = "submitted"]
        /\ lineage' = [lineage EXCEPT ![p] = Target[d]]
        /\ launcher' = [l \in Launchers |-> IF l \in Members(p) THEN NoIncarnation
                                                               ELSE launcher[l]]
        /\ duties' = [duties EXCEPT ![p] = @ + Cardinality(Jobs(p))]
        /\ UNCHANGED <<pool, legacyDrained, dataReady, op, puts, back>>

-----------------------------------------------------------------------------
(* rollback: enable the target pool, then withdraw the source pool.        *)

\* A slip to be caught: the source pool is left before the target is enabled.
RollbackCheckSwapped(b) ==
    /\ back[b] = "start"
    /\ Source[b] # Goal[b]
    /\ lineage[Source[b]] = lineage[Goal[b]]
    /\ PoolAck(Source[b])
    /\ PoolAck(Goal[b])
    /\ back' = [back EXCEPT ![b] = "leaving"]
    /\ UNCHANGED <<vars, lineage, deploy>>

\* The operator names two pools; both run the inventories named, and these agree.
RollbackCheck(b) ==
    /\ back[b] = "start"
    /\ Source[b] # Goal[b]
    /\ lineage[Source[b]] = lineage[Goal[b]]
    /\ PoolAck(Source[b])
    /\ PoolAck(Goal[b])
    /\ \A l \in Launchers : launcher[l].live => PoolOf[l] \in {Source[b], Goal[b]}
    /\ back' = [back EXCEPT ![b] = "enabling"]
    /\ UNCHANGED <<vars, lineage, deploy>>

RollbackCall(b) ==
    /\ \/ back[b] = "enabling" /\ Call(EnableOp[b], Resumed(Goal[b]))
       \/ back[b] = "leaving" /\ Call(LeaveOp[b], Withdrawn(Source[b]))
    /\ UNCHANGED cmdVars

RollbackPoll(b) ==
    /\ \/ /\ back[b] = "enabling"
          /\ Poll(EnableOp[b])
          /\ back' = [back EXCEPT ![b] =
                IF op'[EnableOp[b]].pc = "ok" THEN "leaving" ELSE "failed"]
       \/ /\ back[b] = "leaving"
          /\ Poll(LeaveOp[b])
          /\ back' = [back EXCEPT ![b] =
                IF op'[LeaveOp[b]].pc = "ok" THEN "done" ELSE "failed"]
    /\ UNCHANGED <<lineage, deploy>>

\* Any failed check or call ends the command where it is.
RollbackFail(b) ==
    /\ back[b] \in {"start", "enabling", "leaving"}
    /\ back' = [back EXCEPT ![b] = "failed"]
    /\ UNCHANGED <<vars, lineage, deploy>>

-----------------------------------------------------------------------------
(* The specification.                                                      *)

CommandInit ==
    /\ Init
    /\ lineage \in [Pools -> Lineages]
    /\ deploy = [d \in Deploys |-> [pc |-> "start", relied |-> FALSE]]
    /\ back = [b \in Rollbacks |-> "start"]

\* The calls of the commands; a PUT or a poll of a command that has ended
\* goes on only on the wire.
CommandStep ==
    \/ \E d \in Deploys :
          FirstCheck(d) \/ DeployCall(d) \/ DeployPoll(d) \/ DeployFail(d) \/ Redeploy(d)
    \/ \E b \in Rollbacks :
          RollbackCheck(b) \/ RollbackCall(b) \/ RollbackPoll(b) \/ RollbackFail(b)

OtherStep ==
    /\ \/ \E o \in FreeOps : Client(o)
       \/ \E o \in Ops \ FreeOps : Timeout(o) \/ Unavailable(o) \/ Expire(o)
       \/ \E m \in puts : ApplyPut(m)
       \/ Fleet
    /\ UNCHANGED cmdVars

CommandNext == CommandStep \/ OtherStep

CommandSpec == CommandInit /\ [][CommandNext]_allVars

-----------------------------------------------------------------------------
(* Properties.                                                             *)

CommandTypeOK ==
    /\ TypeOK
    /\ lineage \in [Pools -> Lineages]
    /\ deploy \in [Deploys -> DeployState]
    /\ back \in [Rollbacks -> {"start", "enabling", "leaving", "done", "failed"}]

\* The withdrawal a deploy made is still the latest decision on its pool.
WithdrawalStands(d) ==
    /\ op[DeployOp[d]].revision > 0
    /\ pool[DeployPool[d]].revision = op[DeployOp[d]].revision

\* Two deploys cannot each lean on the pool the other one is taking down: if
\* both found an alternative, one of the two withdrawals has been superseded.
DeploysDoNotLeanOnEachOther ==
    \A c, d \in Deploys :
        /\ DeployPool[c] # DeployPool[d]
        /\ \A e \in {c, d} : deploy[e].pc \in {"ready", "submitted"} /\ deploy[e].relied
        => ~(WithdrawalStands(c) /\ WithdrawalStands(d) /\ Pools = {DeployPool[c], DeployPool[d]})

\* A deploy that leaned on nothing replaces an idle pool, and one that changes
\* the lineage strands no duty, unless another decision superseded its
\* withdrawal in between, or a superseded deploy of the same pool went ahead.
IdleRedeployStrandsNothing ==
    [][\A d \in Deploys :
          Redeploy(d) /\ WithdrawalStands(d)
          => \/ ~Busy(DeployPool[d])
             \/ deploy[d].relied /\ lineage'[DeployPool[d]] = lineage[DeployPool[d]]]_allVars

\* Nothing but rollbacks has made a decision.
Undisturbed ==
    /\ \A d \in Deploys : deploy[d].pc = "start"
    /\ \A o \in FreeOps : op[o].pc = "idle"

\* A rollback on its own never leaves the fleet without a pool asked to take
\* over sessions, wherever it fails.
RollbackKeepsRecovery == Undisturbed => \E p \in Pools : pool[p].recovery

\* No other call has been made.
Lone(d) == \A o \in Ops \ {DeployOp[d]} : op[o].pc = "idle"

\* A deploy that is the only command to decide anything has the work of its pool
\* replaced only while another pool of the same lineage takes it over: what it
\* found in the second check still holds, whatever the fleet has done since.
LoneDeployKeepsRecovery ==
    [][\A d \in Deploys :
          Redeploy(d) /\ Lone(d) /\ Busy(DeployPool[d])
          => \E q \in Pools \ {DeployPool[d]} :
                /\ pool[q].recovery /\ ~pool[q].retiring
                /\ lineage[q] = lineage'[DeployPool[d]]]_allVars

\* "newly accepted work must not lose its only recovery pool": when the
\* provider is asked to replace a pool with duties, another pool still takes
\* them over.
WorkKeepsRecoveryPool ==
    [][\A d \in Deploys :
          Redeploy(d) /\ Busy(DeployPool[d])
          => \E q \in Pools \ {DeployPool[d]} : pool[q].recovery /\ ~pool[q].retiring]_allVars

=============================================================================
