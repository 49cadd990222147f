--------------------------- MODULE MCFleetCommands --------------------------
(* Two pools of one replica each for TLC, and a few mixes of commands. *)
EXTENDS FleetCommands

CONSTANTS pa, pb, la, lb, oa, ob, oc, od, oe, of, da, db, dc, rb, x, y

MCPoolOf == [l \in {la, lb} |-> IF l = la THEN pa ELSE pb]
MCReplicas == [p \in {pa, pb} |-> 1]
MCNone == <<>>

\* A deploy for each pool, and one of an image of another lineage.
MCDeployPool == [d \in Deploys |-> IF d = db THEN pb ELSE pa]
MCDeployOp == [d \in Deploys |-> CASE d = da -> oa [] d = db -> ob [] d = dc -> oc]
MCTarget == [d \in Deploys |-> IF d = dc THEN y ELSE x]

\* One rollback.
MCSource == [b \in {rb} |-> pa]
MCGoal == [b \in {rb} |-> pb]
MCEnableOp == [b \in {rb} |-> od]
MCLeaveOp == [b \in {rb} |-> oe]

\* A fleet after its first cutover: every pool is attested and its launchers
\* are up to date.
Serving ==
    /\ CommandInit
    /\ legacyDrained
    /\ lineage[pa] = x
    /\ \A p \in Pools : pool[p].evidence # NoEvidence
    /\ \A l \in Launchers : launcher[l].live

\* Every pool has duties a deploy must find another pool for.
BothServing == Serving /\ \A p \in Pools : pool[p].initial /\ duties[p] = MaxWork
SourceServing == Serving /\ pool[pa].initial /\ ~pool[pb].recovery

ServingSpec == BothServing /\ [][CommandNext]_allVars
MixedSpec == (BothServing \/ SourceServing) /\ [][CommandNext]_allVars

\* Both deploys that keep the lineage, until one fails or both are submitted,
\* without a crash, and a free call that resumes the pool of one of them.
TwoDeploys ==
    /\ \E d \in {da, db} : deploy[d].pc # "submitted"
    /\ \A d \in {da, db} : deploy[d].pc # "failed"
    /\ deploy[dc].pc = "start"
    /\ back[rb] = "start"
    /\ \A p \in Pools : lineage[p] = x
    /\ \A l \in Launchers :
          \/ launcher[l].live /\ launcher[l].ready
          \/ \E d \in {da, db} : PoolOf[l] = DeployPool[d] /\ deploy[d].pc = "submitted"
    /\ \A o \in FreeOps : op[o].pc = "idle" \/ op[o].request \in {Process("idle").request, Resumed(pa)}

\* The deploy that changes the lineage, beside any free call.
OneDeploy ==
    /\ \A d \in {da, db} : deploy[d].pc = "start"
    /\ back[rb] = "start"

OneMix == TwoDeploys \/ OneDeploy \/ Undisturbed
=============================================================================
