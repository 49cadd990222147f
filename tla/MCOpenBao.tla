------------------------------ MODULE MCOpenBao -----------------------------
(***************************************************************************)
(* The programs around OpenBao for TLC: its initialization, its supervisor,*)
(* the provisioning of AppRoles and the rotation of credentials.  They     *)
(* share no state, so that TLC explores each of them with the others at    *)
(* rest; only the first two move together.                                 *)
(***************************************************************************)
EXTENDS CredentialRotation, AppRoleProvision, PlatformSupervisor, OperatorInit, TLC

CONSTANTS a, b, c

MCTwoApi == [p \in {a, b, c} |-> IF p = c THEN "rag" ELSE "api"]
MCSymmetry == Permutations(Runs)

OpenBaoVars == <<vars, provisionVars, supervisorVars, initVars>>

\* The provisioning and the host at rest.
Unprovisioned == ProvisionInit /\ ~mounted /\ keys = "absent"
HostAtRest == SupervisorInit /\ InitInit /\ output = Nothing /\ ~initialized

OpenBaoInit ==
    /\ Init /\ ProvisionInit /\ SupervisorInit /\ InitInit
    /\ Unprovisioned \/ HostAtRest

HostNext ==
    \/ SupervisorNext /\ UNCHANGED initVars
    \/ InitNext /\ UNCHANGED supervisorVars

OpenBaoNext ==
    \/ Unprovisioned /\ HostAtRest
         /\ Next /\ UNCHANGED <<provisionVars, supervisorVars, initVars>>
    \/ Init /\ HostAtRest
         /\ ProvisionNext /\ UNCHANGED <<vars, supervisorVars, initVars>>
    \/ Init /\ Unprovisioned
         /\ HostNext /\ UNCHANGED <<vars, provisionVars>>

OpenBaoSpec == OpenBaoInit /\ [][OpenBaoNext]_OpenBaoVars
=============================================================================
