-------------------------- MODULE AdmissionControl --------------------------
(***************************************************************************)
(* What the operator commands of scripts/runtime_fleet.py promise about a  *)
(* pool, without requests, acknowledgements or launchers: every decision   *)
(* is taken at once, on the state it changes.  FleetAdmission implements   *)
(* this module.                                                            *)
(***************************************************************************)
EXTENDS Integers

CONSTANTS Pools, Evidence, NoEvidence

VARIABLES pool,    \* durable desired state of each pool
          busy,    \* the pool holds work: a session, an attempt, an obligation
          drained  \* the pre-HA work has ended

vars == <<pool, busy, drained>>

Accepting(s) == s.initial \/ s.recovery

Authorized(p) == drained /\ pool[p].evidence # NoEvidence

Init ==
    /\ pool \in [Pools -> [revision : Nat \ {0}, initial : BOOLEAN, recovery : BOOLEAN,
                           retiring : {FALSE}, evidence : Evidence \cup {NoEvidence}]]
    /\ busy \in [Pools -> BOOLEAN]
    /\ drained \in BOOLEAN
    /\ \A p \in Pools : Accepting(pool[p]) \/ busy[p] => Authorized(p)

\* A decision writes the next revision of one pool that is not retired.
Decide(p, s) ==
    /\ ~pool[p].retiring
    /\ pool' = [pool EXCEPT ![p] = s]
    /\ UNCHANGED <<busy, drained>>

\* withdraw: always possible.
Withdraw(p) ==
    \E s \in [revision : {pool[p].revision + 1}, initial : {FALSE}, recovery : {FALSE},
              retiring : {FALSE}, evidence : {pool[p].evidence}] : Decide(p, s)

\* resume, withdraw --keep-recovery, cutover: after the drain, under the
\* original attestation, which a first cutover may set.
Enable(p) ==
    /\ drained
    /\ \E s \in [revision : {pool[p].revision + 1}, initial : BOOLEAN, recovery : {TRUE},
                 retiring : {FALSE}, evidence : Evidence] :
          /\ pool[p].evidence \in {NoEvidence, s.evidence}
          /\ Decide(p, s)

\* retire: only a withdrawn and idle pool.
Retire(p) ==
    /\ ~Accepting(pool[p])
    /\ ~busy[p]
    /\ \E s \in [revision : {pool[p].revision + 1}, initial : {FALSE}, recovery : {FALSE},
                 retiring : {TRUE}, evidence : {pool[p].evidence}] : Decide(p, s)

\* Work ends at any time, and begins in pools that are authorized and not
\* retired.  A step may move it between pools.
Work ==
    /\ busy' \in [Pools -> BOOLEAN]
    /\ \A p \in Pools : busy'[p] /\ ~busy[p] => Authorized(p) /\ ~pool[p].retiring
    /\ UNCHANGED <<pool, drained>>

Drain ==
    /\ drained' = TRUE
    /\ UNCHANGED <<pool, busy>>

Next ==
    \/ \E p \in Pools : Withdraw(p) \/ Enable(p) \/ Retire(p)
    \/ Work
    \/ Drain

Spec == Init /\ [][Next]_vars

=============================================================================
