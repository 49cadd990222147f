--------------------------- MODULE FleetAdmission ---------------------------
(***************************************************************************)
(* Admission control of the runtime fleet: scripts/runtime_fleet.py.       *)
(*                                                                         *)
(* An operator's command changes the durable desired state of a pool with  *)
(* set_admission: read the registry, check it, PUT the new state with      *)
(* expectedRevision, then poll until every live launcher incarnation has   *)
(* acknowledged the new revision.  Commands run concurrently, a PUT may be *)
(* applied long after its sender gave up, and launchers follow the desired *)
(* state at their own pace, crash and come back as new incarnations.       *)
(*                                                                         *)
(* The control API and the launchers are not in this repository; they are  *)
(* modelled from how the scripts use them and are marked external in the   *)
(* map of PROJECT.json.                                                    *)
(***************************************************************************)
EXTENDS Integers, FiniteSets

CONSTANTS Pools,       \* runtime pools
          Launchers,   \* launcher slots; an incarnation lives in one
          PoolOf,      \* the pool a launcher slot belongs to
          Replicas,    \* --replicas, the explicit fleet size of each pool
          Ops,         \* invocations of set_admission, each runs once
          Evidence,    \* first-cutover artifacts (ID and hash)
          NoEvidence,  \* the null of the three firstCutover* fields
          MaxWork,     \* bound of the model on jobs and recoverable duties
          Flaky,       \* bound of the model: launchers that may turn unready or be lost
          DataFaults   \* bound of the model: whether data readiness may fail

ASSUME FleetAssumption ==
    /\ Pools # {}
    /\ PoolOf \in [Launchers -> Pools]
    /\ Replicas \in [Pools -> Nat \ {0}]
    /\ NoEvidence \notin Evidence
    /\ MaxWork \in Nat
    /\ Flaky \subseteq Launchers
    /\ DataFaults \in BOOLEAN

VARIABLES pool,          \* durable desired state of each pool
          launcher,      \* current incarnation of each launcher slot
          duties,        \* retirementBlockers of a pool that no live job accounts for
          legacyDrained, \* the pre-HA census is zero
          dataReady,     \* SQL, Redis and keyring readiness
          op,            \* local state of each set_admission call
          puts           \* PUT requests on their way to the control API

serverVars == <<pool, duties>>
vars == <<pool, launcher, duties, legacyDrained, dataReady, op, puts>>

-----------------------------------------------------------------------------
(* State.                                                                  *)

MaybeEvidence == Evidence \cup {NoEvidence}

PoolState == [revision : Nat \ {0}, initial : BOOLEAN, recovery : BOOLEAN,
              retiring : BOOLEAN, evidence : MaybeEvidence]

\* An incarnation runs under the flags of the revision it last applied, which
\* is not the revision it last acknowledged.
LauncherState == [live : BOOLEAN, ready : BOOLEAN, applied : Nat,
                  initial : BOOLEAN, recovery : BOOLEAN, ack : Nat, jobs : Nat]

Request == [pool : Pools, initial : BOOLEAN, recovery : BOOLEAN,
            retiring : BOOLEAN, evidence : MaybeEvidence]

PutMessage == [op : Ops, request : Request, expected : Nat]

\* revision is the desired revision the PUT was answered with, 0 before that.
OpState == [pc : {"idle", "sent", "waiting", "ok", "failed"},
            request : Request, revision : Nat, expired : BOOLEAN]

\* A process before it starts, and after it failed: nothing of it is left but
\* the exit status.
Process(pc) ==
    [pc |-> pc,
     request |-> [pool |-> CHOOSE p \in Pools : TRUE, initial |-> FALSE, recovery |-> FALSE,
                  retiring |-> FALSE, evidence |-> NoEvidence],
     revision |-> 0, expired |-> FALSE]

Accepting(s) == s.initial \/ s.recovery

NoIncarnation == [live |-> FALSE, ready |-> FALSE, applied |-> 0,
                  initial |-> FALSE, recovery |-> FALSE, ack |-> 0, jobs |-> 0]

Members(p) == {l \in Launchers : PoolOf[l] = p}

Live(p) == {l \in Members(p) : launcher[l].live}

\* Every obligation the retirement census or an inventory can report.
Busy(p) == duties[p] > 0 \/ \E l \in Members(p) : launcher[l].jobs > 0

-----------------------------------------------------------------------------
(* The checks set_admission makes on one registry snapshot.                *)

\* A slip to be caught: one acknowledgement is enough.
PoolAckSome(p) ==
    /\ Cardinality(Live(p)) = Replicas[p]
    /\ \E l \in Live(p) :
          /\ launcher[l].ack = pool[p].revision
          /\ Accepting(pool[p]) => launcher[l].ready

\* A slip to be caught: any acknowledged revision is enough.
PoolAckOld(p) ==
    /\ Cardinality(Live(p)) = Replicas[p]
    /\ Accepting(pool[p]) => \A l \in Live(p) : launcher[l].ready

\* require_pool_ack.  A snapshot that is stale, incomplete or of a mixed
\* inventory fails the same check; that is one of the outcomes of Refuse and
\* Unavailable.
PoolAck(p) ==
    /\ Cardinality(Live(p)) = Replicas[p]
    /\ \A l \in Live(p) :
          /\ launcher[l].ack = pool[p].revision
          /\ Accepting(pool[p]) => launcher[l].ready

\* A slip to be caught: only the inventories of the live are counted.
RetirableNoCensus(p) ==
    /\ PoolAck(p)
    /\ ~Accepting(pool[p])
    /\ \A l \in Live(p) : launcher[l].jobs = 0

\* require_retirable
Retirable(p) ==
    /\ PoolAck(p)
    /\ ~Accepting(pool[p])
    /\ duties[p] = 0
    /\ \A l \in Live(p) : launcher[l].jobs = 0

\* A slip to be caught: the named artifact is not compared with the attested.
FirstCutoverUncompared(p, evidence) == evidence # NoEvidence \/ pool[p].evidence # NoEvidence

\* require_first_cutover_authorization: evidence is NoEvidence for ordinary
\* enabling, which needs the original attestation; a named artifact must be
\* the attested one if there is one.
FirstCutoverAuthorized(p, evidence) ==
    IF evidence = NoEvidence
    THEN pool[p].evidence # NoEvidence
    ELSE pool[p].evidence \in {NoEvidence, evidence}

\* A slip to be caught: enabling before the legacy drain.
EnabledUndrained(r) ==
    /\ dataReady
    /\ FirstCutoverAuthorized(r.pool, r.evidence)
    /\ PoolAck(r.pool)

Enabled(r) ==
    /\ dataReady
    /\ legacyDrained
    /\ FirstCutoverAuthorized(r.pool, r.evidence)
    /\ PoolAck(r.pool)

\* What must hold of the snapshot before the PUT is sent.
Permitted(r) ==
    /\ ~pool[r.pool].retiring
    /\ CASE r.retiring -> ~Accepting(r) /\ Retirable(r.pool)
         [] ~r.retiring /\ Accepting(r) -> Enabled(r)
         [] OTHER -> r.evidence = NoEvidence

\* The calls the commands make: withdraw, withdraw --keep-recovery, resume,
\* retire, and cutover, the only one that names an artifact.
Requests ==
    {r \in Request :
        /\ r.initial => r.recovery
        /\ r.retiring => ~Accepting(r)
        /\ r.evidence # NoEvidence => r.initial}

-----------------------------------------------------------------------------
(* set_admission.                                                          *)

\* Read the registry, check the snapshot and send the PUT.  The checks are
\* local to the snapshot, so they are evaluated in the instant of the read;
\* the PUT may reach the API at any later time.
Call(o, r) ==
    /\ op[o].pc = "idle"
    /\ Permitted(r)
    /\ op' = [op EXCEPT ![o] = [@ EXCEPT !.pc = "sent", !.request = r]]
    /\ puts' = puts \cup {[op |-> o, request |-> r, expected |-> pool[r.pool].revision]}
    /\ UNCHANGED <<pool, launcher, duties, legacyDrained, dataReady>>

\* A failed check, or a registry that is unavailable, stale or malformed.
Refuse(o) ==
    /\ op[o].pc = "idle"
    /\ op' = [op EXCEPT ![o] = Process("failed")]
    /\ UNCHANGED <<pool, launcher, duties, legacyDrained, dataReady, puts>>

\* The request budget ends before an answer arrives, or the answer is lost.
\* The PUT stays on its way.
Timeout(o) ==
    /\ op[o].pc = "sent"
    /\ op' = [op EXCEPT ![o] = Process("failed")]
    /\ UNCHANGED <<pool, launcher, duties, legacyDrained, dataReady, puts>>

\* A registry read of the polling loop fails, or its caller's deadline ends.
Unavailable(o) ==
    /\ op[o].pc = "waiting"
    /\ op' = [op EXCEPT ![o] = Process("failed")]
    /\ UNCHANGED <<pool, launcher, duties, legacyDrained, dataReady, puts>>

\* The snapshot still shows the state this call asked for.
StillDesired(o) ==
    LET r == op[o].request
        p == pool[r.pool]
    IN  /\ p.revision = op[o].revision
        /\ <<p.initial, p.recovery, p.retiring>> = <<r.initial, r.recovery, r.retiring>>

\* The proof the call waits for.
Acknowledged(o) ==
    LET r == op[o].request
    IN  /\ PoolAck(r.pool)
        /\ Accepting(r) => dataReady /\ FirstCutoverAuthorized(r.pool, NoEvidence)

\* A slip to be caught: the deadline is computed anew in every round.
PollRenewed(o) ==
    /\ op[o].pc = "waiting"
    /\ \/ /\ StillDesired(o)
          /\ Acknowledged(o)
          /\ op' = [op EXCEPT ![o].pc = "ok"]
       \/ /\ ~StillDesired(o)
          /\ op' = [op EXCEPT ![o] = Process("failed")]
       \/ /\ StillDesired(o) /\ ~Acknowledged(o) /\ op[o].expired
          /\ op' = [op EXCEPT ![o].expired = FALSE]
    /\ UNCHANGED <<pool, launcher, duties, legacyDrained, dataReady, puts>>

\* One round of the polling loop.  Without a proof and before the ACK deadline
\* it sleeps and changes nothing.
Poll(o) ==
    /\ op[o].pc = "waiting"
    /\ \/ /\ StillDesired(o)
          /\ Acknowledged(o)
          /\ op' = [op EXCEPT ![o].pc = "ok"]
       \/ /\ \/ ~StillDesired(o)
             \/ ~Acknowledged(o) /\ op[o].expired
          /\ op' = [op EXCEPT ![o] = Process("failed")]
    /\ UNCHANGED <<pool, launcher, duties, legacyDrained, dataReady, puts>>

\* time.monotonic() passes ack_deadline.
Expire(o) ==
    /\ op[o].pc = "waiting"
    /\ ~op[o].expired
    /\ op' = [op EXCEPT ![o].expired = TRUE]
    /\ UNCHANGED <<pool, launcher, duties, legacyDrained, dataReady, puts>>

-----------------------------------------------------------------------------
(* The control API (external).                                             *)

\* A PUT changes the desired state only from the revision its sender read
\* (409 otherwise); enabling a pool that was never authorized is a 503.
Acceptable(m) ==
    LET r == m.request
        p == pool[r.pool]
    IN  /\ m.expected = p.revision
        /\ Accepting(r) => p.evidence # NoEvidence \/ r.evidence # NoEvidence

\* The PUT arrives.  Its sender, if it still waits, gets the new revision and
\* starts polling, or gets the error and stops: until its next registry read
\* it does nothing else, so the answer travels in the same step.  A lost
\* answer is Timeout or Unavailable.
ApplyPut(m) ==
    /\ m \in puts
    /\ puts' = puts \ {m}
    /\ LET r == m.request
           p == pool[r.pool]
           sender == op[m.op].pc = "sent"
       IN  \/ /\ Acceptable(m)
              /\ pool' = [pool EXCEPT ![r.pool] =
                    [revision |-> p.revision + 1, initial |-> r.initial,
                     recovery |-> r.recovery, retiring |-> r.retiring,
                     evidence |-> IF r.evidence = NoEvidence THEN p.evidence ELSE r.evidence]]
              /\ op' = [op EXCEPT ![m.op] =
                    IF sender THEN [@ EXCEPT !.pc = "waiting", !.revision = p.revision + 1]
                              ELSE @]
           \/ /\ ~Acceptable(m)
              /\ pool' = pool
              /\ op' = [op EXCEPT ![m.op] = IF sender THEN Process("failed") ELSE @]
    /\ UNCHANGED <<launcher, duties, legacyDrained, dataReady>>

-----------------------------------------------------------------------------
(* The launchers (external).                                               *)

\* A new incarnation takes a lease; it knows no desired revision yet.
Register(l) ==
    /\ ~launcher[l].live
    /\ launcher' = [launcher EXCEPT ![l] = [NoIncarnation EXCEPT !.live = TRUE]]
    /\ UNCHANGED <<pool, duties, legacyDrained, dataReady, op, puts>>

\* The desired state comes into force in one incarnation.
Apply(l) ==
    LET p == pool[PoolOf[l]]
    IN  /\ launcher[l].live
        /\ launcher[l].applied # p.revision
        /\ launcher' = [launcher EXCEPT ![l] =
              [@ EXCEPT !.applied = p.revision, !.initial = p.initial, !.recovery = p.recovery]]
        /\ UNCHANGED <<pool, duties, legacyDrained, dataReady, op, puts>>

\* The acknowledgement of what is in force reaches the registry.
ReportAck(l) ==
    /\ launcher[l].live
    /\ launcher[l].ack # launcher[l].applied
    /\ launcher' = [launcher EXCEPT ![l].ack = launcher[l].applied]
    /\ UNCHANGED <<pool, duties, legacyDrained, dataReady, op, puts>>

FlipReady(l) ==
    /\ launcher[l].live
    /\ launcher[l].ready => l \in Flaky
    /\ launcher' = [launcher EXCEPT ![l].ready = ~@]
    /\ UNCHANGED <<pool, duties, legacyDrained, dataReady, op, puts>>

\* A new session, under the flags in force and not those desired.
Accept(l) ==
    /\ launcher[l].live
    /\ launcher[l].initial
    /\ launcher[l].jobs < MaxWork
    /\ \A p \in Pools : duties[p] < MaxWork
    /\ launcher' = [launcher EXCEPT ![l].jobs = @ + 1]
    /\ UNCHANGED <<pool, duties, legacyDrained, dataReady, op, puts>>

\* A recoverable session of any pool is taken over.
Recover(l, p) ==
    /\ launcher[l].live
    /\ launcher[l].recovery
    /\ duties[p] > 0
    /\ launcher[l].jobs < MaxWork
    /\ launcher' = [launcher EXCEPT ![l].jobs = @ + 1]
    /\ duties' = [duties EXCEPT ![p] = @ - 1]
    /\ UNCHANGED <<pool, legacyDrained, dataReady, op, puts>>

Finish(l) ==
    /\ launcher[l].jobs > 0
    /\ launcher' = [launcher EXCEPT ![l].jobs = @ - 1]
    /\ UNCHANGED <<pool, duties, legacyDrained, dataReady, op, puts>>

\* A crash, or a lease that runs out: the jobs stay behind as duties.
Lose(l) ==
    /\ l \in Flaky
    /\ launcher[l].live
    /\ launcher' = [launcher EXCEPT ![l] = NoIncarnation]
    /\ duties' = [duties EXCEPT ![PoolOf[l]] = @ + launcher[l].jobs]
    /\ UNCHANGED <<pool, legacyDrained, dataReady, op, puts>>

\* An obligation ends without a launcher: a receipt is reconciled.
Settle(p) ==
    /\ duties[p] > 0
    /\ duties' = [duties EXCEPT ![p] = @ - 1]
    /\ UNCHANGED <<pool, launcher, legacyDrained, dataReady, op, puts>>

DrainLegacy ==
    /\ ~legacyDrained
    /\ legacyDrained' = TRUE
    /\ UNCHANGED <<pool, launcher, duties, dataReady, op, puts>>

FlipData ==
    /\ dataReady => DataFaults
    /\ dataReady' = ~dataReady
    /\ UNCHANGED <<pool, launcher, duties, legacyDrained, op, puts>>

-----------------------------------------------------------------------------
(* The specification.                                                      *)

\* A fleet in mid-life, its revisions renumbered from 1: the pools may accept
\* if they were authorized after the legacy drain, and each launcher slot is
\* empty or has applied and acknowledged its pool's state.
InitialPool ==
    {p \in [revision : {1}, initial : BOOLEAN, recovery : BOOLEAN,
            retiring : {FALSE}, evidence : MaybeEvidence] :
        /\ p.initial => p.recovery
        /\ Accepting(p) => legacyDrained /\ p.evidence # NoEvidence}

Settled(p) == [live |-> TRUE, ready |-> TRUE, applied |-> p.revision, initial |-> p.initial,
               recovery |-> p.recovery, ack |-> p.revision, jobs |-> 0]

Init ==
    /\ legacyDrained \in BOOLEAN
    /\ dataReady = TRUE
    /\ pool \in [Pools -> InitialPool]
    /\ launcher \in [Launchers -> {NoIncarnation} \cup {Settled(pool[p]) : p \in Pools}]
    /\ \A l \in Launchers : launcher[l] \in {NoIncarnation, Settled(pool[PoolOf[l]])}
    /\ duties \in [Pools -> {0, MaxWork}]
    /\ \A p \in Pools : duties[p] > 0 => legacyDrained /\ pool[p].evidence # NoEvidence
    /\ op = [o \in Ops |-> Process("idle")]
    /\ puts = {}

Client(o) ==
    \/ \E r \in Requests : Call(o, r)
    \/ Refuse(o) \/ Timeout(o) \/ Unavailable(o) \/ Poll(o) \/ Expire(o)

Fleet ==
    \/ \E l \in Launchers :
          \/ Register(l) \/ Apply(l) \/ ReportAck(l) \/ FlipReady(l)
          \/ Accept(l) \/ Finish(l) \/ Lose(l)
          \/ \E p \in Pools : Recover(l, p)
    \/ \E p \in Pools : Settle(p)
    \/ DrainLegacy \/ FlipData

Next ==
    \/ \E o \in Ops : Client(o)
    \/ \E m \in puts : ApplyPut(m)
    \/ Fleet

Spec == Init /\ [][Next]_vars

\* The commands keep running and their clocks advance.  Nothing is asked of the
\* API, the network or the fleet.
Runs(o) == WF_vars(Timeout(o)) /\ WF_vars(Expire(o)) /\ WF_vars(Poll(o))

Fairness == \A o \in Ops : Runs(o)

FairSpec == Spec /\ Fairness

-----------------------------------------------------------------------------
(* Properties.                                                             *)

\* No incarnation of the pool accepts, whatever is desired.
Quiet(p) == \A l \in Members(p) : ~Accepting(launcher[l])

\* Every variable stays in its domain.
TypeOK ==
    /\ pool \in [Pools -> PoolState]
    /\ launcher \in [Launchers -> LauncherState]
    /\ duties \in [Pools -> Nat]
    /\ legacyDrained \in BOOLEAN
    /\ dataReady \in BOOLEAN
    /\ op \in [Ops -> OpState]
    /\ puts \subseteq PutMessage

\* A retired pool holds no session, attempt or obligation, and takes up none:
\* the census set_admission read may be long past when its PUT is applied.
RetiredPoolIsIdle == \A p \in Pools : pool[p].retiring => ~Busy(p)

\* "final SDK retirement is irreversible": no command in flight, delayed or
\* concurrent, ends it.
RetirementIsFinal == [][\A p \in Pools : pool[p].retiring => pool'[p].retiring]_vars

\* "original first-cutover attestation ... cannot be substituted": of two
\* concurrent cutovers with different artifacts at most one leaves its mark.
AttestationIsFinal ==
    [][\A p \in Pools : pool[p].evidence # NoEvidence => pool'[p].evidence = pool[p].evidence]_vars

\* No pool is asked to accept, no incarnation accepts and no work is held
\* before the pre-HA work is drained and the pool's first cutover is attested.
WorkIsAuthorized ==
    \A p \in Pools :
        \/ Accepting(pool[p])
        \/ ~Quiet(p)
        \/ Busy(p)
        => legacyDrained /\ pool[p].evidence # NoEvidence

\* When withdraw has reported success, and as long as the revision it made is
\* the pool's, no incarnation of the pool accepts anything: neither those it
\* saw acknowledge nor those that start later.
WithdrawalIsInForce ==
    \A o \in Ops :
        LET p == op[o].request.pool
        IN  op[o].pc = "ok" /\ ~Accepting(op[o].request) /\ op[o].revision = pool[p].revision
            => Quiet(p)

\* A call never waits for an answer without a step of its own to take: to give
\* up, to reach its deadline, and then to end, whatever the registry shows.
CallsCanGoOn ==
    \A o \in Ops :
        /\ op[o].pc = "sent" => ENABLED <<Timeout(o)>>_vars
        /\ op[o].pc = "waiting" /\ ~op[o].expired => ENABLED <<Expire(o)>>_vars
        /\ op[o].pc = "waiting" /\ op[o].expired => ENABLED <<Poll(o)>>_vars

\* Every call that sent its PUT ends, whatever the API and the fleet do.
CallEnds == \A o \in Ops : op[o].pc \in {"sent", "waiting"} ~> op[o].pc \in {"ok", "failed"}

\* The calls, with their requests delayed, raced and repeated, take every
\* decision as if at once on the state it changes.
Control == INSTANCE AdmissionControl
             WITH busy <- [p \in Pools |-> Busy(p)], drained <- legacyDrained

RefinesControl == Control!Spec

=============================================================================
