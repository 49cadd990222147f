---------------------------- MODULE SmokeRestore ----------------------------
(***************************************************************************)
(* scripts/runtime_smoke.py: the smoke pauses PostgreSQL, Redis and the    *)
(* API of the owned fixture one after the other, then seals its OpenBao    *)
(* and restarts the API; each fault is undone whatever fails, and the      *)
(* restoration counts only if the fleet registers anew within 60 s.        *)
(*                                                                         *)
(* A command that fails may have taken effect, by the time it is given up  *)
(* or not at all.  Time is the state of the budget in force.  A revision   *)
(* of a pool is told apart by who decided it, and when: before the fault   *)
(* of this round, the smoke after it was undone, or somebody else.         *)
(***************************************************************************)
EXTENDS Integers, Sequences

CONSTANT Order  \* the pools, in the order the smoke takes them

ASSUME OrderAssumption == Len(Order) \in Nat \ {0} /\ DOMAIN Order = 1..Len(Order)

VARIABLES stage,    \* what the smoke is about to do
          round,    \* the fault it deals with
          step,     \* position within the stage
          failed,   \* an exception is on its way, or has ended the smoke
          clock,    \* the budget in force: off, running or spent
          observed, \* the restorations it has recorded
          paused,   \* services of the fixture that are paused
          sealed,   \* its OpenBao is sealed
          api,      \* up, or cold: waiting for its key
          redisSeen, \* the redis readiness the registry shows
          decision, \* whose decision the revision of a pool is
          acked,    \* pools whose launchers acknowledged that revision
          moved,    \* pools whose native worker is no longer the one last read
          returned, \* pools that acknowledged the smoke since the fault
          denied    \* a restoring command failed on its own account

smoke == <<stage, round, step, failed, clock, observed>>
services == <<paused, sealed, api>>
fleet == <<decision, acked, moved, returned>>
vars == <<smoke, services, redisSeen, fleet, denied>>

Pools == {Order[n] : n \in DOMAIN Order}
Paused == <<"postgres", "redis", "api">>
Rounds == 1..Len(Paused) + 1
Service == Paused[round]
Restoring == <<"restart", "bootstrap", "cluster", "apiRestart">>
Awaiting == {"baseline", "withdrawn", "reattach", "confirm"}
Stages == Awaiting \cup {Restoring[n] : n \in DOMAIN Restoring} \cup
          {"gate", "withdraw", "fault", "outage", "mend", "mendAgain", "decide",
           "cold", "watch", "coldHealth", "apiHealth", "end"}

Reachable == api = "up" /\ paused \cap {"postgres", "api"} = {}

Go(s) == stage' = s /\ step' = 0
Within(s) == Go(s) /\ clock' = "running"  \* a new AcceptanceBudget
Outside(s) == Go(s) /\ clock' = "off"

\* An exception that nothing restores after: the smoke ends.
Raise == Go("end") /\ failed' = TRUE /\ UNCHANGED <<clock, round, observed>>

\* The finally clause of the round, with its own budget.
Finally == Within(IF round \in DOMAIN Paused THEN "mend" ELSE "restart")
Throw == Finally /\ failed' = TRUE

Init ==
    /\ stage = "baseline" /\ round = 1 /\ step = 0 /\ clock = "running"
    /\ failed = FALSE /\ observed = {}
    /\ paused = {} /\ sealed = FALSE /\ api = "up" /\ redisSeen = TRUE
    /\ decision = [p \in Pools |-> "before"] /\ acked = Pools
    /\ moved = {} /\ returned = {} /\ denied = FALSE
-----------------------------------------------------------------------------
(* await_fleet.                                                            *)

\* After a restoration the revisions must be the smoke's own.
Accepted(p) == p \in acked /\ (stage = "confirm" => decision[p] = "mine")

ReadFleet ==
    /\ stage \in Awaiting /\ step = 0 /\ clock = "running"
    /\ Reachable /\ redisSeen /\ \A p \in Pools : Accepted(p)
    /\ step' = 1 /\ moved' = {}
    /\ UNCHANGED <<stage, round, failed, clock, observed, services, redisSeen,
                   decision, acked, returned, denied>>

\* The worker health of one pool matches what was read.
Probe == stage \in Awaiting /\ step \in DOMAIN Order /\ clock = "running"
         /\ Order[step] \notin moved

ProbeNext ==
    /\ Probe /\ step < Len(Order) /\ step' = step + 1
    /\ UNCHANGED <<stage, round, failed, clock, observed, services, redisSeen, fleet, denied>>

\* A slip to be caught: every round of the loop has a budget of its own.
ReadWithNewBudget ==
    /\ stage \in Awaiting /\ step > 0 /\ Within(stage)
    /\ UNCHANGED <<round, failed, observed, services, redisSeen, fleet, denied>>

ReadAgain ==
    /\ stage \in Awaiting /\ step > 0 /\ clock = "running" /\ step' = 0
    /\ UNCHANGED <<stage, round, failed, clock, observed, services, redisSeen, fleet, denied>>

\* A slip to be caught: the acknowledgements of before are taken for a recovery.
AfterInherited(s) == CASE s = "baseline" -> "gate" [] s = "withdrawn" -> "fault"
                       [] s \in {"reattach", "confirm"} -> "observe"

\* A restoration leans on no acknowledgement from before the fault.
AfterAwait(s) == CASE s = "baseline" -> "gate" [] s = "withdrawn" -> "fault"
                   [] s = "reattach" -> "decide" [] s = "confirm" -> "observe"

Following(r) == IF r + 1 \in Rounds THEN r + 1 ELSE r

\* A slip to be caught: the finally clause swallows the exception.
ObserveAnyway ==
    /\ observed' = observed \cup {round} /\ round' = Following(round)
    /\ Outside(IF round + 1 \in Rounds THEN "fault" ELSE "end")
    /\ UNCHANGED failed

Observe ==
    \/ failed /\ Raise
    \/ /\ ~failed /\ observed' = observed \cup {round} /\ round' = Following(round)
       /\ Outside(IF round + 1 \in Rounds THEN "fault" ELSE "end")
       /\ UNCHANGED failed

Return ==
    /\ Probe /\ step = Len(Order)
    /\ LET s == AfterAwait(stage) IN
       IF s = "observe" THEN Observe
       ELSE /\ IF s = "decide" THEN Go(s) /\ UNCHANGED clock ELSE Outside(s)
            /\ UNCHANGED <<round, failed, observed>>
    /\ UNCHANGED <<services, redisSeen, fleet, denied>>

\* Every loop ends with its budget.
Checked == Awaiting \cup {"decide", "withdraw", "apiHealth", "outage", "coldHealth"}

Expire ==
    /\ stage \in Checked /\ clock = "spent"
    /\ IF stage \in {"outage", "coldHealth"}
       THEN Throw /\ UNCHANGED <<round, observed>>
       ELSE Raise
    /\ UNCHANGED <<services, redisSeen, fleet, denied>>
-----------------------------------------------------------------------------
(* Before the faults: no pool can be enabled, and one is withdrawn.        *)

Gate ==
    /\ stage = "gate" /\ Within("withdraw")
    /\ UNCHANGED <<round, failed, observed, services, redisSeen, fleet, denied>>

\* set_admission: a revision of its own, then its acknowledgement.
Decide(p, by) ==
    /\ Reachable
    /\ decision' = [decision EXCEPT ![p] = by] /\ acked' = acked \ {p}
    /\ UNCHANGED <<stage, round, failed, clock, observed, services, redisSeen,
                   moved, returned, denied>>

Acknowledged(p, by) == clock = "running" /\ p \in acked /\ decision[p] = by

Withdraw ==
    \/ stage = "withdraw" /\ step = 0 /\ step' = 1 /\ Decide(Order[1], "before")
    \/ /\ stage = "withdraw" /\ step = 1 /\ Acknowledged(Order[1], "before")
       /\ Within("withdrawn")
       /\ UNCHANGED <<round, failed, observed, services, redisSeen, fleet, denied>>

\* restore_fleet_registration: a decision for each pool, the next one when the
\* one before is acknowledged.
SendDecision ==
    /\ stage = "decide" /\ step < Len(Order) /\ clock = "running"
    /\ step > 0 => Acknowledged(Order[step], "mine")
    /\ step' = step + 1 /\ Decide(Order[step + 1], "mine")

LastDecided ==
    /\ stage = "decide" /\ step = Len(Order) /\ Acknowledged(Order[step], "mine")
    /\ Go("confirm")
    /\ UNCHANGED <<round, failed, clock, observed, services, redisSeen, fleet, denied>>

\* A call before the faults, or one after the restoration, fails for good.
Refused ==
    /\ \/ stage \in {"gate", "withdraw", "decide", "apiHealth"}
       \/ stage = "fault" /\ round \notin DOMAIN Paused
    /\ Raise
    /\ UNCHANGED <<services, redisSeen, fleet, denied>>
-----------------------------------------------------------------------------
(* One service after the other is paused, and unpaused whatever happened.  *)

Fault(ok) ==
    /\ stage = "fault" /\ decision' = [p \in Pools |-> "before"] /\ returned' = {}
    /\ IF ok THEN UNCHANGED failed ELSE failed' = TRUE
    /\ UNCHANGED <<round, observed, api, redisSeen, acked, moved, denied>>

Pause ==
    \E ok, effect \in BOOLEAN :
       /\ Fault(ok) /\ round \in DOMAIN Paused /\ (ok => effect)
       /\ paused' = IF effect THEN paused \cup {Service} ELSE paused
       /\ IF ok THEN Within("outage") ELSE Finally
       /\ UNCHANGED sealed

\* await_outage: Redis must be reported unavailable, for the others the
\* registry must fail, which it may also do for a reason of its own.
OutageSeen ==
    /\ stage = "outage" /\ clock = "running"
    /\ Service = "redis" => Reachable /\ ~redisSeen
    /\ Finally
    /\ UNCHANGED <<round, failed, observed, services, redisSeen, fleet, denied>>

\* An answer that is not one of an unavailable service.
OutageError ==
    /\ stage = "outage" /\ Throw
    /\ UNCHANGED <<round, observed, services, redisSeen, fleet, denied>>

Unpause ==
    /\ stage = "mend" /\ Service \in paused
    /\ paused' = paused \ {Service} /\ Go("reattach")
    /\ UNCHANGED <<round, failed, clock, observed, sealed, api, redisSeen, fleet, denied>>

\* Even a failed bounded unpause must not leave owned data paused.
UnpauseOnceMore == Go("mendAgain") /\ UNCHANGED <<round, failed, clock, observed>>

UnpauseFails ==
    /\ stage = "mend" /\ UnpauseOnceMore
    /\ paused' \in {paused, paused \ {Service}}
    /\ UNCHANGED <<sealed, api, redisSeen, fleet, denied>>

UnpauseAgain ==
    /\ stage = "mendAgain" /\ Raise
    /\ paused' \in {paused, paused \ {Service}}
    /\ denied' = (Service \in paused')
    /\ UNCHANGED <<sealed, api, redisSeen, fleet>>
-----------------------------------------------------------------------------
(* OpenBao is sealed, and the API must not start without its key.          *)

Seal ==
    \E ok, effect \in BOOLEAN :
       /\ Fault(ok) /\ round \notin DOMAIN Paused /\ (ok => effect)
       /\ sealed' = effect
       /\ IF ok THEN Outside("cold") ELSE Finally
       /\ UNCHANGED paused

ColdRestart ==
    /\ stage = "cold"
    /\ \/ api' = "cold" /\ Outside("watch") /\ UNCHANGED failed
       \/ api' \in {api, "cold"} /\ Throw
    /\ UNCHANGED <<round, observed, paused, sealed, redisSeen, fleet, denied>>

\* For 30 s OpenBao stays sealed and the API answers nothing.
ColdWatch ==
    /\ stage = "watch"
    /\ \/ sealed /\ api = "cold" /\ Within("coldHealth") /\ UNCHANGED failed
       \/ Throw
    /\ UNCHANGED <<round, observed, services, redisSeen, fleet, denied>>

ColdHealth ==
    /\ stage = "coldHealth" /\ clock = "running" /\ Finally
    /\ UNCHANGED <<round, failed, observed, services, redisSeen, fleet, denied>>

\* restore_original_bao, one command after the other.
Restarted == [sealed |-> IF stage = "restart" THEN FALSE ELSE sealed,
              api |-> IF stage = "apiRestart" THEN "cold" ELSE api]

RestoreNext ==
    LET n == CHOOSE k \in DOMAIN Restoring : Restoring[k] = stage
    IN  Go(IF n < Len(Restoring) THEN Restoring[n + 1] ELSE "apiHealth")

Restore ==
    /\ stage \in {Restoring[n] : n \in DOMAIN Restoring} /\ RestoreNext
    /\ sealed' = Restarted.sealed /\ api' = Restarted.api
    /\ UNCHANGED <<round, failed, clock, observed, paused, redisSeen, fleet, denied>>

\* A slip to be caught: a command cut short is not retried.
RetryNever == FALSE

\* Expiry fails the proof, not the obligation to restore: a command the budget
\* cut short gets its ordinary limit, once.
Retried == clock = "spent" /\ step = 0

RestoreFails ==
    /\ stage \in {Restoring[n] : n \in DOMAIN Restoring}
    /\ sealed' \in {sealed, Restarted.sealed} /\ api' \in {api, Restarted.api}
    /\ IF Retried THEN step' = 1 /\ UNCHANGED <<stage, round, failed, clock, observed>> ELSE Raise
    /\ denied' = (clock = "running" \/ step = 1)
    /\ UNCHANGED <<paused, redisSeen, fleet>>

Substituted ==
    /\ stage = "cluster" /\ Raise /\ denied' = TRUE
    /\ UNCHANGED <<services, redisSeen, fleet>>

ApiHealthy ==
    /\ stage = "apiHealth" /\ clock = "running" /\ api = "up" /\ Go("reattach")
    /\ UNCHANGED <<round, failed, clock, observed, services, redisSeen, fleet, denied>>
-----------------------------------------------------------------------------
(* Time, the API, the launchers and other operators.                       *)

Tick ==
    /\ clock = "running" /\ clock' = "spent"
    /\ UNCHANGED <<stage, round, step, failed, observed, services, redisSeen, fleet, denied>>

Boot ==
    /\ api = "cold" /\ ~sealed /\ api' = "up"
    /\ UNCHANGED <<smoke, paused, sealed, redisSeen, fleet, denied>>

NoticeRedis ==
    /\ redisSeen' = ("redis" \notin paused) /\ redisSeen' # redisSeen
    /\ UNCHANGED <<smoke, services, fleet, denied>>

Acknowledge(p) ==
    /\ Reachable /\ p \notin acked
    /\ acked' = acked \cup {p} /\ moved' = moved \cup {p}
    /\ returned' = IF decision[p] = "mine" THEN returned \cup {p} ELSE returned
    /\ UNCHANGED <<smoke, services, redisSeen, decision, denied>>

Replace(p) ==
    /\ p \notin moved \/ p \in acked
    /\ acked' = acked \ {p} /\ moved' = moved \cup {p}
    /\ UNCHANGED <<smoke, services, redisSeen, decision, returned, denied>>

OtherCommand(p) ==
    /\ Reachable
    /\ decision' = [decision EXCEPT ![p] = "other"] /\ acked' = acked \ {p}
    /\ UNCHANGED <<smoke, services, redisSeen, moved, returned, denied>>

World ==
    \/ Boot \/ NoticeRedis
    \/ \E p \in Pools : Acknowledge(p) \/ Replace(p) \/ OtherCommand(p)

Smoke ==
    \/ ReadFleet \/ ProbeNext \/ ReadAgain \/ Return \/ Expire
    \/ Gate \/ Withdraw \/ SendDecision \/ LastDecided \/ Refused
    \/ Pause \/ OutageSeen \/ OutageError \/ Unpause \/ UnpauseFails \/ UnpauseAgain
    \/ Seal \/ ColdRestart \/ ColdWatch \/ ColdHealth
    \/ Restore \/ RestoreFails \/ Substituted \/ ApiHealthy

Next == Smoke \/ Tick \/ World

Spec == Init /\ [][Next]_vars

\* The smoke goes on and so does time; nothing else is relied on.
FairSpec == Spec /\ WF_vars(Smoke) /\ WF_vars(Tick)
-----------------------------------------------------------------------------
\* Every variable stays in its domain.
TypeOK ==
    /\ stage \in Stages /\ round \in Rounds /\ step \in 0..Len(Order)
    /\ failed \in BOOLEAN /\ clock \in {"off", "running", "spent"} /\ observed \subseteq Rounds
    /\ paused \subseteq {"postgres", "redis", "api"} /\ sealed \in BOOLEAN
    /\ api \in {"up", "cold"} /\ redisSeen \in BOOLEAN
    /\ decision \in [Pools -> {"before", "mine", "other"}]
    /\ acked \subseteq Pools /\ moved \subseteq Pools /\ returned \subseteq Pools
    /\ denied \in BOOLEAN

\* However the smoke ends, and whatever was cut short, timed out or raised on
\* the way, the owned services run and OpenBao is open, unless a restoring
\* command failed on its own account (the finally clauses of smoke and
\* restore_original_bao).
EndsRestored == stage = "end" /\ ~denied => paused = {} /\ ~sealed

\* The smoke causes a fault only on a fixture it has proven whole after every
\* earlier one, and no more faults once anything has failed.
FaultsOnlyWhole ==
    [][paused' \ paused # {} \/ (sealed' /\ ~sealed)
          => /\ paused = {} /\ ~sealed /\ ~failed
             /\ observed = 1..round - 1]_vars

\* A restoration is recorded only within its budget, with nothing left broken,
\* and after every pool acknowledged a decision taken once the fault was undone
\* (restore_fleet_registration).
RestoreIsProven ==
    [][observed' # observed => /\ returned = Pools /\ clock = "running"
                               /\ paused = {} /\ ~sealed /\ api = "up"]_vars

\* Until it has ended, the smoke waits for nothing but the end of a budget: out of
\* a loop that has none left, and out of every other stage, a step leads.
SmokeCanGoOn ==
    stage # "end" =>
        IF stage \in Checked /\ clock = "running"
        THEN ENABLED <<Tick>>_vars ELSE ENABLED <<Smoke>>_vars

\* The smoke ends, even if nothing answers any more: each of its loops checks
\* a budget.
SmokeEnds == <>(stage = "end")
=============================================================================
