------------------------- MODULE SmokeRestoreProofs -------------------------
(* Proofs about SmokeRestore, for a fixture of any number of pools.        *)
EXTENDS SmokeRestore, TLAPS

-----------------------------------------------------------------------------
(* Values.                                                                 *)

\* Three services are paused in turn, OpenBao is the fourth round.
LEMMA RoundType == Rounds = 1..4 /\ DOMAIN Paused = 1..3
BY DEF Rounds, Paused

\* The four restoring commands, in their order.
LEMMA RestoringType ==
    /\ DOMAIN Restoring = 1..4 /\ Len(Restoring) = 4
    /\ {Restoring[n] : n \in DOMAIN Restoring} = {"restart", "bootstrap", "cluster", "apiRestart"}
BY DEF Restoring

\* The service of a round of the three.
LEMMA ServiceType == round \in 1..3 => Service \in {"postgres", "redis", "api"}
BY DEF Service, Paused

\* The places the run can be at.
LEMMA StageType ==
    Stages = {"baseline", "withdrawn", "reattach", "confirm", "restart", "bootstrap",
              "cluster", "apiRestart", "gate", "withdraw", "fault", "outage", "mend",
              "mendAgain", "decide", "cold", "watch", "coldHealth", "apiHealth", "end"}
BY RestoringType DEF Stages, Awaiting

-----------------------------------------------------------------------------
(* The inductive invariant.                                                *)

Mending == {"outage", "mend", "mendAgain"}
Cold == {"cold", "watch", "coldHealth"}
Commands == {"restart", "bootstrap", "cluster", "apiRestart"}

\* Only the service of this round is paused, and only until it is mended.
PausedHere ==
    paused # {} => /\ round \in 1..3 /\ paused = {Paused[round]}
                   /\ stage \in Mending \/ (stage = "end" /\ denied)

\* OpenBao is sealed until it is restarted.
SealedHere == sealed => stage \in Cold \cup {"restart"} \/ (stage = "end" /\ denied)

\* Which round a stage belongs to.
RoundHere == (stage \in Mending => round \in 1..3) /\ (stage \in Cold => round = 4)

\* A failure is past every fault.
NothingFailed == stage \in {"baseline", "gate", "withdraw", "withdrawn", "fault"} => ~failed

\* Everything before this round has been recorded.
InOrder == stage # "end" => observed = 1..round - 1

\* The API is cold only while OpenBao is restored.
KeyHeld == api = "cold" => stage \in {"watch", "coldHealth", "apiHealth", "end"} \cup Commands

\* The restoring commands run under a budget, at most twice.
Budgeted == stage \in Commands => clock # "off" /\ step \in 0..1

\* Who acknowledged the smoke's own decision has returned.
Heard == \A p \in Pools : p \in acked /\ decision[p] = "mine" => p \in returned

\* The pools decided before this one have returned, and in the end all.
Decided ==
    /\ stage = "decide" => \A n \in 1..step - 1 : Order[n] \in returned
    /\ stage = "confirm" => Pools \subseteq returned

Safe == /\ PausedHere /\ SealedHere /\ RoundHere /\ NothingFailed /\ InOrder
        /\ KeyHeld /\ Budgeted /\ Heard /\ Decided

IInv == TypeOK /\ Safe

-----------------------------------------------------------------------------
(* Where the helpers of the actions lead.                                  *)

\* The finally clause of a round.
LEMMA FinallyGoes ==
    ASSUME TypeOK, Finally
    PROVE  /\ step' = 0 /\ clock' = "running" /\ stage' \in Stages
           /\ round \in 1..3 => stage' = "mend"
           /\ round = 4 => stage' = "restart"
BY RoundType, StageType DEF Finally, Within, Go

\* The next restoring command.
LEMMA RestoreGoes ==
    ASSUME stage \in Commands, RestoreNext
    PROVE  /\ step' = 0
           /\ stage = "restart" => stage' = "bootstrap"
           /\ stage = "bootstrap" => stage' = "cluster"
           /\ stage = "cluster" => stage' = "apiRestart"
           /\ stage = "apiRestart" => stage' = "apiHealth"
<1> DEFINE n == CHOOSE k \in 1..4 : Restoring[k] = stage
<1>1. \E k \in 1..4 : Restoring[k] = stage
  BY DEF Commands, Restoring
<1>2. n \in 1..4 /\ Restoring[n] = stage
  BY <1>1
<1>3. stage' = (IF n < 4 THEN Restoring[n + 1] ELSE "apiHealth") /\ step' = 0
  BY RestoringType DEF RestoreNext, Go
<1> QED
  <2>1. CASE n = 1
    BY <1>2, <1>3, <2>1 DEF Restoring
  <2>2. CASE n = 2
    BY <1>2, <1>3, <2>2 DEF Restoring
  <2>3. CASE n = 3
    BY <1>2, <1>3, <2>3 DEF Restoring
  <2>4. CASE n = 4
    BY <1>2, <1>3, <2>4 DEF Restoring
  <2> QED
    BY <1>2, <2>1, <2>2, <2>3, <2>4

\* One more restoration in order.
LEMMA NextInOrder == \A r \in 1..4 : (1..r - 1) \cup {r} = 1..(r + 1) - 1
OBVIOUS

-----------------------------------------------------------------------------
(* Types.                                                                  *)

\* TypeOK in parts small enough for the provers.
ProgressType == stage \in Stages /\ round \in Rounds /\ step \in 0..Len(Order)

FlagType ==
    /\ failed \in BOOLEAN /\ clock \in {"off", "running", "spent"} /\ sealed \in BOOLEAN
    /\ api \in {"up", "cold"} /\ redisSeen \in BOOLEAN /\ denied \in BOOLEAN

SetType ==
    /\ observed \subseteq Rounds /\ paused \subseteq {"postgres", "redis", "api"}
    /\ decision \in [Pools -> {"before", "mine", "other"}]
    /\ acked \subseteq Pools /\ moved \subseteq Pools /\ returned \subseteq Pools

\* A run starts with values of their types.
LEMMA InitType == Init => TypeOK
<1> SUFFICES ASSUME Init PROVE TypeOK
  OBVIOUS
<1>1. ProgressType
  BY OrderAssumption, RoundType, StageType DEF Init, ProgressType
<1>2. FlagType
  BY DEF Init, FlagType
<1>3. SetType
  BY DEF Init, SetType
<1> QED
  BY <1>1, <1>2, <1>3 DEF TypeOK, ProgressType, FlagType, SetType

\* No step of the run or of the world leaves the types.
LEMMA StepType ==
    ASSUME TypeOK, Next PROVE TypeOK'
<1> USE OrderAssumption, RoundType, RestoringType, StageType
    DEF Awaiting, vars, smoke, services, fleet
<1>1. CASE ReadFleet
  BY <1>1 DEF TypeOK, ReadFleet
<1>2. CASE ProbeNext
  BY <1>2 DEF TypeOK, ProbeNext
<1>3. CASE ReadAgain
  BY <1>3 DEF TypeOK, ReadAgain
<1>4. CASE Return
  <2>1. ProgressType'
    BY <1>4 DEF TypeOK, ProgressType, Return, Probe, AfterAwait, Observe, Raise, Go,
       Outside, Following
  <2>2. FlagType'
    BY <1>4 DEF TypeOK, FlagType, Return, Observe, Raise, Outside
  <2>3. SetType'
    BY <1>4 DEF TypeOK, SetType, Return, Observe, Raise
  <2> QED
    BY <2>1, <2>2, <2>3 DEF TypeOK, ProgressType, FlagType, SetType
<1>5. CASE Expire
  <2>1. ProgressType'
    BY <1>5, FinallyGoes DEF TypeOK, ProgressType, Expire, Throw, Raise, Go
  <2>2. FlagType'
    BY <1>5, FinallyGoes DEF TypeOK, FlagType, Expire, Throw, Raise
  <2>3. SetType'
    BY <1>5, FinallyGoes DEF TypeOK, SetType, Expire, Raise
  <2> QED
    BY <2>1, <2>2, <2>3 DEF TypeOK, ProgressType, FlagType, SetType
<1>6. CASE Gate
  BY <1>6 DEF TypeOK, Gate, Within, Go
<1>7. CASE Withdraw
  <2>1. ProgressType'
    BY <1>7 DEF TypeOK, ProgressType, Withdraw, Decide, Within, Go
  <2>2. FlagType'
    BY <1>7 DEF TypeOK, FlagType, Withdraw, Decide, Within
  <2>3. SetType'
    BY <1>7 DEF TypeOK, SetType, Withdraw, Decide
  <2> QED
    BY <2>1, <2>2, <2>3 DEF TypeOK, ProgressType, FlagType, SetType
<1>8. CASE SendDecision
  <2>1. ProgressType'
    BY <1>8 DEF TypeOK, ProgressType, SendDecision, Decide
  <2>2. FlagType'
    BY <1>8 DEF TypeOK, FlagType, SendDecision, Decide
  <2>3. SetType'
    BY <1>8 DEF TypeOK, SetType, SendDecision, Decide
  <2> QED
    BY <2>1, <2>2, <2>3 DEF TypeOK, ProgressType, FlagType, SetType
<1>9. CASE LastDecided
  BY <1>9 DEF TypeOK, LastDecided, Go
<1>10. CASE Refused
  BY <1>10 DEF TypeOK, Refused, Raise, Go
<1>11. CASE Pause
  <2>1. ProgressType'
    BY <1>11, FinallyGoes, ServiceType DEF ProgressType, Pause, Fault, Within, Go
  <2>2. FlagType'
    BY <1>11, FinallyGoes, ServiceType DEF TypeOK, FlagType, Pause, Fault, Within
  <2>3. SetType'
    BY <1>11, FinallyGoes, ServiceType DEF TypeOK, SetType, Pause, Fault
  <2> QED
    BY <2>1, <2>2, <2>3 DEF TypeOK, ProgressType, FlagType, SetType
<1>12. CASE OutageSeen
  BY <1>12, FinallyGoes DEF TypeOK, OutageSeen
<1>13. CASE OutageError
  BY <1>13, FinallyGoes DEF TypeOK, OutageError, Throw
<1>14. CASE Unpause
  <2>1. ProgressType'
    BY <1>14, ServiceType DEF TypeOK, ProgressType, Unpause, Go
  <2>2. FlagType'
    BY <1>14, ServiceType DEF TypeOK, FlagType, Unpause
  <2>3. SetType'
    BY <1>14, ServiceType DEF TypeOK, SetType, Unpause
  <2> QED
    BY <2>1, <2>2, <2>3 DEF TypeOK, ProgressType, FlagType, SetType
<1>15. CASE UnpauseFails
  BY <1>15, ServiceType DEF TypeOK, UnpauseFails, UnpauseOnceMore, Go
<1>16. CASE UnpauseAgain
  BY <1>16, ServiceType DEF TypeOK, UnpauseAgain, Raise, Go
<1>17. CASE Seal
  <2>1. ProgressType'
    BY <1>17, FinallyGoes DEF TypeOK, ProgressType, Seal, Fault, Outside, Go
  <2>2. FlagType'
    BY <1>17, FinallyGoes DEF TypeOK, FlagType, Seal, Fault, Outside
  <2>3. SetType'
    BY <1>17, FinallyGoes DEF TypeOK, SetType, Seal, Fault
  <2> QED
    BY <2>1, <2>2, <2>3 DEF TypeOK, ProgressType, FlagType, SetType
<1>18. CASE ColdRestart
  <2>1. ProgressType'
    BY <1>18, FinallyGoes DEF TypeOK, ProgressType, ColdRestart, Outside, Throw, Go
  <2>2. FlagType'
    BY <1>18, FinallyGoes DEF TypeOK, FlagType, ColdRestart, Outside, Throw
  <2>3. SetType'
    BY <1>18, FinallyGoes DEF TypeOK, SetType, ColdRestart
  <2> QED
    BY <2>1, <2>2, <2>3 DEF TypeOK, ProgressType, FlagType, SetType
<1>19. CASE ColdWatch
  <2>1. ProgressType'
    BY <1>19, FinallyGoes DEF TypeOK, ProgressType, ColdWatch, Throw, Within, Go
  <2>2. FlagType'
    BY <1>19, FinallyGoes DEF TypeOK, FlagType, ColdWatch, Throw, Within
  <2>3. SetType'
    BY <1>19, FinallyGoes DEF TypeOK, SetType, ColdWatch
  <2> QED
    BY <2>1, <2>2, <2>3 DEF TypeOK, ProgressType, FlagType, SetType
<1>20. CASE ColdHealth
  BY <1>20, FinallyGoes DEF TypeOK, ColdHealth
<1>21. CASE Restore
  <2>0. stage \in Commands /\ RestoreNext
    BY <1>21, RestoringType DEF Restore, Commands
  <2>1. ProgressType'
    <3>1. stage' \in Commands \cup {"apiHealth"} /\ step' = 0
      BY <2>0, RestoreGoes DEF Commands
    <3>2. round' = round
      BY <1>21 DEF Restore
    <3> QED
      BY <3>1, <3>2 DEF TypeOK, ProgressType, Commands
  <2>2. FlagType'
    BY <1>21, <2>0, RestoreGoes DEF TypeOK, FlagType, Restore, Restarted
  <2>3. SetType'
    BY <1>21, <2>0, RestoreGoes DEF TypeOK, SetType, Restore
  <2> QED
    BY <2>1, <2>2, <2>3 DEF TypeOK, ProgressType, FlagType, SetType
<1>22. CASE RestoreFails
  <2>1. ProgressType'
    BY <1>22 DEF TypeOK, ProgressType, RestoreFails, Raise, Go
  <2>2. FlagType'
    BY <1>22 DEF TypeOK, FlagType, RestoreFails, Restarted, Raise
  <2>3. SetType'
    BY <1>22 DEF TypeOK, SetType, RestoreFails, Raise
  <2> QED
    BY <2>1, <2>2, <2>3 DEF TypeOK, ProgressType, FlagType, SetType
<1>23. CASE Substituted
  BY <1>23 DEF TypeOK, Substituted, Raise, Go
<1>24. CASE ApiHealthy
  BY <1>24 DEF TypeOK, ApiHealthy, Go
<1>25. CASE Tick
  BY <1>25 DEF TypeOK, Tick
<1>26. CASE Boot
  BY <1>26 DEF TypeOK, Boot
<1>27. CASE NoticeRedis
  BY <1>27 DEF TypeOK, NoticeRedis
<1>28. ASSUME NEW p \in Pools, Acknowledge(p) PROVE TypeOK'
  BY <1>28 DEF TypeOK, Acknowledge
<1>29. ASSUME NEW p \in Pools, Replace(p) PROVE TypeOK'
  BY <1>29 DEF TypeOK, Replace
<1>30. ASSUME NEW p \in Pools, OtherCommand(p) PROVE TypeOK'
  BY <1>30 DEF TypeOK, OtherCommand
<1> QED
  BY <1>1, <1>2, <1>3, <1>4, <1>5, <1>6, <1>7, <1>8, <1>9, <1>10, <1>11, <1>12, <1>13,
     <1>14, <1>15, <1>16, <1>17, <1>18, <1>19, <1>20, <1>21, <1>22, <1>23, <1>24, <1>25,
     <1>26, <1>27, <1>28, <1>29, <1>30 DEF Next, Smoke, World

-----------------------------------------------------------------------------
(* The invariant is inductive.                                             *)

\* A run starts with everything whole.
LEMMA InitInv == Init => IInv
<1> SUFFICES ASSUME Init PROVE IInv
  OBVIOUS
<1>1. TypeOK
  BY InitType
<1>2. Safe
  BY DEF Init, Safe, PausedHere, SealedHere, RoundHere, NothingFailed, InOrder, KeyHeld,
     Budgeted, Heard, Decided, Cold
<1> QED
  BY <1>1, <1>2 DEF IInv

\* No step breaks the invariant.
LEMMA StepInv ==
    ASSUME TypeOK, Safe, Next PROVE Safe'
<1> USE OrderAssumption, RoundType DEF Awaiting, vars, smoke, services, fleet
<1>1. CASE ReadFleet
  BY <1>1 DEF Safe, PausedHere, SealedHere, RoundHere, NothingFailed, InOrder, KeyHeld,
     Budgeted, Heard, Decided, ReadFleet
<1>2. CASE ProbeNext
  BY <1>2 DEF Safe, PausedHere, SealedHere, RoundHere, NothingFailed, InOrder, KeyHeld,
     Budgeted, Heard, Decided, Commands, ProbeNext, Probe
<1>3. CASE ReadAgain
  BY <1>3 DEF Safe, PausedHere, SealedHere, RoundHere, NothingFailed, InOrder, KeyHeld,
     Budgeted, Heard, Decided, ReadAgain
<1>4. CASE Return
  <2>1. PausedHere'
    BY <1>4, NextInOrder DEF Safe, PausedHere, Mending, Return, Probe
  <2>2. SealedHere'
    BY <1>4, NextInOrder DEF Safe, SealedHere, Cold, Return, Probe
  <2>3. RoundHere'
    BY <1>4, NextInOrder DEF RoundHere, Mending, Cold, Return, Probe, AfterAwait,
       Observe, Raise, Go, Outside
  <2>4. NothingFailed'
    BY <1>4, NextInOrder DEF Safe, NothingFailed, Return, Probe, AfterAwait, Observe,
       Raise, Go
  <2>5. InOrder'
    BY <1>4, NextInOrder DEF TypeOK, Safe, InOrder, Return, Probe, Observe, Raise, Go,
       Outside, Following
  <2>6. KeyHeld'
    BY <1>4, NextInOrder DEF Safe, KeyHeld, Commands, Return, Probe
  <2>7. Budgeted'
    BY <1>4, NextInOrder DEF Budgeted, Commands, Return, Probe, AfterAwait, Observe,
       Raise, Go, Outside
  <2>8. Heard'
    BY <1>4, NextInOrder DEF Safe, Heard, Return
  <2>9. Decided'
    BY <1>4, NextInOrder DEF Decided, Return, Probe, AfterAwait, Observe, Raise, Go,
       Outside
  <2> QED
    BY <2>1, <2>2, <2>3, <2>4, <2>5, <2>6, <2>7, <2>8, <2>9 DEF Safe
<1>5. CASE Expire
  BY <1>5, FinallyGoes DEF Safe, PausedHere, SealedHere, RoundHere, NothingFailed,
     InOrder, KeyHeld, Budgeted, Heard, Decided, Mending, Cold, Commands, Expire,
     Checked, Throw, Raise, Go
<1>6. CASE Gate
  BY <1>6 DEF Safe, PausedHere, SealedHere, RoundHere, NothingFailed, InOrder, KeyHeld,
     Budgeted, Heard, Decided, Mending, Cold, Commands, Gate, Within, Go
<1>7. CASE Withdraw
  BY <1>7 DEF TypeOK, Safe, PausedHere, SealedHere, RoundHere, NothingFailed, InOrder,
     KeyHeld, Budgeted, Heard, Decided, Mending, Cold, Commands, Withdraw, Decide,
     Within, Go
<1>8. CASE SendDecision
  <2>1. PausedHere'
    BY <1>8 DEF Safe, PausedHere, SendDecision, Decide
  <2>2. SealedHere'
    BY <1>8 DEF Safe, SealedHere, SendDecision, Decide
  <2>3. RoundHere'
    BY <1>8 DEF RoundHere, Mending, Cold, SendDecision, Decide
  <2>4. NothingFailed'
    BY <1>8 DEF NothingFailed, SendDecision, Decide
  <2>5. InOrder'
    BY <1>8 DEF Safe, InOrder, SendDecision, Decide
  <2>6. KeyHeld'
    BY <1>8 DEF Safe, KeyHeld, SendDecision, Decide
  <2>7. Budgeted'
    BY <1>8 DEF Budgeted, Commands, SendDecision, Decide
  <2>8. Heard'
    BY <1>8 DEF Safe, Heard, SendDecision, Decide
  <2>9. Decided'
    BY <1>8 DEF TypeOK, Safe, Heard, Decided, SendDecision, Decide, Acknowledged
  <2> QED
    BY <2>1, <2>2, <2>3, <2>4, <2>5, <2>6, <2>7, <2>8, <2>9 DEF Safe
<1>9. CASE LastDecided
  <2>1. PausedHere'
    BY <1>9 DEF Safe, PausedHere, Mending, LastDecided
  <2>2. SealedHere'
    BY <1>9 DEF Safe, SealedHere, Cold, LastDecided
  <2>3. RoundHere'
    BY <1>9 DEF RoundHere, Mending, Cold, LastDecided, Go
  <2>4. NothingFailed'
    BY <1>9 DEF NothingFailed, LastDecided, Go
  <2>5. InOrder'
    BY <1>9 DEF Safe, InOrder, LastDecided
  <2>6. KeyHeld'
    BY <1>9 DEF Safe, KeyHeld, Commands, LastDecided
  <2>7. Budgeted'
    BY <1>9 DEF Budgeted, LastDecided, Acknowledged, Go
  <2>8. Heard'
    BY <1>9 DEF Safe, Heard, LastDecided
  <2>9. Decided'
    <3>1. Order[Len(Order)] \in returned
      BY <1>9 DEF Safe, Heard, LastDecided, Acknowledged, Pools
    <3>2. \A n \in 1..Len(Order) : Order[n] \in returned
      BY <1>9, <3>1 DEF Safe, Decided, LastDecided
    <3>3. Pools \subseteq returned
      BY <3>2 DEF Pools
    <3> QED
      BY <1>9, <3>3 DEF Decided, LastDecided, Go
  <2> QED
    BY <2>1, <2>2, <2>3, <2>4, <2>5, <2>6, <2>7, <2>8, <2>9 DEF Safe
<1>10. CASE Refused
  BY <1>10 DEF Safe, PausedHere, SealedHere, RoundHere, NothingFailed, InOrder, KeyHeld,
     Budgeted, Heard, Decided, Mending, Cold, Commands, Refused, Raise, Go
<1>11. CASE Pause
  BY <1>11, FinallyGoes DEF Safe, PausedHere, SealedHere, RoundHere, NothingFailed,
     InOrder, KeyHeld, Budgeted, Heard, Decided, Mending, Cold, Commands, Pause, Fault,
     Within, Go, Service
<1>12. CASE OutageSeen
  BY <1>12, FinallyGoes DEF Safe, PausedHere, SealedHere, RoundHere, NothingFailed,
     InOrder, KeyHeld, Budgeted, Heard, Decided, Mending, Cold, Commands, OutageSeen
<1>13. CASE OutageError
  BY <1>13, FinallyGoes DEF Safe, PausedHere, SealedHere, RoundHere, NothingFailed,
     InOrder, KeyHeld, Budgeted, Heard, Decided, Mending, Cold, Commands, OutageError,
     Throw
<1>14. CASE Unpause
  BY <1>14 DEF Safe, PausedHere, SealedHere, RoundHere, NothingFailed, InOrder, KeyHeld,
     Budgeted, Heard, Decided, Cold, Commands, Unpause, Go
<1>15. CASE UnpauseFails
  BY <1>15 DEF Safe, PausedHere, SealedHere, RoundHere, NothingFailed, InOrder, KeyHeld,
     Budgeted, Heard, Decided, Mending, Cold, Commands, UnpauseFails, UnpauseOnceMore,
     Go
<1>16. CASE UnpauseAgain
  BY <1>16 DEF Safe, PausedHere, SealedHere, RoundHere, NothingFailed, InOrder, KeyHeld,
     Budgeted, Heard, Decided, Mending, Cold, Commands, UnpauseAgain, Raise, Go, Service
<1>17. CASE Seal
  BY <1>17, FinallyGoes DEF TypeOK, Safe, PausedHere, SealedHere, RoundHere,
     NothingFailed, InOrder, KeyHeld, Budgeted, Heard, Decided, Mending, Cold, Commands,
     Seal, Fault, Outside, Go
<1>18. CASE ColdRestart
  BY <1>18, FinallyGoes DEF Safe, PausedHere, SealedHere, RoundHere, NothingFailed,
     InOrder, KeyHeld, Budgeted, Heard, Decided, Mending, Cold, Commands, ColdRestart,
     Outside, Throw, Go
<1>19. CASE ColdWatch
  BY <1>19, FinallyGoes DEF Safe, PausedHere, SealedHere, RoundHere, NothingFailed,
     InOrder, KeyHeld, Budgeted, Heard, Decided, Mending, Cold, Commands, ColdWatch,
     Throw, Within, Go
<1>20. CASE ColdHealth
  BY <1>20, FinallyGoes DEF Safe, PausedHere, SealedHere, RoundHere, NothingFailed,
     InOrder, KeyHeld, Budgeted, Heard, Decided, Mending, Cold, Commands, ColdHealth
<1>21. CASE Restore
  <2>0. stage \in Commands /\ RestoreNext
    BY <1>21, RestoringType DEF Restore, Commands
  <2>1. PausedHere'
    BY <1>21, <2>0, RestoreGoes DEF Safe, PausedHere, Mending, Commands, Restore
  <2>2. SealedHere'
    BY <1>21, <2>0, RestoreGoes DEF Safe, SealedHere, Cold, Commands, Restore, Restarted
  <2>3. RoundHere'
    BY <1>21, <2>0, RestoreGoes DEF RoundHere, Mending, Cold, Commands
  <2>4. NothingFailed'
    BY <1>21, <2>0, RestoreGoes DEF NothingFailed, Commands
  <2>5. InOrder'
    BY <1>21, <2>0, RestoreGoes DEF Safe, InOrder, Commands, Restore
  <2>6. KeyHeld'
    BY <1>21, <2>0, RestoreGoes DEF KeyHeld, Commands
  <2>7. Budgeted'
    BY <1>21, <2>0, RestoreGoes DEF Safe, Budgeted, Restore
  <2>8. Heard'
    BY <1>21, <2>0, RestoreGoes DEF Safe, Heard, Restore
  <2>9. Decided'
    BY <1>21, <2>0, RestoreGoes DEF Decided, Commands
  <2> QED
    BY <2>1, <2>2, <2>3, <2>4, <2>5, <2>6, <2>7, <2>8, <2>9 DEF Safe
<1>22. CASE RestoreFails
  <2>0. stage \in Commands
    BY <1>22, RestoringType DEF RestoreFails, Commands
  <2>1. PausedHere'
    BY <1>22, <2>0 DEF Safe, PausedHere, Mending, Commands, RestoreFails
  <2>2. SealedHere'
    <3>1. Restarted.sealed = (IF stage = "restart" THEN FALSE ELSE sealed)
      BY DEF Restarted
    <3>2. sealed' => sealed
      BY <1>22, <3>1, Zenon DEF RestoreFails
    <3>3. sealed => stage = "restart"
      BY <2>0 DEF Safe, SealedHere, Cold, Commands
    <3>4. CASE Retried
      BY <1>22, <3>2, <3>3, <3>4 DEF RestoreFails, SealedHere
    <3>5. CASE ~Retried
      <4>1. clock \in {"running", "spent"} /\ step \in 0..1
        BY <2>0 DEF TypeOK, Safe, Budgeted
      <4>2. clock = "running" \/ step = 1
        BY <3>5, <4>1 DEF Retried
      <4>3. denied'
        BY <1>22, <4>2, Zenon DEF RestoreFails
      <4>4. stage' = "end"
        BY <1>22, <3>5 DEF RestoreFails, Raise, Go
      <4> QED
        BY <4>3, <4>4 DEF SealedHere
    <3> QED
      BY <3>4, <3>5
  <2>3. RoundHere'
    BY <1>22, <2>0 DEF Safe, RoundHere, Mending, Cold, RestoreFails, Raise, Go
  <2>4. NothingFailed'
    BY <1>22, <2>0 DEF Safe, NothingFailed, RestoreFails, Raise, Go
  <2>5. InOrder'
    BY <1>22, <2>0 DEF Safe, InOrder, Commands, RestoreFails, Raise
  <2>6. KeyHeld'
    BY <1>22, <2>0 DEF KeyHeld, RestoreFails, Raise, Go
  <2>7. Budgeted'
    BY <1>22, <2>0 DEF Safe, Budgeted, RestoreFails, Raise, Go
  <2>8. Heard'
    BY <1>22, <2>0 DEF Safe, Heard, RestoreFails
  <2>9. Decided'
    BY <1>22, <2>0 DEF Safe, Decided, RestoreFails, Raise, Go
  <2> QED
    BY <2>1, <2>2, <2>3, <2>4, <2>5, <2>6, <2>7, <2>8, <2>9 DEF Safe
<1>23. CASE Substituted
  BY <1>23 DEF Safe, PausedHere, SealedHere, RoundHere, NothingFailed, InOrder, KeyHeld,
     Budgeted, Heard, Decided, Mending, Cold, Commands, Substituted, Raise, Go
<1>24. CASE ApiHealthy
  BY <1>24 DEF Safe, PausedHere, SealedHere, RoundHere, NothingFailed, InOrder, KeyHeld,
     Budgeted, Heard, Decided, Mending, Cold, ApiHealthy, Go
<1>25. CASE Tick
  BY <1>25 DEF Safe, PausedHere, SealedHere, RoundHere, NothingFailed, InOrder, KeyHeld,
     Budgeted, Heard, Decided, Tick
<1>26. CASE Boot
  BY <1>26 DEF Safe, PausedHere, SealedHere, RoundHere, NothingFailed, InOrder, KeyHeld,
     Budgeted, Heard, Decided, Boot
<1>27. CASE NoticeRedis
  BY <1>27 DEF Safe, PausedHere, SealedHere, RoundHere, NothingFailed, InOrder, KeyHeld,
     Budgeted, Heard, Decided, NoticeRedis
<1>28. ASSUME NEW p \in Pools, Acknowledge(p) PROVE Safe'
  BY <1>28 DEF Safe, PausedHere, SealedHere, RoundHere, NothingFailed, InOrder, KeyHeld,
     Budgeted, Heard, Decided, Acknowledge
<1>29. ASSUME NEW p \in Pools, Replace(p) PROVE Safe'
  BY <1>29 DEF Safe, PausedHere, SealedHere, RoundHere, NothingFailed, InOrder, KeyHeld,
     Budgeted, Heard, Decided, Replace
<1>30. ASSUME NEW p \in Pools, OtherCommand(p) PROVE Safe'
  BY <1>30 DEF Safe, PausedHere, SealedHere, RoundHere, NothingFailed, InOrder, KeyHeld,
     Budgeted, Heard, Decided, OtherCommand
<1> QED
  BY <1>1, <1>2, <1>3, <1>4, <1>5, <1>6, <1>7, <1>8, <1>9, <1>10, <1>11, <1>12, <1>13,
     <1>14, <1>15, <1>16, <1>17, <1>18, <1>19, <1>20, <1>21, <1>22, <1>23, <1>24, <1>25,
     <1>26, <1>27, <1>28, <1>29, <1>30 DEF Next, Smoke, World

\* A step of the run keeps the whole invariant, and so does a stutter.
LEMMA Inductive ==
    ASSUME IInv, [Next]_vars PROVE IInv'
<1>1. CASE Next
  BY <1>1, StepType, StepInv DEF IInv
<1>2. CASE UNCHANGED vars
  BY <1>2 DEF IInv, TypeOK, Safe, PausedHere, SealedHere, RoundHere, NothingFailed,
     InOrder, KeyHeld, Budgeted, Heard, Decided, vars, smoke, services, fleet
<1> QED
  BY <1>1, <1>2

-----------------------------------------------------------------------------
(* What it implies.                                                        *)

\* Outside its own faults the run leaves everything whole.
LEMMA Restored == IInv => EndsRestored
BY DEF IInv, Safe, PausedHere, SealedHere, EndsRestored, Mending, Cold

\* Only Pause and Seal break anything, and they find the fixture whole.
LEMMA FaultStep ==
    ASSUME IInv, Next, paused' \ paused # {} \/ (sealed' /\ ~sealed)
    PROVE  paused = {} /\ ~sealed /\ ~failed /\ observed = 1..round - 1
<1>1. CASE paused' \ paused # {}
  <2>1. Pause
    BY <1>1 DEF Next, Smoke, World, services, Decide, ReadFleet, ProbeNext, ReadAgain,
       Return, Expire, Gate, Withdraw, SendDecision, LastDecided, Refused, OutageSeen,
       OutageError, Unpause, UnpauseFails, UnpauseAgain, Seal, ColdRestart, ColdWatch,
       ColdHealth, Restore, RestoreFails, Substituted, ApiHealthy, Tick, Boot,
       NoticeRedis, Acknowledge, Replace, OtherCommand
  <2> QED
    BY <2>1 DEF Pause, Fault, IInv, Safe, PausedHere, SealedHere, NothingFailed,
       InOrder, Mending, Cold
<1>2. CASE sealed' /\ ~sealed
  <2>1. Restarted.sealed => sealed
    BY DEF Restarted
  <2>2. ~Restore /\ ~RestoreFails
    BY <1>2, <2>1, Zenon DEF Restore, RestoreFails
  <2>3. Seal
    BY <1>2, <2>2 DEF Next, Smoke, World, services, Decide, Pause, ReadFleet, ProbeNext,
       ReadAgain, Return, Expire, Gate, Withdraw, SendDecision, LastDecided, Refused,
       OutageSeen, OutageError, Unpause, UnpauseFails, UnpauseAgain, ColdRestart,
       ColdWatch, ColdHealth, Substituted, ApiHealthy, Tick, Boot, NoticeRedis,
       Acknowledge, Replace, OtherCommand
  <2> QED
    BY <2>3 DEF Seal, Fault, IInv, Safe, PausedHere, NothingFailed, InOrder, Mending
<1> QED
  BY <1>1, <1>2

\* Only the end of the second await_fleet records anything.
LEMMA ObserveStep ==
    ASSUME IInv, Next, observed' # observed
    PROVE  returned = Pools /\ clock = "running" /\ paused = {} /\ ~sealed /\ api = "up"
<1>1. Return
  BY DEF Next, World, Smoke, smoke, Fault, Decide, Raise, UnpauseOnceMore, ReadFleet,
     ProbeNext, ReadAgain, Expire, Gate, Withdraw, SendDecision, LastDecided, Refused,
     Pause, OutageSeen, OutageError, Unpause, UnpauseFails, UnpauseAgain, Seal,
     ColdRestart, ColdWatch, ColdHealth, Restore, RestoreFails, Substituted, ApiHealthy,
     Tick, Boot, NoticeRedis, Acknowledge, Replace, OtherCommand
<1>2. stage = "confirm" /\ clock = "running"
  BY <1>1 DEF Return, Probe, AfterAwait, Awaiting
<1> QED
  BY <1>2 DEF IInv, TypeOK, Safe, PausedHere, KeyHeld, Decided, Mending, Commands

-----------------------------------------------------------------------------
(* Theorems.                                                               *)

\* Every reachable state of the smoke satisfies the invariant.
LEMMA Invariant == Spec => []IInv
BY InitInv, Inductive, PTL DEF Spec

\* Every variable of the smoke stays in its domain, for any number of pools.
THEOREM SmokeTypeCorrect == Spec => []TypeOK
<1>1. IInv => TypeOK
  BY DEF IInv
<1> QED
  BY <1>1, Invariant, PTL

\* Wherever the smoke fails or runs out of time, its finally clauses leave the
\* owned services running and OpenBao open, unless a restoring command itself
\* has failed.
THEOREM SmokeRestores == Spec => []EndsRestored
BY Restored, Invariant, PTL

\* Each fault finds a fixture proven whole, and none follows a failure.
THEOREM FaultsFindItWhole == Spec => FaultsOnlyWhole
<1>1. IInv /\ [Next]_vars => [paused' \ paused # {} \/ (sealed' /\ ~sealed)
          => /\ paused = {} /\ ~sealed /\ ~failed
             /\ observed = 1..round - 1]_vars
  BY FaultStep
<1> QED
  BY <1>1, Invariant, PTL DEF Spec, FaultsOnlyWhole

\* A recorded restoration was acknowledged by every pool after the fault was
\* undone, within its budget.
THEOREM RecordedIsProven == Spec => RestoreIsProven
<1>1. IInv /\ [Next]_vars => [observed' # observed => /\ returned = Pools /\ clock = "running"
                               /\ paused = {} /\ ~sealed /\ api = "up"]_vars
  BY ObserveStep
<1> QED
  BY <1>1, Invariant, PTL DEF Spec, RestoreIsProven

-----------------------------------------------------------------------------
(* The smoke ends.                                                         *)

\* Every loop is under a budget, and so is what hands one on to a loop.
Clocked == stage \in Checked \cup Commands \cup {"mend", "mendAgain"} => clock # "off"

\* The stages that may follow a stage within a round.
Onward(s, t) ==
    \/ t = "end"
    \/ s = "baseline" /\ t = "gate"
    \/ s = "gate" /\ t = "withdraw"
    \/ s = "withdraw" /\ t = "withdrawn"
    \/ s = "withdrawn" /\ t = "fault"
    \/ s = "fault" /\ t \in {"outage", "mend", "cold", "restart"}
    \/ s = "outage" /\ t = "mend"
    \/ s = "mend" /\ t \in {"mendAgain", "reattach"}
    \/ s = "cold" /\ t \in {"watch", "restart"}
    \/ s = "watch" /\ t \in {"coldHealth", "restart"}
    \/ s = "coldHealth" /\ t = "restart"
    \/ s = "restart" /\ t = "bootstrap"
    \/ s = "bootstrap" /\ t = "cluster"
    \/ s = "cluster" /\ t = "apiRestart"
    \/ s = "apiRestart" /\ t = "apiHealth"
    \/ s = "apiHealth" /\ t = "reattach"
    \/ s = "reattach" /\ t = "decide"
    \/ s = "decide" /\ t = "confirm"

\* A step of the smoke leads on: to a later stage, to the next round, or to the
\* one retry of its stage, unless it is a round of a loop within its budget.
Forward ==
    /\ stage # "end" /\ Clocked'
    /\ \/ /\ stage' = stage /\ round' = round /\ clock' = clock
          /\ (stage \in Checked /\ clock = "running") \/ (step = 0 /\ step' = 1)
       \/ round' = round /\ stage' # stage /\ Onward(stage, stage')
       \/ stage = "confirm" /\ stage' = "fault" /\ round' = round + 1

LEMMA SmokeGoesForward ==
    ASSUME IInv, Clocked, Smoke
    PROVE  Forward
<1> USE OrderAssumption, RoundType DEF Awaiting, Forward, Clocked, Checked, Commands
<1>1. CASE ReadFleet
  BY <1>1 DEF ReadFleet
<1>2. CASE ProbeNext
  BY <1>2 DEF ProbeNext, Probe
<1>3. CASE ReadAgain
  BY <1>3 DEF ReadAgain
<1>4. CASE Return
  BY <1>4 DEF Return, Probe, AfterAwait, Observe, Raise, Go, Outside, Following, Onward
<1>5. CASE Expire
  BY <1>5, FinallyGoes
  DEF Expire, Throw, Raise, Go, Onward, IInv, TypeOK, Safe, RoundHere, Mending, Cold
<1>6. CASE Gate
  BY <1>6 DEF Gate, Within, Go, Onward
<1>7. CASE Withdraw
  BY <1>7 DEF Withdraw, Decide, Within, Go, Onward, Acknowledged
<1>8. CASE SendDecision
  BY <1>8 DEF SendDecision, Decide
<1>9. CASE LastDecided
  BY <1>9 DEF LastDecided, Go, Onward
<1>10. CASE Refused
  BY <1>10 DEF Refused, Raise, Go, Onward
<1>11. CASE Pause
  BY <1>11, FinallyGoes DEF Pause, Fault, Within, Go, Onward, IInv
<1>12. CASE OutageSeen
  BY <1>12, FinallyGoes DEF OutageSeen, Onward, IInv, Safe, RoundHere, Mending
<1>13. CASE OutageError
  BY <1>13, FinallyGoes DEF OutageError, Throw, Onward, IInv, Safe, RoundHere, Mending
<1>14. CASE Unpause
  BY <1>14 DEF Unpause, Go, Onward
<1>15. CASE UnpauseFails
  BY <1>15 DEF UnpauseFails, UnpauseOnceMore, Go, Onward
<1>16. CASE UnpauseAgain
  BY <1>16 DEF UnpauseAgain, Raise, Go, Onward
<1>17. CASE Seal
  <2>1. round = 4
    BY <1>17 DEF Seal, IInv, TypeOK
  <2> QED
    BY <1>17, <2>1, FinallyGoes DEF Seal, Fault, Outside, Go, Onward, IInv
<1>18. CASE ColdRestart
  BY <1>18, FinallyGoes
  DEF ColdRestart, Throw, Outside, Go, Onward, IInv, Safe, RoundHere, Cold
<1>19. CASE ColdWatch
  BY <1>19, FinallyGoes
  DEF ColdWatch, Throw, Within, Go, Onward, IInv, Safe, RoundHere, Cold
<1>20. CASE ColdHealth
  BY <1>20, FinallyGoes DEF ColdHealth, Onward, IInv, Safe, RoundHere, Cold
<1>21. CASE Restore
  BY <1>21, RestoreGoes, RestoringType DEF Restore, Onward
<1>22. CASE RestoreFails
  BY <1>22, RestoringType DEF RestoreFails, Retried, Raise, Go, Onward
<1>23. CASE Substituted
  BY <1>23 DEF Substituted, Raise, Go, Onward
<1>24. CASE ApiHealthy
  BY <1>24 DEF ApiHealthy, Go, Onward
<1> HIDE DEF Forward
<1> QED
  BY <1>1, <1>2, <1>3, <1>4, <1>5, <1>6, <1>7, <1>8, <1>9, <1>10, <1>11, <1>12, <1>13,
     <1>14, <1>15, <1>16, <1>17, <1>18, <1>19, <1>20, <1>21, <1>22, <1>23, <1>24, Zenon
  DEF Smoke

LEMMA ClockedHolds == Spec => []Clocked
<1>1. Init => Clocked
  BY DEF Init, Clocked
<1>2. IInv /\ Clocked /\ [Next]_vars => Clocked'
  <2> SUFFICES ASSUME IInv, Clocked, [Next]_vars PROVE Clocked'
    OBVIOUS
  <2>1. CASE Smoke
    BY <2>1, SmokeGoesForward DEF Forward
  <2>2. CASE Tick
    BY <2>2 DEF Tick, Clocked
  <2>3. CASE World \/ UNCHANGED vars
    BY <2>3 DEF World, Boot, NoticeRedis, Acknowledge, Replace, OtherCommand, vars, smoke, Clocked
  <2> QED
    BY <2>1, <2>2, <2>3 DEF Next
<1> QED
  BY <1>1, <1>2, Invariant, PTL DEF Spec

\* The smoke deals with a round, and is at a stage of it.
At(r, s) == round = r /\ stage = s

\* It has left that stage.
Beyond(r, s) ==
    \/ round = r /\ stage # s /\ Onward(s, stage)
    \/ s = "confirm" /\ At(r + 1, "fault")

Ends(r, s) == At(r, s) ~> Beyond(r, s)

\* A stage ends with its budget if not before: a loop when the budget is spent, any
\* other stage at its first step or at its retry.
LEMMA StageEnds ==
    ASSUME NEW r \in Rounds, NEW s \in Stages \ {"end"}
    PROVE  FairSpec /\ []SmokeCanGoOn => Ends(r, s)
<1> DEFINE Here == At(r, s)
           There == Beyond(r, s)
           Due == stage \in Checked => clock = "spent"
           Retry == step = 1
<1>1. IInv /\ Clocked /\ Here /\ [Next]_vars =>
        \/ There'
        \/ /\ Here' /\ (Due => Due' /\ (Retry => Retry'))
           /\ <<Smoke>>_vars /\ Due => ~Retry /\ Retry'
           /\ <<Tick>>_vars => Due'
  <2> SUFFICES ASSUME IInv, Clocked, Here, [Next]_vars
               PROVE  \/ There'
                      \/ /\ Here' /\ (Due => Due' /\ (Retry => Retry'))
                         /\ <<Smoke>>_vars /\ Due => ~Retry /\ Retry'
                         /\ <<Tick>>_vars => Due'
    OBVIOUS
  <2>1. CASE Smoke
    <3>1. Forward
      BY <2>1, SmokeGoesForward
    <3>2. ~Tick
      BY <2>1, <3>1 DEF Forward, Tick, Here, At
    <3> QED
      BY <3>1, <3>2 DEF Forward, At, Beyond
  <2>2. CASE Tick /\ ~Smoke
    BY <2>2 DEF Tick, At
  <2>3. CASE (World \/ UNCHANGED vars) /\ ~Smoke /\ ~Tick
    BY <2>3
    DEF World, Boot, NoticeRedis, Acknowledge, Replace, OtherCommand, vars, smoke, At
  <2> QED
    BY <2>1, <2>2, <2>3 DEF Next
<1>2. IInv /\ Clocked /\ Here => (~Due => stage \in Checked /\ clock = "running") /\ stage # "end"
  BY DEF IInv, TypeOK, Clocked, At
<1>3. SmokeCanGoOn /\ stage # "end" =>
        /\ stage \in Checked /\ clock = "running" => ENABLED <<Tick>>_vars
        /\ Due => ENABLED <<Smoke>>_vars
  BY DEF SmokeCanGoOn
<1> QED
  BY <1>1, <1>2, <1>3, Invariant, ClockedHolds, PTL DEF FairSpec, Spec, Ends

\* A round ends: with the smoke, or with the fault of the next round.
RoundOver(r) == stage = "end" \/ At(r + 1, "fault")

Passes(r) == At(r, "fault") ~> RoundOver(r)

LEMMA RoundEnds ==
    ASSUME NEW r \in Rounds
    PROVE  FairSpec /\ []SmokeCanGoOn => Passes(r)
<1> DEFINE Fair == FairSpec /\ []SmokeCanGoOn
           Over == RoundOver(r)
<1>1. Fair => (At(r, "confirm") ~> Over)
  <2>1. Fair => Ends(r, "confirm")
    BY StageEnds, StageType
  <2>2. Beyond(r, "confirm") => Over
    BY DEF Beyond, Onward, At, RoundOver
  <2> QED
    BY <2>1, <2>2, PTL DEF Ends
<1>2. Fair => (At(r, "decide") ~> Over)
  <2>1. Fair => Ends(r, "decide")
    BY StageEnds, StageType
  <2>2. Beyond(r, "decide") => Over \/ At(r, "confirm")
    BY DEF Beyond, Onward, At, RoundOver
  <2> QED
    BY <2>1, <2>2, <1>1, PTL DEF Ends
<1>3. Fair => (At(r, "reattach") ~> Over)
  <2>1. Fair => Ends(r, "reattach")
    BY StageEnds, StageType
  <2>2. Beyond(r, "reattach") => Over \/ At(r, "decide")
    BY DEF Beyond, Onward, At, RoundOver
  <2> QED
    BY <2>1, <2>2, <1>2, PTL DEF Ends
<1>4. Fair => (At(r, "apiHealth") ~> Over)
  <2>1. Fair => Ends(r, "apiHealth")
    BY StageEnds, StageType
  <2>2. Beyond(r, "apiHealth") => Over \/ At(r, "reattach")
    BY DEF Beyond, Onward, At, RoundOver
  <2> QED
    BY <2>1, <2>2, <1>3, PTL DEF Ends
<1>5. Fair => (At(r, "apiRestart") ~> Over)
  <2>1. Fair => Ends(r, "apiRestart")
    BY StageEnds, StageType
  <2>2. Beyond(r, "apiRestart") => Over \/ At(r, "apiHealth")
    BY DEF Beyond, Onward, At, RoundOver
  <2> QED
    BY <2>1, <2>2, <1>4, PTL DEF Ends
<1>6. Fair => (At(r, "cluster") ~> Over)
  <2>1. Fair => Ends(r, "cluster")
    BY StageEnds, StageType
  <2>2. Beyond(r, "cluster") => Over \/ At(r, "apiRestart")
    BY DEF Beyond, Onward, At, RoundOver
  <2> QED
    BY <2>1, <2>2, <1>5, PTL DEF Ends
<1>7. Fair => (At(r, "bootstrap") ~> Over)
  <2>1. Fair => Ends(r, "bootstrap")
    BY StageEnds, StageType
  <2>2. Beyond(r, "bootstrap") => Over \/ At(r, "cluster")
    BY DEF Beyond, Onward, At, RoundOver
  <2> QED
    BY <2>1, <2>2, <1>6, PTL DEF Ends
<1>8. Fair => (At(r, "restart") ~> Over)
  <2>1. Fair => Ends(r, "restart")
    BY StageEnds, StageType
  <2>2. Beyond(r, "restart") => Over \/ At(r, "bootstrap")
    BY DEF Beyond, Onward, At, RoundOver
  <2> QED
    BY <2>1, <2>2, <1>7, PTL DEF Ends
<1>9. Fair => (At(r, "coldHealth") ~> Over)
  <2>1. Fair => Ends(r, "coldHealth")
    BY StageEnds, StageType
  <2>2. Beyond(r, "coldHealth") => Over \/ At(r, "restart")
    BY DEF Beyond, Onward, At, RoundOver
  <2> QED
    BY <2>1, <2>2, <1>8, PTL DEF Ends
<1>10. Fair => (At(r, "watch") ~> Over)
  <2>1. Fair => Ends(r, "watch")
    BY StageEnds, StageType
  <2>2. Beyond(r, "watch") => Over \/ At(r, "coldHealth") \/ At(r, "restart")
    BY DEF Beyond, Onward, At, RoundOver
  <2> QED
    BY <2>1, <2>2, <1>9, <1>8, PTL DEF Ends
<1>11. Fair => (At(r, "cold") ~> Over)
  <2>1. Fair => Ends(r, "cold")
    BY StageEnds, StageType
  <2>2. Beyond(r, "cold") => Over \/ At(r, "watch") \/ At(r, "restart")
    BY DEF Beyond, Onward, At, RoundOver
  <2> QED
    BY <2>1, <2>2, <1>10, <1>8, PTL DEF Ends
<1>12. Fair => (At(r, "mendAgain") ~> Over)
  <2>1. Fair => Ends(r, "mendAgain")
    BY StageEnds, StageType
  <2>2. Beyond(r, "mendAgain") => Over
    BY DEF Beyond, Onward, At, RoundOver
  <2> QED
    BY <2>1, <2>2, PTL DEF Ends
<1>13. Fair => (At(r, "mend") ~> Over)
  <2>1. Fair => Ends(r, "mend")
    BY StageEnds, StageType
  <2>2. Beyond(r, "mend") => Over \/ At(r, "mendAgain") \/ At(r, "reattach")
    BY DEF Beyond, Onward, At, RoundOver
  <2> QED
    BY <2>1, <2>2, <1>12, <1>3, PTL DEF Ends
<1>14. Fair => (At(r, "outage") ~> Over)
  <2>1. Fair => Ends(r, "outage")
    BY StageEnds, StageType
  <2>2. Beyond(r, "outage") => Over \/ At(r, "mend")
    BY DEF Beyond, Onward, At, RoundOver
  <2> QED
    BY <2>1, <2>2, <1>13, PTL DEF Ends
<1>15. Fair => (At(r, "fault") ~> Over)
  <2>1. Fair => Ends(r, "fault")
    BY StageEnds, StageType
  <2>2. Beyond(r, "fault") => Over \/ At(r, "outage") \/ At(r, "mend") \/ At(r, "cold") \/ At(r, "restart")
    BY DEF Beyond, Onward, At, RoundOver
  <2> QED
    BY <2>1, <2>2, <1>14, <1>13, <1>11, <1>8, PTL DEF Ends
<1> QED
  BY <1>15, PTL DEF Passes

\* The smoke ends, even if nothing answers any more and whatever fails: every stage
\* has an end, none is returned to within its round, and the rounds are four.
THEOREM SmokeAlwaysEnds == FairSpec /\ []SmokeCanGoOn => SmokeEnds
<1> DEFINE Fair == FairSpec /\ []SmokeCanGoOn
           Over == stage = "end"
<1>1. Fair => (At(4, "fault") ~> Over)
  <2>1. Fair => Passes(4)
    BY RoundEnds, RoundType
  <2>2. IInv /\ RoundOver(4) => Over
    BY RoundType DEF IInv, TypeOK, RoundOver, At
  <2> QED
    BY <2>1, <2>2, Invariant, PTL DEF FairSpec, Passes
<1>2. Fair => (At(3, "fault") ~> Over)
  <2>1. Fair => Passes(3)
    BY RoundEnds, RoundType
  <2>2. RoundOver(3) => Over \/ At(4, "fault")
    BY DEF RoundOver, At
  <2> QED
    BY <2>1, <2>2, <1>1, PTL DEF Passes
<1>3. Fair => (At(2, "fault") ~> Over)
  <2>1. Fair => Passes(2)
    BY RoundEnds, RoundType
  <2>2. RoundOver(2) => Over \/ At(3, "fault")
    BY DEF RoundOver, At
  <2> QED
    BY <2>1, <2>2, <1>2, PTL DEF Passes
<1>4. Fair => (At(1, "fault") ~> Over)
  <2>1. Fair => Passes(1)
    BY RoundEnds, RoundType
  <2>2. RoundOver(1) => Over \/ At(2, "fault")
    BY DEF RoundOver, At
  <2> QED
    BY <2>1, <2>2, <1>3, PTL DEF Passes
<1>5. Fair => (At(1, "withdrawn") ~> Over)
  <2>1. Fair => Ends(1, "withdrawn")
    BY StageEnds, StageType, RoundType
  <2>2. Beyond(1, "withdrawn") => Over \/ At(1, "fault")
    BY DEF Beyond, Onward, At
  <2> QED
    BY <2>1, <2>2, <1>4, PTL DEF Ends
<1>6. Fair => (At(1, "withdraw") ~> Over)
  <2>1. Fair => Ends(1, "withdraw")
    BY StageEnds, StageType, RoundType
  <2>2. Beyond(1, "withdraw") => Over \/ At(1, "withdrawn")
    BY DEF Beyond, Onward, At
  <2> QED
    BY <2>1, <2>2, <1>5, PTL DEF Ends
<1>7. Fair => (At(1, "gate") ~> Over)
  <2>1. Fair => Ends(1, "gate")
    BY StageEnds, StageType, RoundType
  <2>2. Beyond(1, "gate") => Over \/ At(1, "withdraw")
    BY DEF Beyond, Onward, At
  <2> QED
    BY <2>1, <2>2, <1>6, PTL DEF Ends
<1>8. Fair => (At(1, "baseline") ~> Over)
  <2>1. Fair => Ends(1, "baseline")
    BY StageEnds, StageType, RoundType
  <2>2. Beyond(1, "baseline") => Over \/ At(1, "gate")
    BY DEF Beyond, Onward, At
  <2> QED
    BY <2>1, <2>2, <1>7, PTL DEF Ends
<1>9. Init => At(1, "baseline")
  BY DEF Init, At
<1> QED
  BY <1>8, <1>9, PTL DEF FairSpec, Spec, SmokeEnds

=============================================================================
