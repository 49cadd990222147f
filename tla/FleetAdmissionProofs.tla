------------------------ MODULE FleetAdmissionProofs ------------------------
(* Proofs about FleetAdmission, for every fleet and any number of calls.   *)
EXTENDS FleetAdmission, TLAPS

-----------------------------------------------------------------------------
(* Types.                                                                  *)

\* What the process of a call is before it starts and after it fails.
LEMMA ProcessType == \A pc \in {"idle", "failed"} : Process(pc) \in OpState
BY FleetAssumption DEF Process, OpState, Request, MaybeEvidence

\* Every variable starts in its domain.
LEMMA InitType == Init => TypeOK
<1> SUFFICES ASSUME Init PROVE TypeOK
  OBVIOUS
<1>1. pool \in [Pools -> PoolState]
  <2>1. InitialPool \subseteq [revision : {1}, initial : BOOLEAN, recovery : BOOLEAN,
                              retiring : {FALSE}, evidence : MaybeEvidence]
    BY Zenon DEF InitialPool
  <2>2. [revision : {1}, initial : BOOLEAN, recovery : BOOLEAN,
         retiring : {FALSE}, evidence : MaybeEvidence] \subseteq PoolState
    <3>1. {1} \subseteq Nat \ {0} /\ {FALSE} \subseteq BOOLEAN
      OBVIOUS
    <3> QED
      BY <3>1, Zenon DEF PoolState
  <2> QED
    BY <2>1, <2>2 DEF Init
<1>2. launcher \in [Launchers -> LauncherState]
  <2>1. \A p \in Pools : Settled(pool[p]) \in LauncherState
    BY <1>1 DEF Settled, LauncherState, PoolState
  <2>2. NoIncarnation \in LauncherState
    BY DEF NoIncarnation, LauncherState
  <2>3. {NoIncarnation} \cup {Settled(pool[p]) : p \in Pools} \subseteq LauncherState
    BY <2>1, <2>2
  <2> QED
    BY <2>3 DEF Init
<1>3. duties \in [Pools -> Nat]
  BY FleetAssumption DEF Init
<1>4. op \in [Ops -> OpState]
  BY ProcessType DEF Init
<1> QED
  BY <1>1, <1>2, <1>3, <1>4 DEF Init, TypeOK

\* A call changes only its own process and may send its PUT.
LEMMA ClientType ==
    ASSUME TypeOK, NEW o \in Ops, Client(o)
    PROVE  TypeOK'
<1>1. CASE \E r \in Requests : Call(o, r)
  <2>1. PICK r \in Requests : Call(o, r)
    BY <1>1
  <2>2. r \in Request
    BY <2>1 DEF Requests
  <2>3. pool[r.pool].revision \in Nat
    BY <2>2 DEF Request, TypeOK, PoolState
  <2>4. [op |-> o, request |-> r, expected |-> pool[r.pool].revision] \in PutMessage
    BY <2>2, <2>3 DEF PutMessage
  <2>5. op'[o] \in OpState
    BY <2>1, <2>2 DEF Call, TypeOK, OpState
  <2> QED
    BY <2>1, <2>4, <2>5 DEF Call, TypeOK
<1>2. CASE Refuse(o)
  BY <1>2, ProcessType DEF Refuse, TypeOK
<1>3. CASE Timeout(o)
  BY <1>3, ProcessType DEF Timeout, TypeOK
<1>4. CASE Unavailable(o)
  BY <1>4, ProcessType DEF Unavailable, TypeOK
<1>5. CASE Poll(o)
  <2>1. CASE op' = [op EXCEPT ![o].pc = "ok"]
    <3>1. op'[o] \in OpState
      BY <2>1 DEF TypeOK, OpState
    <3> QED
      BY <1>5, <2>1, <3>1 DEF Poll, TypeOK
  <2>2. CASE op' = [op EXCEPT ![o] = Process("failed")]
    BY <1>5, <2>2, ProcessType DEF Poll, TypeOK
  <2> QED
    BY <1>5, <2>1, <2>2 DEF Poll
<1>6. CASE Expire(o)
  <2>1. op'[o] \in OpState
    BY <1>6 DEF Expire, TypeOK, OpState
  <2> QED
    BY <1>6, <2>1 DEF Expire, TypeOK
<1> QED
  BY <1>1, <1>2, <1>3, <1>4, <1>5, <1>6 DEF Client

\* A PUT that the store applies leaves every variable in its domain.
LEMMA ApplyPutType ==
    ASSUME TypeOK, NEW m \in puts, ApplyPut(m)
    PROVE  TypeOK'
<1> DEFINE r == m.request
           p == pool[r.pool]
<1>1. m \in PutMessage /\ r \in Request /\ r.pool \in Pools /\ m.op \in Ops
  BY DEF TypeOK, PutMessage, Request
<1>2. p \in PoolState /\ op[m.op] \in OpState
  BY <1>1 DEF TypeOK
<1>3. pool' \in [Pools -> PoolState]
  <2>1. [revision |-> p.revision + 1, initial |-> r.initial, recovery |-> r.recovery,
         retiring |-> r.retiring,
         evidence |-> IF r.evidence = NoEvidence THEN p.evidence ELSE r.evidence] \in PoolState
    BY <1>1, <1>2 DEF PoolState, Request
  <2> QED
    BY <2>1, <1>1 DEF ApplyPut, TypeOK
<1>4. op' \in [Ops -> OpState]
  <2>0. p.revision + 1 \in Nat
    BY <1>2 DEF PoolState
  <2>1. [op[m.op] EXCEPT !.pc = "waiting", !.revision = p.revision + 1] \in OpState
    <3> HIDE DEF p, r
    <3> QED
      BY <1>2, <2>0 DEF OpState
  <2>2. Process("failed") \in OpState
    BY ProcessType
  <2> QED
    BY <1>1, <1>2, <2>1, <2>2 DEF ApplyPut, TypeOK
<1> QED
  BY <1>3, <1>4 DEF ApplyPut, TypeOK

\* Each step of the fleet changes one record of one launcher, or a count.
LEMMA FleetType ==
    ASSUME TypeOK, Fleet
    PROVE  TypeOK'
<1>1. CASE \E l \in Launchers : Register(l)
  <2>1. PICK l \in Launchers : Register(l)
    BY <1>1
  <2>2. launcher'[l] \in LauncherState
    BY <2>1 DEF Register, TypeOK, LauncherState, NoIncarnation
  <2> QED
    BY <2>1, <2>2 DEF Register, TypeOK
<1>2. CASE \E l \in Launchers : Apply(l)
  <2>1. PICK l \in Launchers : Apply(l)
    BY <1>2
  <2>2. PoolOf[l] \in Pools /\ pool[PoolOf[l]] \in PoolState /\ launcher[l] \in LauncherState
    BY FleetAssumption DEF TypeOK
  <2>3. launcher'[l] \in LauncherState
    BY <2>1, <2>2 DEF Apply, TypeOK, LauncherState, PoolState
  <2> QED
    BY <2>1, <2>3 DEF Apply, TypeOK
<1>3. CASE \E l \in Launchers : ReportAck(l)
  <2>1. PICK l \in Launchers : ReportAck(l)
    BY <1>3
  <2>2. launcher'[l] \in LauncherState
    BY <2>1 DEF ReportAck, TypeOK, LauncherState
  <2> QED
    BY <2>1, <2>2 DEF ReportAck, TypeOK
<1>4. CASE \E l \in Launchers : FlipReady(l)
  <2>1. PICK l \in Launchers : FlipReady(l)
    BY <1>4
  <2>2. launcher'[l] \in LauncherState
    BY <2>1 DEF FlipReady, TypeOK, LauncherState
  <2> QED
    BY <2>1, <2>2 DEF FlipReady, TypeOK
<1>5. CASE \E l \in Launchers : Accept(l)
  <2>1. PICK l \in Launchers : Accept(l)
    BY <1>5
  <2>2. launcher'[l] \in LauncherState
    BY <2>1 DEF Accept, TypeOK, LauncherState
  <2> QED
    BY <2>1, <2>2 DEF Accept, TypeOK
<1>6. CASE \E l \in Launchers : Finish(l)
  <2>1. PICK l \in Launchers : Finish(l)
    BY <1>6
  <2>2. launcher'[l] \in LauncherState
    BY <2>1 DEF Finish, TypeOK, LauncherState
  <2> QED
    BY <2>1, <2>2 DEF Finish, TypeOK
<1>7. CASE \E l \in Launchers : Lose(l)
  <2>1. PICK l \in Launchers : Lose(l)
    BY <1>7
  <2>2. PoolOf[l] \in Pools /\ launcher[l].jobs \in Nat
    BY FleetAssumption DEF TypeOK, LauncherState
  <2>3. launcher' \in [Launchers -> LauncherState]
    BY <2>1 DEF Lose, TypeOK, LauncherState, NoIncarnation
  <2>4. duties' \in [Pools -> Nat]
    BY <2>1, <2>2 DEF Lose, TypeOK
  <2> QED
    BY <2>1, <2>3, <2>4 DEF Lose, TypeOK
<1>8. CASE \E l \in Launchers, p \in Pools : Recover(l, p)
  <2>1. PICK l \in Launchers, p \in Pools : Recover(l, p)
    BY <1>8
  <2>2. launcher' \in [Launchers -> LauncherState]
    BY <2>1 DEF Recover, TypeOK, LauncherState
  <2>3. duties' \in [Pools -> Nat]
    BY <2>1 DEF Recover, TypeOK
  <2> QED
    BY <2>1, <2>2, <2>3 DEF Recover, TypeOK
<1>9. CASE \E p \in Pools : Settle(p)
  BY <1>9 DEF Settle, TypeOK
<1>10. CASE DrainLegacy
  BY <1>10 DEF DrainLegacy, TypeOK
<1>11. CASE FlipData
  BY <1>11 DEF FlipData, TypeOK
<1> QED
  BY <1>1, <1>2, <1>3, <1>4, <1>5, <1>6, <1>7, <1>8, <1>9, <1>10, <1>11 DEF Fleet

\* No step leaves the domains.
LEMMA NextType == TypeOK /\ [Next]_vars => TypeOK'
<1>1. CASE Next
  BY <1>1, ClientType, ApplyPutType, FleetType DEF Next
<1>2. CASE UNCHANGED vars
  BY <1>2 DEF vars, TypeOK
<1> QED
  BY <1>1, <1>2

\* Every variable stays in its domain, whatever the size of the fleet.
THEOREM TypeCorrect == Spec => []TypeOK
BY InitType, NextType, PTL DEF Spec

-----------------------------------------------------------------------------
(* The inductive invariant.                                                *)

\* An incarnation runs under desired state that was current once; one that
\* acknowledged the latest revision runs under its flags.
LauncherInv ==
    \A l \in Launchers :
        LET p == pool[PoolOf[l]]
        IN  /\ launcher[l].ack <= launcher[l].applied
            /\ launcher[l].applied <= p.revision
            /\ launcher[l].applied = p.revision =>
                  launcher[l].initial = p.initial /\ launcher[l].recovery = p.recovery
            /\ ~launcher[l].live => launcher[l] = NoIncarnation

\* A PUT that can still be accepted was decided on the state it will change.
PutInv ==
    \A m \in puts :
        LET r == m.request
            p == pool[r.pool]
        IN  /\ r \in Requests
            /\ m.expected <= p.revision
            /\ m.expected = p.revision =>
                  /\ ~p.retiring
                  /\ r.retiring => ~Accepting(p) /\ Quiet(r.pool) /\ ~Busy(r.pool)
                  /\ Accepting(r) =>
                        legacyDrained /\ FirstCutoverAuthorized(r.pool, r.evidence)

\* A retired pool is as retire found it.
RetiredInv ==
    \A p \in Pools : pool[p].retiring => ~Accepting(pool[p]) /\ Quiet(p) /\ ~Busy(p)

\* A call has no revision before the answer to its PUT, and the revision that
\* a withdrawing call saw acknowledged is in force.
WithdrawnInv ==
    \A o \in Ops, p \in Pools :
        op[o].request.pool = p =>
            /\ op[o].revision <= pool[p].revision
            /\ op[o].pc \in {"idle", "sent"} => op[o].revision = 0
            /\ op[o].pc = "ok" /\ ~Accepting(op[o].request) /\ op[o].revision = pool[p].revision
               => ~Accepting(pool[p]) /\ Quiet(p)

\* A PUT is the one its call sent.
SenderInv ==
    \A m \in puts :
        /\ op[m.op].pc # "idle"
        /\ op[m.op].pc = "sent" => op[m.op].request = m.request

IInv ==
    /\ TypeOK
    /\ LauncherInv
    /\ PutInv
    /\ SenderInv
    /\ RetiredInv
    /\ WithdrawnInv
    /\ WorkIsAuthorized


-----------------------------------------------------------------------------
(* What acknowledgements prove, and what the fleet cannot undo.            *)

\* If every live incarnation acknowledged a state that does not accept, none
\* accepts.
LEMMA AckedIsQuiet ==
    ASSUME TypeOK, LauncherInv, NEW p \in Pools, PoolAck(p), ~Accepting(pool[p])
    PROVE  Quiet(p)
<1> SUFFICES ASSUME NEW l \in Members(p) PROVE ~Accepting(launcher[l])
  BY DEF Quiet
<1>1. l \in Launchers /\ PoolOf[l] = p
  BY DEF Members
<1>2. CASE launcher[l].live
  <2>1. launcher[l].ack = pool[p].revision
    BY <1>2 DEF PoolAck, Live
  <2>2. /\ launcher[l].ack \in Nat /\ launcher[l].applied \in Nat
        /\ pool[p].revision \in Nat
    BY <1>1 DEF TypeOK, LauncherState, PoolState
  <2>3. launcher[l].applied = pool[p].revision
    BY <1>1, <2>1, <2>2 DEF LauncherInv
  <2> QED
    BY <1>1, <2>3 DEF LauncherInv, Accepting
<1>3. CASE ~launcher[l].live
  BY <1>1, <1>3 DEF LauncherInv, NoIncarnation, Accepting
<1> QED
  BY <1>2, <1>3

\* A pool that may be retired has no work, in or out of the inventories.
LEMMA RetirableIsIdle ==
    ASSUME TypeOK, LauncherInv, NEW p \in Pools, Retirable(p)
    PROVE  Quiet(p) /\ ~Busy(p)
<1>1. Quiet(p)
  BY AckedIsQuiet DEF Retirable
<1>2. ASSUME NEW l \in Members(p) PROVE ~(launcher[l].jobs > 0)
  <2>1. CASE launcher[l].live
    BY <2>1 DEF Retirable, Live
  <2>2. CASE ~launcher[l].live
    BY <2>2 DEF LauncherInv, NoIncarnation, Members
  <2> QED
    BY <2>1, <2>2
<1> QED
  BY <1>1, <1>2 DEF Busy, Retirable

\* A call changes nothing but its process and the PUTs.
LEMMA ClientFrame ==
    ASSUME NEW o \in Ops, Client(o)
    PROVE  UNCHANGED <<pool, launcher, duties, legacyDrained>>
BY DEF Client, Call, Refuse, Timeout, Unavailable, Poll, Expire

\* The fleet never changes the desired state, the calls or their requests,
\* and the legacy drain is final.
LEMMA FleetFrame ==
    ASSUME TypeOK, Fleet
    PROVE  UNCHANGED <<pool, op, puts>> /\ (legacyDrained => legacyDrained')
<1>1. UNCHANGED <<pool, op, puts>>
  BY Zenon DEF Fleet, Register, Apply, ReportAck, FlipReady, Accept, Finish, Lose, Recover,
               Settle, DrainLegacy, FlipData
<1>2. legacyDrained' = legacyDrained \/ legacyDrained' = TRUE
  BY Zenon DEF Fleet, Register, Apply, ReportAck, FlipReady, Accept, Finish, Lose, Recover,
               Settle, DrainLegacy, FlipData
<1> QED
  BY <1>1, <1>2

\* A pool that is withdrawn and quiet stays quiet: an incarnation that comes
\* back finds the withdrawal.
LEMMA FleetKeepsQuiet ==
    ASSUME TypeOK, Fleet, NEW p \in Pools, ~Accepting(pool[p]), Quiet(p)
    PROVE  Quiet(p)'
<1> SUFFICES ASSUME NEW k \in Members(p) PROVE ~Accepting(launcher'[k])
  BY DEF Quiet, Members
<1>1. k \in Launchers /\ PoolOf[k] = p /\ ~launcher[k].initial /\ ~launcher[k].recovery
  BY DEF Members, Quiet, Accepting
<1>2. CASE \E l \in Launchers : Register(l)
  BY <1>1, <1>2 DEF Register, TypeOK, LauncherState, NoIncarnation, Accepting
<1>3. CASE \E l \in Launchers : Apply(l)
  BY <1>1, <1>3 DEF Apply, TypeOK, LauncherState, Accepting
<1>4. CASE \E l \in Launchers : ReportAck(l) \/ FlipReady(l) \/ Accept(l) \/ Finish(l)
  <2>1. PICK l \in Launchers : ReportAck(l) \/ FlipReady(l) \/ Accept(l) \/ Finish(l)
    BY <1>4
  <2>2. launcher'[k].initial = launcher[k].initial /\ launcher'[k].recovery = launcher[k].recovery
    BY <1>1, <2>1 DEF ReportAck, FlipReady, Accept, Finish, TypeOK, LauncherState
  <2> QED
    BY <1>1, <2>2 DEF Accepting
<1>5. CASE \E l \in Launchers : Lose(l)
  BY <1>1, <1>5 DEF Lose, TypeOK, LauncherState, NoIncarnation, Accepting
<1>6. CASE \E l \in Launchers, q \in Pools : Recover(l, q)
  BY <1>1, <1>6 DEF Recover, TypeOK, LauncherState, Accepting
<1>7. CASE (\E q \in Pools : Settle(q)) \/ DrainLegacy \/ FlipData
  BY <1>1, <1>7 DEF Settle, DrainLegacy, FlipData, Accepting
<1> QED
  BY <1>2, <1>3, <1>4, <1>5, <1>6, <1>7 DEF Fleet

\* A quiet pool without work gets none.
LEMMA FleetKeepsIdle ==
    ASSUME TypeOK, Fleet, NEW p \in Pools, Quiet(p), ~Busy(p)
    PROVE  ~Busy(p)'
<1>1. /\ duties[p] = 0
      /\ \A k \in Members(p) : launcher[k].jobs = 0 /\ ~launcher[k].initial /\ ~launcher[k].recovery
  BY DEF Busy, Quiet, Accepting, TypeOK, LauncherState, Members
<1> SUFFICES duties'[p] = 0 /\ \A k \in Members(p) : launcher'[k].jobs = 0
  BY DEF Busy, Members
<1>2. Members(p) \subseteq Launchers /\ \A l \in Launchers \ Members(p) : PoolOf[l] # p
  BY DEF Members
<1>3. CASE \E l \in Launchers : Register(l)
  BY <1>1, <1>2, <1>3 DEF Register, TypeOK, LauncherState, NoIncarnation
<1>4. CASE \E l \in Launchers : Apply(l) \/ ReportAck(l) \/ FlipReady(l)
  <2>1. PICK l \in Launchers : Apply(l) \/ ReportAck(l) \/ FlipReady(l)
    BY <1>4
  <2>2. \A k \in Launchers : launcher'[k].jobs = launcher[k].jobs
    <3>1. CASE Apply(l)
      BY <3>1 DEF Apply, TypeOK, LauncherState
    <3>2. CASE ReportAck(l)
      BY <3>2 DEF ReportAck, TypeOK, LauncherState
    <3>3. CASE FlipReady(l)
      BY <3>3 DEF FlipReady, TypeOK, LauncherState
    <3> QED
      BY <2>1, <3>1, <3>2, <3>3
  <2>3. duties' = duties
    BY <2>1 DEF Apply, ReportAck, FlipReady
  <2> QED
    BY <1>1, <1>2, <2>2, <2>3
<1>5. CASE \E l \in Launchers : Accept(l) \/ Finish(l)
  <2>1. PICK l \in Launchers : Accept(l) \/ Finish(l)
    BY <1>5
  <2>2. l \notin Members(p)
    BY <1>1, <2>1 DEF Accept, Finish
  <2> QED
    BY <1>1, <1>2, <2>1, <2>2 DEF Accept, Finish, TypeOK
<1>6. CASE \E l \in Launchers : Lose(l)
  <2>1. PICK l \in Launchers : Lose(l)
    BY <1>6
  <2>2. \A k \in Members(p) : launcher'[k].jobs = 0
    BY <1>1, <1>2, <2>1 DEF Lose, TypeOK, NoIncarnation
  <2>3. duties'[p] = 0
    BY <1>1, <1>2, <2>1 DEF Lose, TypeOK
  <2> QED
    BY <2>2, <2>3
<1>7. CASE \E l \in Launchers, q \in Pools : Recover(l, q)
  <2>1. PICK l \in Launchers, q \in Pools : Recover(l, q)
    BY <1>7
  <2>2. l \notin Members(p) /\ q # p
    BY <1>1, <2>1 DEF Recover
  <2> QED
    BY <1>1, <1>2, <2>1, <2>2 DEF Recover, TypeOK
<1>8. CASE (\E q \in Pools : Settle(q)) \/ DrainLegacy \/ FlipData
  BY <1>1, <1>8 DEF Settle, DrainLegacy, FlipData, TypeOK
<1> QED
  BY <1>3, <1>4, <1>5, <1>6, <1>7, <1>8 DEF Fleet

-----------------------------------------------------------------------------
(* The invariant holds initially and is preserved, one part at a time.     *)

\* The whole invariant holds before any call.
LEMMA InitInv == Init => IInv
<1> SUFFICES ASSUME Init PROVE IInv
  OBVIOUS
<1>1. TypeOK
  BY InitType
<1>2. LauncherInv
  <2> SUFFICES ASSUME NEW l \in Launchers
               PROVE  /\ launcher[l].ack <= launcher[l].applied
                      /\ launcher[l].applied <= pool[PoolOf[l]].revision
                      /\ launcher[l].applied = pool[PoolOf[l]].revision =>
                            /\ launcher[l].initial = pool[PoolOf[l]].initial
                            /\ launcher[l].recovery = pool[PoolOf[l]].recovery
                      /\ ~launcher[l].live => launcher[l] = NoIncarnation
    BY DEF LauncherInv
  <2>1. pool[PoolOf[l]].revision \in Nat \ {0}
    BY <1>1, FleetAssumption DEF TypeOK, PoolState
  <2>2. CASE launcher[l] = NoIncarnation
    <3>1. launcher[l].ack = 0 /\ launcher[l].applied = 0
      BY <2>2 DEF NoIncarnation
    <3> QED
      BY <2>1, <2>2, <3>1
  <2>3. CASE launcher[l] = Settled(pool[PoolOf[l]])
    <3>1. /\ launcher[l].live
          /\ launcher[l].ack = pool[PoolOf[l]].revision
          /\ launcher[l].applied = pool[PoolOf[l]].revision
          /\ launcher[l].initial = pool[PoolOf[l]].initial
          /\ launcher[l].recovery = pool[PoolOf[l]].recovery
      BY <2>3 DEF Settled
    <3> QED
      BY <2>1, <3>1
  <2> QED
    BY <2>2, <2>3 DEF Init
<1>3. \A p \in Pools : ~pool[p].retiring /\ (Accepting(pool[p]) => legacyDrained /\ pool[p].evidence # NoEvidence)
  BY DEF Init, InitialPool
<1>4. \A l \in Launchers : launcher[l].jobs = 0 /\ (Accepting(launcher[l]) => Accepting(pool[PoolOf[l]]))
  BY DEF Init, NoIncarnation, Settled, Accepting
<1>5. WorkIsAuthorized
  <2> SUFFICES ASSUME NEW p \in Pools, Accepting(pool[p]) \/ ~Quiet(p) \/ Busy(p)
               PROVE  legacyDrained /\ pool[p].evidence # NoEvidence
    BY DEF WorkIsAuthorized
  <2>1. CASE Accepting(pool[p]) \/ ~Quiet(p)
    BY <1>3, <1>4, <2>1 DEF Quiet, Members
  <2>2. CASE Busy(p)
    <3>1. duties[p] > 0
      BY <1>4, <2>2 DEF Busy, Members
    <3> QED
      BY <3>1 DEF Init
  <2> QED
    BY <2>1, <2>2
<1>6. PutInv /\ SenderInv
  BY DEF Init, PutInv, SenderInv
<1>7. RetiredInv
  BY <1>3 DEF RetiredInv
<1>8. WithdrawnInv
  <2> SUFFICES ASSUME NEW o \in Ops
               PROVE  op[o].revision = 0 /\ op[o].pc # "ok"
    BY <1>1 DEF WithdrawnInv, TypeOK, PoolState
  <2>1. op[o] = Process("idle")
    BY DEF Init
  <2> QED
    BY <2>1 DEF Process
<1> QED
  BY <1>1, <1>2, <1>5, <1>6, <1>7, <1>8 DEF IInv

\* What an accepted PUT does to its pool and to the other pools.
LEMMA ApplyPutEffect ==
    ASSUME TypeOK, NEW m \in puts, ApplyPut(m)
    PROVE  /\ m.request \in Request /\ m.request.pool \in Pools /\ m.op \in Ops
           /\ UNCHANGED <<launcher, duties, legacyDrained>>
           /\ puts' \subseteq puts
           /\ \A p \in Pools : pool'[p] = pool[p] \/ (Acceptable(m) /\ p = m.request.pool)
           /\ Acceptable(m) =>
                 LET p == m.request.pool
                 IN  /\ pool'[p].revision = pool[p].revision + 1
                     /\ pool'[p].initial = m.request.initial
                     /\ pool'[p].recovery = m.request.recovery
                     /\ pool'[p].retiring = m.request.retiring
                     /\ pool'[p].evidence = IF m.request.evidence = NoEvidence
                                            THEN pool[p].evidence ELSE m.request.evidence
<1>1. m.request \in Request /\ m.request.pool \in Pools /\ m.op \in Ops
  BY DEF TypeOK, PutMessage, Request
<1>2. UNCHANGED <<launcher, duties, legacyDrained>> /\ puts' \subseteq puts
  BY DEF ApplyPut
<1>3. \A p \in Pools : pool'[p] = pool[p] \/ (Acceptable(m) /\ p = m.request.pool)
  BY <1>1 DEF ApplyPut, TypeOK
<1>4. CASE Acceptable(m)
  BY <1>1, <1>2, <1>3, <1>4 DEF ApplyPut, TypeOK
<1>5. CASE ~Acceptable(m)
  BY <1>1, <1>2, <1>3, <1>5
<1> QED
  BY <1>4, <1>5

\* No step breaks LauncherInv.
LEMMA LauncherStep == IInv /\ Next => LauncherInv'
<1> SUFFICES ASSUME IInv, Next PROVE LauncherInv'
  OBVIOUS
<1>1. CASE \E o \in Ops : Client(o)
  BY <1>1, ClientFrame DEF IInv, LauncherInv
<1>2. CASE \E m \in puts : ApplyPut(m)
  <2>1. PICK m \in puts : ApplyPut(m)
    BY <1>2
  <2> SUFFICES ASSUME NEW l \in Launchers
               PROVE  /\ launcher[l].ack <= launcher[l].applied
                      /\ launcher[l].applied <= pool'[PoolOf[l]].revision
                      /\ launcher[l].applied = pool'[PoolOf[l]].revision =>
                            /\ launcher[l].initial = pool'[PoolOf[l]].initial
                            /\ launcher[l].recovery = pool'[PoolOf[l]].recovery
                      /\ ~launcher[l].live => launcher[l] = NoIncarnation
    BY <2>1, ApplyPutEffect DEF IInv, LauncherInv
  <2>2. /\ launcher[l].applied \in Nat /\ launcher[l].ack \in Nat
        /\ PoolOf[l] \in Pools /\ pool[PoolOf[l]].revision \in Nat
    BY FleetAssumption DEF IInv, TypeOK, LauncherState, PoolState
  <2>3. \/ pool'[PoolOf[l]] = pool[PoolOf[l]]
        \/ pool'[PoolOf[l]].revision = pool[PoolOf[l]].revision + 1
    BY <2>1, <2>2, ApplyPutEffect DEF IInv
  <2> QED
    BY <2>2, <2>3 DEF IInv, LauncherInv
<1>3. CASE Fleet
  <2>1. pool' = pool
    BY <1>3, FleetFrame DEF IInv
  <2> SUFFICES ASSUME NEW k \in Launchers
               PROVE  /\ launcher'[k].ack <= launcher'[k].applied
                      /\ launcher'[k].applied <= pool[PoolOf[k]].revision
                      /\ launcher'[k].applied = pool[PoolOf[k]].revision =>
                            /\ launcher'[k].initial = pool[PoolOf[k]].initial
                            /\ launcher'[k].recovery = pool[PoolOf[k]].recovery
                      /\ ~launcher'[k].live => launcher'[k] = NoIncarnation
    BY <2>1 DEF LauncherInv
  <2>2. /\ launcher[k] \in LauncherState /\ PoolOf[k] \in Pools
        /\ pool[PoolOf[k]].revision \in Nat \ {0}
        /\ launcher[k].ack <= launcher[k].applied
        /\ launcher[k].applied <= pool[PoolOf[k]].revision
        /\ launcher[k].applied = pool[PoolOf[k]].revision =>
              /\ launcher[k].initial = pool[PoolOf[k]].initial
              /\ launcher[k].recovery = pool[PoolOf[k]].recovery
        /\ ~launcher[k].live => launcher[k] = NoIncarnation
    BY FleetAssumption DEF IInv, TypeOK, PoolState, LauncherInv
  <2>3. CASE launcher'[k] = launcher[k]
    BY <2>2, <2>3
  <2>4. CASE Register(k)
    <3>1. launcher'[k] = [NoIncarnation EXCEPT !.live = TRUE]
      BY <2>4 DEF Register, IInv, TypeOK
    <3>2. /\ launcher'[k].live /\ launcher'[k].applied = 0 /\ launcher'[k].ack = 0
      BY <3>1 DEF NoIncarnation
    <3> QED
      BY <2>2, <3>2
  <2>5. CASE Apply(k)
    BY <2>2, <2>5 DEF Apply, IInv, TypeOK, LauncherState
  <2>6. CASE ReportAck(k)
    BY <2>2, <2>6 DEF ReportAck, IInv, TypeOK, LauncherState
  <2>7. CASE FlipReady(k)
    BY <2>2, <2>7 DEF FlipReady, IInv, TypeOK, LauncherState
  <2>8. CASE Accept(k)
    BY <2>2, <2>8 DEF Accept, IInv, TypeOK, LauncherState
  <2>9. CASE Finish(k)
    <3>1. launcher[k].live
      BY <2>2, <2>9 DEF Finish, NoIncarnation
    <3>2. launcher'[k] = [launcher[k] EXCEPT !.jobs = @ - 1]
      BY <2>9 DEF Finish, IInv, TypeOK
    <3>3. /\ launcher'[k].live = launcher[k].live /\ launcher'[k].ack = launcher[k].ack
          /\ launcher'[k].applied = launcher[k].applied
          /\ launcher'[k].initial = launcher[k].initial
          /\ launcher'[k].recovery = launcher[k].recovery
      BY <2>2, <3>2 DEF LauncherState
    <3> QED
      BY <2>2, <3>1, <3>3
  <2>10. CASE Lose(k)
    <3>1. launcher'[k] = NoIncarnation
      BY <2>10 DEF Lose, IInv, TypeOK
    <3>2. launcher'[k].ack = 0 /\ launcher'[k].applied = 0
      BY <3>1 DEF NoIncarnation
    <3> QED
      BY <2>2, <3>1, <3>2
  <2>11. CASE \E q \in Pools : Recover(k, q)
    <3>1. launcher[k].live /\ launcher'[k] = [launcher[k] EXCEPT !.jobs = @ + 1]
      BY <2>11 DEF Recover, IInv, TypeOK
    <3>2. /\ launcher'[k].live = launcher[k].live /\ launcher'[k].ack = launcher[k].ack
          /\ launcher'[k].applied = launcher[k].applied
          /\ launcher'[k].initial = launcher[k].initial
          /\ launcher'[k].recovery = launcher[k].recovery
      BY <2>2, <3>1 DEF LauncherState
    <3> QED
      BY <2>2, <3>1, <3>2
  <2>12. \/ launcher'[k] = launcher[k]
         \/ Register(k) \/ Apply(k) \/ ReportAck(k) \/ FlipReady(k) \/ Accept(k)
         \/ Finish(k) \/ Lose(k) \/ \E q \in Pools : Recover(k, q)
    <3>1. CASE \E l \in Launchers : Register(l) \/ Apply(l) \/ ReportAck(l) \/ FlipReady(l)
      BY <3>1 DEF Register, Apply, ReportAck, FlipReady, IInv, TypeOK
    <3>2. CASE \E l \in Launchers : Accept(l) \/ Finish(l) \/ Lose(l)
      BY <3>2 DEF Accept, Finish, Lose, IInv, TypeOK
    <3>3. CASE \E l \in Launchers, q \in Pools : Recover(l, q)
      BY <3>3 DEF Recover, IInv, TypeOK
    <3>4. CASE (\E q \in Pools : Settle(q)) \/ DrainLegacy \/ FlipData
      BY <3>4 DEF Settle, DrainLegacy, FlipData
    <3> QED
      BY <1>3, <3>1, <3>2, <3>3, <3>4 DEF Fleet
  <2> QED
    BY <2>3, <2>4, <2>5, <2>6, <2>7, <2>8, <2>9, <2>10, <2>11, <2>12
<1> QED
  BY <1>1, <1>2, <1>3 DEF Next

\* What a permitted request may rely on, as PutInv keeps it.
Decided(r) ==
    /\ ~pool[r.pool].retiring
    /\ r.retiring => ~Accepting(pool[r.pool]) /\ Quiet(r.pool) /\ ~Busy(r.pool)
    /\ Accepting(r) => legacyDrained /\ FirstCutoverAuthorized(r.pool, r.evidence)

\* A request that passes the checks of its call is justified by the pool as it is.
LEMMA PermittedIsDecided ==
    ASSUME TypeOK, LauncherInv, NEW r \in Requests, Permitted(r)
    PROVE  Decided(r)
<1>1. r \in Request /\ r.pool \in Pools /\ (r.retiring => ~Accepting(r))
  BY DEF Requests, Request
<1>2. CASE r.retiring
  <2>1. ~pool[r.pool].retiring /\ Retirable(r.pool)
    BY <1>2 DEF Permitted
  <2>2. Quiet(r.pool) /\ ~Busy(r.pool) /\ ~Accepting(pool[r.pool])
    BY <1>1, <2>1, RetirableIsIdle DEF Retirable
  <2> QED
    BY <1>1, <1>2, <2>1, <2>2 DEF Decided
<1>3. CASE ~r.retiring
  <2>1. ~pool[r.pool].retiring
    BY DEF Permitted
  <2>2. Accepting(r) => Enabled(r)
    BY <1>3 DEF Permitted
  <2> QED
    BY <1>3, <2>1, <2>2 DEF Decided, Enabled
<1> QED
  BY <1>2, <1>3

\* PutInv in terms of Decided.
LEMMA PutInvIs ==
    PutInv <=> \A m \in puts :
                   /\ m.request \in Requests
                   /\ m.expected <= pool[m.request.pool].revision
                   /\ m.expected = pool[m.request.pool].revision => Decided(m.request)
BY Zenon DEF PutInv, Decided

\* No step breaks PutInv.
LEMMA PutStep == IInv /\ Next => PutInv'
<1> SUFFICES ASSUME IInv, Next, NEW m \in puts'
             PROVE  /\ m.request \in Requests
                    /\ m.expected <= pool'[m.request.pool].revision
                    /\ m.expected = pool'[m.request.pool].revision => Decided(m.request)'
  BY Zenon DEF PutInv, Decided
<1> DEFINE r == m.request
<1>1. \A n \in puts : n.request \in Requests /\ n.request.pool \in Pools
  BY DEF IInv, PutInv, Requests, Request
<1>2. \A p \in Pools : pool[p].revision \in Nat
  BY DEF IInv, TypeOK, PoolState
<1>3. \A n \in puts : n.expected \in Nat
  BY DEF IInv, TypeOK, PutMessage
<1>4. CASE \E o \in Ops : Client(o)
  <2>1. PICK o \in Ops : Client(o)
    BY <1>4
  <2>2. UNCHANGED <<pool, launcher, duties, legacyDrained>>
    BY <2>1, ClientFrame
  <2>3. Decided(r)' <=> Decided(r)
    BY <2>2 DEF Decided, Quiet, Busy, Members, Accepting, FirstCutoverAuthorized
  <2>4. CASE m \in puts
    BY <2>2, <2>3, <2>4, PutInvIs DEF IInv
  <2>5. CASE m \notin puts
    <3>1. PICK q \in Requests : Call(o, q)
      BY <2>1, <2>5 DEF Client, Refuse, Timeout, Unavailable, Poll, Expire
    <3>2. m = [op |-> o, request |-> q, expected |-> pool[q.pool].revision]
      BY <2>5, <3>1 DEF Call
    <3>3. r = q /\ m.expected = pool[q.pool].revision /\ q.pool \in Pools
      BY <3>2 DEF Requests, Request
    <3>4. Decided(r)
      BY <3>1, <3>3, PermittedIsDecided DEF Call, IInv
    <3> QED
      BY <1>2, <2>2, <2>3, <3>3, <3>4
  <2> QED
    BY <2>4, <2>5
<1>5. CASE \E n \in puts : ApplyPut(n)
  <2>1. PICK n \in puts : ApplyPut(n)
    BY <1>5
  <2>2. m \in puts /\ UNCHANGED <<launcher, duties, legacyDrained>>
    BY <2>1, ApplyPutEffect DEF IInv
  <2>3. CASE pool'[r.pool] = pool[r.pool]
    <3>1. Decided(r)' <=> Decided(r)
      BY <2>2, <2>3 DEF Decided, Quiet, Busy, Members, Accepting, FirstCutoverAuthorized
    <3> QED
      BY <2>2, <2>3, <3>1, PutInvIs DEF IInv
  <2>4. CASE pool'[r.pool] # pool[r.pool]
    <3>1. pool'[r.pool].revision = pool[r.pool].revision + 1
      BY <1>1, <2>1, <2>2, <2>4, ApplyPutEffect DEF IInv
    <3>2. m.expected <= pool[r.pool].revision /\ r \in Requests
      BY <2>2, PutInvIs DEF IInv
    <3> QED
      BY <1>1, <1>2, <1>3, <2>2, <3>1, <3>2
  <2> QED
    BY <2>3, <2>4
<1>6. CASE Fleet
  <2>1. m \in puts /\ pool' = pool /\ (legacyDrained => legacyDrained')
    BY <1>6, FleetFrame DEF IInv
  <2>2. Decided(r) => Decided(r)'
    <3> SUFFICES ASSUME Decided(r) PROVE Decided(r)'
      OBVIOUS
    <3>1. r.pool \in Pools
      BY <1>1, <2>1
    <3>2. r.retiring => Quiet(r.pool)' /\ ~Busy(r.pool)'
      BY <1>6, <3>1, FleetKeepsQuiet, FleetKeepsIdle DEF Decided, IInv
    <3> QED
      BY <2>1, <3>2 DEF Decided, Accepting, FirstCutoverAuthorized
  <2> QED
    BY <2>1, <2>2, PutInvIs DEF IInv
<1> QED
  BY <1>4, <1>5, <1>6 DEF Next

\* No step breaks RetiredInv.
LEMMA RetiredStep == IInv /\ Next => RetiredInv'
<1> SUFFICES ASSUME IInv, Next, NEW p \in Pools, pool'[p].retiring
             PROVE  ~Accepting(pool'[p]) /\ Quiet(p)' /\ ~Busy(p)'
  BY DEF RetiredInv, Accepting
<1>1. CASE \E o \in Ops : Client(o)
  <2>1. UNCHANGED <<pool, launcher, duties, legacyDrained>>
    BY <1>1, ClientFrame
  <2> QED
    BY <2>1 DEF IInv, RetiredInv, Quiet, Busy, Members, Accepting
<1>2. CASE \E m \in puts : ApplyPut(m)
  <2>1. PICK m \in puts : ApplyPut(m)
    BY <1>2
  <2>2. UNCHANGED <<launcher, duties>>
    BY <2>1, ApplyPutEffect DEF IInv
  <2>3. (Quiet(p)' <=> Quiet(p)) /\ (Busy(p)' <=> Busy(p))
    BY <2>2 DEF Quiet, Busy, Members
  <2>4. CASE pool'[p] = pool[p]
    BY <2>3, <2>4 DEF IInv, RetiredInv
  <2>5. CASE pool'[p] # pool[p]
    <3>1. Acceptable(m) /\ p = m.request.pool
      BY <2>1, <2>5, ApplyPutEffect DEF IInv
    <3>2. /\ m.request.retiring /\ pool'[p].initial = m.request.initial
          /\ pool'[p].recovery = m.request.recovery
      BY <2>1, <3>1, ApplyPutEffect DEF IInv
    <3>3. m.request \in Requests /\ Decided(m.request)
      BY <3>1, PutInvIs DEF IInv, Acceptable
    <3> QED
      BY <2>3, <3>1, <3>2, <3>3 DEF Decided, Requests, Accepting
  <2> QED
    BY <2>4, <2>5
<1>3. CASE Fleet
  <2>1. pool' = pool
    BY <1>3, FleetFrame DEF IInv
  <2> QED
    BY <1>3, <2>1, FleetKeepsQuiet, FleetKeepsIdle DEF IInv, RetiredInv
<1> QED
  BY <1>1, <1>2, <1>3 DEF Next

\* How one step changes one call.
LEMMA OpStep ==
    ASSUME IInv, Next, NEW o \in Ops
    PROVE  \/ op'[o] = op[o]
           \/ \E r \in Requests : Call(o, r)
           \/ op'[o].pc \in {"waiting", "ok", "failed"}
<1>1. op[o] \in OpState /\ Process("failed").pc = "failed"
  BY DEF IInv, TypeOK, Process
<1>2. CASE \E n \in Ops : Client(n)
  <2>1. PICK n \in Ops : Client(n)
    BY <1>2
  <2>2. CASE n # o
    BY <2>1, <2>2 DEF Client, Call, Refuse, Timeout, Unavailable, Poll, Expire, IInv, TypeOK
  <2>3. CASE Refuse(o) \/ Timeout(o) \/ Unavailable(o)
    BY <1>1, <2>3 DEF Refuse, Timeout, Unavailable, IInv, TypeOK
  <2>4. CASE Poll(o)
    <3>1. op'[o] = Process("failed") \/ op'[o] = [op[o] EXCEPT !.pc = "ok"]
      BY <2>4 DEF Poll, IInv, TypeOK
    <3> QED
      BY <1>1, <3>1 DEF OpState
  <2>5. CASE Expire(o)
    BY <1>1, <2>5 DEF Expire, IInv, TypeOK, OpState
  <2> QED
    BY <2>1, <2>2, <2>3, <2>4, <2>5 DEF Client
<1>3. CASE \E m \in puts : ApplyPut(m)
  <2>1. PICK m \in puts : ApplyPut(m)
    BY <1>3
  <2>2. m.op \in Ops
    BY <2>1, ApplyPutEffect DEF IInv
  <2>3. CASE m.op # o
    BY <2>1, <2>2, <2>3 DEF ApplyPut, IInv, TypeOK
  <2>4. CASE m.op = o
    <3>1. \/ op'[o] = op[o] \/ op'[o] = Process("failed")
          \/ op'[o] = [op[o] EXCEPT !.pc = "waiting", !.revision = pool[m.request.pool].revision + 1]
      BY <2>1, <2>4 DEF ApplyPut, IInv, TypeOK
    <3> QED
      BY <1>1, <3>1 DEF OpState
  <2> QED
    BY <2>3, <2>4
<1>4. CASE Fleet
  BY <1>4, FleetFrame DEF IInv
<1> QED
  BY <1>2, <1>3, <1>4 DEF Next

\* No step breaks SenderInv.
LEMMA SenderStep == IInv /\ Next => SenderInv'
<1> SUFFICES ASSUME IInv, Next, NEW m \in puts'
             PROVE  op'[m.op].pc # "idle" /\ (op'[m.op].pc = "sent" => op'[m.op].request = m.request)
  BY DEF SenderInv
<1>1. CASE m \in puts
  <2>1. m.op \in Ops /\ op[m.op].pc # "idle" /\ (op[m.op].pc = "sent" => op[m.op].request = m.request)
    BY <1>1 DEF IInv, TypeOK, PutMessage, SenderInv
  <2>2. \A r \in Requests : ~Call(m.op, r)
    BY <2>1 DEF Call
  <2> QED
    BY <2>1, <2>2, OpStep
<1>2. CASE m \notin puts
  <2>1. PICK o \in Ops, r \in Requests : Call(o, r)
    <3>1. \E o \in Ops : Client(o)
      BY <1>2, ApplyPutEffect, FleetFrame DEF Next, IInv
    <3> QED
      BY <1>2, <3>1 DEF Client, Refuse, Timeout, Unavailable, Poll, Expire
  <2>2. m = [op |-> o, request |-> r, expected |-> pool[r.pool].revision]
    BY <1>2, <2>1 DEF Call
  <2>3. op'[o] = [op[o] EXCEPT !.pc = "sent", !.request = r]
    BY <2>1 DEF Call, IInv, TypeOK
  <2>4. op'[o].pc = "sent" /\ op'[o].request = r
    BY <2>3 DEF IInv, TypeOK, OpState
  <2> QED
    BY <2>2, <2>4
<1> QED
  BY <1>1, <1>2

\* No step breaks WithdrawnInv.
LEMMA WithdrawnStep == IInv /\ Next => WithdrawnInv'
<1> SUFFICES ASSUME IInv, Next, NEW o \in Ops, NEW p \in Pools, op'[o].request.pool = p
             PROVE  /\ op'[o].revision <= pool'[p].revision
                    /\ op'[o].pc \in {"idle", "sent"} => op'[o].revision = 0
                    /\ /\ op'[o].pc = "ok" /\ ~Accepting(op'[o].request)
                       /\ op'[o].revision = pool'[p].revision
                       => ~Accepting(pool'[p]) /\ Quiet(p)'
  BY DEF WithdrawnInv, Accepting
<1>1. /\ op[o] \in OpState /\ op[o].revision \in Nat
      /\ pool[p].revision \in Nat /\ pool'[p].revision \in Nat
  BY NextType DEF IInv, TypeOK, OpState, PoolState
<1>2. op[o].request.pool = p =>
         /\ op[o].revision <= pool[p].revision
         /\ op[o].pc \in {"idle", "sent"} => op[o].revision = 0
         /\ op[o].pc = "ok" /\ ~Accepting(op[o].request) /\ op[o].revision = pool[p].revision
            => ~Accepting(pool[p]) /\ Quiet(p)
  BY DEF IInv, WithdrawnInv
<1>3. CASE op'[o] = Process("failed")
  <2>1. op'[o].revision = 0 /\ op'[o].pc = "failed"
    BY <1>3 DEF Process
  <2> QED
    BY <1>1, <2>1
<1>4. CASE op'[o] = op[o]
  <2>1. CASE pool'[p] = pool[p]
    <3>1. ~Accepting(pool[p]) /\ Quiet(p) => Quiet(p)'
      <4>1. CASE launcher' = launcher
        BY <4>1 DEF Quiet, Members
      <4>2. CASE launcher' # launcher
        <5>1. Fleet
          BY <4>2, ClientFrame, ApplyPutEffect DEF Next, IInv
        <5> QED
          BY <5>1, FleetKeepsQuiet DEF IInv
      <4> QED
        BY <4>1, <4>2
    <3> QED
      BY <1>2, <1>4, <2>1, <3>1
  <2>2. CASE pool'[p] # pool[p]
    <3>1. PICK m \in puts : ApplyPut(m)
      BY <2>2, ClientFrame, FleetFrame DEF Next, IInv
    <3>2. pool'[p].revision = pool[p].revision + 1
      BY <2>2, <3>1, ApplyPutEffect DEF IInv
    <3> QED
      BY <1>1, <1>2, <1>4, <3>2
  <2> QED
    BY <2>1, <2>2
<1>5. CASE \E r \in Requests : Call(o, r)
  <2>1. PICK r \in Requests : Call(o, r)
    BY <1>5
  <2>2. op[o].pc = "idle" /\ op'[o] = [op[o] EXCEPT !.pc = "sent", !.request = r]
    BY <2>1 DEF Call, IInv, TypeOK
  <2>3. op'[o].pc = "sent" /\ op'[o].revision = op[o].revision
    BY <1>1, <2>2 DEF OpState
  <2>4. op[o].revision = 0
    BY <1>1, <2>2 DEF IInv, WithdrawnInv, OpState, Request
  <2> QED
    BY <1>1, <2>3, <2>4
<1>6. CASE Poll(o) /\ op' = [op EXCEPT ![o].pc = "ok"] /\ StillDesired(o) /\ Acknowledged(o)
  <2>1. op'[o].revision = op[o].revision /\ op'[o].request = op[o].request /\ op'[o].pc = "ok"
    BY <1>1, <1>6 DEF IInv, TypeOK, OpState
  <2>2. UNCHANGED <<pool, launcher>>
    BY <1>6 DEF Poll
  <2>3. ~Accepting(op[o].request) => ~Accepting(pool[p])
    BY <1>6, <2>1 DEF StillDesired, Accepting
  <2>4. ~Accepting(pool[p]) => Quiet(p)
    BY <1>6, <2>1, AckedIsQuiet DEF Acknowledged, IInv
  <2> QED
    BY <1>2, <2>1, <2>2, <2>3, <2>4 DEF Quiet, Members, Accepting
<1>7. CASE Expire(o)
  <2>1. op'[o].pc = "waiting" /\ op'[o].revision = op[o].revision /\ op'[o].request = op[o].request
    BY <1>1, <1>7 DEF Expire, IInv, TypeOK, OpState
  <2>2. pool' = pool
    BY <1>7 DEF Expire
  <2> QED
    BY <1>2, <2>1, <2>2
<1>8. CASE \E m \in puts : ApplyPut(m) /\ Acceptable(m) /\ m.op = o /\ op[o].pc = "sent"
  <2>1. PICK m \in puts : ApplyPut(m) /\ Acceptable(m) /\ m.op = o /\ op[o].pc = "sent"
    BY <1>8
  <2>2. op'[o] = [op[o] EXCEPT !.pc = "waiting", !.revision = pool[m.request.pool].revision + 1]
    BY <2>1 DEF ApplyPut, IInv, TypeOK
  <2>3. /\ op'[o].pc = "waiting" /\ op'[o].request = op[o].request
        /\ op'[o].revision = pool[m.request.pool].revision + 1
    BY <1>1, <2>2 DEF OpState
  <2>4. m.request.pool = p
    BY <2>1, <2>3 DEF IInv, SenderInv
  <2> QED
    BY <1>1, <2>1, <2>3, <2>4, ApplyPutEffect DEF IInv
<1>9. \/ op'[o] = Process("failed")
      \/ op'[o] = op[o]
      \/ \E r \in Requests : Call(o, r)
      \/ Poll(o) /\ op' = [op EXCEPT ![o].pc = "ok"] /\ StillDesired(o) /\ Acknowledged(o)
      \/ Expire(o)
      \/ \E m \in puts : ApplyPut(m) /\ Acceptable(m) /\ m.op = o /\ op[o].pc = "sent"
  <2>1. CASE \E n \in Ops : Client(n)
    <3>1. PICK n \in Ops : Client(n)
      BY <2>1
    <3>2. CASE n # o
      BY <3>1, <3>2 DEF Client, Call, Refuse, Timeout, Unavailable, Poll, Expire, IInv, TypeOK
    <3>3. CASE n = o
      BY <3>1, <3>3 DEF Client, Refuse, Timeout, Unavailable, Poll, IInv, TypeOK
    <3> QED
      BY <3>2, <3>3
  <2>2. CASE \E m \in puts : ApplyPut(m)
    <3>1. PICK m \in puts : ApplyPut(m)
      BY <2>2
    <3>2. CASE m.op # o
      BY <3>1, <3>2 DEF ApplyPut, IInv, TypeOK
    <3>3. CASE m.op = o
      BY <3>1, <3>3 DEF ApplyPut, IInv, TypeOK
    <3> QED
      BY <3>2, <3>3
  <2>3. CASE Fleet
    BY <2>3, FleetFrame DEF IInv
  <2> QED
    BY <2>1, <2>2, <2>3 DEF Next
<1> QED
  BY <1>3, <1>4, <1>5, <1>6, <1>7, <1>8, <1>9

\* No pool comes to accept or to work without drained legacy and evidence.
LEMMA AuthorizedStep == IInv /\ Next => WorkIsAuthorized'
<1> SUFFICES ASSUME IInv, Next, NEW p \in Pools,
                    Accepting(pool'[p]) \/ ~Quiet(p)' \/ Busy(p)'
             PROVE  legacyDrained' /\ pool'[p].evidence # NoEvidence
  BY DEF WorkIsAuthorized, Accepting
<1>1. Accepting(pool[p]) \/ ~Quiet(p) \/ Busy(p) => legacyDrained /\ pool[p].evidence # NoEvidence
  BY DEF IInv, WorkIsAuthorized
<1>2. CASE \E o \in Ops : Client(o)
  <2>1. UNCHANGED <<pool, launcher, duties, legacyDrained>>
    BY <1>2, ClientFrame
  <2> QED
    BY <1>1, <2>1 DEF Accepting, Quiet, Busy, Members
<1>3. CASE \E m \in puts : ApplyPut(m)
  <2>1. PICK m \in puts : ApplyPut(m)
    BY <1>3
  <2>2. UNCHANGED <<launcher, duties, legacyDrained>>
    BY <2>1, ApplyPutEffect DEF IInv
  <2>3. (Quiet(p)' <=> Quiet(p)) /\ (Busy(p)' <=> Busy(p))
    BY <2>2 DEF Quiet, Busy, Members
  <2>4. CASE pool'[p] = pool[p]
    BY <1>1, <2>2, <2>3, <2>4
  <2>5. CASE pool'[p] # pool[p]
    <3> DEFINE r == m.request
    <3>1. Acceptable(m) /\ p = r.pool /\ r \in Requests
      BY <2>1, <2>5, ApplyPutEffect, PutInvIs DEF IInv
    <3>2. /\ pool'[p].initial = r.initial /\ pool'[p].recovery = r.recovery
          /\ pool'[p].evidence = IF r.evidence = NoEvidence THEN pool[p].evidence ELSE r.evidence
      BY <2>1, <3>1, ApplyPutEffect DEF IInv
    <3>3. Accepting(r) => legacyDrained /\ FirstCutoverAuthorized(p, r.evidence)
      BY <3>1, PutInvIs DEF IInv, Acceptable, Decided
    <3>4. r.evidence # NoEvidence => Accepting(r)
      BY <3>1 DEF Requests, Accepting
    <3>5. Accepting(pool'[p]) <=> Accepting(r)
      BY <3>2 DEF Accepting
    <3> QED
      BY <1>1, <2>2, <2>3, <3>2, <3>3, <3>4, <3>5 DEF FirstCutoverAuthorized
  <2> QED
    BY <2>4, <2>5
<1>4. CASE Fleet
  <2>1. pool' = pool /\ (legacyDrained => legacyDrained')
    BY <1>4, FleetFrame DEF IInv
  <2>2. Accepting(pool[p]) \/ ~Quiet(p) \/ Busy(p)
    <3> SUFFICES ASSUME ~Accepting(pool[p]), Quiet(p), ~Busy(p) PROVE FALSE
      OBVIOUS
    <3>1. Quiet(p)' /\ ~Busy(p)'
      BY <1>4, FleetKeepsQuiet, FleetKeepsIdle DEF IInv
    <3> QED
      BY <2>1, <3>1
  <2> QED
    BY <1>1, <2>1, <2>2
<1> QED
  BY <1>2, <1>3, <1>4 DEF Next

\* No step breaks the whole invariant.
LEMMA StepInv == IInv /\ [Next]_vars => IInv'
<1> SUFFICES ASSUME IInv, [Next]_vars PROVE IInv'
  OBVIOUS
<1>1. CASE Next
  BY <1>1, NextType, LauncherStep, PutStep, SenderStep, RetiredStep, WithdrawnStep,
     AuthorizedStep DEF IInv
<1>2. CASE UNCHANGED vars
  BY <1>2 DEF vars, IInv, TypeOK, LauncherInv, PutInv, SenderInv, RetiredInv, WithdrawnInv,
     WorkIsAuthorized, Quiet, Busy, Members, FirstCutoverAuthorized
<1> QED
  BY <1>1, <1>2

\* Every reachable state satisfies the whole invariant.
LEMMA Inductive == Spec => []IInv
BY InitInv, StepInv, PTL DEF Spec

-----------------------------------------------------------------------------
(* Safety, for every fleet.                                                *)

\* A retired pool holds no work and takes up none.
THEOREM RetiredStaysIdle == Spec => []RetiredPoolIsIdle
<1>1. IInv => RetiredPoolIsIdle
  BY DEF IInv, RetiredInv, RetiredPoolIsIdle
<1> QED
  BY <1>1, Inductive, PTL

\* No pool accepts or holds work before the drain and its first cutover.
THEOREM WorkAlwaysAuthorized == Spec => []WorkIsAuthorized
<1>1. IInv => WorkIsAuthorized
  BY DEF IInv
<1> QED
  BY <1>1, Inductive, PTL

\* What a successful withdraw reports stays true while its revision stands.
THEOREM WithdrawalStaysInForce == Spec => []WithdrawalIsInForce
<1>1. IInv => WithdrawalIsInForce
  <2> SUFFICES ASSUME IInv, NEW o \in Ops, op[o].pc = "ok", ~Accepting(op[o].request),
                      op[o].revision = pool[op[o].request.pool].revision
               PROVE  Quiet(op[o].request.pool)
    BY DEF WithdrawalIsInForce
  <2>1. op[o].request.pool \in Pools
    BY DEF IInv, TypeOK, OpState, Request
  <2> QED
    BY <2>1 DEF IInv, WithdrawnInv
<1> QED
  BY <1>1, Inductive, PTL

\* How one step changes one pool: the PUT it comes from was decided on it.
LEMMA PoolStep ==
    ASSUME IInv, Next, NEW p \in Pools, pool'[p] # pool[p]
    PROVE  \E r \in Requests :
              /\ r.pool = p
              /\ Decided(r)
              /\ Accepting(r) => pool[p].evidence # NoEvidence \/ r.evidence # NoEvidence
              /\ pool' = [pool EXCEPT ![p] =
                    [revision |-> pool[p].revision + 1, initial |-> r.initial,
                     recovery |-> r.recovery, retiring |-> r.retiring,
                     evidence |-> IF r.evidence = NoEvidence THEN pool[p].evidence
                                                             ELSE r.evidence]]
              /\ UNCHANGED <<launcher, duties, legacyDrained>>
<1>1. PICK m \in puts : ApplyPut(m)
  BY ClientFrame, FleetFrame DEF Next, IInv
<1>2. Acceptable(m) /\ m.request.pool = p /\ m.request \in Requests /\ Decided(m.request)
  BY <1>1, ApplyPutEffect, PutInvIs DEF IInv, Acceptable
<1>3. UNCHANGED <<launcher, duties, legacyDrained>>
  BY <1>1, ApplyPutEffect DEF IInv
<1>4. Accepting(m.request) => pool[p].evidence # NoEvidence \/ m.request.evidence # NoEvidence
  BY <1>2 DEF Acceptable
<1>5. pool' = [pool EXCEPT ![p] =
         [revision |-> pool[p].revision + 1, initial |-> m.request.initial,
          recovery |-> m.request.recovery, retiring |-> m.request.retiring,
          evidence |-> IF m.request.evidence = NoEvidence THEN pool[p].evidence
                                                          ELSE m.request.evidence]]
  BY <1>1, <1>2 DEF ApplyPut
<1> QED
  BY <1>2, <1>3, <1>4, <1>5

\* No command, however delayed, ends a retirement.
THEOREM RetirementStaysFinal == Spec => RetirementIsFinal
<1>1. IInv /\ [Next]_vars => [\A p \in Pools : pool[p].retiring => pool'[p].retiring]_vars
  <2> SUFFICES ASSUME IInv, Next, NEW p \in Pools, pool[p].retiring PROVE pool'[p].retiring
    OBVIOUS
  <2>1. CASE pool'[p] = pool[p]
    BY <2>1
  <2>2. CASE pool'[p] # pool[p]
    BY <2>2, PoolStep DEF Decided
  <2> QED
    BY <2>1, <2>2
<1> QED
  BY <1>1, Inductive, PTL DEF Spec, RetirementIsFinal

\* The artifact of a first cutover is never replaced.
THEOREM AttestationStaysFinal == Spec => AttestationIsFinal
<1>1. IInv /\ [Next]_vars =>
         [\A p \in Pools : pool[p].evidence # NoEvidence
                           => pool'[p].evidence = pool[p].evidence]_vars
  <2> SUFFICES ASSUME IInv, Next, NEW p \in Pools, pool[p].evidence # NoEvidence
               PROVE  pool'[p].evidence = pool[p].evidence
    OBVIOUS
  <2>1. CASE pool'[p] = pool[p]
    BY <2>1
  <2>2. CASE pool'[p] # pool[p]
    <3>1. PICK r \in Requests :
             /\ r.pool = p /\ Decided(r)
             /\ pool' = [pool EXCEPT ![p] =
                   [revision |-> pool[p].revision + 1, initial |-> r.initial,
                    recovery |-> r.recovery, retiring |-> r.retiring,
                    evidence |-> IF r.evidence = NoEvidence THEN pool[p].evidence
                                                            ELSE r.evidence]]
      BY <2>2, PoolStep
    <3>2. pool'[p].evidence = IF r.evidence = NoEvidence THEN pool[p].evidence ELSE r.evidence
      BY <3>1 DEF IInv, TypeOK
    <3>3. r.evidence # NoEvidence => Accepting(r)
      BY DEF Requests, Accepting
    <3>4. r.evidence # NoEvidence => pool[p].evidence = r.evidence
      BY <3>1, <3>3 DEF Decided, FirstCutoverAuthorized
    <3> QED
      BY <3>2, <3>4
  <2> QED
    BY <2>1, <2>2
<1> QED
  BY <1>1, Inductive, PTL DEF Spec, AttestationIsFinal

-----------------------------------------------------------------------------
(* Refinement: the calls implement AdmissionControl.                       *)

\* The initial states are initial states of AdmissionControl.
LEMMA InitRefines == Init => Control!Init
<1> SUFFICES ASSUME Init PROVE Control!Init
  OBVIOUS
<1>1. TypeOK /\ WorkIsAuthorized
  BY InitInv DEF IInv
<1>2. \A p \in Pools : ~pool[p].retiring
  BY DEF Init, InitialPool
<1>3. pool \in [Pools -> [revision : Nat \ {0}, initial : BOOLEAN, recovery : BOOLEAN,
                          retiring : {FALSE}, evidence : Evidence \cup {NoEvidence}]]
  <2>1. ASSUME NEW p \in Pools
        PROVE  pool[p] \in [revision : Nat \ {0}, initial : BOOLEAN, recovery : BOOLEAN,
                            retiring : {FALSE}, evidence : Evidence \cup {NoEvidence}]
    <3>1. pool[p] \in PoolState /\ pool[p].retiring = FALSE
      BY <1>1, <1>2 DEF TypeOK, PoolState
    <3> QED
      BY <3>1 DEF PoolState, MaybeEvidence
  <2> QED
    BY <1>1, <2>1 DEF TypeOK
<1>4. [p \in Pools |-> Busy(p)] \in [Pools -> BOOLEAN]
  BY DEF Busy
<1> QED
  BY <1>1, <1>3, <1>4 DEF Control!Init, Control!Accepting, Control!Authorized, Accepting,
     WorkIsAuthorized, TypeOK

\* A step of the fleet ends work, or begins it where it is authorized.
LEMMA FleetRefines == IInv /\ IInv' /\ Fleet => Control!Work \/ Control!Drain
<1> SUFFICES ASSUME IInv, IInv', Fleet PROVE Control!Work \/ Control!Drain
  OBVIOUS
<1> DEFINE busy == [p \in Pools |-> Busy(p)]
<1>1. pool' = pool
  BY FleetFrame DEF IInv
<1>2. CASE DrainLegacy
  <2>1. busy' = busy /\ legacyDrained' = TRUE
    BY <1>2 DEF DrainLegacy, Busy, Members
  <2> QED
    BY <1>1, <2>1 DEF Control!Drain
<1>3. CASE ~DrainLegacy
  <2>1. legacyDrained' = legacyDrained
    BY <1>3 DEF Fleet, Register, Apply, ReportAck, FlipReady, Accept, Finish, Lose, Recover,
                Settle, FlipData
  <2>2. busy' \in [Pools -> BOOLEAN]
    BY DEF Busy
  <2>3. ASSUME NEW p \in Pools, Busy(p)', ~Busy(p)
        PROVE  legacyDrained /\ pool[p].evidence # NoEvidence /\ ~pool[p].retiring
    <3>1. legacyDrained' /\ pool'[p].evidence # NoEvidence
      BY <2>3 DEF IInv, WorkIsAuthorized
    <3>2. ~pool'[p].retiring
      BY <2>3 DEF IInv, RetiredInv
    <3> QED
      BY <1>1, <2>1, <3>1, <3>2
  <2> QED
    BY <1>1, <2>1, <2>2, <2>3 DEF Control!Work, Control!Authorized
<1> QED
  BY <1>2, <1>3

\* A PUT that changes a pool is the decision its request names.
LEMMA DecisionRefines ==
    ASSUME IInv, Next, NEW p \in Pools, pool'[p] # pool[p]
    PROVE  Control!Withdraw(p) \/ Control!Enable(p) \/ Control!Retire(p)
<1>1. PICK r \in Requests :
         /\ r.pool = p
         /\ Decided(r)
         /\ Accepting(r) => pool[p].evidence # NoEvidence \/ r.evidence # NoEvidence
         /\ pool' = [pool EXCEPT ![p] =
               [revision |-> pool[p].revision + 1, initial |-> r.initial,
                recovery |-> r.recovery, retiring |-> r.retiring,
                evidence |-> IF r.evidence = NoEvidence THEN pool[p].evidence
                                                        ELSE r.evidence]]
         /\ UNCHANGED <<launcher, duties, legacyDrained>>
  BY PoolStep
<1> DEFINE evidence == IF r.evidence = NoEvidence THEN pool[p].evidence ELSE r.evidence
           s == [revision |-> pool[p].revision + 1, initial |-> r.initial,
                 recovery |-> r.recovery, retiring |-> r.retiring, evidence |-> evidence]
<1>2. /\ r \in Request
      /\ r.initial => r.recovery
      /\ r.retiring => ~Accepting(r)
      /\ r.evidence # NoEvidence => Accepting(r)
  BY DEF Requests, Accepting
<1>3. /\ r.initial \in BOOLEAN /\ r.recovery \in BOOLEAN /\ r.retiring \in BOOLEAN
      /\ r.evidence \in MaybeEvidence /\ pool[p].evidence \in MaybeEvidence
  BY <1>2 DEF Request, IInv, TypeOK, PoolState
<1>4. Control!Decide(p, s)
  <2>1. [q \in Pools |-> Busy(q)]' = [q \in Pools |-> Busy(q)]
    BY <1>1 DEF Busy, Members
  <2> QED
    BY <1>1, <2>1 DEF Control!Decide, Decided
<1>5. CASE r.retiring
  <2>1. /\ ~r.initial /\ ~r.recovery /\ evidence = pool[p].evidence
        /\ ~Accepting(pool[p]) /\ ~Busy(p)
    BY <1>1, <1>2, <1>5 DEF Accepting, Decided
  <2>2. s \in [revision : {pool[p].revision + 1}, initial : {FALSE}, recovery : {FALSE},
               retiring : {TRUE}, evidence : {pool[p].evidence}]
    BY <1>3, <1>5, <2>1
  <2> QED
    BY <1>4, <2>1, <2>2, Zenon DEF Control!Retire, Control!Accepting, Accepting
<1>6. CASE ~r.retiring /\ ~Accepting(r)
  <2>1. ~r.initial /\ ~r.recovery /\ evidence = pool[p].evidence
    BY <1>2, <1>6 DEF Accepting
  <2>2. s \in [revision : {pool[p].revision + 1}, initial : {FALSE}, recovery : {FALSE},
               retiring : {FALSE}, evidence : {pool[p].evidence}]
    BY <1>3, <1>6, <2>1
  <2> QED
    BY <1>4, <2>2, Zenon DEF Control!Withdraw
<1>7. CASE ~r.retiring /\ Accepting(r)
  <2>1. /\ r.recovery /\ evidence # NoEvidence /\ legacyDrained
        /\ pool[p].evidence \in {NoEvidence, evidence}
    BY <1>1, <1>2, <1>7 DEF Accepting, Decided, FirstCutoverAuthorized
  <2>2. evidence \in Evidence
    BY <1>3, <2>1 DEF MaybeEvidence
  <2>3. s \in [revision : {pool[p].revision + 1}, initial : BOOLEAN, recovery : {TRUE},
               retiring : {FALSE}, evidence : Evidence]
    BY <1>3, <1>7, <2>1, <2>2
  <2>4. pool[p].evidence \in {NoEvidence, s.evidence}
    BY <2>1
  <2> HIDE DEF s, evidence
  <2> QED
    BY <1>4, <2>1, <2>3, <2>4 DEF Control!Enable
<1> QED
  BY <1>5, <1>6, <1>7

\* A step that changes no pool and is not the fleet's leaves the abstract
\* state as it is: a call, or a PUT that is refused.
LEMMA QuietStep ==
    ASSUME IInv, Next, ~Fleet, \A p \in Pools : pool'[p] = pool[p]
    PROVE  UNCHANGED <<pool, [p \in Pools |-> Busy(p)], legacyDrained>>
<1>1. UNCHANGED <<launcher, duties, legacyDrained>>
  BY ClientFrame, ApplyPutEffect DEF Next, IInv
<1>2. pool' = pool
  BY NextType DEF IInv, TypeOK
<1> QED
  BY <1>1, <1>2 DEF Busy, Members

\* Every step is a step of AdmissionControl or a stutter.
LEMMA StepRefines == IInv /\ IInv' /\ [Next]_vars => [Control!Next]_Control!vars
<1> SUFFICES ASSUME IInv, IInv', [Next]_vars PROVE [Control!Next]_Control!vars
  OBVIOUS
<1>1. CASE UNCHANGED vars
  BY <1>1 DEF vars, Control!vars, Busy, Members
<1>2. CASE Next /\ Fleet
  BY <1>2, FleetRefines DEF Control!Next
<1>3. CASE Next /\ \E p \in Pools : pool'[p] # pool[p]
  BY <1>3, DecisionRefines DEF Control!Next
<1>4. CASE Next /\ ~Fleet /\ \A p \in Pools : pool'[p] = pool[p]
  BY <1>4, QuietStep DEF Control!vars
<1> QED
  BY <1>1, <1>2, <1>3, <1>4

\* Delayed, raced and abandoned calls decide as if at once: every behaviour of
\* the fleet is one of AdmissionControl.
THEOREM FleetRefinesControl == Spec => RefinesControl
BY InitRefines, StepInv, StepRefines, Inductive, PTL DEF Spec, RefinesControl, Control!Spec

-----------------------------------------------------------------------------
(* Every call ends.                                                        *)

\* From its PUT a call only goes forward, whoever makes the step.
LEMMA CallGoesForward ==
    ASSUME IInv, [Next]_vars, NEW o \in Ops
    PROVE  /\ op[o].pc = "sent" => op'[o].pc \in {"sent", "waiting", "failed"}
           /\ op[o].pc = "waiting" =>
                  /\ op'[o].pc \in {"waiting", "ok", "failed"}
                  /\ op[o].expired /\ op'[o].pc = "waiting" => op'[o].expired
<1>0. op[o] \in OpState /\ Process("failed").pc = "failed"
    BY DEF IInv, TypeOK, Process
<1>1. \/ op'[o] = op[o]
      \/ op[o].pc = "idle"
      \/ op'[o] = Process("failed")
      \/ op[o].pc = "sent" /\ op'[o].pc = "waiting"
      \/ op[o].pc = "waiting" /\ op'[o] = [op[o] EXCEPT !.pc = "ok"]
      \/ op[o].pc = "waiting" /\ op'[o] = [op[o] EXCEPT !.expired = TRUE]
    <2>1. ASSUME NEW n \in Ops, Client(n) PROVE <1>1!:
        <3>1. CASE n # o
            BY <2>1, <3>1 DEF Client, Call, Refuse, Timeout, Unavailable, Poll, Expire, IInv, TypeOK
        <3>2. CASE n = o
            BY <2>1, <3>2 DEF Client, Call, Refuse, Timeout, Unavailable, Poll, Expire, IInv, TypeOK
        <3>. QED BY <3>1, <3>2
    <2>2. ASSUME NEW m \in puts, ApplyPut(m) PROVE <1>1!:
        <3>1. m.op \in Ops BY <2>2, ApplyPutEffect DEF IInv
        <3>2. CASE m.op # o BY <2>2, <3>1, <3>2 DEF ApplyPut, IInv, TypeOK
        <3>3. CASE m.op = o
            <4>1. \/ op'[o] = op[o] \/ op'[o] = Process("failed")
                  \/ /\ op[o].pc = "sent"
                     /\ op'[o] = [op[o] EXCEPT !.pc = "waiting",
                                               !.revision = pool[m.request.pool].revision + 1]
                BY <2>2, <3>3 DEF ApplyPut, IInv, TypeOK
            <4>. QED BY <1>0, <4>1 DEF OpState
        <3>. QED BY <3>2, <3>3
    <2>3. CASE Fleet BY <2>3, FleetFrame DEF IInv
    <2>4. CASE UNCHANGED vars BY <2>4 DEF vars
    <2>. QED BY <2>1, <2>2, <2>3, <2>4 DEF Next
<1>. QED BY <1>0, <1>1 DEF OpState

\* Every call that sent its PUT ends, in every fleet and beside any number of
\* other calls: it has a step of its own at each point, goes only forward, and its
\* deadline comes once.
THEOREM CallsEnd == FairSpec /\ []CallsCanGoOn => CallEnds
<1>. SUFFICES ASSUME NEW o \in Ops
     PROVE  FairSpec /\ []CallsCanGoOn
            => (op[o].pc \in {"sent", "waiting"} ~> op[o].pc \in {"ok", "failed"})
    BY DEF CallEnds
<1>. DEFINE Sent    == op[o].pc = "sent"
            InTime  == op[o].pc = "waiting" /\ ~op[o].expired
            Overdue == op[o].pc = "waiting" /\ op[o].expired
            Ended   == op[o].pc \in {"ok", "failed"}
<1>1. op[o].pc \in {"sent", "waiting"} => Sent \/ InTime \/ Overdue
    OBVIOUS
<1>2. IInv /\ Sent /\ [Next]_vars => Sent' \/ InTime' \/ Overdue' \/ Ended'
    BY CallGoesForward
<1>3. IInv /\ InTime /\ [Next]_vars => InTime' \/ Overdue' \/ Ended'
    BY CallGoesForward
<1>4. IInv /\ Overdue /\ [Next]_vars => Overdue' \/ Ended'
    BY CallGoesForward
<1>5. IInv /\ Sent /\ <<Timeout(o)>>_vars => Ended'
    BY DEF Timeout, IInv, TypeOK, Process
<1>6. IInv /\ InTime /\ <<Expire(o)>>_vars => Overdue'
    BY DEF Expire, IInv, TypeOK, OpState
<1>7. IInv /\ Overdue /\ <<Poll(o)>>_vars => Ended'
    BY DEF Poll, IInv, TypeOK, OpState, Process
<1>8. /\ CallsCanGoOn /\ Sent => ENABLED <<Timeout(o)>>_vars
      /\ CallsCanGoOn /\ InTime => ENABLED <<Expire(o)>>_vars
      /\ CallsCanGoOn /\ Overdue => ENABLED <<Poll(o)>>_vars
    BY DEF CallsCanGoOn
<1>9. Fairness => Runs(o)
    BY DEF Fairness
<1>. QED
    BY <1>1, <1>2, <1>3, <1>4, <1>5, <1>6, <1>7, <1>8, <1>9, Inductive, PTL
    DEF FairSpec, Spec, Runs

=============================================================================
