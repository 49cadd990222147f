----------------------- MODULE SealKeyDeliveryProofs ------------------------
(* Proofs about SealKeyDelivery, for any number of setup-key runs, once     *)
(* commands and restarts of the container.                                 *)
EXTENDS SealKeyDelivery, TLAPS

-----------------------------------------------------------------------------
(* The inductive invariant.                                                *)

\* What was read from the Keychain was a key.
EmittedIsKey == \A d \in Deliverers : step[d].at = "emitted" => step[d].held # NoKey

\* Before static mode no key has left the Keychain.
NothingDelivered ==
    /\ key = NoKey
    /\ sealKey = NoKey
    /\ incoming = {}
    /\ boxMode = "shamir"
    /\ box \in {"off", "shamir"}
    /\ agent = "off"
    /\ \A d \in Deliverers : step[d] = Idle \/ step[d] = [Idle EXCEPT !.at = "ended"]

\* No setup-key run may still add a key.
NoneToAdd == \A s \in Setups : setup[s] \notin {"init", "add"}

\* Wherever there is a key, it is k.
AllAre(k) ==
    /\ keychain \in {NoKey, k}
    /\ key \in {NoKey, k}
    /\ sealKey \in {NoKey, k}
    /\ \A i \in incoming : i.key = k
    /\ \A d \in Deliverers : step[d].held \in {NoKey, k}

OneKey == \E k \in Keys : AllAre(k)

IInv ==
    /\ TypeOK
    /\ EmittedIsKey
    /\ mode = "shamir" => NothingDelivered
    /\ mode = "static" => NoneToAdd /\ OneKey

\* A script that has not started and one that has ended are states of a script.
LEMMA IdleIsState == Idle \in StepState /\ [Idle EXCEPT !.at = "ended"] \in StepState
BY DEF Idle, StepState, MaybeKey

\* The invariant holds before any script runs.
LEMMA InitInv == Init => IInv
<1> SUFFICES ASSUME Init PROVE IInv
  OBVIOUS
<1>1. step \in [Deliverers -> StepState] /\ \A d \in Deliverers : step[d] = Idle
  BY IdleIsState DEF Init
<1>2. setup \in [Setups -> {"start", "check", "init", "add", "verified", "failed"}]
  BY DEF Init
<1>3. TypeOK
  <2>1. restarts \in 0..MaxRestarts
    BY SealAssumption DEF Init
  <2>2. /\ mode = "shamir" /\ box = "shamir" /\ boxMode = "shamir" /\ agent = "off"
        /\ locked \in BOOLEAN /\ stopped \in BOOLEAN /\ incoming = {}
    BY DEF Init
  <2>3. keychain \in MaybeKey /\ key \in MaybeKey /\ sealKey \in MaybeKey
    BY DEF Init, MaybeKey
  <2> QED
    BY <1>1, <1>2, <2>1, <2>2, <2>3 DEF TypeOK
<1>4. NothingDelivered /\ EmittedIsKey
  BY <1>1 DEF Init, NothingDelivered, EmittedIsKey, Idle
<1> QED
  BY <1>3, <1>4 DEF Init, IInv

-----------------------------------------------------------------------------
(* Every step of a deliverer is of one form.                               *)

\* It comes to s, which holds nothing or what the Keychain has, and starts at
\* most one DELIVER_KEY, with what it held.
Moves(d, s) ==
    /\ step' = [step EXCEPT ![d] = s]
    /\ s.held \in {NoKey, keychain}
    /\ s.at = "emitted" => s.held # NoKey
    /\ \/ incoming' = incoming
       \/ /\ step[d].at = "emitted"
          /\ incoming' = incoming \cup {[key |-> step[d].held, whole |-> FALSE]}
    /\ UNCHANGED <<keychainVars, box, boxMode, key, sealKey, agent, stopped, restarts>>

\* A script that ends moves that script alone.
LEMMA EndMoves ==
    ASSUME NEW d \in Deliverers, End(d), incoming' = incoming,
           UNCHANGED <<keychainVars, box, boxMode, key, sealKey, agent, stopped, restarts>>
    PROVE  \E s \in StepState : Moves(d, s) /\ s \in {Idle, [Idle EXCEPT !.at = "ended"]}
<1> DEFINE s == IF d = Serve THEN Idle ELSE [Idle EXCEPT !.at = "ended"]
<1>1. s \in StepState /\ s.held = NoKey /\ s.at # "emitted"
  BY IdleIsState DEF Idle
<1>2. Moves(d, s)
  BY <1>1 DEF Moves, End, To
<1> QED
  BY <1>1, <1>2

\* A step of a script moves that script and starts at most one DELIVER_KEY.
LEMMA StepMoves ==
    ASSUME TypeOK, NEW d \in Deliverers, StepOf(d)
    PROVE  \E s \in StepState : Moves(d, s)
<1>1. CASE Inspect(d)
  <2>1. [Idle EXCEPT !.at = "inspected"] \in StepState
    BY DEF Idle, StepState, MaybeKey
  <2> QED
    BY <1>1, <2>1 DEF Inspect, To, Moves, boxVars, Idle
<1>2. CASE CheckReady(d)
  <2>1. CASE End(d)
    BY <1>2, <2>1, EndMoves DEF CheckReady, boxVars
  <2>2. CASE To(d, [Idle EXCEPT !.at = "empty"])
    <3>1. [Idle EXCEPT !.at = "empty"] \in StepState
      BY DEF Idle, StepState, MaybeKey
    <3> QED
      BY <1>2, <2>2, <3>1 DEF CheckReady, To, Moves, boxVars, Idle
  <2> QED
    BY <1>2, <2>1, <2>2 DEF CheckReady
<1>3. CASE Emit(d)
  <2>1. [at |-> "emitted", held |-> keychain] \in StepState
    BY DEF StepState, TypeOK
  <2> QED
    BY <1>3, <2>1 DEF Emit, To, Moves, boxVars
<1>4. CASE Deliver(d)
  <2>1. [at |-> "delivering", held |-> NoKey] \in StepState
    BY DEF StepState, MaybeKey
  <2> QED
    BY <1>4, <2>1 DEF Deliver, To, Moves
<1>5. CASE Delivered(d) \/ StepFails(d)
  BY <1>5, EndMoves DEF Delivered, StepFails, boxVars
<1> QED
  BY <1>1, <1>2, <1>3, <1>4, <1>5 DEF StepOf

\* In Shamir mode a deliverer only ends what it has not begun.
LEMMA StepInShamir ==
    ASSUME IInv, mode = "shamir", NEW d \in Deliverers, StepOf(d)
    PROVE  NothingDelivered'
<1>1. NothingDelivered /\ TypeOK
  BY DEF IInv
<1>2. step[d].at \in {"idle", "ended"}
  BY <1>1 DEF NothingDelivered, Idle
<1>3. StepFails(d)
  BY <1>1, <1>2 DEF StepOf, NothingDelivered, Inspect, CheckReady, Emit, Deliver, Delivered
<1>4. PICK s \in {Idle, [Idle EXCEPT !.at = "ended"]} : step' = [step EXCEPT ![d] = s]
  BY <1>3 DEF StepFails, End, To
<1>5. \A e \in Deliverers : step'[e] = Idle \/ step'[e] = [Idle EXCEPT !.at = "ended"]
  BY <1>1, <1>4 DEF NothingDelivered, TypeOK
<1> QED
  BY <1>1, <1>3, <1>5 DEF NothingDelivered, StepFails, boxVars

\* No step of a script breaks the invariant.
LEMMA StepInv ==
    ASSUME IInv, NEW d \in Deliverers, StepOf(d)
    PROVE  IInv'
<1>1. PICK s \in StepState : Moves(d, s)
  BY StepMoves DEF IInv
<1>2. step' \in [Deliverers -> StepState]
  BY <1>1 DEF Moves, IInv, TypeOK
<1>3. \A e \in Deliverers : step'[e] = IF e = d THEN s ELSE step[e]
  BY <1>1 DEF Moves, IInv, TypeOK
<1>4. incoming' \subseteq Incoming
  <2>1. step[d].held \in MaybeKey /\ incoming \subseteq Incoming
    BY DEF IInv, TypeOK, StepState
  <2>2. step[d].at = "emitted" => [key |-> step[d].held, whole |-> FALSE] \in Incoming
    BY <2>1 DEF IInv, EmittedIsKey, MaybeKey, Incoming
  <2> QED
    BY <1>1, <2>1, <2>2 DEF Moves
<1>5. TypeOK'
  BY <1>1, <1>2, <1>4 DEF Moves, IInv, TypeOK, keychainVars
<1>6. EmittedIsKey'
  BY <1>1, <1>3 DEF Moves, IInv, EmittedIsKey
<1>7. mode' = "shamir" => NothingDelivered'
  BY <1>1, StepInShamir DEF Moves, keychainVars
<1>8. ASSUME mode' = "static" PROVE NoneToAdd' /\ OneKey'
  <2>1. NoneToAdd /\ NoneToAdd'
    BY <1>1, <1>8 DEF Moves, IInv, keychainVars, NoneToAdd
  <2>2. PICK k \in Keys : AllAre(k)
    BY <1>1, <1>8 DEF Moves, IInv, keychainVars, OneKey
  <2>3. \A e \in Deliverers : step'[e].held \in {NoKey, k}
    BY <1>1, <1>3, <2>2 DEF Moves, AllAre
  <2>4. \A i \in incoming' : i.key = k
    BY <1>1, <2>2 DEF Moves, AllAre, IInv, EmittedIsKey
  <2>5. AllAre(k)'
    BY <1>1, <2>2, <2>3, <2>4 DEF Moves, AllAre, keychainVars
  <2> QED
    BY <2>1, <2>5 DEF OneKey
<1> QED
  BY <1>5, <1>6, <1>7, <1>8 DEF IInv

-----------------------------------------------------------------------------
(* The Keychain.                                                           *)

\* A setup-key run adds a key only before static mode, when no key is held
\* elsewhere.
LEMMA SetupInv ==
    ASSUME IInv, NEW s \in Setups, SetupKey(s) \/ ReadKey(s) \/ AddKey(s)
    PROVE  IInv'
<1>1. UNCHANGED <<mode, locked, boxVars, agentVars, restarts>>
  BY DEF SetupKey, ReadKey, AddKey
<1>2. setup' \in [Setups -> {"start", "check", "init", "add", "verified", "failed"}]
  BY DEF SetupKey, ReadKey, AddKey, IInv, TypeOK
<1>3. keychain' = keychain \/ (setup[s] = "add" /\ keychain' = s)
  BY DEF SetupKey, ReadKey, AddKey
<1>4. TypeOK'
  BY <1>1, <1>2, <1>3 DEF IInv, TypeOK, boxVars, agentVars, MaybeKey, Keys
<1>5. EmittedIsKey' /\ (mode' = "shamir" => NothingDelivered')
  BY <1>1 DEF IInv, EmittedIsKey, NothingDelivered, boxVars, agentVars
<1>6. ASSUME mode' = "static" PROVE NoneToAdd' /\ OneKey'
  <2>1. mode = "static" /\ NoneToAdd /\ OneKey
    BY <1>1, <1>6 DEF IInv
  <2>2. setup[s] # "add" /\ setup[s] # "init"
    BY <2>1 DEF NoneToAdd
  <2>3. \E v \in {"check", "verified", "failed"} : setup' = [setup EXCEPT ![s] = v]
    BY <2>1, <2>2 DEF SetupKey, ReadKey, AddKey
  <2>4. NoneToAdd'
    BY <2>1, <2>3 DEF NoneToAdd, IInv, TypeOK
  <2>5. keychain' = keychain
    BY <1>3, <2>2
  <2>6. OneKey'
    BY <1>1, <2>1, <2>5 DEF OneKey, AllAre, boxVars, agentVars
  <2> QED
    BY <2>4, <2>6
<1> QED
  BY <1>4, <1>5, <1>6 DEF IInv

\* Locking the keychain or losing its key does not break the invariant.
LEMMA KeychainInv ==
    ASSUME IInv, ToggleLock \/ LoseKey
    PROVE  IInv'
<1>1. UNCHANGED <<mode, setup, boxVars, agentVars, restarts>>
  BY DEF ToggleLock, LoseKey
<1>2. locked' \in BOOLEAN /\ keychain' \in {NoKey, keychain}
  BY DEF ToggleLock, LoseKey, IInv, TypeOK
<1>3. TypeOK'
  BY <1>1, <1>2 DEF IInv, TypeOK, boxVars, agentVars, MaybeKey
<1>4. EmittedIsKey' /\ (mode' = "shamir" => NothingDelivered')
  BY <1>1 DEF IInv, EmittedIsKey, NothingDelivered, boxVars, agentVars
<1>5. mode' = "static" => NoneToAdd' /\ OneKey'
  BY <1>1, <1>2 DEF IInv, NoneToAdd, OneKey, AllAre, boxVars, agentVars
<1> QED
  BY <1>3, <1>4, <1>5 DEF IInv

\* What the Keychain has at the switch is the one key there is.
LEMMA EnableInv ==
    ASSUME IInv, EnableStatic
    PROVE  IInv'
<1>1. TypeOK' /\ EmittedIsKey'
  BY DEF EnableStatic, IInv, TypeOK, EmittedIsKey, boxVars, agentVars
<1>2. NoneToAdd'
  BY DEF EnableStatic, NoneToAdd
<1>3. NothingDelivered /\ keychain \in MaybeKey
  BY DEF EnableStatic, IInv, TypeOK
<1>4. PICK k \in Keys : keychain \in {NoKey, k}
  BY <1>3 DEF EnableStatic, MaybeKey, Keys
<1>5. \A d \in Deliverers : step[d].held = NoKey
  BY <1>3 DEF NothingDelivered, Idle
<1>6. AllAre(k)'
  BY <1>3, <1>4, <1>5 DEF AllAre, NothingDelivered, EnableStatic, boxVars, agentVars
<1> QED
  BY <1>1, <1>2, <1>6 DEF IInv, OneKey, EnableStatic

-----------------------------------------------------------------------------
(* The container.                                                          *)

\* Nothing outlives a start of the container, and no start adds a key.
LEMMA BoxInv ==
    ASSUME IInv, UNCHANGED <<keychainVars, sealKey, step>>,
           stopped' \in BOOLEAN, restarts' \in 0..MaxRestarts,
           agent' \in {"off", "starting", "watching"}, agent' = agent \/ agent' = "off"
                                                       \/ mode = "static",
           \/ Started(mode) \/ (box # "off" /\ Started(boxMode))
           \/ box' = "off" /\ incoming' = {} /\ key' = NoKey /\ boxMode' = boxMode
           \/ UNCHANGED <<box, boxMode, incoming, key>>
    PROVE  IInv'
<1>1. TypeOK'
  BY DEF IInv, TypeOK, Started, keychainVars, MaybeKey
<1>2. EmittedIsKey'
  BY DEF IInv, EmittedIsKey
<1>3. ASSUME mode' = "shamir" PROVE NothingDelivered'
  <2>1. mode = "shamir" /\ NothingDelivered
    BY <1>3 DEF IInv, keychainVars
  <2> QED
    BY <2>1 DEF NothingDelivered, Started
<1>4. ASSUME mode' = "static" PROVE NoneToAdd' /\ OneKey'
  <2>1. NoneToAdd /\ OneKey
    BY <1>4 DEF IInv, keychainVars
  <2>2. key' \in {NoKey, key} /\ incoming' \subseteq incoming
    BY DEF Started
  <2> QED
    BY <2>1, <2>2 DEF NoneToAdd, OneKey, AllAre, keychainVars
<1> QED
  BY <1>1, <1>2, <1>3, <1>4 DEF IInv

\* The entrypoint's key becomes the key of the data; a script's key the
\* container's.
LEMMA EnterInv ==
    ASSUME IInv, Enter
    PROVE  IInv'
<1>1. mode = "static"
  BY DEF IInv, TypeOK, Enter, NothingDelivered
<1>2. TypeOK' /\ EmittedIsKey' /\ NoneToAdd' /\ mode' = "static"
  BY <1>1 DEF Enter, IInv, TypeOK, EmittedIsKey, NoneToAdd, keychainVars, agentVars
<1>3. PICK k \in Keys : AllAre(k)
  BY <1>1 DEF IInv, OneKey
<1>4. AllAre(k)'
  BY <1>3 DEF Enter, AllAre, keychainVars, agentVars
<1> QED
  BY <1>2, <1>4 DEF IInv, OneKey

\* Receiving and publishing a key in the box does not break the invariant.
LEMMA ScriptInv ==
    ASSUME IInv, NEW i \in incoming, Receive(i) \/ Publish(i)
    PROVE  IInv'
<1>1. mode = "static"
  BY DEF IInv, TypeOK, NothingDelivered
<1>2. PICK k \in Keys : AllAre(k)
  BY <1>1 DEF IInv, OneKey
<1>3. i \in Incoming /\ i.key = k /\ i.key \in Keys
  BY <1>2 DEF IInv, TypeOK, AllAre, Incoming
<1>4. [i EXCEPT !.whole = TRUE] \in Incoming /\ [i EXCEPT !.whole = TRUE].key = k
  BY <1>3 DEF Incoming
<1>5. /\ incoming' \subseteq incoming \cup {[i EXCEPT !.whole = TRUE]}
      /\ key' \in {key, i.key}
      /\ UNCHANGED <<keychainVars, box, boxMode, sealKey, agentVars, restarts>>
  BY DEF Receive, Publish
<1>6. TypeOK'
  BY <1>3, <1>4, <1>5 DEF IInv, TypeOK, keychainVars, agentVars, MaybeKey
<1>7. EmittedIsKey' /\ NoneToAdd' /\ mode' = "static"
  BY <1>1, <1>5 DEF IInv, EmittedIsKey, NoneToAdd, keychainVars, agentVars
<1>8. AllAre(k)'
  BY <1>2, <1>3, <1>4, <1>5 DEF AllAre, keychainVars, agentVars
<1> QED
  BY <1>6, <1>7, <1>8 DEF IInv, OneKey

\* A new supervisor process begins a step anew.
LEMMA LaunchInv ==
    ASSUME IInv, Launch
    PROVE  IInv'
<1>1. step' \in [Deliverers -> StepState]
  BY IdleIsState DEF Launch, IInv, TypeOK
<1>2. \A d \in Deliverers : step'[d] \in {Idle, step[d]}
  BY DEF Launch, IInv, TypeOK
<1>3. TypeOK'
  BY <1>1 DEF Launch, IInv, TypeOK, keychainVars, boxVars
<1>4. EmittedIsKey' /\ NoneToAdd' /\ mode' = "static"
  BY <1>2 DEF Launch, IInv, EmittedIsKey, NoneToAdd, keychainVars, Idle
<1>5. PICK k \in Keys : AllAre(k)
  BY DEF Launch, IInv, OneKey
<1>6. AllAre(k)'
  BY <1>2, <1>5 DEF Launch, AllAre, keychainVars, boxVars, Idle
<1> QED
  BY <1>3, <1>4, <1>6 DEF IInv, OneKey

-----------------------------------------------------------------------------
(* The theorems.                                                           *)

\* No step breaks the invariant.
LEMMA NextInv == IInv /\ [Next]_vars => IInv'
<1> SUFFICES ASSUME IInv, [Next]_vars PROVE IInv'
  OBVIOUS
<1>1. CASE \E s \in Setups : SetupKey(s) \/ ReadKey(s) \/ AddKey(s)
  BY <1>1, SetupInv
<1>2. CASE ToggleLock \/ LoseKey
  BY <1>2, KeychainInv
<1>3. CASE EnableStatic
  BY <1>3, EnableInv
<1>4. CASE Restart
  <2>1. restarts' \in 0..MaxRestarts /\ stopped' \in BOOLEAN
    <3>1. restarts \in 0..MaxRestarts /\ stopped \in BOOLEAN
      BY DEF IInv, TypeOK
    <3>2. restarts < MaxRestarts /\ restarts' = restarts + 1 /\ stopped' \in {FALSE, stopped}
      BY <1>4 DEF Restart
    <3>3. restarts' \in 0..MaxRestarts
      BY <3>1, <3>2, SealAssumption
    <3> QED
      BY <3>1, <3>2, <3>3
  <2>2. UNCHANGED <<keychainVars, sealKey, agent, step>>
    BY <1>4 DEF Restart
  <2>3. Started(mode) \/ (box # "off" /\ Started(boxMode))
    BY <1>4 DEF Restart
  <2>4. agent \in {"off", "starting", "watching"}
    BY DEF IInv, TypeOK
  <2> QED
    BY <2>1, <2>2, <2>3, <2>4, BoxInv
<1>5. CASE Stop
  BY <1>5, BoxInv DEF Stop, IInv, TypeOK
<1>6. CASE Enter
  BY <1>6, EnterInv
<1>7. CASE \E i \in incoming : Receive(i) \/ Publish(i)
  BY <1>7, ScriptInv
<1>8. CASE \E d \in Deliverers : StepOf(d)
  BY <1>8, StepInv
<1>9. CASE Launch
  BY <1>9, LaunchInv
<1>10. CASE EnsureRuntime
  <2>1. mode = "static"
    BY <1>10 DEF EnsureRuntime, IInv, TypeOK, NothingDelivered
  <2>2. Started(mode) \/ UNCHANGED <<box, boxMode, incoming, key>>
    BY <1>10 DEF EnsureRuntime, ComposeUp
  <2>3. UNCHANGED <<keychainVars, sealKey, step, stopped, restarts>>
    BY <1>10 DEF EnsureRuntime
  <2>4. agent' \in {"off", "starting", "watching"}
    BY <1>10 DEF EnsureRuntime
  <2>5. stopped' \in BOOLEAN /\ restarts' \in 0..MaxRestarts
    BY <2>3 DEF IInv, TypeOK
  <2> QED
    BY <2>1, <2>2, <2>3, <2>4, <2>5, BoxInv
<1>11. CASE Die
  BY <1>11, BoxInv DEF Die, IInv, TypeOK, boxVars
<1>12. CASE UNCHANGED vars
  BY <1>12 DEF vars, keychainVars, boxVars, agentVars, IInv, TypeOK, EmittedIsKey,
               NothingDelivered, NoneToAdd, OneKey, AllAre
<1> QED
  BY <1>1, <1>2, <1>3, <1>4, <1>5, <1>6, <1>7, <1>8, <1>9, <1>10, <1>11, <1>12 DEF Next

\* Every reachable state is a state the code knows.
THEOREM SealTypeCorrect == Spec => []TypeOK
<1>1. IInv => TypeOK
  BY DEF IInv
<1> QED
  BY InitInv, NextInv, <1>1, PTL DEF Spec

\* "After migration, never generate a replacement for a lost seal key": once
\* data are sealed under a key, no other key is in the Keychain, held by a
\* deliverer, in a DELIVER_KEY script or in the container's tmpfs, however
\* setup-key, the once commands, restarts and the supervisor interleave.
THEOREM OriginalKeyOnly == Spec => []SealKeyIsOriginal
<1>1. IInv => SealKeyIsOriginal
  <2> SUFFICES ASSUME IInv, sealKey # NoKey PROVE SealKeyIsOriginal
    BY DEF SealKeyIsOriginal
  <2>1. mode = "static"
    BY DEF IInv, TypeOK, NothingDelivered
  <2>2. PICK k \in Keys : AllAre(k)
    BY <2>1 DEF IInv, OneKey
  <2>3. sealKey = k
    BY <2>2 DEF AllAre
  <2> QED
    BY <2>2, <2>3 DEF AllAre, SealKeyIsOriginal
<1> QED
  BY InitInv, NextInv, <1>1, PTL DEF Spec

-----------------------------------------------------------------------------
(* A waiting container is served.                                          *)

\* A container waits for a key only in static mode, and the supervisor's loop has
\* no end.
LoopAt == (box = "waiting" => boxMode = "static") /\ step[Serve].at # "ended"

LEMMA ServeDelivers == Serve \in Deliverers
BY DEF Deliverers

\* What a step of Next leaves to the supervisor's loop.
LEMMA LoopGoesOn ==
    ASSUME IInv, LoopAt, Next
    PROVE  LoopAt'
<1> USE ServeDelivers DEF LoopAt, keychainVars, boxVars, agentVars
<1>1. CASE \E s \in Setups : SetupKey(s) \/ ReadKey(s) \/ AddKey(s)
  BY <1>1 DEF SetupKey, ReadKey, AddKey
<1>2. CASE ToggleLock \/ LoseKey \/ EnableStatic
  BY <1>2 DEF ToggleLock, LoseKey, EnableStatic
<1>3. CASE Restart \/ Stop \/ Enter
  BY <1>3 DEF Restart, Started, Stop, Enter
<1>4. CASE \E i \in incoming : Receive(i) \/ Publish(i)
  BY <1>4 DEF Receive, Publish
<1>5. ASSUME NEW d \in Deliverers, StepOf(d) PROVE LoopAt'
  <2>1. box' = box /\ boxMode' = boxMode
    BY <1>5 DEF StepOf, Inspect, CheckReady, Emit, Deliver, Delivered, StepFails
  <2>2. step'[Serve].at # "ended"
    <3>1. CASE d = Serve
      BY <1>5, <3>1
      DEF StepOf, Inspect, CheckReady, Emit, Deliver, Delivered, StepFails, End, To, Idle,
          IInv, TypeOK
    <3>2. CASE d # Serve
      BY <1>5, <3>2
      DEF StepOf, Inspect, CheckReady, Emit, Deliver, Delivered, StepFails, End, To,
          IInv, TypeOK
    <3> QED
      BY <3>1, <3>2
  <2> QED
    BY <2>1, <2>2
<1>6. CASE Launch
  BY <1>6 DEF Launch, Idle, IInv, TypeOK
<1>7. CASE EnsureRuntime
  <2>1. step' = step /\ (Started(mode) \/ UNCHANGED <<box, boxMode, incoming, key>>)
    BY <1>7 DEF EnsureRuntime, ComposeUp
  <2> QED
    BY <2>1 DEF Started
<1>8. CASE Die
  BY <1>8 DEF Die
<1> QED
  BY <1>1, <1>2, <1>3, <1>4, <1>5, <1>6, <1>7, <1>8 DEF Next

LEMMA Invariants == Spec => [](IInv /\ LoopAt)
<1>1. Init => LoopAt
  BY ServeDelivers DEF Init, LoopAt, Idle
<1>2. IInv /\ LoopAt /\ [Next]_vars => LoopAt'
  BY LoopGoesOn DEF vars, boxVars, agentVars, LoopAt
<1> QED
  BY <1>1, <1>2, InitInv, NextInv, PTL DEF Spec

\* The container waits, and the supervisor has a key to deliver.
Waits == box = "waiting" /\ agent = "watching" /\ ~locked /\ keychain # NoKey

Over == box \in {"serving", "off"} \/ locked \/ keychain = NoKey \/ agent = "off"

\* A container that waits goes on waiting, or it is over; its key stays unless the
\* container is started anew; and the loop goes round.
RoundOfLoop ==
    LET at == step[Serve].at IN
    /\ at = "idle" => at' \in {"idle", "inspected"}
    /\ at = "inspected" => at' \in {"inspected", "idle", "empty"}
    /\ at = "empty" => at' \in {"empty", "idle", "emitted"}
    /\ at = "emitted" => at' \in {"emitted", "idle", "delivering"}
    /\ at = "delivering" => at' \in {"delivering", "idle"}

WaitsOn ==
    /\ Waits' \/ Over'
    /\ Waits' => RoundOfLoop /\ (key # NoKey => key' # NoKey \/ restarts' # restarts)

LEMMA WaitingGoesOn ==
    ASSUME IInv, LoopAt, Waits, [Next]_vars
    PROVE  WaitsOn
<1> USE ServeDelivers DEF WaitsOn, Waits, Over, RoundOfLoop, keychainVars, boxVars, agentVars
<1>0. mode = "static" /\ boxMode = "static"
  BY DEF IInv, TypeOK, NothingDelivered, LoopAt
<1>1. CASE \E s \in Setups : SetupKey(s) \/ ReadKey(s) \/ AddKey(s)
  BY <1>1 DEF SetupKey, ReadKey, AddKey
<1>2. CASE ToggleLock \/ LoseKey \/ EnableStatic
  BY <1>2 DEF ToggleLock, LoseKey, EnableStatic
<1>3. CASE Restart
  BY <1>0, <1>3 DEF Restart, Started, IInv, TypeOK
<1>4. CASE Stop
  BY <1>4 DEF Stop
<1>5. CASE Enter
  <2>1. sealKey \in {NoKey, key}
    BY <1>0, <1>5 DEF Enter, IInv, OneKey, AllAre
  <2> QED
    BY <1>5, <2>1 DEF Enter
<1>6. CASE \E i \in incoming : Receive(i) \/ Publish(i)
  BY <1>6 DEF Receive, Publish
<1>7. ASSUME NEW d \in Deliverers, StepOf(d) PROVE WaitsOn
  <2>1. UNCHANGED <<keychainVars, box, agent, key>>
    BY <1>7 DEF StepOf, Inspect, CheckReady, Emit, Deliver, Delivered, StepFails
  <2>2. RoundOfLoop
    <3>1. CASE d = Serve
      BY <1>7, <3>1
      DEF StepOf, Inspect, CheckReady, Emit, Deliver, Delivered, StepFails, End, To, Idle,
          IInv, TypeOK
    <3>2. CASE d # Serve
      BY <1>7, <3>2
      DEF StepOf, Inspect, CheckReady, Emit, Deliver, Delivered, StepFails, End, To,
          IInv, TypeOK
    <3> QED
      BY <3>1, <3>2
  <2> QED
    BY <2>1, <2>2
<1>8. CASE Launch \/ EnsureRuntime
  BY <1>8 DEF Launch, EnsureRuntime
<1>9. CASE Die
  BY <1>9 DEF Die
<1>10. CASE UNCHANGED vars
  BY <1>10 DEF vars
<1> QED
  BY <1>1, <1>2, <1>3, <1>4, <1>5, <1>6, <1>7, <1>8, <1>9, <1>10 DEF Next

\* A key comes in, or has come in.
Coming == \E i \in incoming : ~i.whole

Come == \E i \in incoming : i.whole

\* What the supervisor and the scripts in the container bring about.
LEMMA KeyTravels ==
    ASSUME IInv
    PROVE  /\ <<Inspect(Serve)>>_vars => (step[Serve].at = "inspected")'
           /\ <<CheckReady(Serve)>>_vars /\ key = NoKey => (step[Serve].at = "empty")'
           /\ <<Emit(Serve)>>_vars => (step[Serve].at = "emitted")'
           /\ <<Deliver(Serve)>>_vars => (step[Serve].at = "delivering")' /\ Coming'
           /\ <<Delivered(Serve)>>_vars => (step[Serve].at = "idle")'
           /\ <<\E i \in incoming : Receive(i)>>_vars => Come'
           /\ <<\E i \in incoming : i.whole /\ Publish(i)>>_vars => key' # NoKey
           /\ <<Enter>>_vars => box' # "waiting"
<1> USE ServeDelivers DEF IInv, TypeOK, To, Idle, Coming, Come
<1>1. <<Inspect(Serve)>>_vars => (step[Serve].at = "inspected")'
  BY DEF Inspect
<1>2. <<CheckReady(Serve)>>_vars /\ key = NoKey => (step[Serve].at = "empty")'
  BY DEF CheckReady
<1>3. <<Emit(Serve)>>_vars => (step[Serve].at = "emitted")'
  BY DEF Emit
<1>4. <<Deliver(Serve)>>_vars => (step[Serve].at = "delivering")' /\ Coming'
  <2> SUFFICES ASSUME Deliver(Serve) PROVE (step[Serve].at = "delivering")' /\ Coming'
    OBVIOUS
  <2>1. [key |-> step[Serve].held, whole |-> FALSE] \in incoming'
    BY DEF Deliver
  <2> QED
    BY <2>1 DEF Deliver
<1>5. <<Delivered(Serve)>>_vars => (step[Serve].at = "idle")'
  BY DEF Delivered, End
<1>6. <<\E i \in incoming : Receive(i)>>_vars => Come'
  <2> SUFFICES ASSUME NEW i \in incoming, Receive(i) PROVE Come'
    OBVIOUS
  <2>1. [i EXCEPT !.whole = TRUE] \in incoming' /\ i \in Incoming
    BY DEF Receive
  <2> QED
    BY <2>1 DEF Incoming
<1>7. <<\E i \in incoming : i.whole /\ Publish(i)>>_vars => key' # NoKey
  BY SealAssumption DEF Publish, Incoming, Keys
<1>8. <<Enter>>_vars => box' # "waiting"
  BY DEF Enter
<1> QED
  BY <1>1, <1>2, <1>3, <1>4, <1>5, <1>6, <1>7, <1>8

\* A container that waits is served if it is not started anew for ever, unless it is
\* stopped, the Keychain is locked or emptied, or the supervisor dies: the loop of
\* the supervisor comes round until a key has got through.
THEOREM WaitingIsAlwaysServed ==
    FairSpec /\ []KeyCanGoOn /\ <>[][UNCHANGED restarts]_vars => WaitingIsServed
<1> DEFINE Inv == IInv /\ LoopAt
           Is(a) == step[Serve].at = a
           Idles == Is("idle")
           Inspected == Is("inspected")
           Empty == Is("empty")
           Emitted == Is("emitted")
           Delivering == Is("delivering")
           Receives == \E i \in incoming : Receive(i)
           Publishes == \E i \in incoming : i.whole /\ Publish(i)
           There == key # NoKey
           Fair == FairSpec /\ []KeyCanGoOn
           Settled == <>[]Waits /\ <>[][UNCHANGED restarts]_vars
(* One step. *)
<1>1. /\ box = "waiting" /\ agent = "watching" => Waits \/ Over
      /\ Waits => box = "waiting"
      /\ Over => box \in {"serving", "off"} \/ locked \/ keychain = NoKey \/ agent = "off"
  BY DEF Waits, Over
<1>2. Inv /\ Waits /\ [Next]_vars => Waits' \/ Over'
  BY WaitingGoesOn DEF WaitsOn
<1>3. Inv /\ Waits /\ Waits' /\ [Next]_vars /\ [UNCHANGED restarts]_vars => (There => There')
  BY WaitingGoesOn DEF WaitsOn, vars
<1>4. Inv /\ Waits /\ Waits' /\ [Next]_vars =>
        /\ Idles => Idles' \/ Inspected'
        /\ Inspected => Inspected' \/ Idles' \/ Empty'
        /\ Empty => Empty' \/ Idles' \/ Emitted'
        /\ Emitted => Emitted' \/ Idles' \/ Delivering'
        /\ Delivering => Delivering' \/ Idles'
  BY WaitingGoesOn DEF WaitsOn, RoundOfLoop
<1>5. /\ Inv => Idles \/ Inspected \/ Empty \/ Emitted \/ Delivering
      /\ Inspected => ~(Empty \/ Emitted \/ Delivering)
      /\ Empty => ~(Emitted \/ Delivering)
      /\ Emitted => ~Delivering
      /\ Delivering => ~Idles
  BY ServeDelivers DEF IInv, TypeOK, LoopAt, StepState
<1>6. KeyCanGoOn /\ Waits =>
        /\ Idles => ENABLED <<Inspect(Serve)>>_vars
        /\ Inspected => ENABLED <<CheckReady(Serve)>>_vars
        /\ Empty => ENABLED <<Emit(Serve)>>_vars
        /\ Emitted => ENABLED <<Deliver(Serve)>>_vars
        /\ Delivering => ENABLED <<Delivered(Serve)>>_vars
        /\ Coming => ENABLED <<Receives>>_vars
        /\ Come => ENABLED <<Publishes>>_vars
        /\ There => ENABLED <<Enter>>_vars
  BY DEF KeyCanGoOn, Waits, Coming, Come
<1>7. Inv =>
        /\ <<Inspect(Serve)>>_vars => Inspected'
        /\ <<CheckReady(Serve)>>_vars /\ ~There => Empty'
        /\ <<Emit(Serve)>>_vars => Emitted'
        /\ <<Deliver(Serve)>>_vars => Delivering' /\ Coming'
        /\ <<Delivered(Serve)>>_vars => Idles'
        /\ <<Receives>>_vars => Come'
        /\ <<Publishes>>_vars => There'
        /\ <<Enter>>_vars => ~(box = "waiting")'
  BY KeyTravels
<1>8. Fair => []Inv /\ [][Next]_vars
  BY Invariants, PTL DEF FairSpec, Spec
(* Suppose it waits for ever: there is never a key, so the loop comes round. *)
<1>9. Fair /\ Settled => <>[]~There
  <2>1. Fair => WF_vars(Enter)
    BY PTL DEF FairSpec, Fairness
  <2> QED
    BY <2>1, <1>1, <1>3, <1>6, <1>7, <1>8, PTL
<1>10. Fair /\ Settled => []<>Idles
  <2>1. Fair /\ Settled => []<>~Inspected
    <3>1. Fair => SF_vars(CheckReady(Serve))
      BY PTL DEF FairSpec, Fairness
    <3> QED
      BY <3>1, <1>5, <1>6, <1>7, <1>8, <1>9, PTL
  <2>2. Fair /\ Settled => []<>~Empty
    <3>1. Fair => SF_vars(Emit(Serve))
      BY PTL DEF FairSpec, Fairness
    <3> QED
      BY <3>1, <1>5, <1>6, <1>7, <1>8, PTL
  <2>3. Fair /\ Settled => []<>~Emitted
    <3>1. Fair => SF_vars(Deliver(Serve))
      BY PTL DEF FairSpec, Fairness
    <3> QED
      BY <3>1, <1>5, <1>6, <1>7, <1>8, PTL
  <2>4. Fair /\ Settled => []<>~Delivering
    <3>1. Fair => SF_vars(Delivered(Serve))
      BY PTL DEF FairSpec, Fairness
    <3> QED
      BY <3>1, <1>5, <1>6, <1>7, <1>8, PTL
  <2> QED
    BY <2>1, <2>2, <2>3, <2>4, <1>4, <1>5, <1>8, PTL
(* Each round then brings the key a step further, and in the end there is one. *)
<1>11. Fair /\ Settled => []<>Inspected
  <2>1. Fair => SF_vars(Inspect(Serve))
    BY PTL DEF FairSpec, Fairness
  <2> QED
    BY <2>1, <1>6, <1>7, <1>8, <1>10, PTL
<1>12. Fair /\ Settled => []<>Empty
  <2>1. Fair => SF_vars(CheckReady(Serve))
    BY PTL DEF FairSpec, Fairness
  <2> QED
    BY <2>1, <1>6, <1>7, <1>8, <1>11, <1>9, PTL
<1>13. Fair /\ Settled => []<>Emitted
  <2>1. Fair => SF_vars(Emit(Serve))
    BY PTL DEF FairSpec, Fairness
  <2> QED
    BY <2>1, <1>6, <1>7, <1>8, <1>12, PTL
<1>14. Fair /\ Settled => []<>Coming
  <2>1. Fair => SF_vars(Deliver(Serve))
    BY PTL DEF FairSpec, Fairness
  <2> QED
    BY <2>1, <1>6, <1>7, <1>8, <1>13, PTL
<1>15. Fair /\ Settled => []<>Come
  <2>1. Fair => SF_vars(Receives)
    BY PTL DEF FairSpec, Fairness
  <2> QED
    BY <2>1, <1>6, <1>7, <1>8, <1>14, PTL
<1>16. Fair /\ Settled => []<>There
  <2>1. Fair => SF_vars(Publishes)
    BY PTL DEF FairSpec, Fairness
  <2> QED
    BY <2>1, <1>6, <1>7, <1>8, <1>15, PTL
<1> QED
  BY <1>1, <1>2, <1>8, <1>9, <1>16, PTL DEF WaitingIsServed

=============================================================================
