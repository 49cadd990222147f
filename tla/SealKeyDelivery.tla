-------------------------- MODULE SealKeyDelivery ---------------------------
(***************************************************************************)
(* Automatic unsealing on macOS: scripts/openbao-autounseal.py, its        *)
(* Keychain helper and openbao/entrypoint.sh.                              *)
(*                                                                         *)
(* setup-key creates the seal key in the Keychain while OpenBao still uses *)
(* Shamir shares.  Afterwards a supervisor, and any operator's "once",     *)
(* hands it to the container, whose tmpfs forgets it at every start.  The  *)
(* container's entrypoint waits for it.                                    *)
(***************************************************************************)
EXTENDS Integers

CONSTANTS Serve,      \* the supervisor, a LaunchAgent
          Once,       \* invocations of the once command
          Setups,     \* invocations of setup-key; each has a fresh random key
          NoKey,      \* no key
          MaxRestarts \* bound of the model on starts of the container by others

ASSUME SealAssumption ==
    /\ Serve \notin Once
    /\ NoKey \notin Setups
    /\ MaxRestarts \in Nat

\* A key is named by the setup-key run that would create it.
Keys == Setups
MaybeKey == Keys \cup {NoKey}
Deliverers == Once \cup {Serve}

VARIABLES mode,     \* OPENBAO_SEAL_MODE in .env
          keychain, \* the Keychain item: NoKey if there is none
          locked,   \* the Keychain cannot be read
          setup,    \* progress of each setup-key
          box,      \* the container and its entrypoint
          boxMode,  \* OPENBAO_SEAL_MODE the container was created with
          incoming, \* DELIVER_KEY scripts running in the container
          key,      \* /bao/seal-runtime/current.key
          sealKey,  \* the key the Raft data are sealed under
          agent,    \* the supervisor process
          step,     \* progress of Controller.step
          stopped,  \* the operator stopped what the supervisor brought up, in this login
          restarts  \* bound of the model

keychainVars == <<mode, keychain, locked, setup>>
boxVars == <<box, boxMode, incoming, key, sealKey>>
agentVars == <<agent, step, stopped>>
vars == <<keychainVars, boxVars, agentVars, restarts>>

Incoming == [key : Keys, whole : BOOLEAN]

\* Where Controller.step is; held is the key read from the helper.
StepState == [at : {"idle", "inspected", "empty", "emitted", "delivering", "ended"},
              held : MaybeKey]

Idle == [at |-> "idle", held |-> NoKey]

-----------------------------------------------------------------------------
(* setup-key.                                                              *)

\* A slip to be caught: setup-key always asks for init.
SetupKeyAnew(s) ==
    /\ setup[s] = "start"
    /\ setup' = [setup EXCEPT ![s] = "init"]
    /\ UNCHANGED <<mode, keychain, locked, boxVars, agentVars, restarts>>

\* The helper is asked to init, or once .env says static only to check.
SetupKey(s) ==
    /\ setup[s] = "start"
    /\ setup' = [setup EXCEPT ![s] = IF mode = "static" THEN "check" ELSE "init"]
    /\ UNCHANGED <<mode, keychain, locked, boxVars, agentVars, restarts>>

\* check reads the item; init does too, and is content when it is there.
ReadKey(s) ==
    /\ setup[s] \in {"check", "init"}
    /\ setup' = [setup EXCEPT ![s] =
          IF ~locked /\ keychain # NoKey THEN "verified"
          ELSE IF setup[s] = "init" /\ keychain = NoKey THEN "add" ELSE "failed"]
    /\ UNCHANGED <<mode, keychain, locked, boxVars, agentVars, restarts>>

\* SecItemAdd never replaces an item: a duplicate is read instead.
AddKey(s) ==
    /\ setup[s] = "add"
    /\ IF locked THEN keychain' = keychain /\ setup' = [setup EXCEPT ![s] = "failed"]
       ELSE /\ keychain' = IF keychain = NoKey THEN s ELSE keychain
            /\ setup' = [setup EXCEPT ![s] = "verified"]
    /\ UNCHANGED <<mode, locked, boxVars, agentVars, restarts>>

\* The login session ends or begins, or the item is deleted.
ToggleLock ==
    /\ locked' = ~locked
    /\ UNCHANGED <<mode, keychain, setup, boxVars, agentVars, restarts>>

LoseKey ==
    /\ keychain # NoKey
    /\ keychain' = NoKey
    /\ UNCHANGED <<mode, locked, setup, boxVars, agentVars, restarts>>

\* The documented order: the key is prepared, then .env is changed.
EnableStatic ==
    /\ mode = "shamir"
    /\ \E s \in Setups : setup[s] = "verified"
    /\ \A s \in Setups : setup[s] \in {"start", "verified", "failed"}
    /\ mode' = "static"
    /\ UNCHANGED <<keychain, locked, setup, boxVars, agentVars, restarts>>

-----------------------------------------------------------------------------
(* The container.                                                          *)

\* Every start gives the container an empty tmpfs and runs the entrypoint.
Started(m) ==
    /\ boxMode' = m
    /\ box' = IF m = "static" THEN "waiting" ELSE "shamir"
    /\ incoming' = {}
    /\ key' = NoKey

\* The operator starts or recreates it; a crash or the Docker daemon restarts it.
Restart ==
    /\ restarts < MaxRestarts
    /\ restarts' = restarts + 1
    /\ \/ Started(mode) /\ stopped' = FALSE
       \/ box # "off" /\ Started(boxMode) /\ stopped' = stopped
    /\ UNCHANGED <<keychainVars, sealKey, agent, step>>

\* The operator stops it: scripts/openbao.sh down, or Colima.
Stop ==
    /\ box # "off"
    /\ box' = "off"
    /\ incoming' = {}
    /\ key' = NoKey
    /\ stopped' = (stopped \/ agent = "watching")
    /\ UNCHANGED <<keychainVars, boxMode, sealKey, agent, step, restarts>>

\* The entrypoint sees current.key, and bao runs; the first time, the
\* operator migrates the seal to this key.
Enter ==
    /\ box = "waiting"
    /\ key # NoKey
    /\ box' = IF sealKey \in {NoKey, key} THEN "serving" ELSE "broken"
    /\ sealKey' = IF sealKey = NoKey THEN key ELSE sealKey
    /\ UNCHANGED <<keychainVars, boxMode, incoming, key, agentVars, restarts>>

\* DELIVER_KEY: stdin arrives in full, ...
Receive(i) ==
    /\ i \in incoming /\ ~i.whole
    /\ incoming' = (incoming \ {i}) \cup {[i EXCEPT !.whole = TRUE]}
    /\ UNCHANGED <<keychainVars, box, boxMode, key, sealKey, agentVars, restarts>>

\* ... and the key is linked, unless one is there.  A script whose stdin ended
\* early finds fewer than 32 bytes and removes its file.
Publish(i) ==
    /\ i \in incoming
    /\ incoming' = incoming \ {i}
    /\ key' = IF i.whole /\ key = NoKey THEN i.key ELSE key
    /\ UNCHANGED <<keychainVars, box, boxMode, sealKey, agentVars, restarts>>

-----------------------------------------------------------------------------
(* Controller.step, in the supervisor or in once.                          *)

\* A deliverer that may take a step: the supervisor loops for ever.
Active(d) == d \in Once \/ agent = "watching"

To(d, s) == step' = [step EXCEPT ![d] = s]

\* inspect: a running container of the static mode, its key in tmpfs.
Inspect(d) ==
    /\ Active(d)
    /\ step[d].at = "idle"
    /\ box # "off" /\ boxMode = "static"
    /\ To(d, [Idle EXCEPT !.at = "inspected"])
    /\ UNCHANGED <<keychainVars, boxVars, agent, stopped, restarts>>

\* A slip to be caught: the supervisor's loop ends with its first step.
EndForGood(d) == To(d, [Idle EXCEPT !.at = "ended"])

\* The end of a step, in success or failure: the supervisor sleeps and begins
\* again, once exits.
End(d) == To(d, IF d = Serve THEN Idle ELSE [Idle EXCEPT !.at = "ended"])

\* KEY_READY.  An exec that fails for another reason, such as a container that
\* has stopped, counts as a key that is not there.
CheckReady(d) ==
    /\ Active(d)
    /\ step[d].at = "inspected"
    /\ \/ box # "off" /\ key # NoKey /\ End(d)
       \/ To(d, [Idle EXCEPT !.at = "empty"])
    /\ UNCHANGED <<keychainVars, boxVars, agent, stopped, restarts>>

\* The helper emits the key to the supervisor's pipe.
Emit(d) ==
    /\ Active(d)
    /\ step[d].at = "empty"
    /\ ~locked /\ keychain # NoKey
    /\ To(d, [at |-> "emitted", held |-> keychain])
    /\ UNCHANGED <<keychainVars, boxVars, agent, stopped, restarts>>

\* docker exec starts DELIVER_KEY in the container of that name.
Deliver(d) ==
    /\ Active(d)
    /\ step[d].at = "emitted"
    /\ box # "off"
    /\ incoming' = incoming \cup {[key |-> step[d].held, whole |-> FALSE]}
    /\ To(d, [at |-> "delivering", held |-> NoKey])
    /\ UNCHANGED <<keychainVars, box, boxMode, key, sealKey, agent, stopped, restarts>>

\* The exec is answered, or times out after 15 s and goes on by itself.
Delivered(d) ==
    /\ Active(d)
    /\ step[d].at = "delivering"
    /\ End(d)
    /\ UNCHANGED <<keychainVars, boxVars, agent, stopped, restarts>>

\* Any command fails or times out, or the container is not as expected.
StepFails(d) ==
    /\ Active(d)
    /\ step[d].at # "ended"
    /\ End(d)
    /\ UNCHANGED <<keychainVars, boxVars, agent, stopped, restarts>>

-----------------------------------------------------------------------------
(* serve.                                                                  *)

\* launchd starts the agent at login, and again whenever it has exited
\* (RunAtLoad, KeepAlive).
Launch ==
    /\ agent = "off"
    /\ mode = "static"
    /\ agent' = "starting"
    /\ step' = [step EXCEPT ![Serve] = Idle]
    /\ UNCHANGED <<keychainVars, boxVars, stopped, restarts>>

\* compose up starts a container that is not running and recreates one whose
\* configuration has changed.
ComposeUp == IF box = "off" \/ boxMode # mode
             THEN Started(mode)
             ELSE UNCHANGED <<box, boxMode, incoming, key>>

\* ensure_runtime, until it succeeds once.  compose up that fails or runs into
\* its 90 s may have started the container.
EnsureRuntime ==
    /\ agent = "starting"
    /\ \/ agent' = "watching" /\ ComposeUp
       \/ agent' = "starting" /\ ComposeUp
    /\ UNCHANGED <<keychainVars, sealKey, step, stopped, restarts>>

\* The process dies, or the operator logs out, and what is stopped now is for
\* the next login to start.
Die ==
    /\ agent # "off"
    /\ agent' = "off"
    /\ stopped' \in {stopped, FALSE}
    /\ UNCHANGED <<keychainVars, boxVars, step, restarts>>

-----------------------------------------------------------------------------
(* The specification.                                                      *)

Init ==
    /\ mode = "shamir"
    /\ keychain = NoKey
    /\ locked \in BOOLEAN
    /\ setup = [s \in Setups |-> "start"]
    /\ box = "shamir"
    /\ boxMode = "shamir"
    /\ incoming = {}
    /\ key = NoKey
    /\ sealKey = NoKey
    /\ agent = "off"
    /\ step = [d \in Deliverers |-> Idle]
    /\ stopped = FALSE
    /\ restarts = 0

StepOf(d) ==
    \/ Inspect(d) \/ CheckReady(d) \/ Emit(d) \/ Deliver(d) \/ Delivered(d) \/ StepFails(d)

Next ==
    \/ \E s \in Setups : SetupKey(s) \/ ReadKey(s) \/ AddKey(s)
    \/ ToggleLock \/ LoseKey \/ EnableStatic
    \/ Restart \/ Stop \/ Enter
    \/ \E i \in incoming : Receive(i) \/ Publish(i)
    \/ \E d \in Deliverers : StepOf(d)
    \/ Launch \/ EnsureRuntime \/ Die

Spec == Init /\ [][Next]_vars

\* launchd keeps the agent alive; its loop comes round every 3 s, the entrypoint's every
\* second; a command that is tried again and again does not fail for ever.
Fairness ==
    /\ WF_vars(Launch)
    /\ SF_vars(EnsureRuntime /\ agent' = "watching")
    /\ WF_vars(Enter)
    /\ SF_vars(\E i \in incoming : Receive(i))
    /\ SF_vars(\E i \in incoming : i.whole /\ Publish(i))
    /\ SF_vars(Inspect(Serve)) /\ SF_vars(CheckReady(Serve))
    /\ SF_vars(Emit(Serve)) /\ SF_vars(Deliver(Serve)) /\ SF_vars(Delivered(Serve))

FairSpec == Spec /\ Fairness

-----------------------------------------------------------------------------
(* Properties.                                                             *)

TypeOK ==
    /\ mode \in {"shamir", "static"}
    /\ keychain \in MaybeKey
    /\ locked \in BOOLEAN
    /\ setup \in [Setups -> {"start", "check", "init", "add", "verified", "failed"}]
    /\ box \in {"off", "shamir", "waiting", "serving", "broken"}
    /\ boxMode \in {"shamir", "static"}
    /\ incoming \subseteq Incoming
    /\ key \in MaybeKey
    /\ sealKey \in MaybeKey
    /\ agent \in {"off", "starting", "watching"}
    /\ step \in [Deliverers -> StepState]
    /\ stopped \in BOOLEAN
    /\ restarts \in 0..MaxRestarts

\* "After migration, never generate a replacement for a lost seal key": no key
\* but the one the data are sealed under is in the Keychain, on its way to the
\* container or in its tmpfs.
SealKeyIsOriginal ==
    sealKey # NoKey =>
        /\ keychain \in {NoKey, sealKey}
        /\ key \in {NoKey, sealKey}
        /\ \A i \in incoming : i.key = sealKey
        /\ \A d \in Deliverers : step[d].held \in {NoKey, sealKey}

\* While a container waits for its key, the supervisor watches and the Keychain
\* has one, the next step on the key's way can be taken, wherever it is.
KeyCanGoOn ==
    box = "waiting" /\ agent = "watching" /\ ~locked /\ keychain # NoKey =>
        LET at == step[Serve].at IN
        /\ at = "idle" => ENABLED <<Inspect(Serve)>>_vars
        /\ at = "inspected" => ENABLED <<CheckReady(Serve)>>_vars
        /\ at = "empty" => ENABLED <<Emit(Serve)>>_vars
        /\ at = "emitted" => ENABLED <<Deliver(Serve)>>_vars
        /\ at = "delivering" => ENABLED <<Delivered(Serve)>>_vars
        /\ (\E i \in incoming : ~i.whole) => ENABLED <<\E i \in incoming : Receive(i)>>_vars
        /\ (\E i \in incoming : i.whole) =>
              ENABLED <<\E i \in incoming : i.whole /\ Publish(i)>>_vars
        /\ key # NoKey => ENABLED <<Enter>>_vars

\* A container that waits for its key gets it and serves, unless it is
\* stopped, the Keychain is locked or emptied, or the supervisor dies.
WaitingIsServed ==
    box = "waiting" /\ agent = "watching"
        ~> box \in {"serving", "off"} \/ locked \/ keychain = NoKey \/ agent = "off"

\* README: at login OpenBao is started once, and when the operator stops it
\* afterwards it is not started again by force.  No supervisor of that login
\* starts what the operator stopped.
ManualStopIsRespected ==
    [][EnsureRuntime => ~(stopped /\ box = "off" /\ box' # "off")]_vars

=============================================================================
