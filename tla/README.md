# TLA+ models of port-infra

This directory holds a formal model of the programs of this repository that
decide something under concurrency, failure or retry: the operator commands of
the two-pool runtime fleet, the programs around OpenBao, automatic unsealing on
macOS, the isolated fixture with its acceptance smoke, the probes of LiveKit
Cloud, and the scripts of the Ghost theme. TLC checks every model on small
instances; TLAPS proves for every size that they are safe, and that what must end
ends as long as nothing is stuck, which TLC checks.

Run a model with `tlc -config <run>.cfg <MC module>`, a proof module with
`tlapm <module>.tla`. `PROJECT.json` lists the runs, maps every definition to
the lines it models, and lists the hazards each property is meant for.

## 1. The system

port-infra is a deployment repository: a Compose stack, and Python, shell, Swift
and JavaScript programs that operate it. The programs keep little state of their
own; what makes them hard is the state they change elsewhere, through requests
that may be lost, be late, or race with those of another invocation.

| Component | State | Operations | Interacts with | Modelled |
|---|---|---|---|---|
| Fleet admission (`scripts/runtime_fleet.py`) | revision, flags and first-cutover attestation of each pool, in the control API | withdraw, resume, retire, cutover, each a `set_admission` | control API (`PUT ... expectedRevision`), launchers that acknowledge revisions, census of duties | yes |
| Multi-decision commands (`runtime_provider.py deploy-approved`, `runtime_fleet.py rollback`) | where the command is | checks, admission calls, provider redeploy | fleet admission, Railway | yes |
| Credential rotation and its receipt (`runtime_fleet.py rotate-credentials`, `cutover`) | attempt file, result file, receipt | reserve, run the audited command, conclude, verify | the provider's credentials, fleet admission | partly |
| AppRole provisioning (`openbao-app-role.py`, `openbao-rag-private-data.py`) | role, policy, keys and SecretIDs in OpenBao; two files in a Docker volume | configure, issue, publish, revoke | OpenBao, a writer container | yes |
| Portable OpenBao supervisor (`openbao_platform.py`, `openbao/platform-*.sh`) | child process, the event its handlers set | start, ask, kill, reap | OpenBao, the provider's SIGTERM and budget | yes |
| OpenBao operator commands (`openbao.sh`, `openbao-tls.sh`) | response file, output file | init; single calls otherwise | OpenBao, file system | partly |
| Automatic unsealing (`openbao-autounseal.py`, `keychain-helper.swift`, `openbao/entrypoint.sh`) | Keychain item, key in tmpfs, seal mode | setup-key, once, serve | container and its entrypoint, launchd | partly |
| Isolated fixture (`runtime_fixtures.py`) | state directory of files published once, volumes, one OpenBao | up, fault, restore, bao-seal, down | Docker, OpenBao | partly |
| Runtime smoke (`runtime_smoke.py`) | faults in force, budgets, observations | outages of PostgreSQL, Redis, API and OpenBao, and their restoration | fixture, fleet admission | partly |
| Cloud and native probes (`runtime_cloud_*_probe.mjs`, `runtime_native_probe_*.mjs`) | a room of their own, jobs, tokens, a report | assignment probe, revocation probe, worker, agent | LiveKit Cloud, a browser | yes |
| Ghost theme (`hero.js`, `dock.js`) | animation loop, WebGL context, docked header | event handlers, observers, timers, frames | the browser | yes |
| Deployment evidence gates, provider inspection | none | validate and record JSON | Railway | no |
| Runtime images | none | builds, reads | Docker | no |
| Local key and database initialization, API private data | `.env`; policies and one key | replaces, idempotent requests | file system, OpenBao | no |
| Compose stack, ingress, observability | configuration | — | — | no |

What is hard, and what would be correct:

- **Admission.** A command reads a snapshot that may be 15 s old, decides, and
  sends a PUT that may be applied long after the command has given up, while
  launchers crash, return, and acknowledge one by one. A retired pool must be
  idle for good, a withdrawal that was reported must be in force, nothing may be
  enabled without drain and attestation, and an attestation is never replaced.
- **Multi-decision commands.** A deploy must not take down the last pool that
  can take over sessions; a rollback must not, wherever it fails.
- **Rotation.** The outcome of the audited command may stay unknown. It must not
  run twice for one output, and no pool is cut over while an exposed credential
  still works.
- **Provisioning.** Overlapping, dying runs must publish a whole pair or nothing,
  leave no valid SecretID behind, and issue none before it is confined.
- **Supervisor.** A stop may come at any moment of the start, and the child may
  hang. No server outlives its supervisor, and a stop that was heard ends within
  the provider's budget.
- **Initialization.** OpenBao gives its unseal shares once; they must survive
  whatever fails, and whatever appears at the output meanwhile.
- **Unsealing.** Once data are sealed under a key no other key may come into
  existence on their path; a container that waits must be served; a manual stop
  is to be respected.
- **Fixture.** Nothing is initialized or keyed twice, whatever died in between,
  and what is marked complete is complete.
- **Smoke.** Every fault is undone whatever fails, and a restoration counts only
  if it was proven after the fault, in time.
- **Probes.** The report speaks of a Cloud that answers late, keeps another
  clock, hands a worker a new id, and still runs what an earlier probe left.
  What is reported as observed must hold, and nothing may stay behind.
- **Theme.** Seven sources of events start and stop one loop of frames, a
  graphics context comes and goes, timers and frames race with scrolling.

## 2. Modules

| Module | Models | Extends / uses |
|---|---|---|
| `AdmissionControl` | what admission promises: decisions taken at once on the state they change | — |
| `FleetAdmission` | `set_admission` with all its checks, API, launchers, work | instantiates `AdmissionControl` |
| `FleetCommands` | deploy-approved and rollback as sequences of admission calls | extends `FleetAdmission` |
| `CredentialRotation` | rotate-credentials and the receipt check of cutover | — |
| `AppRoleProvision` | both provision functions and the writer container | — |
| `PlatformSupervisor` | the supervisor, its child, signals and budgets | — |
| `OperatorInit` | `openbao.sh init` | — |
| `SealKeyDelivery` | setup-key, once, serve, Keychain helper, entrypoint | — |
| `FixtureBootstrap` | `up` with bootstrap, platform and runtime pins, and the operator's other commands | — |
| `SmokeRestore` | the smoke, its budgets, the fixture as it sees it | — |
| `OwnedRoom` | what a probe promises about its room | — |
| `ProbeRoom` | what both probes share: room, browser, failure, cleanup, report | — |
| `RevocationProbe`, `AssignmentProbe` | the work of each probe; the workers and agents | extend `ProbeRoom` |
| `CloudProbes` | either probe, composed | extends both, instantiates `OwnedRoom` |
| `BrowserPage` | the page as its events show it | — |
| `HeroScene`, `HeaderDock` | hero.js and dock.js, one action per handler | extend `BrowserPage` |
| `ThemePage` | both scripts on one page | extends both |
| `*Proofs` | theorems (section 4) | extend their modules and `TLAPS` |
| `MC*` | small instances | extend their modules |

How state and actions correspond to the code:

- **FleetAdmission.** `pool` is the API's durable record; `launcher` one slot of
  the registry (incarnation, acknowledged revision, flags it runs under,
  readiness, jobs); `duties` the obligations of the census; `op` the local state
  of a `set_admission`; `puts` PUTs that were sent and not yet applied. `Call`
  is everything up to the PUT, on one snapshot; `ApplyPut` the API's compare and
  set, at any later time, or never; `Poll`, `Expire` and `Timeout` the loop
  after it; `Refuse` a failed check. `PoolAck`, `Retirable`, `Enabled`,
  `Permitted` and `FirstCutoverAuthorized` are the checks under the code's
  names. `Apply`, `ReportAck`, `Lose`, `Register` and the others are the
  launchers' and external.
- **FleetCommands.** `FirstCheck`, `DeployCall`, `DeployPoll`, `Redeploy` are the
  statements of `deploy_approved` in order, the call and the poll conjoined
  with those of `FleetAdmission`; `Rollback...` those of rollback. `Redeploy`
  replaces every incarnation of the pool and makes duties of its `Jobs`.
- **CredentialRotation.** One action per file the code creates or reads. A
  created file is whole or torn; the command may outlive its run.
- **AppRoleProvision.** `Order` is the sequence of requests of the two scripts,
  one action each; a faulty run may lose an answer or be killed anywhere, and
  its container goes on.
- **PlatformSupervisor.** `sup` is the position in `main`. Time passes only where
  the supervisor waits (`Due` names where it does not); `waited` and `since` are
  its grace and the provider's budget. A SIGTERM before `InstallHandlers` is not
  noticed: the kernel discards it for a first process without a handler.
- **OperatorInit.** One action per command of `initialize_cluster` that touches a
  file. `Interrupt` is the EXIT trap of a run ended by SIGTERM or SIGHUP, `Abort`
  any other end, which runs no trap or runs it with the failure.
- **SealKeyDelivery.** A key is named by the setup-key run that would make it.
  `step` is `Controller.step`, `incoming` the delivery scripts in the container.
- **FixtureBootstrap.** `run` is the position in `up`; a request that timed out
  stays in `late` and may be carried out while the container runs.
- **SmokeRestore.** `stage` and `step` are the position; `clock` the budget in
  force; a failing command may have taken effect; `decision`, `acked` and
  `moved` say whose revision a pool has, who acknowledged it, and whose worker
  changed since it was read.
- **Probes.** `pc` is the await the script is at. Any await of the work may throw
  (`Fail`), also after its request took effect, and the process may die
  (`Die`). The cleanup of `finally` is in order, and a call of it that throws
  skips the rest, as in the code. The Cloud opens a room for whoever joins it
  (an agent that joins late opens it again), removes an empty one, offers a job
  to each worker of the name, and gives a worker that comes back another id,
  which the parent writes to its registration file. Time is in half seconds,
  because the probe waits half a second past a cutoff in whole seconds.
- **HeroScene.** What the browser knows (`surface`) is apart from what it has told
  the script (`notices`) and from the script's own variables. A picture is the
  size and the palette it was drawn with, the pose of the sculpture one bit.
  `SyncAnimation`, `Resize` and `Render` are the functions of that name and read,
  as there, what their caller has assigned.
- **HeaderDock.** Positions are in half pixels, exact where the script divides by
  two. `SetDocked`, `Commit` and `Measure` are the functions of the script.

Definitions introduced as "a slip to be caught" are not part of a model. Each is
a plausible mistake in the definition that follows it (a dropped comparison, a
missing retry); `PROJECT.json` pairs it with the property that TLC then finds
violated, which shows that the property depends on that line of the code.

## 3. Runs

| Run | Instance | Properties and what they show |
|---|---|---|
| `fleet_safety` | 1 pool of 2 replicas, one of which may be lost; 2 calls; 2 attestations; 1 unit of work; failing data readiness | `RetiredPoolIsIdle`, `WorkIsAuthorized`, `WithdrawalIsInForce`, `AttestationIsFinal`, and `RefinesControl`: every behaviour is one of `AdmissionControl` |
| `fleet_liveness` | 1 pool, 1 launcher, 2 calls | `CallEnds` |
| `commands` | 2 pools of 1 replica, 3 deploys, 1 rollback, a free call, in three mixes | `DeploysDoNotLeanOnEachOther`, `IdleRedeployStrandsNothing`, `LoneDeployKeepsRecovery`, `RollbackKeepsRecovery` |
| `commands_recovery_lost` | 2 pools, 2 deploys | `WorkKeepsRecoveryPool` is violated (finding 1) |
| `openbao` | rotation: 3 runs, 2 outputs, 2 classes, 2 cutovers; provisioning: 2 runs for the API, one faulty, and 1 for RAG; supervisor: grace 3, budget 4; initialization: 2 runs of one output | `CommandRunsOncePerOutput`, `ObservedIsRevoked`, `CutoverFollowsRevocation`; `CompletedIsUsable`, `PairIsWhole`, `FailureLeavesNothing`, `SecretIsConfined`; `StopsInBudget`; `UninterruptedIsKept` |
| `init_interrupted` | 2 runs of `init` | `ResponseIsKept` is violated (finding 3) |
| `seal` | supervisor, 2 setup-key or 1 of them and 1 once, 1 restart by hand | `SealKeyIsOriginal`, `WaitingIsServed` |
| `seal_manual_stop` | supervisor, 1 setup-key | `ManualStopIsRespected` is violated (finding 2) |
| `fixture` | 2 runs of up, 2 clusters, 3 supplies of which two share a half | `InitAskedOnce`, `BootstrapIsWhole`, `GoesOnWithOriginal`, `PinsAgree`, `EnvelopeIsOriginal` |
| `smoke` | all four faults over 2 pools | `EndsRestored`, `FaultsOnlyWhole`, `RestoreIsProven`, `SmokeEnds` |
| `probes` | revocation: 2 identities, clocks from 1.5 s behind to 3.5 s ahead; assignment: the current worker and one an earlier probe left, 3 ids | `CoveredTokensAreRevoked`, `ObservedAssignmentHolds`, `NothingStays`, and `KeepsPromise`: every behaviour is one of `OwnedRoom` |
| `theme` | 2 sizes and none, 2 palettes, 2 frame handles; 3 widths of the viewport | `AnimatesAsShown`, `PictureIsCurrent`, `SculptureMoves`; `BarIsCentred`, `BarSettles` |

Deadlock is not checked as such: every one of these programs ends, and then
nothing need happen. In its place the predicates `...CanGoOn` say, for each
program that must get somewhere, that wherever it waits the step it waits for is
`ENABLED`, whatever the others have done: a call can always give up, a probe
leave each of its awaits, a key be carried on from wherever it is. The MC
modules assert them in every state that the runs with a liveness property
reach, before each step, and a run stops where one fails.

Where a module's domains are a theorem (section 4) no run repeats them,
except for those of `FixtureBootstrap`: that a run pins a cluster, and not the
lack of one, is a question of its protocol.

**Bounds.** Two calls are enough for every race of two decisions, since a call
acts on one pool and a third can only raise its revision further, as the second
does. Two replicas distinguish "all" from "some" in an acknowledgement. `Flaky`
and `Faulty` limit which launchers or runs may fail, `MaxWork` the work of a
pool, `MaxRestarts` and `MaxClusters` events made by hand, `MaxIds` and
`MaxElapsed` what the Cloud and the clock do to a probe; none is a bound of the
code. In the rotation three runs are needed for a third to find what two left. A
grace and a budget that differ by one are the tightest `SupervisorAssumption` allows; 5 s in
`AwaitCutoff` is the code's own limit, and the largest of `Skews` is one for
which the probe may give up there. The third id of a worker is the one it gets
when it returns after the probe has read its registration.

`MaxEntries = 1` is an assumption on the browser, not a bound: an
IntersectionObserver that delivers two entries at once makes hero.js take the
older one (`src/hero.js:146`), and `AnimatesAsShown` then fails
until the next crossing. The hazard is listed; the theorem names the assumption.
`ChangeBox` leaves out a size that changes away and back before the observer has
told of it, which an observer never reports and which needs no answer.

`SYMMETRY` is used over calls, runs or setup keys, which no definition tells
apart, and only where no liveness is checked.

**Combined runs.** `openbao` explores four programs that share no state, each
with the others at rest, and only the supervisor and `init` at the same time:
interleaving programs that share nothing adds states and no behaviour of any of
them. `theme` does the same with its two scripts, which share only the page,
and `probes` starts with either probe. `commands` explores under the constraint
`OneMix`: two deploys, one for each pool, beside a call that resumes; or a
deploy that changes the compatibility lineage beside any other call; or a rollback alone. `seal`
keeps the second setup-key and the once command apart (`OneMore`, a conjunct of
the next-state relation, so that fairness refers to what is explored).

**Fairness.**

- `CallEnds`: the commands run and their clocks advance (weak fairness of `Poll`,
  `Expire`, `Timeout`); nothing of the API or the fleet.
- `SmokeEnds`: the same of the smoke and of time.
- `WaitingIsServed`: launchd's KeepAlive, the entrypoint's loop and the
  supervisor's retry every few seconds; strong where a step may fail and is
  tried again, since a condition that keeps returning lets it succeed in the
  end. An operator who locks the Keychain, stops the container or ends the
  session is an outcome the property names, not one that is excluded.
- `NothingStays`: every await of a probe ends, if by the timeout of its request;
  the Cloud carries a room's creation out, removes it after `emptyTimeout`, and
  an agent that was assigned connects or leaves. Nothing is assumed of the
  probe's success: it may fail or die anywhere.
- `SculptureMoves`, `BarSettles`: the browser delivers the events and observations
  it owes to a page, and runs frames, some of them due, and timers of a page
  that is shown.

## 4. Proofs

| Module | Theorems |
|---|---|
| `FleetAdmissionProofs` | `TypeCorrect`, `RetiredStaysIdle`, `WorkAlwaysAuthorized`, `WithdrawalStaysInForce`, `RetirementStaysFinal`, `AttestationStaysFinal`, `FleetRefinesControl`; `CallsEnd` |
| `FleetCommandsProofs` | `CommandTypeCorrect`, `DeploysNeverLeanOnEachOther`, `RedeployStrandsNothing`, `LoneDeploysKeepRecovery`, `CommandsKeepFleetSafe`, `CommandsRefineControl`, `RollbackAlwaysKeepsRecovery` |
| `OpenBaoProofs` | `RotationTypeCorrect`, `CommandRunsOnce`, `ObservedIsTrue`, `CutoverIsSafe`; `SupervisorTypeCorrect`, `SupervisorLeavesNothing`, `SupervisorStopsInBudget`; `InitTypeCorrect`, `UninterruptedKeepsResponse`; `ProvisionTypeCorrect`, `CompletedStaysUsable`, `PairStaysWhole`, `FailureLeavesNoTrace`, `SecretStaysConfined` |
| `SealKeyDeliveryProofs` | `SealTypeCorrect`, `OriginalKeyOnly`; `WaitingIsAlwaysServed` |
| `FixtureBootstrapProofs` | `FixtureTypeCorrect`, `InitAskedAtMostOnce`, `BootstrapStaysWhole`, `GoesOnOnlyWithOriginal`, `PinsStayAgreed`, `EnvelopeStaysOriginal` |
| `SmokeRestoreProofs` | `SmokeTypeCorrect`, `SmokeRestores`, `FaultsFindItWhole`, `RecordedIsProven`; `SmokeAlwaysEnds` |
| `CloudProbesProofs` | `ProbeTypeCorrect`, `CoveredAreRevoked`, `ObservedHolds`, `ProbesKeepPromise`; `NothingEverStays` |
| `ThemePageProofs` | `HeroTypeCorrect`, `SculptureAnimatesAsShown`, `PictureStaysCurrent`; `DockTypeCorrect`, `BarStaysCentred`; `ScriptsShareThePage`, `SculptureAlwaysMoves`, `BarAlwaysSettles` |

They assume the named assumptions on the constants, which TLC evaluates in the
runs. Some theorems assume more, in their statement: `SculptureAnimatesAsShown`
and `SculptureAlwaysMoves` that `MaxEntries = 1` (above), `NothingEverStays` that
the revocation probe has the two identities of the script, `RedeployStrandsNothing` that no two deploys
are for one pool (`OneDeployPerPool`), and `RollbackAlwaysKeepsRecovery` that
there is one rollback, of two calls (`OneRollback`), in a fleet where some pool
takes sessions over to begin with.

**Liveness.** The last theorems of six modules have the form `FairSpec /\
[]...CanGoOn => P`: under the fairness of section 3, and as long as whoever waits
can take the step it waits for, P comes true, for every size. That `CanGoOn` holds
is a question of `ENABLED`, which the prover cannot expand; TLC asserts it in
every state of the run that checks P. The proofs follow one pattern: a lemma of
action logic says that from each place a step leads on or leaves everything
where it is (`CallGoesForward`, `SmokeGoesForward`, `ProbeMovesOrWaits`,
`WaitingGoesOn`), the fair step leads on, and temporal logic joins the places in
the order of the code. `WaitingIsAlwaysServed` has one more hypothesis: from some
time on nobody restarts the container by hand. In the runs `MaxRestarts` says so;
from that bound it would follow by induction, which is out of reach here.

- **Admission.** No property is inductive: retirement is decided on an old
  snapshot. `IInv` carries the reason to the PUT. `LauncherInv`: an incarnation
  runs under a revision that was current once, and one that acknowledged the
  latest runs under its flags. `PutInv`: as long as the revision a PUT expects
  is the pool's, what its checks saw still holds, because a withdrawn, quiet
  pool stays quiet and a quiet pool without work gets none. `SenderInv` ties a
  PUT to its call, `RetiredInv` and `WithdrawnInv` to what follows. The
  refinement maps a pool's work to whether it is busy; a PUT that is applied
  maps to a decision, and every other step to work, to the drain or to a stutter.
  A call ends because its deadlines are its own: sent, waiting, expired and ended
  follow one another and none is entered twice (`CallGoesForward`).
- **Commands.** Every step of a command but the redeploy is a step of
  `FleetAdmission` (`CommandStepIsNext`), and the redeploy keeps `IInv`
  (`RedeployKeeps`): hence `CommandsKeepFleetSafe`. A redeploy decides nothing and
  begins no work, so that it is a stutter of `AdmissionControl`, or work that
  ended (`RedeployRefines`): hence `CommandsRefineControl`. `OwnCall` ties a deploy to
  its call; a revision never goes back (`StandsSince`), so that a withdrawal
  which stands stood all the time since the second check, and the pool it
  withdrew is not one another deploy can have found to take over.
  `ReadyAsChecked` carries what that check saw to the redeploy. With two deploys
  of one pool it is not invariant: the lineage that the later one has
  checked is changed by an earlier one whose withdrawal has been superseded, by a resume
  between them, since nothing tells Railway of it. TLC finds that with two
  deploys for one pool; the mixes of `commands` keep them apart. A deploy that
  runs alone keeps that pool (`LoneAt`): every PUT on its way is its own
  withdrawal (`OwnPuts`), which leaves the pool it found as it is, so that what it
  found stands until it redeploys (`FoundAt`). `Alone` carries
  the rollback from step to step as long as nothing else decides: the source is
  left only once the target, another pool, takes sessions over, and no PUT of
  the rollback, however late, asks the target for less.
- **Rotation.** `AttemptIsHeld`: whoever reached the command holds the attempt of
  its output. `Facts`: what a result file says complete was true when it was
  written and stays so, and a receipt is bound to such a file.
- **Supervisor.** `SupervisorAt` bounds the provider's clock by the supervisor's
  (`since <= waited`) from the moment the child is asked: no time passes between
  a signal that was heard and the asking, and `Grace < Budget` does the rest.
- **Initialization.** `InitAt`: the response leaves the file of its run only after
  the output has it, and nothing replaces the output.
- **Provisioning.** `WritersAt` says which container a file of the volume belongs
  to and how far it has got, which makes the pair whole whoever is killed;
  `RunsAt` when a SecretID is valid; `ConfinedAt` what of a run's reads
  stays true under the requests of others.
- **Seal key.** Before static mode nothing was delivered (`NothingDelivered`);
  afterwards no setup run is left that may add a key (`NoneToAdd`) and every key
  on the way is the same one (`OneKey`). `LoopAt`: a container that waits is in
  static mode, and the supervisor's loop does not end. It comes round again and
  again, one of its deliveries succeeds, and a key that is in the container stays
  there until the server takes it (`Coming`, `Come`).
- **Fixture.** Clusters are numbered as they come and a token is never replaced
  (`ClustersAt`): a request is carried out only by the token's cluster, which
  once lost does not return (`SameCluster`). Since a mount that exists is
  refused, one run at most gets past the first of them (`Owns`, `OneOwner`,
  `OwnersStay`), and what comes late or is published by a script is that run's
  as well. `DataAt` says how far it has got and that no keys are sealed before
  its fourth request; `CredsAt` that its script is alone with the volume and
  that nothing is in flight once the recorded cluster runs; `PlaceAt` what each
  run knows where it is. The invariant needs `Nothing` and `Torn` to be
  different from every content of a file (`FixtureAssumption`).
- **Smoke.** `Safe` says where in the smoke a service may be paused (`PausedHere`)
  or OpenBao sealed (`SealedHere`), that failures are past every fault
  (`NothingFailed`, `InOrder`), and that a pool which acknowledged the smoke's
  own revision has returned (`Heard`, `Decided`). For its end, `Onward` orders the
  stages: no step goes back, every loop has the budget of its stage (`Clocked`),
  and what is left after four rounds is the end.
- **Probes.** `RoomAt` says at each await what the script knows of its room, which
  the Cloud may empty at any of them; `ObservedAt` that nothing is left to
  open it again after a success; `AssignmentAt` that a stale job has no taker and
  the bound one is the worker's whose id was read; `RevocationAt` that each
  token is from before the cutoff, for every skew and drift of the two clocks,
  because the cutoff is taken from the later of them. From `RoomAt` every step
  is one of `OwnedRoom` or a stutter. No probe returns to an await it has left
  (`Onward`); once it has ended nobody asks for a room, so that every job gets a
  taker or none (`JobSettles`), the room closes (`RoomCloses`) and stays closed, and
  the agents leave it.
- **Theme.** `LoopAt`: at most one frame is requested, the script knows it, and it
  was requested for the page as the script was last told of it. `FlagsAt` and
  `CanvasAt`: flags, buffer and picture are the page's, but for what waits to be
  delivered. `DockAt`: the bar is moved by its gap unless a measurement is to
  come. A sculpture that stays in view owes the script nothing new in the end, and
  then its loop goes on from frame to frame; a bar that stays where it is has its
  last scroll event, then its frame, then its timer.

Only model-checked: the predicates `...CanGoOn`, which TLC asserts, since
`ENABLED` is out of the prover's reach. Every property of a passing run is stated
by a theorem.
Induction over data is out of reach as well; no module uses recursive operators.

## 5. Assumptions of the models

- The control API applies PUTs one at a time, enforces `expectedRevision`, and a
  snapshot is consistent. Since only snapshots up to 15 s old are accepted, an
  old snapshot is an earlier `Call` whose PUT is delayed. Launchers whose lease
  ended stop working, and work that outlives a launcher shows in the census.
- Railway replaces the incarnations of a pool and their jobs become duties.
- One approval is in force in a rotation; providers do not restore a credential.
- The provider sends a container one SIGTERM and kills it, and everything in it,
  when its budget has passed, 45 s against at most 35 s of
  `OPENBAO_SHUTDOWN_MS`.
- setup-key is not in progress while the operator switches `.env` to static.
- The fixture starts from a prepared state directory; one OpenBao container
  exists at a time; a late request is carried out only while it runs.
- A Docker command that the smoke gives up has taken effect by then or never
  does; the smoke itself is not killed, which would leave its fault in place.
- LiveKit Cloud refuses a token whose `nbf` is before what was revoked, keeps a
  revocation, and removes a room some time after its last participant, an agent
  not counted. A room that was removed by `deleteRoom` may be opened again by an
  agent that has its token. What the probe takes for a refusal is a message that
  contains one of some words (revocation probe, line 105); an outage may produce
  one too, which is why the property is about what was revoked, not about the
  message.
- The browser hands an IntersectionObserver one entry at a time (section 3),
  fires `visibilitychange`, `pagehide` and `pageshow` at once, and delivers
  observations, media changes and resize events before the next frame. The width
  of the header's bar depends on the viewport and its layout only: a font that
  loads later is not modelled. dock.js reads reduced motion once, at its start,
  and so does the model.

## 6. Findings

1. `deploy_approved` verifies a recovery pool on the snapshot its withdrawal
   returned, and only then asks Railway to redeploy, in two requests of up to
   60 s each. A second command may withdraw that pool in between: the source
   pool is replaced while it holds duties and no pool takes them over, which
   the comment at `scripts/runtime_provider.py:259` says must not happen.
   Run `commands_recovery_lost`. What does hold is `DeploysDoNotLeanOnEachOther`, and
   `LoneDeployKeepsRecovery`: without a second command the pool that was found
   is there when the source is replaced.
2. The README (lines 971-972) says the supervisor starts OpenBao once at login and
   not again when the operator stops it. A supervisor that exits and is restarted
   by launchd's KeepAlive begins anew and starts it. Run `seal_manual_stop`.
3. The README (line 920) says that `openbao.sh init`, if it ends abnormally, keeps the
   response in a recovery file. bash runs the EXIT trap also for SIGTERM and
   SIGHUP, with the `$?` of the last command that ended, which is 0 from `mktemp`
   to the end; `cleanup_initialization_output` (`scripts/openbao.sh:98`) takes
   that for success and removes the file, with the only copy of the unseal
   shares. Run `init_interrupted`. SIGKILL runs no trap, and a Ctrl-C makes
   `bao operator init` fail first: both leave the file. What does hold is
   `UninterruptedIsKept`.

Two statements the code does not make and which do not hold: two rotations of
one approval with different outputs may run the command twice, and one of them
may start while a pool accepts again; and a deploy whose withdrawal was
superseded still redeploys its pool.

Smaller observations, which the models include and no property contradicts:

- A SIGTERM that reaches the portable container between the start of the child and the
  handlers (`openbao_platform.py:113-118`) is discarded, and the server is killed
  at the end of the budget; `README.md:1036` has it asked first. A child that still
  stages the key has a trap that only removes a file
  (`platform-entrypoint.sh:45`), so that it goes on and serves.
- A failed probe may leave a room that a late agent opens again; the Cloud, not
  the probe, removes it in the end. A call of the cleanup that throws skips the
  others. A dispatch or a room whose answer was lost is not known to the cleanup.
- 1.5 s decide that a stale dispatch has no job (assignment probe, line 78). That
  this suffices is due to the worker, whose own check refuses it at any time.

## 7. Not modelled

- **Generated and declarative parts.** `ghost/theme/tello/assets/js/hero.js` is the
  bundle of `src/hero.js` with three.js: 4230 of the 4780 lines of JavaScript in
  the repository, and nothing in it is the repository's own that `HeroScene`
  does not model from its source. The other lines of JavaScript that are not
  mapped set up geometry, materials, pages and settings. Compose, Caddy, Alloy
  and Prometheus configuration has no state of its own.
- **Validators.** The evidence gates and provider inspection check JSON field by
  field; their verdicts are guards of the models.
- **Single sequences.** Image builds, private data of the API and the database script
  are sequences of idempotent calls. `init-internal-key.py` replaces `.env` as a
  whole; what another program writes between its read and its replace is lost.
  `openbao-tls.sh` (lines 82-84) moves three files one by one; an interruption
  leaves an incomplete directory, which its own check then refuses until
  it is removed by hand. Both are run once and interactively.
- **Parts of modelled components.** `prepare` and `install` of automatic unsealing, the
  TERM scenario of the smoke, ownership labels and Docker contexts of
  fixtures, the other commands of `openbao.sh` (single calls of Compose), the
  health pages of the supervisor, the page server and redaction of the probes,
  the pointer of the sculpture.
- **Time.** Clock skew between the API and the operator moves the limits of
  freshness and of leases by seconds; fleet time is abstracted, so that only the
  age of a snapshot is covered.

What could come next: the TERM scenario of the smoke; ownership of fixtures that
share a Docker host; two rotations of one approval, stated as a run, should the
code come to exclude them.
