-------------------------- MODULE FixtureBootstrap --------------------------
(***************************************************************************)
(* The isolated fixture of scripts/runtime_fixtures.py: what "up" does to  *)
(* a prepared state directory, its volumes and its OpenBao container, when *)
(* several invocations run at once, any of them dies anywhere, requests    *)
(* time out and are carried out later, and the operator seals, stops,      *)
(* restarts and removes things in between.                                 *)
(*                                                                         *)
(* The files of the state directory are published with O_EXCL and never    *)
(* replaced; a run that dies while it writes one leaves it torn.           *)
(***************************************************************************)
EXTENDS Integers, Sequences

CONSTANTS Runs,       \* invocations of up
          NoRun,
          Images,     \* portable OpenBao images an operator may pass
          Supplies,   \* full runtimes an operator may pass, records with fields a, b
          Nothing,    \* no such option, or no such file
          Torn,       \* a file whose writing was cut short
          MaxClusters \* bound of the model on initializations of OpenBao

ASSUME FixtureAssumption ==
    /\ NoRun \notin Runs /\ "none" \notin Runs /\ "half" \notin Runs
    /\ Nothing # Torn
    /\ \A x \in {Nothing, Torn} :
          /\ x \notin Images /\ x \notin Supplies /\ x \notin 0 .. MaxClusters
          /\ x \notin [image : Images, cluster : 1 .. MaxClusters]
          /\ \A s \in Supplies : x # s.a /\ x # s.b
    /\ MaxClusters \in Nat

VARIABLES attempted, \* bao-init-attempted.json exists
          token,     \* bao-root.token: the cluster whose root token it is
          marker,    \* bao-bootstrap.json: the cluster it names
          platform,  \* platform.env
          pins,      \* worker-a, worker-b inventories and runtime.env
          cluster,   \* the cluster in the raft volume, 0 if it is not initialized
          created,   \* initializations so far
          done,      \* requests of the bootstrap the cluster has carried out
          envelope,  \* the run whose DEKs the API's envelope holds
          secrets,   \* runs whose SecretID the cluster accepts
          creds,     \* api_credentials volume: none, half, or the run it is from
          bao,       \* the container: off, sealed or open
          image,     \* its image
          late,      \* requests whose client has given up
          scripts,   \* publication scripts in the container
          run,       \* progress of each up
          asked      \* initializations the runs have asked for

files == <<attempted, token, marker, platform, pins>>
data == <<cluster, created, done, envelope, secrets, creds>>
box == <<bao, image, late, scripts>>
vars == <<files, data, box, run, asked>>

Clusters == 1..MaxClusters
PinFiles == {"a", "b", "env"}

\* The requests of a bootstrap, in their order; the reads between them change
\* nothing.  A mount that exists is refused, everything else may be repeated.
Steps == <<"transit", "kek", "kv", "envelope", "policy", "approle", "role", "secret">>
Mounts == {"transit", "kv", "approle"}
Ops == {Steps[n] : n \in 1..Len(Steps)}

RunState == [at : {"start", "up", "listen", "attempt", "init", "save", "token", "check", "boot",
                   "publish", "published", "mark", "platform", "pin", "stop", "recreate",
                   "runtime", "files", "fleet", "done", "failed"},
             step : 0..Len(Steps),
             seen : {0} \cup Clusters,
             image : Images \cup {Nothing},
             supply : Supplies \cup {Nothing},
             usesPlatform : BOOLEAN,
             usesRuntime : BOOLEAN,
             again : BOOLEAN,
             todo : SUBSET PinFiles]

Waiting == [at |-> "start", step |-> 0, seen |-> 0, image |-> Nothing, supply |-> Nothing,
            usesPlatform |-> FALSE, usesRuntime |-> FALSE, again |-> FALSE, todo |-> {}]

To(r, s) == run' = [run EXCEPT ![r] = s]
Goes(r, a) == To(r, [run[r] EXCEPT !.at = a])
Failed(r) == To(r, [Waiting EXCEPT !.at = "failed"])

\* A step that changes nothing but the run.
Only(r, s) == To(r, s) /\ UNCHANGED <<files, data, box, asked>>

-----------------------------------------------------------------------------
(* The container.                                                          *)

\* A container that starts unseals itself with the fixture's static key; what
\* was going on in it is gone.
Fresh(i) ==
    /\ bao' = "open"
    /\ image' = i
    /\ late' = {}
    /\ scripts' = [r \in Runs |-> "none"]

Gone ==
    /\ bao' = "off"
    /\ late' = {}
    /\ scripts' = [r \in Runs |-> "none"]
    /\ UNCHANGED image

Initialize ==
    /\ cluster' = created + 1
    /\ created' = created + 1
    /\ UNCHANGED <<done, envelope, secrets, creds>>

\* OpenBao accepts a request that carries the root token of its cluster.
Accepts(op) == bao = "open" /\ token = cluster /\ op \notin done \cap Mounts

Execute(op, r) ==
    /\ done' = done \cup {op}
    /\ envelope' = IF op = "envelope" THEN r ELSE envelope
    /\ secrets' = IF op = "secret" THEN secrets \cup {r} ELSE secrets
    /\ UNCHANGED <<cluster, created, creds>>

\* A request its client has given up is carried out after all, or refused.
CarryOut(m) ==
    /\ m \in late
    /\ bao = "open"
    /\ late' = late \ {m}
    /\ IF m.op = "init"
       THEN IF cluster = 0 /\ created < MaxClusters THEN Initialize ELSE UNCHANGED data
       ELSE IF Accepts(m.op) THEN Execute(m.op, m.run) ELSE UNCHANGED data
    /\ UNCHANGED <<files, bao, image, scripts, run, asked>>

\* The publication script: the volume must be empty, then one file after the other.
Script(r) ==
    /\ \/ /\ scripts[r] = "begun"
          /\ scripts' = [scripts EXCEPT ![r] = IF creds = "none" THEN "empty" ELSE "refused"]
          /\ UNCHANGED creds
       \/ /\ scripts[r] = "empty"
          /\ scripts' = [scripts EXCEPT ![r] = "half"]
          /\ creds' = "half"
       \/ /\ scripts[r] = "half"
          /\ scripts' = [scripts EXCEPT ![r] = "whole"]
          /\ creds' = r
    /\ UNCHANGED <<files, cluster, created, done, envelope, secrets, bao, image, late, run, asked>>

-----------------------------------------------------------------------------
(* up, until OpenBao is bootstrapped.                                      *)

\* Fixtures(): which overrides this run uses is decided by the files it finds.
Begin(r) ==
    /\ run[r].at = "start"
    /\ platform # Torn
    /\ \E i \in Images \cup {Nothing}, s \in Supplies \cup {Nothing} :
          Only(r, [Waiting EXCEPT !.at = "up", !.image = i, !.supply = s,
                                  !.usesPlatform = platform # Nothing,
                                  !.usesRuntime = pins["env"] # Nothing])

\* compose up of the data services recreates a container of another image.
ComposeData(r) ==
    LET i == IF run[r].usesPlatform THEN platform.image ELSE "base"
    IN  /\ run[r].at = "up"
        /\ IF bao = "off" \/ image # i THEN Fresh(i) ELSE UNCHANGED box
        /\ Goes(r, "listen")
        /\ UNCHANGED <<files, data, asked>>

\* GET /sys/init.
Listen(r) ==
    /\ run[r].at = "listen"
    /\ bao # "off"
    /\ cluster = 0 => token = Nothing /\ ~attempted
    /\ Only(r, [run[r] EXCEPT !.at = IF cluster = 0 THEN "attempt" ELSE "token"])

\* A slip to be caught: a marker that has appeared meanwhile is written over.
AttemptOver(r) ==
    /\ run[r].at = "attempt"
    /\ attempted' = TRUE
    /\ Goes(r, "init")
    /\ UNCHANGED <<token, marker, platform, pins, data, box, asked>>

Attempt(r) ==
    /\ run[r].at = "attempt"
    /\ ~attempted
    /\ attempted' = TRUE
    /\ Goes(r, "init")
    /\ UNCHANGED <<token, marker, platform, pins, data, box, asked>>

\* POST /sys/init: answered, refused, or given up after 95 s.
AskInit(r) ==
    /\ run[r].at = "init"
    /\ bao # "off"
    /\ asked' = asked + 1
    /\ \/ /\ cluster = 0 /\ created < MaxClusters
          /\ Initialize
          /\ To(r, [run[r] EXCEPT !.at = "save", !.seen = created + 1])
          /\ UNCHANGED box
       \/ /\ Failed(r)
          /\ late' = late \cup {[op |-> "init", run |-> r]}
          /\ UNCHANGED <<data, bao, image, scripts>>
    /\ UNCHANGED files

\* The response and the token are saved, or the run dies doing it.
Save(r) ==
    /\ run[r].at = "save"
    /\ token = Nothing
    /\ \/ token' = run[r].seen /\ Goes(r, "token")
       \/ token' = Torn /\ Failed(r)
    /\ UNCHANGED <<attempted, marker, platform, pins, data, box, asked>>

\* The token is read, and GET /sys/health names the cluster.
Health(r) ==
    /\ run[r].at = "token"
    /\ token \notin {Nothing, Torn}
    /\ bao = "open" /\ cluster # 0
    /\ Only(r, [run[r] EXCEPT !.at = "check", !.seen = cluster])

\* What follows a bootstrap: the portable image, the runtime, its start.
Bootstrapped(r) ==
    IF run[r].image # Nothing /\ ~run[r].again THEN "platform"
    ELSE IF run[r].supply # Nothing THEN "runtime"
    ELSE IF run[r].usesRuntime THEN "fleet" ELSE "done"

\* A slip to be caught: any recorded bootstrap will do.
TrustedAny(r) == marker # Torn

\* A recorded bootstrap is trusted for its own cluster only.
Trusted(r) == marker = run[r].seen

CheckMarker(r) ==
    /\ run[r].at = "check"
    /\ \/ marker = Nothing /\ Only(r, [run[r] EXCEPT !.at = "boot", !.step = 1])
       \/ marker # Nothing /\ Trusted(r) /\ Only(r, [run[r] EXCEPT !.at = Bootstrapped(r)])

NextStep(r) == IF run[r].step = Len(Steps) THEN [run[r] EXCEPT !.at = "publish"]
                                           ELSE [run[r] EXCEPT !.step = @ + 1]

\* A slip to be caught: a mount that exists is taken for one's own.
AnsweredAlready(op) == bao = "open" /\ token = cluster

\* Every status but 2xx fails the run.
Answered(op) == Accepts(op)

\* One request: answered, or given up after 5 s.
Request(r) ==
    LET op == Steps[run[r].step]
    IN  /\ run[r].at = "boot"
        /\ \/ /\ Answered(op)
              /\ Execute(op, r)
              /\ To(r, NextStep(r))
              /\ UNCHANGED box
           \/ /\ bao # "off"
              /\ late' = late \cup {[op |-> op, run |-> r]}
              /\ Failed(r)
              /\ UNCHANGED <<data, bao, image, scripts>>
        /\ UNCHANGED <<files, asked>>

\* docker exec of the script with the identifiers on stdin.
Publish(r) ==
    /\ run[r].at = "publish"
    /\ bao # "off"
    /\ scripts' = [scripts EXCEPT ![r] = "begun"]
    /\ Goes(r, "published")
    /\ UNCHANGED <<files, data, bao, image, late, asked>>

\* A slip to be caught: the script's exit status is not looked at.
PublishedAnyway(r) ==
    /\ run[r].at = "published"
    /\ Only(r, [run[r] EXCEPT !.at = "mark"])

Published(r) ==
    /\ run[r].at = "published"
    /\ scripts[r] = "whole"
    /\ Only(r, [run[r] EXCEPT !.at = "mark"])

Mark(r) ==
    /\ run[r].at = "mark"
    /\ marker = Nothing
    /\ \/ marker' = run[r].seen /\ Goes(r, Bootstrapped(r))
       \/ marker' = Torn /\ Failed(r)
    /\ UNCHANGED <<attempted, token, platform, pins, data, box, asked>>

-----------------------------------------------------------------------------
(* up, the portable image and the runtime.                                 *)

\* A slip to be caught: the pin is written without the cluster.
PinnedUnbound(r) == [image |-> run[r].image, cluster |-> 0]

Pinned(r) == [image |-> run[r].image, cluster |-> run[r].seen]

\* configure_platform: the running cluster must be the recorded one, and a pin
\* that exists the one this run would write.
CheckPlatform(r) ==
    /\ run[r].at = "platform"
    /\ bao = "open" /\ cluster = marker
    /\ platform \in {Nothing, [Pinned(r) EXCEPT !.cluster = marker]}
    /\ Only(r, [run[r] EXCEPT !.at = IF platform = Nothing THEN "pin" ELSE "stop",
                              !.seen = marker])

PinPlatform(r) ==
    /\ run[r].at = "pin"
    /\ platform = Nothing
    /\ \/ platform' = Pinned(r) /\ Goes(r, "stop")
       \/ platform' = Torn /\ Failed(r)
    /\ UNCHANGED <<attempted, token, marker, pins, data, box, asked>>

\* The original writer is stopped before another image touches its raft data.
StopOriginal(r) ==
    /\ run[r].at = "stop"
    /\ Gone
    /\ Goes(r, "recreate")
    /\ UNCHANGED <<files, data, asked>>

\* compose up waits for the new server to be ready for its expected cluster;
\* then the bootstrap is checked once more.
Recreate(r) ==
    /\ run[r].at = "recreate"
    /\ Fresh(platform.image)
    /\ IF cluster = platform.cluster
       THEN To(r, [run[r] EXCEPT !.at = "listen", !.again = TRUE])
       ELSE Failed(r)
    /\ UNCHANGED <<files, data, asked>>

\* What this run would publish under a name.
Wanted(r, f) == IF f = "env" THEN run[r].supply ELSE run[r].supply[f]

Absent == {f \in PinFiles : pins[f] = Nothing}

\* A slip to be caught: only runtime.env is compared.
EnvFits(r) == pins["env"] \in {Nothing, Wanted(r, "env")}

\* What is pinned already is what this run would pin.
Fits(r) == \A f \in PinFiles : pins[f] \in {Nothing, Wanted(r, f)}

\* configure_runtime compares every pin before it publishes the absent ones.
CheckRuntime(r) ==
    /\ run[r].at = "runtime"
    /\ Fits(r)
    /\ Only(r, [run[r] EXCEPT !.at = IF Absent = {} THEN "fleet" ELSE "files", !.todo = Absent])

\* The inventories first, then runtime.env.
Before(f) == CASE f = "a" -> {} [] f = "b" -> {"a"} [] OTHER -> {"a", "b"}

PublishPin(r) ==
    /\ run[r].at = "files"
    /\ \E f \in run[r].todo :
          /\ run[r].todo \cap Before(f) = {}
          /\ pins[f] = Nothing
          /\ \/ /\ pins' = [pins EXCEPT ![f] = Wanted(r, f)]
                /\ To(r, [run[r] EXCEPT !.todo = @ \ {f},
                                        !.at = IF run[r].todo = {f} THEN "fleet" ELSE @])
             \/ pins' = [pins EXCEPT ![f] = Torn] /\ Failed(r)
    /\ UNCHANGED <<attempted, token, marker, platform, data, box, asked>>

\* compose up of the API and the pools: what runtime.env says.
StartFleet(r) ==
    /\ run[r].at = "fleet"
    /\ pins["env"] \in Supplies
    /\ Only(r, [run[r] EXCEPT !.at = "done"])

\* A check, a command or a request fails, the budget is used up, or the run dies.
Fail(r) ==
    /\ run[r].at \notin {"done", "failed"}
    /\ Only(r, [Waiting EXCEPT !.at = "failed"])

-----------------------------------------------------------------------------
(* The other commands.                                                     *)

\* fault: stop, SIGTERM or SIGKILL.
Fault ==
    /\ bao # "off"
    /\ Gone
    /\ UNCHANGED <<files, data, run, asked>>

\* restore: start, or a restart after sealing.
Restore ==
    /\ Fresh(image)
    /\ UNCHANGED <<files, data, run, asked>>

\* bao-seal, with the token of the cluster.
Seal ==
    /\ bao = "open" /\ cluster # 0 /\ token = cluster
    /\ bao' = "sealed"
    /\ UNCHANGED <<files, data, image, late, scripts, run, asked>>

\* down, which may remove the volumes or be cut short between two of them.
Down ==
    /\ Gone
    /\ \E removed \in SUBSET {"data", "credentials"} :
          /\ creds' = IF "credentials" \in removed THEN "none" ELSE creds
          /\ IF "data" \in removed
             THEN cluster' = 0 /\ done' = {} /\ envelope' = NoRun /\ secrets' = {}
             ELSE UNCHANGED <<cluster, done, envelope, secrets>>
    /\ UNCHANGED <<files, created, run, asked>>

\* An operator initializes the fixture's OpenBao by hand.
InitByHand ==
    /\ bao = "open" /\ cluster = 0 /\ created < MaxClusters
    /\ Initialize
    /\ UNCHANGED <<files, box, run, asked>>

-----------------------------------------------------------------------------
(* The specification.                                                      *)

\* prepare has written the owner, the seal key, the environment and the TLS
\* files; nothing of the fixture runs.
Init ==
    /\ attempted = FALSE
    /\ token = Nothing
    /\ marker = Nothing
    /\ platform = Nothing
    /\ pins = [f \in PinFiles |-> Nothing]
    /\ cluster = 0
    /\ created = 0
    /\ done = {}
    /\ envelope = NoRun
    /\ secrets = {}
    /\ creds = "none"
    /\ bao = "off"
    /\ image = "base"
    /\ late = {}
    /\ scripts = [r \in Runs |-> "none"]
    /\ run = [r \in Runs |-> Waiting]
    /\ asked = 0

Up(r) ==
    \/ Begin(r) \/ ComposeData(r) \/ Listen(r) \/ Attempt(r) \/ AskInit(r) \/ Save(r)
    \/ Health(r) \/ CheckMarker(r) \/ Request(r) \/ Publish(r) \/ Published(r) \/ Mark(r)
    \/ CheckPlatform(r) \/ PinPlatform(r) \/ StopOriginal(r) \/ Recreate(r)
    \/ CheckRuntime(r) \/ PublishPin(r) \/ StartFleet(r)
    \/ Fail(r)

Next ==
    \/ \E r \in Runs : Up(r) \/ Script(r)
    \/ \E m \in late : CarryOut(m)
    \/ Fault \/ Restore \/ Seal \/ Down \/ InitByHand

Spec == Init /\ [][Next]_vars

-----------------------------------------------------------------------------
(* Properties.                                                             *)

TypeOK ==
    /\ attempted \in BOOLEAN
    /\ token \in {Nothing, Torn} \cup Clusters
    /\ marker \in {Nothing, Torn} \cup Clusters
    /\ platform \in {Nothing, Torn} \cup [image : Images, cluster : Clusters]
    /\ pins \in [PinFiles -> {Nothing, Torn} \cup Supplies \cup {s[f] : s \in Supplies, f \in {"a", "b"}}]
    /\ cluster \in {0} \cup Clusters
    /\ created \in {0} \cup Clusters
    /\ done \subseteq Ops
    /\ envelope \in Runs \cup {NoRun}
    /\ secrets \subseteq Runs
    /\ creds \in {"none", "half"} \cup Runs
    /\ bao \in {"off", "sealed", "open"}
    /\ image \in Images \cup {"base"}
    /\ late \subseteq [op : Ops \cup {"init"}, run : Runs]
    /\ scripts \in [Runs -> {"none", "begun", "empty", "half", "whole", "refused"}]
    /\ run \in [Runs -> RunState]
    /\ asked \in Nat

\* "never retry/reinitialize automatically": whatever became of the first, no
\* second initialization is asked for, not even after the volumes are removed.
InitAskedOnce == asked <= 1

\* The API's envelope is never replaced by one of other keys, however many runs
\* found the bootstrap unfinished.
EnvelopeIsOriginal ==
    [][envelope # NoRun /\ cluster' = cluster => envelope' = envelope]_vars

\* While the recorded cluster is the one that runs, its bootstrap is complete,
\* and the credentials volume, unless it was removed, holds a pair it accepts.
BootstrapIsWhole ==
    marker = cluster =>
        /\ done = Ops
        /\ envelope # NoRun
        /\ creds \in secrets \cup {"none"}

\* A run that goes on after the bootstrap has seen the recorded cluster.
GoesOnWithOriginal ==
    \A r \in Runs :
        run[r].at \in {"platform", "pin", "stop", "recreate", "runtime", "files", "fleet", "done"}
        => run[r].seen = marker

\* What is pinned fits together: the portable image runs the recorded cluster,
\* and runtime.env names the pinned inventories.
PinsAgree ==
    /\ platform \notin {Nothing, Torn} => platform.cluster = marker
    /\ pins["env"] \in Supplies => pins["a"] = pins["env"].a /\ pins["b"] = pins["env"].b

=============================================================================
