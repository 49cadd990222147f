----------------------- MODULE FixtureBootstrapProofs -----------------------
(***************************************************************************)
(* Proofs about FixtureBootstrap, for any number of runs, images, runtimes *)
(* and clusters.                                                           *)
(*                                                                         *)
(* Clusters are numbered as they are created, and the token is never       *)
(* replaced: a request is carried out only by the cluster of the token,    *)
(* and at most one run gets past its first mount.  That run owns the       *)
(* bootstrap: what follows is its work, also what is late.                 *)
(***************************************************************************)
EXTENDS FixtureBootstrap, TLAPS

-----------------------------------------------------------------------------
(* The inductive invariant.                                                *)

\* A cluster that has been there, and not after the one that is there now.
Past(c) == c \in Clusters /\ c <= created /\ (cluster = 0 \/ c <= cluster)

\* Clusters are numbered as they come, and what is saved names one of them.
ClustersAt ==
    /\ cluster <= created
    /\ token \in Clusters => Past(token)
    /\ marker \in Clusters => marker = token

\* The marker is made once, by one run, before it asks.
AskedAt ==
    /\ InitAskedOnce
    /\ \A r \in Runs : run[r].at = "init" => attempted /\ asked = 0
    /\ asked > 0 => attempted
    /\ \A r, s \in Runs : run[r].at = "init" /\ run[s].at = "init" => r = s

\* What a run knows at its place.
PlaceOf(r) ==
    /\ run[r].at = "save" => Past(run[r].seen)
    /\ run[r].at \in {"check", "boot", "publish", "published", "mark"} =>
            /\ Past(run[r].seen) /\ token \in Clusters /\ token <= run[r].seen
    /\ run[r].at = "boot" => run[r].step > 0
    /\ run[r].at \in {"publish", "published", "mark"} => run[r].seen = token
    /\ run[r].at \in {"platform", "pin", "stop", "recreate"} => run[r].image \in Images
    /\ run[r].at \in {"runtime", "files"} => run[r].supply \in Supplies
    /\ run[r].at \in {"stop", "recreate"} \/ run[r].usesPlatform =>
            platform \in [image : Images, cluster : Clusters]
    /\ run[r].at = "files" =>
            \A f \in {"a", "b"} : f \in run[r].todo \/ pins[f] = run[r].supply[f]

PlaceAt == \A r \in Runs : PlaceOf(r)

PinsAt == PlaceAt /\ GoesOnWithOriginal /\ PinsAgree

\* A run that has got past its first mount, whether it still goes on or has left
\* a request or its script behind.
Owns(r) ==
    \/ run[r].at = "boot" /\ run[r].step > 1
    \/ run[r].at \in {"publish", "published", "mark"}
    \/ scripts[r] # "none"
    \/ \E m \in late : m.run = r /\ m.op \notin {"init", "transit"}

OneOwner ==
    /\ \A m \in late : run[m.run].at = "failed"
    /\ \A r, s \in Runs : Owns(r) /\ Owns(s) => r = s
    /\ \A r \in Runs : Owns(r) => token \in Clusters /\ (cluster = token => "transit" \in done)

\* What the cluster of the token has carried out.
DataAt ==
    /\ cluster = 0 => done = {} /\ envelope = NoRun /\ secrets = {}
    /\ "envelope" \in done => envelope # NoRun
    /\ envelope # NoRun => "transit" \in done
    /\ cluster = token =>
          /\ \A m \in late : m.op = "envelope" => envelope = NoRun
          /\ \A r \in Runs :
                /\ run[r].at = "boot" =>
                      /\ \A i \in 1 .. (run[r].step - 1) : Steps[i] \in done
                      /\ run[r].step \in 2 .. 4 => envelope = NoRun
                /\ run[r].at \in {"publish", "published", "mark"} => done = Ops /\ r \in secrets

\* The script of the owner is alone with the volume.
CredsAt ==
    /\ \A r \in Runs :
          /\ scripts[r] = "empty" => creds = "none"
          /\ scripts[r] = "half" => creds = "half"
          /\ scripts[r] = "whole" => creds = r
          /\ run[r].at = "mark" => scripts[r] \in {"none", "whole"} /\ creds \in {r, "none"}
    /\ marker = cluster =>
          \A r \in Runs :
              /\ ~(run[r].at = "boot" /\ run[r].step > 1)
              /\ run[r].at \notin {"publish", "published", "mark"}
              /\ scripts[r] \notin {"begun", "empty", "half"}

FixtureInv ==
    TypeOK /\ ClustersAt /\ AskedAt /\ PinsAt /\ OneOwner /\ DataAt /\ CredsAt /\ BootstrapIsWhole

-----------------------------------------------------------------------------
(* The requests of a bootstrap, and the records of the runs.               *)

LEMMA StepsAre ==
    /\ Len(Steps) = 8 /\ Ops = {Steps[i] : i \in 1 .. 8}
    /\ \A i \in 1 .. 8 :
          /\ Steps[i] \in Ops /\ Steps[i] # "init"
          /\ Steps[i] = "transit" <=> i = 1
          /\ Steps[i] = "envelope" <=> i = 4
          /\ Steps[i] = "secret" <=> i = 8
    /\ "transit" \in Ops /\ "envelope" \in Ops
BY DEF Steps, Ops

\* A step of one run.
LEMMA RunMoves ==
    ASSUME TypeOK, NEW r \in Runs, NEW s \in RunState, To(r, s)
    PROVE  /\ run' \in [Runs -> RunState]
           /\ run'[r] = s
           /\ \A q \in Runs \ {r} : run'[q] = run[q]
BY DEF TypeOK, To

LEMMA RunFields ==
    ASSUME TypeOK, NEW r \in Runs
    PROVE  /\ run[r] \in RunState
           /\ run[r].step \in 0 .. 8 /\ run[r].seen \in {0} \cup Clusters
           /\ run[r].image \in Images \cup {Nothing} /\ run[r].supply \in Supplies \cup {Nothing}
           /\ run[r].usesPlatform \in BOOLEAN /\ run[r].usesRuntime \in BOOLEAN
           /\ run[r].again \in BOOLEAN /\ run[r].todo \in SUBSET PinFiles
BY StepsAre DEF TypeOK, RunState

LEMMA WaitingIsRun == Waiting \in RunState /\ [Waiting EXCEPT !.at = "failed"] \in RunState
<1>1. Waiting \in RunState BY StepsAre DEF Waiting, RunState
<1>. QED BY <1>1 DEF RunState

LEMMA BootstrappedIs ==
    ASSUME TypeOK, NEW r \in Runs
    PROVE  /\ Bootstrapped(r) \in {"platform", "runtime", "fleet", "done"}
           /\ Bootstrapped(r) = "platform" => run[r].image \in Images
           /\ Bootstrapped(r) = "runtime" => run[r].supply \in Supplies
BY RunFields DEF Bootstrapped

\* The records of the runs stay records of runs.
LEMMA RunsGoOn ==
    ASSUME TypeOK, PinsAt, NEW r \in Runs, Up(r)
    PROVE  /\ run' \in [Runs -> RunState]
           /\ \A q \in Runs \ {r} : run'[q] = run[q]
<1>. SUFFICES \E s \in RunState : To(r, s) BY RunMoves
<1>0. run[r] \in RunState BY RunFields
<1>1. CASE Begin(r)
    <2>1. PICK i \in Images \cup {Nothing}, s \in Supplies \cup {Nothing} :
              To(r, [Waiting EXCEPT !.at = "up", !.image = i, !.supply = s,
                                    !.usesPlatform = platform # Nothing,
                                    !.usesRuntime = pins["env"] # Nothing])
        BY <1>1 DEF Begin, Only
    <2>2. \A up, ur \in BOOLEAN :
            [Waiting EXCEPT !.at = "up", !.image = i, !.supply = s,
                            !.usesPlatform = up, !.usesRuntime = ur] \in RunState
        BY WaitingIsRun DEF RunState
    <2>. QED BY <2>1, <2>2
<1>. DEFINE Places == {"listen", "attempt", "init", "save", "token", "check", "boot",
                       "publish", "published", "mark", "platform", "pin", "stop", "recreate",
                       "runtime", "files", "fleet", "done", "failed"}
<1>2. /\ \A a \in Places : [run[r] EXCEPT !.at = a] \in RunState
      /\ \A a \in Places, c \in {0} \cup Clusters : [run[r] EXCEPT !.at = a, !.seen = c] \in RunState
      /\ \A a \in Places, n \in 0 .. 8 : [run[r] EXCEPT !.at = a, !.step = n] \in RunState
      /\ \A a \in Places : [run[r] EXCEPT !.at = a, !.again = TRUE] \in RunState
      /\ \A a \in Places, t \in SUBSET PinFiles :
            /\ [run[r] EXCEPT !.at = a, !.todo = t] \in RunState
            /\ [run[r] EXCEPT !.todo = t, !.at = a] \in RunState
    <2>1. \A a \in Places : [run[r] EXCEPT !.at = a] \in RunState BY <1>0 DEF RunState
    <2>2. \A a \in Places, c \in {0} \cup Clusters : [run[r] EXCEPT !.at = a, !.seen = c] \in RunState
        BY <1>0 DEF RunState
    <2>3. \A a \in Places, n \in 0 .. 8 : [run[r] EXCEPT !.at = a, !.step = n] \in RunState
        BY <1>0, StepsAre DEF RunState
    <2>4. \A a \in Places : [run[r] EXCEPT !.at = a, !.again = TRUE] \in RunState
        BY <1>0 DEF RunState
    <2>5. \A a \in Places, t \in SUBSET PinFiles : [run[r] EXCEPT !.at = a, !.todo = t] \in RunState
        BY <1>0 DEF RunState
    <2>6. \A a \in Places, t \in SUBSET PinFiles : [run[r] EXCEPT !.todo = t, !.at = a] \in RunState
        BY <1>0 DEF RunState
    <2>. QED BY <2>1, <2>2, <2>3, <2>4, <2>5, <2>6
<1>3. CASE ComposeData(r) BY <1>2, <1>3 DEF ComposeData, Goes
<1>4. CASE Listen(r) BY <1>2, <1>4 DEF Listen, Only
<1>5. CASE Attempt(r) BY <1>2, <1>5 DEF Attempt, Goes
<1>6. CASE Save(r) BY <1>2, <1>6, WaitingIsRun DEF Save, Goes, Failed
<1>7. CASE AskInit(r)
    <2>1. CASE Failed(r) BY <2>1, WaitingIsRun DEF Failed
    <2>2. CASE created < MaxClusters /\ To(r, [run[r] EXCEPT !.at = "save", !.seen = created + 1])
        <3>1. created + 1 \in Clusters BY <2>2, FixtureAssumption DEF TypeOK, Clusters
        <3>. QED BY <1>2, <2>2, <3>1
    <2>. QED BY <1>7, <2>1, <2>2 DEF AskInit
<1>8. CASE Health(r)
    <2>1. cluster \in {0} \cup Clusters BY DEF TypeOK
    <2>. QED BY <1>2, <1>8, <2>1 DEF Health, Only
<1>9. CASE CheckMarker(r)
    <2>1. CASE To(r, [run[r] EXCEPT !.at = "boot", !.step = 1])
        <3>1. [run[r] EXCEPT !.at = "boot", !.step = 1] \in RunState
            <4>1. "boot" \in Places /\ 1 \in 0 .. 8 OBVIOUS
            <4>. HIDE DEF Places
            <4>. QED BY <1>2, <4>1, Zenon
        <3>. QED BY <2>1, <3>1
    <2>2. CASE To(r, [run[r] EXCEPT !.at = Bootstrapped(r)])
        <3>1. Bootstrapped(r) \in Places BY BootstrappedIs
        <3>. QED BY <1>2, <2>2, <3>1
    <2>. QED BY <1>9, <2>1, <2>2 DEF CheckMarker, Only
<1>10. CASE Request(r)
    <2>1. CASE Failed(r) BY <2>1, WaitingIsRun DEF Failed
    <2>2. CASE run[r].step # 8 /\ To(r, NextStep(r))
        <3>1. [run[r] EXCEPT !.step = @ + 1] \in RunState
            BY <1>0, <2>2, RunFields, StepsAre DEF RunState
        <3>. QED BY <2>2, <3>1, StepsAre DEF NextStep
    <2>3. CASE run[r].step = 8 /\ To(r, NextStep(r)) BY <1>2, <2>3, StepsAre DEF NextStep
    <2>. QED BY <1>10, <2>1, <2>2, <2>3 DEF Request
<1>11. CASE Publish(r) BY <1>2, <1>11 DEF Publish, Goes
<1>12. CASE Published(r) BY <1>2, <1>12 DEF Published, Only
<1>13. CASE Mark(r) BY <1>2, <1>13, WaitingIsRun, BootstrappedIs DEF Mark, Goes, Failed
<1>14. CASE CheckPlatform(r)
    <2>1. marker \in Clusters
        BY <1>14, RunFields, FixtureAssumption
        DEF CheckPlatform, PinsAt, GoesOnWithOriginal, TypeOK, Clusters
    <2>. QED BY <1>2, <1>14, <2>1 DEF CheckPlatform, Only
<1>15. CASE PinPlatform(r) BY <1>2, <1>15, WaitingIsRun DEF PinPlatform, Goes, Failed
<1>16. CASE StopOriginal(r) BY <1>2, <1>16 DEF StopOriginal, Goes
<1>17. CASE Recreate(r) BY <1>2, <1>17, WaitingIsRun DEF Recreate, Failed
<1>18. CASE CheckRuntime(r)
    <2>1. Absent \in SUBSET PinFiles BY DEF Absent
    <2>. QED BY <1>2, <1>18, <2>1 DEF CheckRuntime, Only
<1>19. CASE PublishPin(r)
    <2>1. CASE Failed(r) BY <2>1, WaitingIsRun DEF Failed
    <2>2. ASSUME NEW f \in run[r].todo, run[r].at = "files",
                 To(r, [run[r] EXCEPT !.todo = @ \ {f},
                                      !.at = IF run[r].todo = {f} THEN "fleet" ELSE @])
          PROVE  \E s \in RunState : To(r, s)
        <3>1. run[r].todo \ {f} \in SUBSET PinFiles BY RunFields
        <3>2. [run[r] EXCEPT !.todo = @ \ {f}, !.at = IF run[r].todo = {f} THEN "fleet" ELSE @]
              \in RunState
            BY <1>0, <2>2, <3>1 DEF RunState
        <3>. QED BY <2>2, <3>2
    <2>. QED BY <1>19, <2>1, <2>2 DEF PublishPin
<1>20. CASE StartFleet(r) BY <1>2, <1>20 DEF StartFleet, Only
<1>21. CASE Fail(r) BY <1>21, WaitingIsRun DEF Fail, Only
<1>. QED
    BY <1>1, <1>3, <1>4, <1>5, <1>6, <1>7, <1>8, <1>9, <1>10, <1>11, <1>12, <1>13, <1>14, <1>15,
       <1>16, <1>17, <1>18, <1>19, <1>20, <1>21 DEF Up

\* The volumes and the container stay in their domains, whoever acts on them.
LEMMA ContainerGoesOn ==
    ASSUME TypeOK, NEW i \in Images \cup {"base"}, Fresh(i) \/ Gone
    PROVE  /\ bao' \in {"off", "sealed", "open"} /\ image' \in Images \cup {"base"}
           /\ late' = {} /\ scripts' = [r \in Runs |-> "none"]
BY DEF TypeOK, Fresh, Gone

LEMMA ExecuteGoesOn ==
    ASSUME TypeOK, NEW op \in Ops, NEW r \in Runs, Execute(op, r)
    PROVE  /\ UNCHANGED <<cluster, created, creds>>
           /\ done' = done \cup {op} /\ done' \subseteq Ops
           /\ envelope' = IF op = "envelope" THEN r ELSE envelope
           /\ envelope' \in Runs \cup {NoRun}
           /\ secrets' = IF op = "secret" THEN secrets \cup {r} ELSE secrets
           /\ secrets' \subseteq Runs
BY DEF TypeOK, Execute

LEMMA InitializeGoesOn ==
    ASSUME TypeOK, created < MaxClusters, Initialize
    PROVE  /\ cluster' = created + 1 /\ created' = created + 1 /\ cluster' \in Clusters
           /\ UNCHANGED <<done, envelope, secrets, creds>>
BY FixtureAssumption DEF TypeOK, Initialize, Clusters

\* The domains of everything but the runs.
DomainsOK ==
    /\ attempted \in BOOLEAN /\ asked \in Nat
    /\ token \in {Nothing, Torn} \cup Clusters /\ marker \in {Nothing, Torn} \cup Clusters
    /\ platform \in {Nothing, Torn} \cup [image : Images, cluster : Clusters]
    /\ pins \in [PinFiles -> {Nothing, Torn} \cup Supplies \cup {s[f] : s \in Supplies, f \in {"a", "b"}}]
    /\ cluster \in {0} \cup Clusters /\ created \in {0} \cup Clusters
    /\ done \subseteq Ops /\ envelope \in Runs \cup {NoRun} /\ secrets \subseteq Runs
    /\ creds \in {"none", "half"} \cup Runs
    /\ bao \in {"off", "sealed", "open"} /\ image \in Images \cup {"base"}
    /\ late \subseteq [op : Ops \cup {"init"}, run : Runs]
    /\ scripts \in [Runs -> {"none", "begun", "empty", "half", "whole", "refused"}]

\* What only moves its run.
Quiet(r) ==
    \/ Begin(r) \/ Listen(r) \/ Health(r) \/ CheckMarker(r) \/ Published(r)
    \/ CheckPlatform(r) \/ CheckRuntime(r) \/ StartFleet(r) \/ Fail(r)

LEMMA QuietChangesNothing ==
    ASSUME NEW r \in Runs, Quiet(r)
    PROVE  UNCHANGED <<files, data, box, asked>>
<1>1. CASE Begin(r) BY <1>1 DEF Begin, Only
<1>2. CASE Listen(r) BY <1>2 DEF Listen, Only
<1>3. CASE Health(r) BY <1>3 DEF Health, Only
<1>4. CASE CheckMarker(r) BY <1>4 DEF CheckMarker, Only
<1>5. CASE Published(r) BY <1>5 DEF Published, Only
<1>6. CASE CheckPlatform(r) BY <1>6 DEF CheckPlatform, Only
<1>7. CASE CheckRuntime(r) BY <1>7 DEF CheckRuntime, Only
<1>8. CASE StartFleet(r) BY <1>8 DEF StartFleet, Only
<1>9. CASE Fail(r) BY <1>9 DEF Fail, Only
<1>. QED BY <1>1, <1>2, <1>3, <1>4, <1>5, <1>6, <1>7, <1>8, <1>9 DEF Quiet

LEMMA UpTypeGoesOn ==
    ASSUME TypeOK, PinsAt, NEW r \in Runs, Up(r)
    PROVE  DomainsOK'
<1>. USE DEF DomainsOK, files, data, box
<1>0. DomainsOK BY DEF TypeOK
<1>1. CASE Quiet(r) BY <1>0, <1>1, QuietChangesNothing
<1>3. CASE ComposeData(r)
    <2>1. run[r].usesPlatform => platform \in [image : Images, cluster : Clusters]
        BY DEF PinsAt, PlaceAt, PlaceOf
    <2>2. (IF run[r].usesPlatform THEN platform.image ELSE "base") \in Images \cup {"base"}
        BY <2>1
    <2>. QED BY <1>0, <1>3, <2>2, ContainerGoesOn DEF ComposeData
<1>4. CASE Attempt(r) BY <1>0, <1>4 DEF Attempt
<1>5. CASE AskInit(r)
    BY <1>0, <1>5, InitializeGoesOn DEF AskInit
<1>6. CASE Save(r)
    <2>1. run[r].seen \in Clusters BY <1>6 DEF Save, PinsAt, PlaceAt, PlaceOf, Past
    <2>. QED BY <1>0, <1>6, <2>1 DEF Save
<1>7. CASE Request(r)
    <2>1. run[r].step \in 1 .. 8 BY <1>7, RunFields DEF Request, PinsAt, PlaceAt, PlaceOf
    <2>2. Steps[run[r].step] \in Ops BY <2>1, StepsAre
    <2>. QED BY <1>0, <1>7, <2>2, ExecuteGoesOn DEF Request
<1>8. CASE Publish(r) BY <1>0, <1>8 DEF Publish
<1>9. CASE Mark(r)
    <2>1. run[r].seen \in Clusters BY <1>9 DEF Mark, PinsAt, PlaceAt, PlaceOf, Past
    <2>. QED BY <1>0, <1>9, <2>1 DEF Mark
<1>10. CASE PinPlatform(r)
    <2>1. run[r].image \in Images BY <1>10 DEF PinPlatform, PinsAt, PlaceAt, PlaceOf
    <2>2. run[r].seen \in Clusters
        BY <1>10, RunFields, FixtureAssumption
        DEF PinPlatform, PinsAt, GoesOnWithOriginal, TypeOK, Clusters
    <2>. QED BY <1>0, <1>10, <2>1, <2>2 DEF PinPlatform, Pinned
<1>11. CASE StopOriginal(r) BY <1>0, <1>11, ContainerGoesOn DEF StopOriginal
<1>12. CASE Recreate(r)
    <2>1. platform.image \in Images BY <1>12 DEF Recreate, PinsAt, PlaceAt, PlaceOf
    <2>. QED BY <1>0, <1>12, <2>1, ContainerGoesOn DEF Recreate
<1>13. CASE PublishPin(r)
    <2>1. run[r].supply \in Supplies BY <1>13 DEF PublishPin, PinsAt, PlaceAt, PlaceOf
    <2>2. \A f \in PinFiles :
            Wanted(r, f) \in Supplies \cup {s[f_1] : s \in Supplies, f_1 \in {"a", "b"}}
        BY <2>1 DEF Wanted, PinFiles
    <2>. QED BY <1>0, <1>13, <2>2, RunFields DEF PublishPin
<1>. QED
    BY <1>1, <1>3, <1>4, <1>5, <1>6, <1>7, <1>8, <1>9, <1>10, <1>11, <1>12, <1>13 DEF Up, Quiet

\* Every step keeps the domains.
LEMMA TypeGoesOn == ASSUME TypeOK, PinsAt, [Next]_vars PROVE TypeOK'
<1>0. DomainsOK /\ run \in [Runs -> RunState] BY DEF TypeOK, DomainsOK
<1>. SUFFICES DomainsOK' /\ run' \in [Runs -> RunState] BY DEF TypeOK, DomainsOK
<1>1. ASSUME NEW r \in Runs, Up(r) PROVE DomainsOK' /\ run' \in [Runs -> RunState]
    BY <1>1, UpTypeGoesOn, RunsGoOn
<1>. USE <1>0 DEF DomainsOK, files, data, box
<1>2. ASSUME NEW r \in Runs, Script(r) PROVE DomainsOK' /\ run' \in [Runs -> RunState]
    BY <1>2 DEF Script
<1>3. ASSUME NEW m \in late, CarryOut(m) PROVE DomainsOK' /\ run' \in [Runs -> RunState]
    BY <1>3, ExecuteGoesOn, InitializeGoesOn DEF CarryOut
<1>4. CASE Fault \/ Restore \/ Seal BY <1>4, ContainerGoesOn DEF Fault, Restore, Seal
<1>5. CASE Down BY <1>5, ContainerGoesOn DEF Down
<1>6. CASE InitByHand BY <1>6, InitializeGoesOn DEF InitByHand
<1>7. CASE UNCHANGED vars BY <1>7 DEF vars
<1>. QED BY <1>1, <1>2, <1>3, <1>4, <1>5, <1>6, <1>7 DEF Next

-----------------------------------------------------------------------------
(* What a step can do to the cluster, the files and the place of a run.    *)

\* A cluster is lost for good, and the next one has the next number.
LEMMA ClusterMoves ==
    ASSUME TypeOK, PinsAt, [Next]_vars
    PROVE  \/ cluster' = cluster /\ created' = created
           \/ cluster' = 0 /\ created' = created
           \/ cluster = 0 /\ cluster' = created + 1 /\ created' = created + 1
<1>1. ASSUME NEW r \in Runs, Up(r)
      PROVE  UNCHANGED <<cluster, created>> \/ (cluster = 0 /\ Initialize)
    BY <1>1, QuietChangesNothing
    DEF Up, Quiet, ComposeData, Attempt, AskInit, Save, Request, Execute, Publish, Mark,
        PinPlatform, StopOriginal, Recreate, PublishPin, data
<1>2. ASSUME NEW m \in late, CarryOut(m)
      PROVE  UNCHANGED <<cluster, created>> \/ (cluster = 0 /\ Initialize)
    BY <1>2 DEF CarryOut, Execute, data
<1>3. CASE Fault \/ Restore \/ Seal BY <1>3 DEF Fault, Restore, Seal, data
<1>4. CASE Down BY <1>4 DEF Down
<1>5. CASE InitByHand BY <1>5 DEF InitByHand, Initialize
<1>6. ASSUME NEW r \in Runs, Script(r) PROVE UNCHANGED <<cluster, created>> BY <1>6 DEF Script
<1>7. CASE UNCHANGED vars BY <1>7 DEF vars, data
<1>. QED BY <1>1, <1>2, <1>3, <1>4, <1>5, <1>6, <1>7 DEF Next, Initialize

LEMMA PastStays ==
    ASSUME TypeOK, PinsAt, cluster <= created, [Next]_vars, NEW c, Past(c)
    PROVE  Past(c)'
<1>1. c \in 1 .. MaxClusters /\ MaxClusters \in Nat /\ created \in Nat /\ cluster \in Nat
    BY FixtureAssumption DEF Past, Clusters, TypeOK
<1>. QED BY <1>1, ClusterMoves DEF Past, Clusters

\* What has been published is never replaced.
LEMMA FilesStay ==
    ASSUME TypeOK, [Next]_vars
    PROVE  /\ attempted => attempted'
           /\ token # Nothing => token' = token
           /\ marker # Nothing => marker' = marker
           /\ platform # Nothing => platform' = platform
           /\ \A f \in PinFiles : pins[f] # Nothing => pins'[f] = pins[f]
<1>. USE DEF files
<1>1. ASSUME NEW r \in Runs, PublishPin(r)
      PROVE  \A f \in PinFiles : pins[f] # Nothing => pins'[f] = pins[f]
    BY <1>1 DEF PublishPin, TypeOK
<1>2. ASSUME NEW r \in Runs, Up(r)
      PROVE  UNCHANGED files \/ Attempt(r) \/ Save(r) \/ Mark(r) \/ PinPlatform(r) \/ PublishPin(r)
    BY <1>2, QuietChangesNothing
    DEF Up, Quiet, ComposeData, AskInit, Request, Publish, StopOriginal, Recreate
<1>3. ASSUME NEW r \in Runs, Attempt(r) \/ Save(r) \/ Mark(r) \/ PinPlatform(r)
      PROVE  /\ attempted => attempted'
             /\ token # Nothing => token' = token
             /\ marker # Nothing => marker' = marker
             /\ platform # Nothing => platform' = platform
             /\ UNCHANGED pins
    BY <1>3 DEF Attempt, Save, Mark, PinPlatform
<1>4. CASE \E r \in Runs : Script(r) BY <1>4 DEF Script
<1>5. CASE \E m \in late : CarryOut(m) BY <1>5 DEF CarryOut
<1>6. CASE Fault \/ Restore \/ Seal \/ Down \/ InitByHand
    BY <1>6 DEF Fault, Restore, Seal, Down, InitByHand
<1>7. CASE UNCHANGED vars BY <1>7 DEF vars
<1>8. ASSUME NEW r \in Runs, PublishPin(r) PROVE UNCHANGED <<attempted, token, marker, platform>>
    BY <1>8 DEF PublishPin
<1>. QED BY <1>1, <1>2, <1>3, <1>4, <1>5, <1>6, <1>7, <1>8 DEF Next

\* A run only moves by its own steps, and not from its end.
LEMMA OnlyUpMoves ==
    ASSUME TypeOK, PinsAt, [Next]_vars, NEW r \in Runs, run'[r] # run[r]
    PROVE  Up(r) /\ run[r].at # "failed"
<1>1. ASSUME NEW q \in Runs, Up(q), q # r PROVE FALSE BY <1>1, RunsGoOn
<1>2. Up(r)
    BY <1>1 DEF Next, Script, CarryOut, Fault, Restore, Seal, Down, InitByHand, vars
<1>. QED
    BY <1>2
    DEF Up, Begin, ComposeData, Listen, Attempt, AskInit, Save, Health, CheckMarker, Request,
        Publish, Published, Mark, CheckPlatform, PinPlatform, StopOriginal, Recreate,
        CheckRuntime, PublishPin, StartFleet, Fail

\* Where a run comes from.
LEMMA Arrivals ==
    ASSUME TypeOK, PinsAt, NEW r \in Runs, Up(r)
    PROVE  /\ run'[r].at = "init" => Attempt(r)
           /\ run'[r].at = "boot" =>
                 \/ CheckMarker(r) /\ marker = Nothing /\ run'[r].step = 1
                 \/ /\ run[r].at = "boot" /\ Request(r) /\ ~Failed(r)
                    /\ run[r].step < 8 /\ run'[r].step = run[r].step + 1
           /\ run'[r].at = "publish" =>
                 run[r].at = "boot" /\ Request(r) /\ ~Failed(r) /\ run[r].step = 8
           /\ run'[r].at = "published" => Publish(r)
           /\ run'[r].at = "mark" => Published(r)
<1>0. run[r] \in RunState /\ run[r].step \in 0 .. 8 BY RunFields
<1>30. \A s : To(r, s) => run'[r] = s BY DEF TypeOK, To
<1>31. \A a : /\ [run[r] EXCEPT !.at = a].at = a
              /\ \A c : [run[r] EXCEPT !.at = a, !.seen = c].at = a
              /\ \A c : [run[r] EXCEPT !.at = a, !.again = c].at = a
              /\ \A c : [run[r] EXCEPT !.at = a, !.todo = c].at = a
              /\ \A c : [run[r] EXCEPT !.todo = c, !.at = a].at = a
              /\ \A c : /\ [run[r] EXCEPT !.at = a, !.step = c].at = a
                        /\ [run[r] EXCEPT !.at = a, !.step = c].step = c
    BY <1>0 DEF RunState
<1>32. Failed(r) => run'[r].at = "failed" BY <1>30 DEF Failed, Waiting
<1>33. \A a : Goes(r, a) => run'[r].at = a BY <1>30, <1>31 DEF Goes
<1>1. CASE Begin(r)
    <2>1. run'[r].at = "up" BY <1>1, <1>30 DEF Begin, Only, Waiting
    <2>. QED BY <2>1
<1>2. CASE ComposeData(r) BY <1>2, <1>33 DEF ComposeData
<1>3. CASE Listen(r)
    <2>1. run'[r] = [run[r] EXCEPT !.at = IF cluster = 0 THEN "attempt" ELSE "token"]
        BY <1>3, <1>30, Zenon DEF Listen, Only
    <2>2. run'[r].at \in {"attempt", "token"} BY <2>1, <1>0 DEF RunState
    <2>. QED BY <2>2
<1>4. CASE Attempt(r)
    <2>1. run'[r].at = "init" BY <1>4, <1>33 DEF Attempt
    <2>. QED BY <1>4, <2>1
<1>5. CASE AskInit(r)
    <2>0. ASSUME To(r, [run[r] EXCEPT !.at = "save", !.seen = created + 1]) PROVE run'[r].at = "save"
        <3>1. run'[r] = [run[r] EXCEPT !.at = "save", !.seen = created + 1] BY <2>0, <1>30, Zenon
        <3>2. run'[r].at = "save" BY <3>1, <1>0 DEF RunState
        <3>. QED BY <3>2
    <2>1. run'[r].at \in {"save", "failed"} BY <1>5, <1>32, <2>0 DEF AskInit
    <2>. QED BY <2>1
<1>6. CASE Save(r)
    <2>1. run'[r].at \in {"token", "failed"} BY <1>6, <1>32, <1>33 DEF Save
    <2>. QED BY <2>1
<1>7. CASE Health(r)
    <2>0. run'[r] = [run[r] EXCEPT !.at = "check", !.seen = cluster]
        BY <1>7, <1>30, Zenon DEF Health, Only
    <2>1. run'[r].at = "check" BY <2>0, <1>0 DEF RunState
    <2>. QED BY <2>1
<1>8. CASE CheckMarker(r)
    <2>1. CASE marker = Nothing /\ To(r, [run[r] EXCEPT !.at = "boot", !.step = 1])
        <3>0. run'[r] = [run[r] EXCEPT !.at = "boot", !.step = 1] BY <2>1, <1>30, Zenon
        <3>1. run'[r].at = "boot" /\ run'[r].step = 1 BY <3>0, <1>0 DEF RunState
        <3>. QED BY <1>8, <2>1, <3>1
    <2>2. CASE To(r, [run[r] EXCEPT !.at = Bootstrapped(r)])
        <3>1. run'[r].at = Bootstrapped(r) BY <2>2, <1>30, <1>31, Zenon
        <3>. QED BY <3>1, BootstrappedIs
    <2>. QED BY <1>8, <2>1, <2>2 DEF CheckMarker, Only
<1>9. CASE Request(r)
    <2>1. CASE Failed(r) BY <2>1, <1>32
    <2>2. CASE ~Failed(r) /\ run[r].step # 8 /\ To(r, NextStep(r))
        <3>1. run'[r] = [run[r] EXCEPT !.step = run[r].step + 1]
            BY <2>2, <1>30, StepsAre DEF NextStep
        <3>2. run[r].at = "boot" BY <1>9 DEF Request
        <3>3. run'[r].at = "boot" /\ run'[r].step = run[r].step + 1 BY <3>1, <3>2, <1>0 DEF RunState
        <3>. QED BY <1>9, <1>0, <2>2, <3>2, <3>3
    <2>3. CASE ~Failed(r) /\ run[r].step = 8 /\ To(r, NextStep(r))
        <3>0. run'[r] = [run[r] EXCEPT !.at = "publish"] BY <2>3, <1>30, StepsAre DEF NextStep
        <3>1. run'[r].at = "publish" BY <3>0, <1>0 DEF RunState
        <3>2. run[r].at = "boot" BY <1>9 DEF Request
        <3>. QED BY <1>9, <2>3, <3>1, <3>2
    <2>. QED BY <1>9, <2>1, <2>2, <2>3 DEF Request
<1>10. CASE Publish(r)
    <2>1. run'[r].at = "published" BY <1>10, <1>33 DEF Publish
    <2>. QED BY <1>10, <2>1
<1>11. CASE Published(r)
    <2>1. run'[r].at = "mark" BY <1>11, <1>30, <1>31 DEF Published, Only
    <2>. QED BY <1>11, <2>1
<1>12. CASE Mark(r)
    <2>1. run'[r].at \in {Bootstrapped(r), "failed"} BY <1>12, <1>32, <1>33 DEF Mark
    <2>. QED BY <2>1, BootstrappedIs
<1>13. CASE CheckPlatform(r)
    <2>0. run'[r] = [run[r] EXCEPT !.at = IF platform = Nothing THEN "pin" ELSE "stop",
                                   !.seen = marker]
        BY <1>13, <1>30, Zenon DEF CheckPlatform, Only
    <2>1. run'[r].at \in {"pin", "stop"} BY <2>0, <1>0 DEF RunState
    <2>. QED BY <2>1
<1>14. CASE PinPlatform(r)
    <2>1. run'[r].at \in {"stop", "failed"} BY <1>14, <1>32, <1>33 DEF PinPlatform
    <2>. QED BY <2>1
<1>15. CASE StopOriginal(r)
    <2>1. run'[r].at = "recreate" BY <1>15, <1>33 DEF StopOriginal
    <2>. QED BY <2>1
<1>16. CASE Recreate(r)
    <2>0. ASSUME To(r, [run[r] EXCEPT !.at = "listen", !.again = TRUE]) PROVE run'[r].at = "listen"
        <3>1. run'[r] = [run[r] EXCEPT !.at = "listen", !.again = TRUE] BY <2>0, <1>30, Zenon
        <3>. QED BY <3>1, <1>0 DEF RunState
    <2>1. run'[r].at \in {"listen", "failed"} BY <1>16, <1>32, <2>0 DEF Recreate
    <2>. QED BY <2>1
<1>17. CASE CheckRuntime(r)
    <2>0. run'[r] = [run[r] EXCEPT !.at = IF Absent = {} THEN "fleet" ELSE "files", !.todo = Absent]
        BY <1>17, <1>30, Zenon DEF CheckRuntime, Only
    <2>1. run'[r].at \in {"fleet", "files"} BY <2>0, <1>0 DEF RunState
    <2>. QED BY <2>1
<1>18. CASE PublishPin(r)
    <2>1. CASE Failed(r) BY <2>1, <1>32
    <2>2. ASSUME NEW f \in run[r].todo, run[r].at = "files",
                 To(r, [run[r] EXCEPT !.todo = @ \ {f},
                                      !.at = IF run[r].todo = {f} THEN "fleet" ELSE @])
          PROVE  run'[r].at \in {"files", "fleet"}
        <3>1. run'[r] = [run[r] EXCEPT !.todo = @ \ {f},
                                       !.at = IF run[r].todo = {f} THEN "fleet" ELSE @]
            BY <2>2, <1>30, Zenon
        <3>. QED BY <2>2, <3>1, <1>0 DEF RunState
    <2>3. run'[r].at \in {"files", "fleet", "failed"} BY <1>18, <1>32, <2>2 DEF PublishPin
    <2>. QED BY <2>3
<1>19. CASE StartFleet(r)
    <2>1. run'[r].at = "done" BY <1>19, <1>30, <1>31 DEF StartFleet, Only
    <2>. QED BY <2>1
<1>20. CASE Fail(r)
    <2>1. run'[r].at = "failed" BY <1>20, <1>30 DEF Fail, Only, Waiting
    <2>. QED BY <2>1
<1>. QED
    BY <1>1, <1>2, <1>3, <1>4, <1>5, <1>6, <1>7, <1>8, <1>9, <1>10, <1>11, <1>12, <1>13, <1>14,
       <1>15, <1>16, <1>17, <1>18, <1>19, <1>20 DEF Up

-----------------------------------------------------------------------------
(* What a step can do to the volumes and to what goes on in the container. *)

\* A request of a run is carried out: answered, or after it was given up.
Works(r, op) ==
    /\ Accepts(op)
    /\ Execute(op, r)
    /\ UNCHANGED <<files, bao, image, scripts, asked>>
    /\ \/ /\ run[r].at = "boot" /\ run[r].step \in 1 .. 8 /\ op = Steps[run[r].step]
          /\ run'[r] = NextStep(r)
          /\ \A q \in Runs \ {r} : run'[q] = run[q]
          /\ UNCHANGED late
       \/ /\ [op |-> op, run |-> r] \in late
          /\ late' = late \ {[op |-> op, run |-> r]}
          /\ UNCHANGED run

\* What a run that works asks for, and that the token is of the cluster.
LEMMA DataMoves ==
    ASSUME TypeOK, PinsAt, [Next]_vars
    PROVE  \/ UNCHANGED <<cluster, done, envelope, secrets>>
           \/ cluster' = 0 /\ done' = {} /\ envelope' = NoRun /\ secrets' = {}
           \/ cluster = 0 /\ cluster' # 0 /\ UNCHANGED <<done, envelope, secrets>>
           \/ \E r \in Runs, op \in Ops : Works(r, op)
<1>. USE DEF data
<1>1. ASSUME NEW r \in Runs, Up(r), ~Request(r), ~AskInit(r)
      PROVE  UNCHANGED data
    BY <1>1, QuietChangesNothing
    DEF Up, Quiet, ComposeData, Attempt, Save, Publish, Mark, PinPlatform, StopOriginal,
        Recreate, PublishPin
<1>2. ASSUME NEW r \in Runs, AskInit(r)
      PROVE  UNCHANGED data \/ (cluster = 0 /\ cluster' # 0 /\ UNCHANGED <<done, envelope, secrets>>)
    BY <1>2, InitializeGoesOn DEF AskInit, Clusters
<1>3. ASSUME NEW r \in Runs, Request(r) PROVE UNCHANGED data \/ \E op \in Ops : Works(r, op)
    <2>1. run[r].step \in 1 .. 8 /\ Steps[run[r].step] \in Ops
        BY <1>3, RunFields, StepsAre DEF Request, PinsAt, PlaceAt, PlaceOf
    <2>2. CASE UNCHANGED data BY <2>2
    <2>3. CASE ~UNCHANGED data
        <3>1. /\ Accepts(Steps[run[r].step]) /\ Execute(Steps[run[r].step], r)
              /\ To(r, NextStep(r)) /\ UNCHANGED <<box, files, asked>> /\ run[r].at = "boot"
            BY <1>3, <2>3 DEF Request, Answered
        <3>2. run'[r] = NextStep(r) BY <3>1 DEF To, TypeOK
        <3>3. \A q \in Runs \ {r} : run'[q] = run[q] BY <1>3, RunsGoOn DEF Up
        <3>. QED BY <2>1, <3>1, <3>2, <3>3 DEF Works, box
    <2>. QED BY <2>2, <2>3
<1>4. ASSUME NEW r \in Runs, Script(r) PROVE UNCHANGED <<cluster, done, envelope, secrets>>
    BY <1>4 DEF Script
<1>5. ASSUME NEW m \in late, CarryOut(m)
      PROVE  \/ UNCHANGED data
             \/ cluster = 0 /\ cluster' # 0 /\ UNCHANGED <<done, envelope, secrets>>
             \/ \E r \in Runs, op \in Ops : Works(r, op)
    <2>1. m.run \in Runs /\ m.op \in Ops \cup {"init"} /\ m = [op |-> m.op, run |-> m.run]
        BY DEF TypeOK
    <2>2. CASE m.op = "init" BY <1>5, <2>2, InitializeGoesOn DEF CarryOut, Clusters
    <2>3. CASE m.op # "init" /\ ~UNCHANGED data
        <3>1. Works(m.run, m.op) BY <1>5, <2>1, <2>3 DEF CarryOut, Works
        <3>. QED BY <2>1, <2>3, <3>1
    <2>. QED BY <2>2, <2>3
<1>6. CASE Fault \/ Restore \/ Seal BY <1>6 DEF Fault, Restore, Seal
<1>7. CASE Down BY <1>7 DEF Down
<1>8. CASE InitByHand BY <1>8, InitializeGoesOn DEF InitByHand, Clusters
<1>9. CASE UNCHANGED vars BY <1>9 DEF vars
<1>. QED BY <1>1, <1>2, <1>3, <1>4, <1>5, <1>6, <1>7, <1>8, <1>9 DEF Next

\* What is left behind when a client gives up.
LEMMA LateMoves ==
    ASSUME TypeOK, PinsAt, [Next]_vars, NEW m \in late'
    PROVE  \/ m \in late
           \/ /\ m.run \in Runs /\ run'[m.run].at = "failed"
              /\ \/ m.op = "init"
                 \/ /\ run[m.run].at = "boot" /\ run[m.run].step \in 1 .. 8
                    /\ m.op = Steps[run[m.run].step]
              /\ UNCHANGED <<files, data, scripts>>
<1>. USE DEF box
<1>0. \A r \in Runs : Failed(r) => run'[r].at = "failed" BY DEF Failed, To, TypeOK, Waiting
<1>1. ASSUME NEW r \in Runs, Up(r), ~Request(r), ~AskInit(r) PROVE late' \subseteq late
    BY <1>1, QuietChangesNothing
    DEF Up, Quiet, ComposeData, Attempt, Save, Publish, Mark, PinPlatform, StopOriginal,
        Recreate, PublishPin, Fresh, Gone
<1>2. ASSUME NEW r \in Runs, AskInit(r), m \notin late
      PROVE  m.run = r /\ m.op = "init" /\ run'[r].at = "failed" /\ UNCHANGED <<files, data, scripts>>
    BY <1>0, <1>2 DEF AskInit
<1>3. ASSUME NEW r \in Runs, Request(r), m \notin late
      PROVE  /\ m.run = r /\ run'[r].at = "failed" /\ UNCHANGED <<files, data, scripts>>
             /\ run[r].at = "boot" /\ run[r].step \in 1 .. 8 /\ m.op = Steps[run[r].step]
    <2>1. run[r].step \in 1 .. 8 BY <1>3, RunFields DEF Request, PinsAt, PlaceAt, PlaceOf
    <2>. QED BY <1>0, <1>3, <2>1 DEF Request
<1>4. CASE \E r \in Runs : Script(r) BY <1>4 DEF Script
<1>5. CASE \E m_1 \in late : CarryOut(m_1) BY <1>5 DEF CarryOut
<1>6. CASE Fault \/ Restore \/ Seal \/ Down \/ InitByHand
    BY <1>6 DEF Fault, Restore, Seal, Down, InitByHand, Fresh, Gone
<1>7. CASE UNCHANGED vars BY <1>7 DEF vars
<1>. QED BY <1>1, <1>2, <1>3, <1>4, <1>5, <1>6, <1>7 DEF Next

\* Scripts begin when they are published, and end with the container.
LEMMA ScriptMoves ==
    ASSUME TypeOK, PinsAt, [Next]_vars, NEW r \in Runs
    PROVE  scripts'[r] = scripts[r] \/ scripts'[r] = "none" \/ Publish(r) \/ Script(r)
<1>. USE DEF box
<1>1. ASSUME NEW q \in Runs, Up(q), ~Publish(q)
      PROVE  scripts' = scripts \/ scripts' = [r_1 \in Runs |-> "none"]
    BY <1>1, QuietChangesNothing
    DEF Up, Quiet, ComposeData, Attempt, AskInit, Request, Save, Mark, PinPlatform, StopOriginal,
        Recreate, PublishPin, Fresh, Gone
<1>2. ASSUME NEW q \in Runs, Publish(q), q # r PROVE scripts'[r] = scripts[r]
    BY <1>2 DEF Publish, TypeOK
<1>3. ASSUME NEW q \in Runs, Script(q), q # r PROVE scripts'[r] = scripts[r]
    BY <1>3 DEF Script, TypeOK
<1>4. CASE \E m \in late : CarryOut(m) BY <1>4 DEF CarryOut
<1>5. CASE Fault \/ Restore \/ Seal \/ Down \/ InitByHand
    BY <1>5 DEF Fault, Restore, Seal, Down, InitByHand, Fresh, Gone
<1>6. CASE UNCHANGED vars BY <1>6 DEF vars
<1>. QED BY <1>1, <1>2, <1>3, <1>4, <1>5, <1>6 DEF Next

LEMMA CredsMove ==
    ASSUME TypeOK, PinsAt, [Next]_vars
    PROVE  \/ creds' = creds
           \/ creds' = "none" /\ scripts' = [r \in Runs |-> "none"] /\ UNCHANGED <<files, run>>
           \/ \E r \in Runs : Script(r) /\ scripts[r] \in {"empty", "half"}
<1>. USE DEF data
<1>1. ASSUME NEW r \in Runs, Up(r) PROVE creds' = creds
    BY <1>1, QuietChangesNothing
    DEF Up, Quiet, ComposeData, Attempt, AskInit, Request, Save, Publish, Mark, PinPlatform,
        StopOriginal, Recreate, PublishPin, Initialize, Execute
<1>2. ASSUME NEW r \in Runs, Script(r)
      PROVE  creds' = creds \/ scripts[r] \in {"empty", "half"}
    BY <1>2 DEF Script
<1>3. CASE \E m \in late : CarryOut(m) BY <1>3 DEF CarryOut, Initialize, Execute
<1>4. CASE Fault \/ Restore \/ Seal \/ InitByHand
    BY <1>4 DEF Fault, Restore, Seal, InitByHand, Initialize
<1>5. CASE Down BY <1>5 DEF Down, Gone
<1>6. CASE UNCHANGED vars BY <1>6 DEF vars
<1>. QED BY <1>1, <1>2, <1>3, <1>4, <1>5, <1>6 DEF Next

\* The token appears once, when it is saved; the marker, when it is written.
LEMMA TokenMoves ==
    ASSUME TypeOK, PinsAt, [Next]_vars
    PROVE  /\ token' = token \/ \E r \in Runs : Save(r)
           /\ marker' = marker \/ \E r \in Runs : Mark(r)
           /\ platform' = platform \/ \E r \in Runs : PinPlatform(r)
           /\ pins' = pins \/ \E r \in Runs : PublishPin(r)
           /\ asked' = asked \/ \E r \in Runs : AskInit(r)
<1>. USE DEF files
<1>1. ASSUME NEW r \in Runs, Up(r) PROVE UNCHANGED <<token, marker, platform, pins>> \/ Save(r)
                                          \/ Mark(r) \/ PinPlatform(r) \/ PublishPin(r)
    BY <1>1, QuietChangesNothing
    DEF Up, Quiet, ComposeData, Attempt, AskInit, Request, Publish, StopOriginal, Recreate
<1>2. ASSUME NEW r \in Runs PROVE /\ Save(r) => UNCHANGED <<marker, platform, pins>>
                                  /\ Mark(r) => UNCHANGED <<token, platform, pins>>
                                  /\ PinPlatform(r) => UNCHANGED <<token, marker, pins>>
                                  /\ PublishPin(r) => UNCHANGED <<token, marker, platform>>
    BY DEF Save, Mark, PinPlatform, PublishPin
<1>3. ASSUME NEW r \in Runs, Up(r) PROVE asked' = asked \/ AskInit(r)
    BY <1>3, QuietChangesNothing
    DEF Up, Quiet, ComposeData, Attempt, Request, Save, Publish, Mark, PinPlatform, StopOriginal,
        Recreate, PublishPin
<1>4. CASE \E r \in Runs : Script(r) BY <1>4 DEF Script
<1>5. CASE \E m \in late : CarryOut(m) BY <1>5 DEF CarryOut
<1>6. CASE Fault \/ Restore \/ Seal \/ Down \/ InitByHand
    BY <1>6 DEF Fault, Restore, Seal, Down, InitByHand
<1>7. CASE UNCHANGED vars BY <1>7 DEF vars
<1>. QED BY <1>1, <1>2, <1>3, <1>4, <1>5, <1>6, <1>7 DEF Next

-----------------------------------------------------------------------------
(* The clusters, the request for the first one, and the pins.              *)

\* While the cluster of the token is there, it has been there, and it forgets nothing.
LEMMA SameCluster ==
    ASSUME TypeOK, ClustersAt, PinsAt, [Next]_vars, token \in Clusters, cluster' = token
    PROVE  /\ token' = token /\ cluster = token
           /\ done \subseteq done' /\ secrets \subseteq secrets'
<1>1. /\ Past(token) /\ token \in 1 .. MaxClusters /\ MaxClusters \in Nat
      /\ created \in Nat /\ cluster \in Nat /\ cluster <= created
    BY FixtureAssumption DEF ClustersAt, TypeOK, Clusters
<1>2. token # Nothing BY FixtureAssumption DEF Clusters
<1>3. token' = token BY <1>2, FilesStay
<1>4. cluster = token BY <1>1, ClusterMoves DEF Past
<1>5. done \subseteq done' /\ secrets \subseteq secrets'
    <2>1. ASSUME NEW r \in Runs, NEW op \in Ops, Works(r, op)
          PROVE  done \subseteq done' /\ secrets \subseteq secrets'
        BY <2>1 DEF Works, Execute
    <2>2. cluster' # 0 /\ cluster # 0 BY <1>1, <1>4
    <2>. QED BY <2>1, <2>2, DataMoves
<1>. QED BY <1>3, <1>4, <1>5

\* What a cluster of the token has carried out, its token was saved for.
LEMMA ClustersGoOn ==
    ASSUME TypeOK, ClustersAt, PinsAt, [Next]_vars
    PROVE  ClustersAt'
<1>0. Nothing \notin Clusters /\ Torn \notin Clusters BY FixtureAssumption DEF Clusters
<1>1. /\ MaxClusters \in Nat /\ created \in Nat /\ cluster \in Nat /\ cluster <= created
    BY FixtureAssumption DEF ClustersAt, TypeOK, Clusters
<1>2. (cluster <= created)'
    BY <1>1, ClusterMoves
<1>3. ASSUME token' \in Clusters PROVE Past(token)'
    <2>1. CASE token' = token
        <3>1. Past(token) BY <1>3, <2>1 DEF ClustersAt
        <3>2. \A c : Past(c) => Past(c)' BY <1>1, PastStays
        <3>. QED BY <2>1, <3>1, <3>2 DEF Past
    <2>2. ASSUME NEW r \in Runs, Save(r) PROVE Past(token)'
        <3>1. Past(run[r].seen) BY <2>2 DEF Save, PinsAt, PlaceAt, PlaceOf
        <3>2. token' = run[r].seen /\ UNCHANGED <<cluster, created>>
            BY <1>0, <1>3, <2>2 DEF Save, data
        <3>. QED BY <3>1, <3>2 DEF Past
    <2>. QED BY <2>1, <2>2, TokenMoves
<1>4. ASSUME marker' \in Clusters PROVE marker' = token'
    <2>1. CASE marker' = marker
        <3>1. marker = token /\ token # Nothing BY <1>0, <1>4, <2>1 DEF ClustersAt
        <3>. QED BY <2>1, <3>1, FilesStay
    <2>2. ASSUME NEW r \in Runs, Mark(r) PROVE marker' = token'
        <3>1. run[r].seen = token BY <2>2 DEF Mark, PinsAt, PlaceAt, PlaceOf
        <3>. QED BY <1>0, <1>4, <2>2, <3>1 DEF Mark
    <2>. QED BY <2>1, <2>2, TokenMoves
<1>. QED BY <1>2, <1>3, <1>4 DEF ClustersAt

\* One run makes the marker, and it asks once.
LEMMA AskedGoesOn ==
    ASSUME TypeOK, AskedAt, PinsAt, [Next]_vars
    PROVE  AskedAt'
<1>0. asked \in Nat BY DEF TypeOK
<1>1. ASSUME NEW r \in Runs, run'[r].at = "init"
      PROVE  \/ run[r].at = "init" /\ run'[r] = run[r]
             \/ Attempt(r)
    BY <1>1, OnlyUpMoves, Arrivals
<1>2. ASSUME NEW r \in Runs, Attempt(r), \A q \in Runs : run[q].at # "init" \/ attempted
      PROVE  AskedAt'
    <2>1. ~attempted /\ attempted' /\ asked' = asked /\ asked = 0
        BY <1>0, <1>2 DEF Attempt, AskedAt, InitAskedOnce
    <2>2. \A q \in Runs : run[q].at # "init" BY <2>1 DEF AskedAt
    <2>3. \A q \in Runs \ {r} : run'[q] = run[q] BY <1>2, RunsGoOn DEF Up
    <2>. QED BY <2>1, <2>2, <2>3 DEF AskedAt, InitAskedOnce
<1>3. ASSUME NEW r \in Runs, AskInit(r) PROVE AskedAt'
    <2>1. run[r].at = "init" /\ attempted /\ asked = 0 /\ attempted' = attempted /\ asked' = 1
        BY <1>3 DEF AskInit, AskedAt, files
    <2>2. run'[r].at # "init"
        <3>1. ~Attempt(r) BY <2>1 DEF Attempt
        <3>. QED BY <1>3, <3>1, Arrivals DEF Up
    <2>3. \A q \in Runs \ {r} : run'[q] = run[q] BY <1>3, RunsGoOn DEF Up
    <2>4. \A q \in Runs : run'[q].at # "init" BY <2>1, <2>2, <2>3 DEF AskedAt
    <2>. QED BY <2>1, <2>4 DEF AskedAt, InitAskedOnce
<1>4. ASSUME \A r \in Runs : ~Attempt(r) /\ ~AskInit(r) PROVE AskedAt'
    <2>1. asked' = asked /\ (attempted => attempted') BY <1>4, TokenMoves, FilesStay
    <2>2. \A r \in Runs : run'[r].at = "init" => run[r].at = "init" BY <1>1, <1>4
    <2>. QED BY <2>1, <2>2 DEF AskedAt, InitAskedOnce
<1>. QED BY <1>2, <1>3, <1>4 DEF AskedAt

\* What has appeared is there for good: the place of a run that stays is as it was.
LEMMA PlaceStays ==
    ASSUME TypeOK, ClustersAt, PinsAt, [Next]_vars, NEW r \in Runs, run'[r] = run[r]
    PROVE  /\ PlaceOf(r)'
           /\ run[r].seen = marker => run'[r].seen = marker'
<1>0. Nothing \notin Clusters /\ Nothing # 0 BY FixtureAssumption DEF Clusters
<1>1. PlaceOf(r) BY DEF PinsAt, PlaceAt
<1>2. \A c : Past(c) => Past(c)' BY PastStays DEF ClustersAt
<1>3. token \in Clusters => token' = token BY <1>0, FilesStay
<1>4. platform \in [image : Images, cluster : Clusters] => platform' = platform
    <2>1. Nothing \notin [image : Images, cluster : Clusters] BY FixtureAssumption DEF Clusters
    <2>. QED BY <2>1, FilesStay
<1>5. ASSUME run[r].at = "files", NEW f \in {"a", "b"}, f \notin run[r].todo
      PROVE  pins'[f] = run[r].supply[f]
    <2>1. pins[f] = run[r].supply[f] /\ run[r].supply \in Supplies BY <1>1, <1>5 DEF PlaceOf
    <2>2. pins[f] # Nothing BY <2>1, FixtureAssumption
    <2>. QED BY <2>1, <2>2, FilesStay DEF PinFiles
<1>6. PlaceOf(r)' BY <1>1, <1>2, <1>3, <1>4, <1>5 DEF PlaceOf, Past
<1>7. run[r].seen = marker => run'[r].seen = marker' BY <1>0, RunFields, FilesStay
<1>. QED BY <1>6, <1>7

\* Where a step takes its run, and the fields it leaves alone.
LEMMA MovesTo == ASSUME TypeOK, NEW r \in Runs PROVE \A s : To(r, s) => run'[r] = s
BY DEF TypeOK, To

Kept(r) ==
    /\ run'[r].seen = run[r].seen /\ run'[r].step = run[r].step
    /\ run'[r].image = run[r].image /\ run'[r].supply = run[r].supply
    /\ run'[r].usesPlatform = run[r].usesPlatform /\ run'[r].todo = run[r].todo

LEMMA GoesKeeps ==
    ASSUME TypeOK, NEW r \in Runs, NEW a, Goes(r, a)
    PROVE  run'[r].at = a /\ Kept(r)
<1>1. run'[r] = [run[r] EXCEPT !.at = a] BY MovesTo DEF Goes
<1>. QED BY <1>1, RunFields DEF RunState, Kept

\* What a run that goes on knows of the bootstrap.
KnowsMarker(r) ==
    run[r].at \in {"platform", "pin", "stop", "recreate", "runtime", "files", "fleet", "done"}
    => run[r].seen = marker

\* Every step takes its run to a place it has a right to.
LEMMA PlaceMoves ==
    ASSUME TypeOK, ClustersAt, PinsAt, NEW r \in Runs, Up(r)
    PROVE  PlaceOf(r)' /\ KnowsMarker(r)'
<1>. DEFINE Goal == PlaceOf(r)' /\ KnowsMarker(r)'
            Records == [image : Images, cluster : Clusters]
<1>. USE DEF PlaceOf, KnowsMarker, Kept
<1>0. /\ PlaceOf(r) /\ KnowsMarker(r)
      /\ Nothing \notin Clusters /\ Torn \notin Clusters /\ Nothing # 0 /\ Torn # 0
    BY FixtureAssumption DEF PinsAt, PlaceAt, GoesOnWithOriginal, Clusters
<1>30. Failed(r) => run'[r].at = "failed" /\ ~run'[r].usesPlatform
    BY DEF Failed, To, TypeOK, Waiting
<1>31. Failed(r) => Goal BY <1>30
<1>32. MaxClusters \in Nat /\ cluster \in Nat /\ created \in Nat /\ cluster <= created
    BY FixtureAssumption DEF TypeOK, ClustersAt, Clusters
<1>1. CASE Begin(r)
    <2>1. run'[r].at = "up" /\ (run'[r].usesPlatform => platform # Nothing) /\ platform' = platform
        <3>1. PICK i \in Images \cup {Nothing}, s \in Supplies \cup {Nothing} :
                  To(r, [Waiting EXCEPT !.at = "up", !.image = i, !.supply = s,
                                        !.usesPlatform = platform # Nothing,
                                        !.usesRuntime = pins["env"] # Nothing])
            BY <1>1 DEF Begin, Only
        <3>2. run'[r] = [Waiting EXCEPT !.at = "up", !.image = i, !.supply = s,
                                        !.usesPlatform = platform # Nothing,
                                        !.usesRuntime = pins["env"] # Nothing]
            BY <3>1, MovesTo, Zenon
        <3>. QED BY <1>1, <3>2 DEF Begin, Only, Waiting, files
    <2>2. platform # Torn BY <1>1 DEF Begin
    <2>. QED BY <2>1, <2>2 DEF TypeOK
<1>2. CASE ComposeData(r)
    <2>1. Goes(r, "listen") /\ platform' = platform BY <1>2 DEF ComposeData, files
    <2>2. run'[r].at = "listen" /\ Kept(r) BY <2>1, GoesKeeps
    <2>. QED BY <1>0, <2>1, <2>2
<1>3. CASE Listen(r)
    <2>1. Goes(r, IF cluster = 0 THEN "attempt" ELSE "token") /\ platform' = platform
        BY <1>3 DEF Listen, Only, Goes, files
    <2>2. run'[r].at \in {"attempt", "token"} /\ Kept(r) BY <2>1, GoesKeeps
    <2>. QED BY <1>0, <2>1, <2>2
<1>4. CASE Attempt(r)
    <2>1. run'[r].at = "init" /\ Kept(r) BY <1>4, GoesKeeps DEF Attempt
    <2>. QED BY <1>0, <1>4, <2>1 DEF Attempt
<1>5. CASE AskInit(r)
    <2>1. ASSUME ~Failed(r)
          PROVE  /\ run'[r].at = "save" /\ run'[r].seen = created + 1
                 /\ run'[r].usesPlatform = run[r].usesPlatform /\ platform' = platform
                 /\ cluster' = created + 1 /\ created' = created + 1 /\ created < MaxClusters
        <3>1. /\ To(r, [run[r] EXCEPT !.at = "save", !.seen = created + 1])
              /\ created < MaxClusters /\ Initialize /\ UNCHANGED files
            BY <1>5, <2>1 DEF AskInit
        <3>2. run'[r] = [run[r] EXCEPT !.at = "save", !.seen = created + 1] BY <3>1, MovesTo, Zenon
        <3>3. /\ run'[r].at = "save" /\ run'[r].seen = created + 1
              /\ run'[r].usesPlatform = run[r].usesPlatform
            BY <3>2, RunFields DEF RunState
        <3>. QED BY <3>1, <3>3 DEF Initialize, files
    <2>2. ASSUME ~Failed(r) PROVE Past(run[r].seen)'
        BY <1>32, <2>1, <2>2 DEF Past, Clusters
    <2>3. ASSUME ~Failed(r) PROVE Goal BY <1>0, <2>1, <2>2, <2>3
    <2>. QED BY <1>31, <2>3
<1>6. CASE Save(r)
    <2>1. ASSUME ~Failed(r) PROVE Goes(r, "token") /\ platform' = platform
        BY <1>6, <2>1 DEF Save
    <2>2. ASSUME ~Failed(r) PROVE Goal
        <3>1. run'[r].at = "token" /\ Kept(r) BY <2>1, <2>2, GoesKeeps
        <3>. QED BY <1>0, <2>1, <2>2, <3>1
    <2>. QED BY <1>31, <2>2
<1>7. CASE Health(r)
    <2>1. /\ To(r, [run[r] EXCEPT !.at = "check", !.seen = cluster]) /\ cluster # 0
          /\ UNCHANGED <<files, data>> /\ token \in Clusters
        BY <1>7 DEF Health, Only, TypeOK
    <2>2. /\ run'[r].at = "check" /\ run'[r].seen = cluster
          /\ run'[r].usesPlatform = run[r].usesPlatform
        <3>1. run'[r] = [run[r] EXCEPT !.at = "check", !.seen = cluster] BY <2>1, MovesTo, Zenon
        <3>. QED BY <3>1, RunFields DEF RunState
    <2>3. Past(token) /\ cluster \in Clusters BY <2>1 DEF ClustersAt, TypeOK
    <2>4. UNCHANGED <<cluster, created, token, platform>> BY <2>1 DEF files, data
    <2>5. Past(run[r].seen)' /\ token <= cluster BY <1>32, <2>1, <2>2, <2>3, <2>4 DEF Past
    <2>. QED BY <1>0, <2>1, <2>2, <2>4, <2>5
<1>8. CASE CheckMarker(r)
    <2>1. UNCHANGED <<cluster, created, token, marker, platform, pins>>
        BY <1>8 DEF CheckMarker, Only, files, data
    <2>2. run[r].at = "check" BY <1>8 DEF CheckMarker
    <2>3. CASE To(r, [run[r] EXCEPT !.at = "boot", !.step = 1])
        <3>1. /\ run'[r].at = "boot" /\ run'[r].step = 1 /\ run'[r].seen = run[r].seen
              /\ run'[r].usesPlatform = run[r].usesPlatform
            <4>1. run'[r] = [run[r] EXCEPT !.at = "boot", !.step = 1] BY <2>3, MovesTo, Zenon
            <4>. QED BY <4>1, RunFields DEF RunState
        <3>. QED BY <1>0, <2>1, <2>2, <3>1 DEF Past
    <2>4. CASE Goes(r, Bootstrapped(r)) /\ run[r].seen = marker
        <3>1. run'[r].at = Bootstrapped(r) /\ Kept(r) BY <2>4, GoesKeeps
        <3>. QED BY <1>0, <2>1, <2>4, <3>1, BootstrappedIs
    <2>. QED BY <1>8, <2>3, <2>4 DEF CheckMarker, Only, Goes, Trusted
<1>9. CASE Request(r)
    <2>1. ASSUME ~Failed(r)
          PROVE  /\ run[r].at = "boot" /\ token = cluster /\ To(r, NextStep(r))
                 /\ UNCHANGED <<cluster, created, token, platform>>
        BY <1>9, <2>1 DEF Request, Answered, Accepts, Execute, files
    <2>2. ASSUME ~Failed(r) PROVE run[r].seen = token
        BY <1>0, <1>32, <2>1, <2>2 DEF Past, Clusters
    <2>3. ASSUME ~Failed(r)
          PROVE  /\ run'[r].at \in {"boot", "publish"} /\ run'[r].seen = run[r].seen
                 /\ run'[r].step \in 0 .. 8 /\ (run'[r].at = "boot" => run'[r].step > 0)
                 /\ run'[r].usesPlatform = run[r].usesPlatform
        <3>1. run'[r] = NextStep(r) BY <2>1, <2>3 DEF To, TypeOK
        <3>. QED BY <2>1, <2>3, <3>1, RunFields, StepsAre DEF NextStep, RunState
    <2>4. ASSUME ~Failed(r) PROVE Goal BY <1>0, <2>1, <2>2, <2>3, <2>4 DEF Past
    <2>. QED BY <1>31, <2>4
<1>10. CASE Publish(r)
    <2>1. run'[r].at = "published" /\ Kept(r) BY <1>10, GoesKeeps DEF Publish
    <2>. QED BY <1>0, <1>10, <2>1 DEF Publish, files, data, Past
<1>11. CASE Published(r)
    <2>1. /\ Goes(r, "mark") /\ run[r].at = "published"
          /\ UNCHANGED <<cluster, created, token, platform>>
        BY <1>11 DEF Published, Only, Goes, files, data
    <2>2. run'[r].at = "mark" /\ Kept(r) BY <2>1, GoesKeeps
    <2>. QED BY <1>0, <2>1, <2>2 DEF Past
<1>12. CASE Mark(r)
    <2>1. ASSUME ~Failed(r)
          PROVE  Goes(r, Bootstrapped(r)) /\ marker' = run[r].seen /\ platform' = platform
        BY <1>12, <2>1 DEF Mark
    <2>2. ASSUME ~Failed(r) PROVE Goal
        <3>1. run'[r].at = Bootstrapped(r) /\ Kept(r) BY <2>1, <2>2, GoesKeeps
        <3>2. run[r].seen = token BY <1>0, <1>12 DEF Mark
        <3>. QED BY <1>0, <2>1, <2>2, <3>1, BootstrappedIs
    <2>. QED BY <1>31, <2>2
<1>13. CASE CheckPlatform(r)
    <2>1. /\ run[r].at = "platform" /\ UNCHANGED <<marker, platform>>
          /\ platform \in {Nothing, [Pinned(r) EXCEPT !.cluster = marker]}
          /\ To(r, [run[r] EXCEPT !.at = IF platform = Nothing THEN "pin" ELSE "stop",
                                  !.seen = marker])
        BY <1>13 DEF CheckPlatform, Only, files
    <2>2. run[r].image \in Images /\ marker \in Clusters
        BY <1>0, <2>1, RunFields DEF TypeOK
    <2>3. platform # Nothing => platform \in Records
        BY <2>1, <2>2 DEF Pinned
    <2>4. /\ run'[r].at = (IF platform = Nothing THEN "pin" ELSE "stop") /\ run'[r].seen = marker
          /\ run'[r].image = run[r].image /\ run'[r].usesPlatform = run[r].usesPlatform
        <3>1. run'[r] = [run[r] EXCEPT !.at = IF platform = Nothing THEN "pin" ELSE "stop",
                                       !.seen = marker]
            BY <2>1, MovesTo, Zenon
        <3>. QED BY <3>1, RunFields DEF RunState
    <2>. QED BY <1>0, <2>1, <2>2, <2>3, <2>4
<1>14. CASE PinPlatform(r)
    <2>1. run[r].image \in Images /\ run[r].seen \in Clusters /\ run[r].seen = marker
        BY <1>0, <1>14, RunFields DEF PinPlatform, TypeOK
    <2>2. ASSUME ~Failed(r)
          PROVE  Goes(r, "stop") /\ platform' = Pinned(r) /\ marker' = marker
        BY <1>14, <2>2 DEF PinPlatform
    <2>3. Pinned(r) \in Records BY <2>1 DEF Pinned
    <2>4. ASSUME ~Failed(r) PROVE Goal
        <3>1. run'[r].at = "stop" /\ Kept(r) BY <2>2, <2>4, GoesKeeps
        <3>. QED BY <1>0, <2>1, <2>2, <2>3, <2>4, <3>1
    <2>. QED BY <1>31, <2>4
<1>15. CASE StopOriginal(r)
    <2>1. run'[r].at = "recreate" /\ Kept(r) BY <1>15, GoesKeeps DEF StopOriginal
    <2>. QED BY <1>0, <1>15, <2>1 DEF StopOriginal, files
<1>16. CASE Recreate(r)
    <2>1. ASSUME ~Failed(r)
          PROVE  To(r, [run[r] EXCEPT !.at = "listen", !.again = TRUE]) /\ platform' = platform
        BY <1>16, <2>1 DEF Recreate, files
    <2>2. ASSUME ~Failed(r) PROVE Goal
        <3>1. run'[r] = [run[r] EXCEPT !.at = "listen", !.again = TRUE] BY <2>1, <2>2, MovesTo, Zenon
        <3>2. run'[r].at = "listen" /\ run'[r].usesPlatform = run[r].usesPlatform
            BY <3>1, RunFields DEF RunState
        <3>. QED BY <1>0, <2>1, <2>2, <3>2
    <2>. QED BY <1>31, <2>2
<1>17. CASE CheckRuntime(r)
    <2>1. /\ run[r].at = "runtime" /\ UNCHANGED <<marker, platform, pins>>
          /\ Fits(r)
          /\ To(r, [run[r] EXCEPT !.at = IF Absent = {} THEN "fleet" ELSE "files", !.todo = Absent])
        BY <1>17 DEF CheckRuntime, Only, files
    <2>2. /\ run'[r].at \in {"fleet", "files"} /\ run'[r].seen = run[r].seen
          /\ run'[r].supply = run[r].supply /\ run'[r].todo = Absent
          /\ run'[r].usesPlatform = run[r].usesPlatform
        <3>1. run'[r] = [run[r] EXCEPT !.at = IF Absent = {} THEN "fleet" ELSE "files",
                                       !.todo = Absent]
            BY <2>1, MovesTo, Zenon
        <3>. QED BY <3>1, RunFields DEF RunState
    <2>3. \A f \in {"a", "b"} : f \in Absent \/ pins[f] = run[r].supply[f]
        BY <2>1 DEF Fits, Wanted, Absent, PinFiles
    <2>. QED BY <1>0, <2>1, <2>2, <2>3
<1>18. CASE PublishPin(r)
    <2>1. ASSUME ~Failed(r), NEW f \in run[r].todo, pins' = [pins EXCEPT ![f] = Wanted(r, f)],
                 To(r, [run[r] EXCEPT !.todo = @ \ {f},
                                      !.at = IF run[r].todo = {f} THEN "fleet" ELSE @]),
                 run[r].at = "files", UNCHANGED <<marker, platform>>
          PROVE  Goal
        <3>1. run'[r] = [run[r] EXCEPT !.todo = run[r].todo \ {f},
                                       !.at = IF run[r].todo = {f} THEN "fleet" ELSE run[r].at]
            BY <2>1 DEF To, TypeOK
        <3>2. /\ run'[r].at \in {"fleet", "files"} /\ run'[r].seen = run[r].seen
              /\ run'[r].supply = run[r].supply /\ run'[r].todo = run[r].todo \ {f}
              /\ run'[r].usesPlatform = run[r].usesPlatform
            BY <2>1, <3>1, RunFields DEF RunState
        <3>3. \A g \in {"a", "b"} : g \in run'[r].todo \/ pins'[g] = run[r].supply[g]
            BY <1>0, <2>1, <3>2 DEF Wanted, TypeOK, PinFiles
        <3>. QED BY <1>0, <2>1, <3>2, <3>3
    <2>2. ASSUME ~Failed(r) PROVE Goal
        <3>. HIDE DEF Goal
        <3>. QED BY <1>18, <2>1, <2>2 DEF PublishPin
    <2>. QED BY <1>31, <2>2
<1>19. CASE StartFleet(r)
    <2>1. Goes(r, "done") /\ run[r].at = "fleet" /\ UNCHANGED <<marker, platform>>
        BY <1>19 DEF StartFleet, Only, Goes, files
    <2>2. run'[r].at = "done" /\ Kept(r) BY <2>1, GoesKeeps
    <2>. QED BY <1>0, <2>1, <2>2
<1>20. CASE Fail(r) BY <1>20, <1>31 DEF Fail, Only, Failed
<1>. QED
    BY <1>1, <1>2, <1>3, <1>4, <1>5, <1>6, <1>7, <1>8, <1>9, <1>10, <1>11, <1>12, <1>13, <1>14,
       <1>15, <1>16, <1>17, <1>18, <1>19, <1>20 DEF Up

\* What is pinned keeps to the recorded cluster, and to one another.
LEMMA AgreedGoesOn ==
    ASSUME TypeOK, ClustersAt, PinsAt, [Next]_vars
    PROVE  PinsAgree'
<1>0. /\ Nothing \notin Clusters /\ Torn \notin Clusters /\ Nothing # 0 /\ Torn # 0
      /\ Nothing \notin Supplies /\ Torn \notin Supplies
      /\ \A s \in Supplies : Nothing # s["a"] /\ Nothing # s["b"]
    BY FixtureAssumption DEF Clusters
<1>1. (platform \notin {Nothing, Torn} => platform.cluster = marker)'
    <2>1. CASE platform' = platform /\ platform' \notin {Nothing, Torn}
        <3>1. platform.cluster = marker /\ platform.cluster \in Clusters
            BY <2>1 DEF PinsAt, PinsAgree, TypeOK
        <3>2. marker' = marker BY <1>0, <3>1, FilesStay
        <3>. QED BY <2>1, <3>1, <3>2
    <2>2. ASSUME NEW r \in Runs, PinPlatform(r), platform' \notin {Nothing, Torn}
          PROVE  platform'.cluster = marker'
        <3>1. run[r].at = "pin" /\ platform' = Pinned(r) /\ marker' = marker
            BY <2>2 DEF PinPlatform
        <3>. QED BY <3>1 DEF PinsAt, GoesOnWithOriginal, Pinned
    <2>. QED BY <2>1, <2>2, TokenMoves
<1>2. (pins["env"] \in Supplies => pins["a"] = pins["env"]["a"] /\ pins["b"] = pins["env"]["b"])'
    <2>1. CASE pins' = pins BY <2>1 DEF PinsAt, PinsAgree
    <2>2. ASSUME NEW r \in Runs, PublishPin(r), pins'["env"] \in Supplies
          PROVE  pins'["a"] = pins'["env"]["a"] /\ pins'["b"] = pins'["env"]["b"]
        <3>1. PICK f \in run[r].todo :
                  /\ run[r].at = "files" /\ run[r].todo \cap Before(f) = {} /\ pins[f] = Nothing
                  /\ \/ pins' = [pins EXCEPT ![f] = Wanted(r, f)]
                     \/ pins' = [pins EXCEPT ![f] = Torn]
            BY <2>2 DEF PublishPin
        <3>2. f \in PinFiles BY <3>1, RunFields
        <3>3. CASE f = "env"
            <4>1. "a" \notin run[r].todo /\ "b" \notin run[r].todo
                BY <3>1, <3>3 DEF Before
            <4>2. pins["a"] = run[r].supply["a"] /\ pins["b"] = run[r].supply["b"]
                BY <3>1, <4>1 DEF PinsAt, PlaceAt, PlaceOf
            <4>3. pins'["env"] = run[r].supply
                BY <1>0, <2>2, <3>1, <3>3 DEF Wanted, TypeOK, PinFiles
            <4>. QED BY <3>1, <3>3, <4>2, <4>3 DEF TypeOK, PinFiles
        <3>4. CASE f # "env"
            <4>1. pins'["env"] = pins["env"] BY <3>1, <3>4 DEF TypeOK, PinFiles
            <4>2. pins["a"] = pins["env"]["a"] /\ pins["b"] = pins["env"]["b"]
                BY <2>2, <4>1 DEF PinsAt, PinsAgree
            <4>3. pins["a"] # Nothing /\ pins["b"] # Nothing BY <1>0, <2>2, <4>1, <4>2
            <4>. QED BY <3>1, <3>2, <3>4, <4>3 DEF PinFiles
        <3>. QED BY <3>3, <3>4
    <2>. QED BY <2>1, <2>2, TokenMoves
<1>. QED BY <1>1, <1>2 DEF PinsAgree

LEMMA PinsGoOn ==
    ASSUME TypeOK, ClustersAt, PinsAt, [Next]_vars
    PROVE  PinsAt'
<1>1. ASSUME NEW r \in Runs PROVE PlaceOf(r)' /\ KnowsMarker(r)'
    <2>1. CASE run'[r] = run[r]
        <3>1. KnowsMarker(r) BY DEF PinsAt, GoesOnWithOriginal, KnowsMarker
        <3>. QED BY <2>1, <3>1, PlaceStays DEF KnowsMarker
    <2>2. CASE run'[r] # run[r] BY <2>2, OnlyUpMoves, PlaceMoves
    <2>. QED BY <2>1, <2>2
<1>2. PlaceAt' /\ GoesOnWithOriginal' BY <1>1 DEF PlaceAt, GoesOnWithOriginal, KnowsMarker
<1>. QED BY <1>2, AgreedGoesOn DEF PinsAt

-----------------------------------------------------------------------------
(* The owner of the bootstrap, and its work.                               *)

\* What has carried out something owned the bootstrap, or does so by its first mount.
LEMMA Workers ==
    ASSUME TypeOK, PinsAt, NEW r \in Runs, NEW op \in Ops, Works(r, op)
    PROVE  /\ token = cluster /\ UNCHANGED <<cluster, token, creds>>
           /\ op # "transit" => Owns(r)
           /\ op = "transit" => "transit" \notin done /\ "transit" \in done'
           /\ run'[r] = run[r] \/ (run[r].at = "boot" /\ op = Steps[run[r].step])
<1>1. token = cluster /\ UNCHANGED <<cluster, token, creds>> BY DEF Works, Accepts, Execute, files
<1>2. op = "transit" => "transit" \notin done /\ "transit" \in done'
    BY DEF Works, Accepts, Execute, Mounts
<1>3. op # "transit" => Owns(r)
    <2>1. CASE run[r].at = "boot" /\ run[r].step \in 1 .. 8 /\ op = Steps[run[r].step]
        BY <2>1, StepsAre DEF Owns
    <2>2. CASE [op |-> op, run |-> r] \in late
        <3>1. op # "init" BY StepsAre
        <3>. QED BY <2>2, <3>1 DEF Owns
    <2>. QED BY <2>1, <2>2 DEF Works
<1>4. run'[r] = run[r] \/ (run[r].at = "boot" /\ op = Steps[run[r].step]) BY DEF Works
<1>. QED BY <1>1, <1>2, <1>3, <1>4

\* The bootstrap goes to another run only by its first mount.
LEMMA OwnersStay ==
    ASSUME TypeOK, PinsAt, [Next]_vars, NEW r \in Runs, Owns(r)'
    PROVE  \/ Owns(r)
           \/ token = cluster /\ "transit" \notin done /\ Works(r, "transit")
<1>. SUFFICES ASSUME ~Owns(r)
              PROVE  token = cluster /\ "transit" \notin done /\ Works(r, "transit")
    OBVIOUS
<1>0. TypeOK' BY TypeGoesOn
<1>1. CASE run'[r].at = "boot" /\ run'[r].step > 1
    <2>1. run'[r] # run[r] BY <1>1 DEF Owns
    <2>2. Up(r) BY <2>1, OnlyUpMoves
    <2>3. run[r].at = "boot" /\ Request(r) /\ ~Failed(r) /\ run[r].step < 8
        BY <1>1, <2>2, Arrivals
    <2>4. run[r].step = 1 BY <2>3, RunFields DEF Owns, PinsAt, PlaceAt, PlaceOf
    <2>5. /\ Accepts("transit") /\ Execute("transit", r) /\ To(r, NextStep(r))
          /\ UNCHANGED <<box, files, asked>>
        BY <2>3, <2>4, StepsAre DEF Request, Answered
    <2>6. run'[r] = NextStep(r) /\ \A q \in Runs \ {r} : run'[q] = run[q]
        BY <2>2, <2>5, MovesTo, RunsGoOn
    <2>. QED BY <2>3, <2>4, <2>5, <2>6, StepsAre DEF Works, Accepts, Mounts, box
<1>2. CASE run'[r].at \in {"publish", "published", "mark"}
    <2>1. run'[r] # run[r] BY <1>2 DEF Owns
    <2>2. Up(r) BY <2>1, OnlyUpMoves
    <2>3. CASE run'[r].at = "publish"
        <3>1. run[r].at = "boot" /\ run[r].step = 8 BY <2>2, <2>3, Arrivals
        <3>. QED BY <3>1 DEF Owns
    <2>4. CASE run'[r].at = "published" BY <2>2, <2>4, Arrivals DEF Owns, Publish
    <2>5. CASE run'[r].at = "mark" BY <2>2, <2>5, Arrivals DEF Owns, Published
    <2>. QED BY <1>2, <2>3, <2>4, <2>5
<1>3. CASE scripts'[r] # "none"
    <2>1. CASE Publish(r) BY <2>1 DEF Publish, Owns
    <2>2. CASE Script(r) BY <2>2 DEF Script, Owns
    <2>. QED BY <1>3, <2>1, <2>2, ScriptMoves DEF Owns
<1>4. ASSUME NEW m \in late', m.run = r, m.op \notin {"init", "transit"} PROVE FALSE
    <2>1. m \notin late BY <1>4 DEF Owns
    <2>2. run[r].at = "boot" /\ run[r].step \in 1 .. 8 /\ m.op = Steps[run[r].step]
        BY <1>4, <2>1, LateMoves
    <2>3. run[r].step # 1 BY <1>4, <2>2, StepsAre
    <2>. QED BY <2>2, <2>3 DEF Owns
<1>. QED BY <1>1, <1>2, <1>3, <1>4 DEF Owns

LEMMA OwnerGoesOn ==
    ASSUME TypeOK, ClustersAt, PinsAt, OneOwner, [Next]_vars
    PROVE  OneOwner'
<1>0. TypeOK' /\ PinsAt' BY TypeGoesOn, PinsGoOn
<1>1. ASSUME NEW m \in late' PROVE run'[m.run].at = "failed"
    <2>1. CASE m \in late
        <3>1. run[m.run].at = "failed" /\ m.run \in Runs BY <2>1 DEF OneOwner, TypeOK
        <3>. QED BY <3>1, OnlyUpMoves
    <2>. QED BY <2>1, LateMoves
<1>2. ASSUME NEW r \in Runs, Owns(r)'
      PROVE  token' \in Clusters /\ (cluster' = token' => "transit" \in done')
    <2>1. CASE Owns(r)
        <3>1. token \in Clusters /\ (cluster = token => "transit" \in done) BY <2>1 DEF OneOwner
        <3>2. token # Nothing BY <3>1, FixtureAssumption DEF Clusters
        <3>3. token' = token BY <3>2, FilesStay
        <3>. QED BY <3>1, <3>3, SameCluster
    <2>2. CASE Works(r, "transit")
        <3>1. token \in Clusters
            <4>1. CASE run[r].at = "boot" BY <4>1 DEF PinsAt, PlaceAt, PlaceOf
            <4>2. CASE run' = run /\ UNCHANGED scripts /\ late' \subseteq late
                <5>1. Owns(r) BY <1>2, <4>2 DEF Owns
                <5>. QED BY <5>1 DEF OneOwner
            <4>. QED BY <2>2, <4>1, <4>2 DEF Works
        <3>. QED BY <2>2, <3>1, Workers, StepsAre
    <2>. QED BY <1>2, <2>1, <2>2, OwnersStay
<1>3. ASSUME NEW r \in Runs, NEW q \in Runs, Owns(r)', Owns(q)' PROVE r = q
    <2>1. ASSUME NEW u \in Runs, NEW v \in Runs, Owns(u),
                 token = cluster, "transit" \notin done
          PROVE  FALSE
        BY <2>1 DEF OneOwner
    <2>2. CASE Owns(r) /\ Owns(q) BY <2>2 DEF OneOwner
    <2>3. CASE ~Owns(r) /\ ~Owns(q)
        <3>1. Works(r, "transit") /\ Works(q, "transit") BY <1>3, <2>3, OwnersStay
        <3>2. run'[r] # run[r] \/ scripts'[r] # scripts[r] \/ ~(late' \subseteq late)
            BY <1>3, <2>3 DEF Owns
        <3>3. run'[r] # run[r] BY <3>1, <3>2 DEF Works
        <3>4. run'[q] # run[q] \/ scripts'[q] # scripts[q] \/ ~(late' \subseteq late)
            BY <1>3, <2>3 DEF Owns
        <3>5. run'[q] # run[q] BY <3>1, <3>4 DEF Works
        <3>. QED BY <3>1, <3>3, <3>5 DEF Works
    <2>. QED BY <1>3, <2>1, <2>2, <2>3, OwnersStay
<1>. QED BY <1>1, <1>2, <1>3 DEF OneOwner

\* The keys are sealed once: what seals them finds none, and it is the owner.
LEMMA EnvelopeMoves ==
    ASSUME TypeOK, ClustersAt, PinsAt, OneOwner, DataAt, [Next]_vars,
           cluster' # 0, envelope' # envelope
    PROVE  /\ envelope = NoRun /\ token = cluster /\ UNCHANGED <<cluster, token>>
           /\ "transit" \in done
           /\ \E r \in Runs :
                 /\ Works(r, "envelope") /\ Owns(r) /\ envelope' = r
                 /\ \/ run[r].at = "boot" /\ run[r].step = 4 /\ run'[r] = NextStep(r)
                    \/ /\ run' = run /\ run[r].at = "failed" /\ UNCHANGED scripts
                       /\ [op |-> "envelope", run |-> r] \in late
                       /\ late' = late \ {[op |-> "envelope", run |-> r]}
<1>1. PICK r \in Runs, op \in Ops : Works(r, op) BY DataMoves
<1>2. op = "envelope" /\ envelope' = r BY <1>1 DEF Works, Execute
<1>3. Works(r, "envelope") /\ Owns(r) /\ token = cluster /\ UNCHANGED <<cluster, token>>
    BY <1>1, <1>2, Workers
<1>4. "transit" \in done BY <1>3 DEF OneOwner
<1>5. CASE run[r].at = "boot" /\ run[r].step \in 1 .. 8 /\ Steps[run[r].step] = "envelope"
            /\ run'[r] = NextStep(r)
    <2>1. run[r].step = 4 BY <1>5, StepsAre
    <2>2. envelope = NoRun BY <1>3, <1>5, <2>1 DEF DataAt
    <2>. QED BY <1>2, <1>3, <1>4, <1>5, <2>1, <2>2
<1>6. CASE /\ [op |-> "envelope", run |-> r] \in late /\ run' = run /\ UNCHANGED scripts
           /\ late' = late \ {[op |-> "envelope", run |-> r]}
    <2>1. envelope = NoRun BY <1>3, <1>6 DEF DataAt
    <2>2. run[r].at = "failed" BY <1>6 DEF OneOwner
    <2>. QED BY <1>2, <1>3, <1>4, <1>6, <2>1, <2>2
<1>. QED BY <1>2, <1>3, <1>5, <1>6 DEF Works

\* Where a run of the token's cluster is, so far its work has been done.
LEMMA WorkGoesOn ==
    ASSUME TypeOK, ClustersAt, PinsAt, OneOwner, DataAt, [Next]_vars,
           token \in Clusters, cluster' = token, NEW r \in Runs, run'[r].at = "boot"
    PROVE  /\ \A i \in 1 .. (run'[r].step - 1) : Steps[i] \in done'
           /\ run'[r].step \in 2 .. 4 => envelope' = NoRun
<1>0. token' = token /\ cluster = token /\ done \subseteq done' BY SameCluster
<1>1. cluster' # 0 BY FixtureAssumption DEF Clusters
<1>2. CASE run'[r] = run[r]
    <2>1. /\ \A i \in 1 .. (run[r].step - 1) : Steps[i] \in done
          /\ run[r].step \in 2 .. 4 => envelope = NoRun
        BY <1>0, <1>2 DEF DataAt
    <2>2. ASSUME run[r].step \in 2 .. 4 PROVE envelope' = envelope
        <3>1. Owns(r) BY <1>2, <2>2 DEF Owns
        <3>2. ASSUME NEW q \in Runs, Owns(q),
                     \/ run[q].at = "boot" /\ run[q].step = 4 /\ run'[q] = NextStep(q)
                     \/ run[q].at = "failed"
              PROVE  FALSE
            <4>1. q = r BY <3>1, <3>2 DEF OneOwner
            <4>2. run[r].step = 4 /\ run'[r] = NextStep(r) BY <1>2, <3>2, <4>1
            <4>3. NextStep(r).step = 5 BY <4>2, RunFields, StepsAre DEF NextStep, RunState
            <4>. QED BY <1>2, <4>2, <4>3
        <3>. QED BY <1>1, <3>2, EnvelopeMoves
    <2>. QED BY <1>0, <1>2, <2>1, <2>2
<1>3. CASE run'[r] # run[r]
    <2>1. Up(r) BY <1>3, OnlyUpMoves
    <2>2. CASE run'[r].step = 1 BY <2>2
    <2>3. CASE /\ run[r].at = "boot" /\ Request(r) /\ ~Failed(r)
               /\ run[r].step < 8 /\ run'[r].step = run[r].step + 1
        <3>1. /\ Accepts(Steps[run[r].step]) /\ Execute(Steps[run[r].step], r)
            BY <2>3 DEF Request, Answered
        <3>2. run[r].step \in 1 .. 7 BY <2>3, RunFields DEF PinsAt, PlaceAt, PlaceOf
        <3>3. \A i \in 1 .. run[r].step : Steps[i] \in done'
            BY <1>0, <2>3, <3>1, <3>2 DEF DataAt, Execute
        <3>4. ASSUME run[r].step < 4 PROVE envelope' = NoRun
            <4>1. Steps[run[r].step] # "envelope" BY <3>2, <3>4, StepsAre
            <4>2. envelope' = envelope BY <3>1, <4>1 DEF Execute
            <4>3. CASE run[r].step = 1
                <5>1. "transit" \notin done BY <3>1, <4>3, StepsAre DEF Accepts, Mounts
                <5>. QED BY <4>2, <5>1 DEF DataAt
            <4>4. CASE run[r].step \in 2 .. 3 BY <1>0, <2>3, <4>2, <4>4 DEF DataAt
            <4>. QED BY <3>2, <3>4, <4>3, <4>4
        <3>. QED BY <2>3, <3>2, <3>3, <3>4
    <2>. QED BY <2>1, <2>2, <2>3, Arrivals
<1>. QED BY <1>2, <1>3

\* Where a run publishes, everything has been carried out.
LEMMA AllDone ==
    ASSUME TypeOK, ClustersAt, PinsAt, DataAt, [Next]_vars,
           token \in Clusters, cluster' = token, NEW r \in Runs,
           run'[r].at \in {"publish", "published", "mark"}
    PROVE  done' = Ops /\ r \in secrets'
<1>0. /\ token' = token /\ cluster = token /\ done \subseteq done' /\ secrets \subseteq secrets'
      /\ done' \subseteq Ops
    BY SameCluster, TypeGoesOn DEF TypeOK
<1>1. CASE run[r].at \in {"publish", "published", "mark"} BY <1>0, <1>1 DEF DataAt
<1>2. CASE run[r].at \notin {"publish", "published", "mark"}
    <2>1. Up(r) BY <1>2, OnlyUpMoves
    <2>2. run[r].at = "boot" /\ Request(r) /\ ~Failed(r) /\ run[r].step = 8
        BY <1>2, <2>1, Arrivals DEF Publish, Published
    <2>3. Execute(Steps[8], r) BY <2>2 DEF Request
    <2>4. Steps[8] \in done' /\ r \in secrets' BY <2>3, StepsAre DEF Execute
    <2>5. \A i \in 1 .. 7 : Steps[i] \in done' BY <1>0, <2>2 DEF DataAt
    <2>6. \A i \in 1 .. 8 : Steps[i] \in done' BY <2>4, <2>5
    <2>. QED BY <1>0, <2>4, <2>6, StepsAre
<1>. QED BY <1>1, <1>2

LEMMA DataGoesOn ==
    ASSUME TypeOK, ClustersAt, PinsAt, OneOwner, DataAt, [Next]_vars
    PROVE  DataAt'
<1>0. /\ TypeOK' /\ PinsAt' /\ OneOwner' /\ ClustersAt'
      /\ Nothing \notin Clusters /\ Nothing # 0 /\ Torn # 0 /\ 0 \notin Clusters
    BY TypeGoesOn, PinsGoOn, OwnerGoesOn, ClustersGoOn, FixtureAssumption DEF Clusters
<1>1. ASSUME NEW r \in Runs, NEW op \in Ops, Works(r, op)
      PROVE  /\ cluster' # 0
             /\ done' = done \cup {op} /\ envelope' = IF op = "envelope" THEN r ELSE envelope
    BY <1>0, <1>1 DEF Works, Accepts, Execute, TypeOK
<1>2. (cluster = 0 => done = {} /\ envelope = NoRun /\ secrets = {})'
    BY <1>1, DataMoves DEF DataAt
<1>3. ("envelope" \in done => envelope # NoRun)'
    <2>1. ASSUME NEW r \in Runs, NEW op \in Ops, Works(r, op), "envelope" \in done'
          PROVE  envelope' # NoRun
        BY <1>1, <2>1, FixtureAssumption DEF DataAt
    <2>. QED BY <2>1, DataMoves DEF DataAt
<1>4. (envelope # NoRun => "transit" \in done)'
    <2>1. ASSUME NEW r \in Runs, NEW op \in Ops, Works(r, op), envelope' # NoRun
          PROVE  "transit" \in done'
        BY <1>0, <1>1, <2>1, EnvelopeMoves DEF DataAt
    <2>. QED BY <2>1, DataMoves DEF DataAt
<1>5. ASSUME cluster' = token', NEW m \in late', m.op = "envelope" PROVE envelope' = NoRun
    <2>0. m.run \in Runs /\ m = [op |-> "envelope", run |-> m.run] BY <1>0, <1>5 DEF TypeOK
    <2>1. Owns(m.run)' BY <1>5, <2>0 DEF Owns
    <2>2. token' \in Clusters BY <1>0, <2>0, <2>1 DEF OneOwner
    <2>3. CASE m \in late
        <3>1. Owns(m.run) /\ run[m.run].at = "failed" BY <1>5, <2>0, <2>3 DEF Owns, OneOwner
        <3>2. token \in Clusters BY <2>0, <3>1 DEF OneOwner
        <3>3. cluster = token /\ token' = token
            BY <1>0, <1>5, <3>2, SameCluster, FilesStay
        <3>4. envelope = NoRun BY <1>5, <2>3, <3>3 DEF DataAt
        <3>5. ASSUME envelope' # envelope PROVE FALSE
            <4>1. PICK r \in Runs :
                      /\ Owns(r)
                      /\ \/ run[r].at = "boot"
                         \/ /\ run[r].at = "failed"
                            /\ late' = late \ {[op |-> "envelope", run |-> r]}
                BY <1>0, <1>5, <2>2, <3>5, EnvelopeMoves
            <4>2. r = m.run BY <2>0, <3>1, <4>1 DEF OneOwner
            <4>. QED BY <1>5, <2>0, <3>1, <4>1, <4>2
        <3>. QED BY <3>4, <3>5
    <2>4. CASE m \notin late
        <3>1. /\ run[m.run].at = "boot" /\ run[m.run].step \in 1 .. 8
              /\ "envelope" = Steps[run[m.run].step]
              /\ UNCHANGED <<cluster, token, envelope>>
            BY <1>5, <2>4, LateMoves DEF files, data
        <3>2. run[m.run].step = 4 BY <3>1, StepsAre
        <3>3. cluster = token BY <1>5, <3>1
        <3>4. envelope = NoRun
            <4>1. run[m.run].step \in 2 .. 4 BY <3>2
            <4>2. \A r \in Runs : run[r].at = "boot" /\ run[r].step \in 2 .. 4 => envelope = NoRun
                BY <3>3 DEF DataAt
            <4>. QED BY <2>0, <3>1, <4>1, <4>2
        <3>. QED BY <3>1, <3>4
    <2>. QED BY <2>3, <2>4
<1>6. ASSUME cluster' = token', NEW r \in Runs,
             run'[r].at \in {"boot", "publish", "published", "mark"}
      PROVE  token \in Clusters /\ cluster' = token
    <2>1. token' \in Clusters BY <1>0, <1>6 DEF PinsAt, PlaceAt, PlaceOf
    <2>2. CASE token' = token BY <1>6, <2>1, <2>2
    <2>3. ASSUME NEW q \in Runs, Save(q) PROVE FALSE
        <3>1. (token = Nothing /\ token' = run[q].seen) \/ Failed(q)
            BY <2>3 DEF Save
        <3>2. run[q].at = "save" BY <2>3 DEF Save
        <3>3. r # q
            <4>1. run'[q].at \in {"token", "failed"}
                BY <2>3, GoesKeeps, MovesTo DEF Save, Failed, Waiting
            <4>. QED BY <1>6, <4>1
        <3>4. run'[r] = run[r] BY <2>3, <3>3, RunsGoOn DEF Up
        <3>5. token \in Clusters BY <1>6, <3>4 DEF PinsAt, PlaceAt, PlaceOf
        <3>. QED BY <1>0, <2>3, <3>5 DEF Save
    <2>. QED BY <2>2, <2>3, TokenMoves
<1>7. ASSUME cluster' = token', NEW r \in Runs, run'[r].at = "boot"
      PROVE  /\ \A i \in 1 .. (run'[r].step - 1) : Steps[i] \in done'
             /\ run'[r].step \in 2 .. 4 => envelope' = NoRun
    BY <1>6, <1>7, WorkGoesOn
<1>8. ASSUME cluster' = token', NEW r \in Runs, run'[r].at \in {"publish", "published", "mark"}
      PROVE  done' = Ops /\ r \in secrets'
    BY <1>6, <1>8, AllDone
<1>. QED BY <1>2, <1>3, <1>4, <1>5, <1>7, <1>8 DEF DataAt

-----------------------------------------------------------------------------
(* The credentials, and the recorded bootstrap.                            *)

\* The only script that runs is the owner's.
LEMMA ScriptsAndCreds ==
    ASSUME TypeOK, ClustersAt, PinsAt, OneOwner, CredsAt, [Next]_vars, NEW r \in Runs
    PROVE  /\ scripts'[r] = "empty" => creds' = "none"
           /\ scripts'[r] = "half" => creds' = "half"
           /\ scripts'[r] = "whole" => creds' = r
<1>1. CASE Script(r) BY <1>1 DEF Script, TypeOK, CredsAt
<1>2. CASE Publish(r) BY <1>2 DEF Publish, TypeOK
<1>3. CASE scripts'[r] = "none" BY <1>3
<1>4. CASE scripts'[r] = scripts[r] /\ ~Script(r) /\ scripts[r] # "none"
    <2>1. Owns(r) BY <1>4 DEF Owns
    <2>2. ASSUME NEW q \in Runs, Script(q) PROVE FALSE
        <3>1. Owns(q) BY <2>2 DEF Script, Owns
        <3>. QED BY <1>4, <2>1, <2>2, <3>1 DEF OneOwner
    <2>3. creds' = creds BY <1>4, <2>2, CredsMove
    <2>. QED BY <1>4, <2>3 DEF CredsAt
<1>. QED BY <1>1, <1>2, <1>3, <1>4, ScriptMoves

LEMMA MarkersCreds ==
    ASSUME TypeOK, ClustersAt, PinsAt, OneOwner, CredsAt, [Next]_vars,
           NEW r \in Runs, run'[r].at = "mark"
    PROVE  scripts'[r] \in {"none", "whole"} /\ creds' \in {r, "none"}
<1>1. CASE run[r].at # "mark"
    <2>1. Published(r) BY <1>1, OnlyUpMoves, Arrivals
    <2>2. scripts[r] = "whole" /\ UNCHANGED <<data, box>> BY <2>1 DEF Published, Only
    <2>. QED BY <2>2 DEF CredsAt, data, box
<1>2. CASE run[r].at = "mark"
    <2>1. Owns(r) BY <1>2 DEF Owns
    <2>2. scripts[r] \in {"none", "whole"} /\ creds \in {r, "none"} BY <1>2 DEF CredsAt
    <2>3. ASSUME NEW q \in Runs, Script(q) PROVE FALSE
        <3>1. Owns(q) BY <2>3 DEF Script, Owns
        <3>. QED BY <2>1, <2>2, <2>3, <3>1 DEF OneOwner, Script
    <2>4. ~Publish(r) BY <1>2 DEF Publish
    <2>5. scripts'[r] \in {"none", "whole"} BY <2>2, <2>3, <2>4, ScriptMoves
    <2>6. creds' \in {r, "none"} BY <2>2, <2>3, CredsMove
    <2>. QED BY <2>5, <2>6
<1>. QED BY <1>1, <1>2

\* A recorded cluster that is there was there, or has just been recorded by its owner.
LEMMA RecordedThen ==
    ASSUME TypeOK, ClustersAt, PinsAt, [Next]_vars, (marker = cluster)'
    PROVE  /\ token \in Clusters /\ token' = token /\ cluster = token /\ cluster' = token
           /\ \/ marker = cluster
              \/ \E r \in Runs : /\ Mark(r) /\ run'[r].at = Bootstrapped(r)
                                 /\ UNCHANGED <<data, scripts>>
                                 /\ \A q \in Runs \ {r} : run'[q] = run[q]
<1>0. Nothing \notin {0} \cup Clusters /\ Torn \notin {0} \cup Clusters
    BY FixtureAssumption DEF Clusters
<1>1. marker' \in Clusters /\ marker' = token'
    BY <1>0, ClustersGoOn, TypeGoesOn DEF TypeOK, ClustersAt
<1>2. CASE marker' = marker
    <2>1. marker = token /\ token \in Clusters BY <1>1, <1>2 DEF ClustersAt
    <2>2. token' = token /\ cluster = token BY <1>0, <1>1, <1>2, <2>1, SameCluster
    <2>. QED BY <1>1, <1>2, <2>1, <2>2
<1>3. ASSUME NEW r \in Runs, Mark(r) PROVE \/ /\ run'[r].at = Bootstrapped(r)
                                              /\ UNCHANGED <<data, scripts, token>>
                                           \/ marker' = Torn
    BY <1>3, GoesKeeps DEF Mark, box
<1>4. ASSUME NEW r \in Runs, Mark(r) PROVE \A q \in Runs \ {r} : run'[q] = run[q]
    BY <1>4, RunsGoOn DEF Up
<1>5. ASSUME NEW r \in Runs, Mark(r)
      PROVE  /\ run'[r].at = Bootstrapped(r) /\ UNCHANGED <<data, scripts, token>>
             /\ \A q \in Runs \ {r} : run'[q] = run[q]
             /\ token \in Clusters /\ cluster = token /\ cluster' = token
    BY <1>0, <1>1, <1>3, <1>4, <1>5 DEF data
<1>. QED BY <1>2, <1>5, TokenMoves

\* Where the recorded cluster is there, no bootstrap is in flight.
LEMMA NoneInFlight ==
    ASSUME FixtureInv, [Next]_vars, (marker = cluster)', NEW r \in Runs
    PROVE  /\ ~(run'[r].at = "boot" /\ run'[r].step > 1)
           /\ run'[r].at \notin {"publish", "published", "mark"}
           /\ scripts'[r] \notin {"begun", "empty", "half"}
<1>. USE DEF FixtureInv
<1>1. CASE marker = cluster
    <2>1. /\ ~(run[r].at = "boot" /\ run[r].step > 1)
          /\ run[r].at \notin {"publish", "published", "mark"}
          /\ scripts[r] \notin {"begun", "empty", "half"}
          /\ done = Ops
        BY <1>1 DEF CredsAt, BootstrapIsWhole
    <2>2. ~(run'[r].at = "boot" /\ run'[r].step > 1)
        <3>1. SUFFICES ASSUME run'[r].at = "boot", run'[r].step > 1 PROVE FALSE OBVIOUS
        <3>2. run'[r] # run[r] BY <2>1, <3>1
        <3>3. run[r].at = "boot" /\ Request(r) /\ ~Failed(r) /\ run'[r].step = run[r].step + 1
            BY <3>1, <3>2, OnlyUpMoves, Arrivals
        <3>4. run[r].step = 1 BY <2>1, <3>3, RunFields DEF PinsAt, PlaceAt, PlaceOf
        <3>5. Accepts("transit") BY <3>3, <3>4, StepsAre DEF Request, Answered
        <3>. QED BY <2>1, <3>5, StepsAre DEF Accepts, Mounts
    <2>3. run'[r].at \notin {"publish", "published", "mark"}
        <3>1. SUFFICES ASSUME run'[r].at \in {"publish", "published", "mark"} PROVE FALSE OBVIOUS
        <3>2. Up(r) BY <2>1, <3>1, OnlyUpMoves
        <3>3. CASE run'[r].at = "publish"
            <4>1. run[r].at = "boot" /\ run[r].step = 8 BY <3>2, <3>3, Arrivals
            <4>. QED BY <2>1, <4>1
        <3>4. CASE run'[r].at = "published" BY <2>1, <3>2, <3>4, Arrivals DEF Publish
        <3>5. CASE run'[r].at = "mark" BY <2>1, <3>2, <3>5, Arrivals DEF Published
        <3>. QED BY <3>1, <3>3, <3>4, <3>5
    <2>4. scripts'[r] \notin {"begun", "empty", "half"}
        BY <2>1, ScriptMoves DEF Publish, Script
    <2>. QED BY <2>2, <2>3, <2>4
<1>2. ASSUME NEW q \in Runs, Mark(q), run'[q].at = Bootstrapped(q), UNCHANGED scripts,
             \A u \in Runs \ {q} : run'[u] = run[u]
      PROVE  /\ ~(run'[r].at = "boot" /\ run'[r].step > 1)
             /\ run'[r].at \notin {"publish", "published", "mark"}
             /\ scripts'[r] \notin {"begun", "empty", "half"}
    <2>1. run[q].at = "mark" BY <1>2 DEF Mark
    <2>2. Owns(q) BY <2>1 DEF Owns
    <2>3. CASE r = q
        <3>1. run'[q].at \in {"platform", "runtime", "fleet", "done"} BY <1>2, BootstrappedIs
        <3>2. scripts[q] \in {"none", "whole"} BY <2>1 DEF CredsAt
        <3>. QED BY <1>2, <2>3, <3>1, <3>2
    <2>4. CASE r # q
        <3>1. ~Owns(r) BY <2>2, <2>4 DEF OneOwner
        <3>. QED BY <1>2, <2>4, <3>1 DEF Owns
    <2>. QED BY <2>3, <2>4
<1>. QED BY <1>1, <1>2, RecordedThen

LEMMA CredsGoOn == ASSUME FixtureInv, [Next]_vars PROVE CredsAt'
<1>1. ASSUME NEW r \in Runs
      PROVE  /\ scripts'[r] = "empty" => creds' = "none"
             /\ scripts'[r] = "half" => creds' = "half"
             /\ scripts'[r] = "whole" => creds' = r
             /\ run'[r].at = "mark" => scripts'[r] \in {"none", "whole"} /\ creds' \in {r, "none"}
    BY ScriptsAndCreds, MarkersCreds DEF FixtureInv
<1>. QED BY <1>1, NoneInFlight DEF CredsAt

\* The recorded bootstrap stays whole.
LEMMA WholeGoesOn == ASSUME FixtureInv, [Next]_vars PROVE BootstrapIsWhole'
<1>. SUFFICES ASSUME (marker = cluster)'
              PROVE  done' = Ops /\ envelope' # NoRun /\ creds' \in secrets' \cup {"none"}
    BY DEF BootstrapIsWhole
<1>. USE DEF FixtureInv
<1>0. /\ token \in Clusters /\ token' = token /\ cluster = token /\ cluster' = token
      /\ done \subseteq done' /\ secrets \subseteq secrets' /\ done' \subseteq Ops
    BY RecordedThen, SameCluster, TypeGoesOn DEF TypeOK
<1>1. CASE marker = cluster
    <2>1. done = Ops /\ envelope # NoRun /\ creds \in secrets \cup {"none"}
        BY <1>1 DEF BootstrapIsWhole
    <2>2. envelope' = envelope
        <3>1. cluster' # 0 BY <1>0, FixtureAssumption DEF Clusters
        <3>. QED BY <2>1, <3>1, EnvelopeMoves
    <2>3. \A r \in Runs : scripts[r] \notin {"empty", "half"} BY <1>1 DEF CredsAt
    <2>4. creds' \in {creds, "none"} BY <2>3, CredsMove
    <2>. QED BY <1>0, <2>1, <2>2, <2>4
<1>2. ASSUME NEW r \in Runs, Mark(r), UNCHANGED data
      PROVE  done' = Ops /\ envelope' # NoRun /\ creds' \in secrets' \cup {"none"}
    <2>1. run[r].at = "mark" BY <1>2 DEF Mark
    <2>2. done = Ops /\ r \in secrets BY <1>0, <2>1 DEF DataAt
    <2>3. envelope # NoRun BY <2>2, StepsAre DEF DataAt
    <2>4. creds \in {r, "none"} BY <2>1 DEF CredsAt
    <2>. QED BY <1>2, <2>2, <2>3, <2>4 DEF data
<1>. QED BY <1>1, <1>2, RecordedThen

-----------------------------------------------------------------------------
(* The theorems.                                                           *)

LEMMA FixtureBegins == ASSUME Init PROVE FixtureInv
<1>0. /\ Nothing \notin Clusters /\ Torn \notin Clusters /\ Nothing # 0 /\ Nothing # Torn
      /\ Nothing \notin Supplies
    BY FixtureAssumption DEF Clusters
<1>1. TypeOK
    <2>1. run \in [Runs -> RunState] BY WaitingIsRun DEF Init
    <2>2. pins \in [PinFiles -> {Nothing, Torn} \cup Supplies \cup {s[f] : s \in Supplies, f \in {"a", "b"}}]
        BY DEF Init
    <2>3. scripts \in [Runs -> {"none", "begun", "empty", "half", "whole", "refused"}] BY DEF Init
    <2>4. attempted \in BOOLEAN /\ asked \in Nat /\ late \subseteq [op : Ops \cup {"init"}, run : Runs]
        BY DEF Init
    <2>5. /\ token \in {Nothing, Torn} \cup Clusters /\ marker \in {Nothing, Torn} \cup Clusters
          /\ platform \in {Nothing, Torn} \cup [image : Images, cluster : Clusters]
          /\ cluster \in {0} \cup Clusters /\ created \in {0} \cup Clusters
        BY DEF Init
    <2>6. /\ done \subseteq Ops /\ envelope \in Runs \cup {NoRun} /\ secrets \subseteq Runs
          /\ creds \in {"none", "half"} \cup Runs
          /\ bao \in {"off", "sealed", "open"} /\ image \in Images \cup {"base"}
        BY DEF Init
    <2>. QED BY <2>1, <2>2, <2>3, <2>4, <2>5, <2>6, SMT DEF TypeOK
<1>2. \A r \in Runs : run[r].at = "start" /\ ~run[r].usesPlatform /\ scripts[r] = "none"
    BY DEF Init, Waiting
<1>3. ClustersAt /\ AskedAt BY <1>0, <1>2 DEF Init, ClustersAt, AskedAt, InitAskedOnce
<1>4. PinsAt
    <2>1. PlaceAt BY <1>2 DEF Init, PlaceAt, PlaceOf
    <2>2. GoesOnWithOriginal BY <1>2 DEF GoesOnWithOriginal
    <2>3. PinsAgree BY <1>0 DEF Init, PinsAgree, PinFiles
    <2>. QED BY <2>1, <2>2, <2>3 DEF PinsAt
<1>5. OneOwner
    <2>1. \A r \in Runs : ~Owns(r) BY <1>2 DEF Init, Owns
    <2>. QED BY <2>1 DEF Init, OneOwner
<1>6. marker # cluster BY <1>0 DEF Init
<1>7. DataAt BY <1>2 DEF Init, DataAt
<1>8. CredsAt BY <1>2, <1>6 DEF CredsAt
<1>9. BootstrapIsWhole BY <1>6 DEF BootstrapIsWhole
<1>. QED BY <1>1, <1>3, <1>4, <1>5, <1>7, <1>8, <1>9 DEF FixtureInv

LEMMA FixtureGoesOn == ASSUME FixtureInv, [Next]_vars PROVE FixtureInv'
BY TypeGoesOn, ClustersGoOn, AskedGoesOn, PinsGoOn, OwnerGoesOn, DataGoesOn, CredsGoOn, WholeGoesOn
DEF FixtureInv

\* The invariant holds whatever the runs, the operator and the delays do.
THEOREM FixtureInvHolds == Spec => []FixtureInv
BY FixtureBegins, FixtureGoesOn, PTL DEF Spec

\* The files, the volumes, the container and the runs keep to their domains; in
\* particular every run goes on with an image, a runtime and a cluster there is.
THEOREM FixtureTypeCorrect == Spec => []TypeOK
<1>1. FixtureInv => TypeOK BY DEF FixtureInv
<1>. QED BY <1>1, FixtureInvHolds, PTL

\* "never retry/reinitialize automatically": however many runs of up there are,
\* and whatever became of the first request, initialize() asks OpenBao once.
THEOREM InitAskedAtMostOnce == Spec => []InitAskedOnce
<1>1. FixtureInv => InitAskedOnce BY DEF FixtureInv, AskedAt
<1>. QED BY <1>1, FixtureInvHolds, PTL

\* While the cluster of bao-bootstrap.json runs, everything bootstrap() asks for
\* has been carried out, and the volume holds a pair that cluster accepts.
THEOREM BootstrapStaysWhole == Spec => []BootstrapIsWhole
<1>1. FixtureInv => BootstrapIsWhole BY DEF FixtureInv
<1>. QED BY <1>1, FixtureInvHolds, PTL

\* configure_platform, configure_runtime and the start of the fleet are reached
\* only by runs that have seen the recorded cluster.
THEOREM GoesOnOnlyWithOriginal == Spec => []GoesOnWithOriginal
<1>1. FixtureInv => GoesOnWithOriginal BY DEF FixtureInv, PinsAt
<1>. QED BY <1>1, FixtureInvHolds, PTL

\* What several runs pin is the pin of one of them: platform.env names the recorded
\* cluster, and runtime.env the inventories beside it.
THEOREM PinsStayAgreed == Spec => []PinsAgree
<1>1. FixtureInv => PinsAgree BY DEF FixtureInv, PinsAt
<1>. QED BY <1>1, FixtureInvHolds, PTL

\* The envelope of the API's keys is sealed once for a cluster: neither another
\* run nor a request that comes late replaces it.
THEOREM EnvelopeStaysOriginal == Spec => EnvelopeIsOriginal
<1>1. ASSUME FixtureInv, [Next]_vars, envelope # NoRun, cluster' = cluster
      PROVE  envelope' = envelope
    <2>1. cluster # 0 BY <1>1 DEF FixtureInv, DataAt
    <2>. QED BY <1>1, <2>1, EnvelopeMoves DEF FixtureInv
<1>2. FixtureInv /\ [Next]_vars => [envelope # NoRun /\ cluster' = cluster => envelope' = envelope]_vars
    BY <1>1
<1>. QED BY <1>2, FixtureInvHolds, PTL DEF Spec, EnvelopeIsOriginal

=============================================================================
