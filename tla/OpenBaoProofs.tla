---------------------------- MODULE OpenBaoProofs ---------------------------
(***************************************************************************)
(* Proofs about the programs around OpenBao: the rotation of credentials,  *)
(* its supervisor, its initialization and the provisioning of AppRoles.    *)
(***************************************************************************)
EXTENDS CredentialRotation, PlatformSupervisor, OperatorInit, AppRoleProvision, TLAPS

-----------------------------------------------------------------------------
(* CredentialRotation.  Whoever starts the command holds the attempt of    *)
(* its output, and what a file says was true when it was written.          *)

\* What write_new_json leaves behind.
LEMMA PublishedEffect ==
    ASSUME TypeOK, NEW o \in Outputs, NEW status \in {"unproven", "observed"},
           NEW hash \in Result \cup {NoFile}, Published(o, status, hash)
    PROVE  /\ receipt' \in [Outputs -> Receipt \cup {NoFile}]
           /\ \A p \in Outputs :
                 \/ receipt'[p] = receipt[p]
                 \/ receipt'[p].status \in {status, "torn"}
<1>1. CASE receipt[o] # NoFile
  BY <1>1 DEF Published, TypeOK
<1>2. CASE receipt[o] = NoFile
  <2>1. PICK s \in {status, "torn"} :
           receipt' = [receipt EXCEPT ![o] = [status |-> s, hash |-> hash]]
    BY <1>2 DEF Published
  <2>2. [status |-> s, hash |-> hash] \in Receipt
    BY DEF Receipt
  <2> QED
    BY <2>1, <2>2 DEF TypeOK
<1> QED
  BY <1>1, <1>2

-----------------------------------------------------------------------------
(* The inductive invariant.                                                *)

\* A run that may start its command, or has, holds the attempt of its output.
AttemptIsHeld ==
    \A r \in Runs :
        /\ run[r].pc = "start" => command[r] = "none"
        /\ run[r].pc \in {"reserved", "running"} \/ command[r] # "none"
           => attempt[run[r].output] = r

\* The result file is truthful, whichever command wrote it.
ResultIsTrue == result # NoFile /\ result.complete => revoked = Classes

\* What a cutover has verified stays so.
VerifiedIsRevoked == \A c \in Cutovers : cutover[c] = "verified" => revoked = Classes

Facts == ResultIsTrue /\ ObservedIsRevoked /\ VerifiedIsRevoked /\ CutoverFollowsRevocation

RotationInv == TypeOK /\ AttemptIsHeld /\ Facts

\* The invariant holds before any launch.
LEMMA RotationBegins == Init => RotationInv
<1> SUFFICES ASSUME Init PROVE RotationInv
  OBVIOUS
<1>1. (CHOOSE o \in Outputs : TRUE) \in Outputs
  BY RotationAssumption
<1>2. run \in [Runs -> RunState] /\ \A r \in Runs : run[r].pc = "start"
  BY <1>1 DEF Init, RunState
<1>3. TypeOK
  BY <1>2 DEF Init, TypeOK, CommandState
<1>4. AttemptIsHeld
  BY <1>2 DEF Init, AttemptIsHeld
<1>5. Facts
  BY DEF Init, Facts, ResultIsTrue, ObservedIsRevoked, VerifiedIsRevoked, CutoverFollowsRevocation
<1> QED
  BY <1>3, <1>4, <1>5 DEF RotationInv

-----------------------------------------------------------------------------
(* Types.                                                                  *)

\* No step of a rotation command leaves the types.
LEMMA RotationType ==
    ASSUME TypeOK, NEW r \in Runs, RotationStep(r)
    PROVE  TypeOK'
<1>0. run[r] \in RunState /\ run[r].output \in Outputs
  BY DEF TypeOK, RunState
<1>1. CASE \E o \in Outputs : CheckFiles(r, o)
  <2>1. PICK o \in Outputs : CheckFiles(r, o)
    BY <1>1
  <2>2. [pc |-> "files", output |-> o] \in RunState
    BY DEF RunState
  <2> QED
    BY <2>1, <2>2 DEF CheckFiles, TypeOK, rest
<1> DEFINE At(pc) == [run EXCEPT ![r].pc = pc]
<1>2. \A pc \in {"checked", "reserved", "running", "ended"} : At(pc) \in [Runs -> RunState]
  BY DEF TypeOK, RunState
<1> HIDE DEF At
<1>3. CASE CheckRegistry(r)
  <2>1. run' = At("checked")
    BY <1>3 DEF CheckRegistry, At
  <2> QED
    BY <1>2, <1>3, <2>1 DEF CheckRegistry, TypeOK, rest
<1>4. CASE Reserve(r)
  <2>1. run' \in {At("reserved"), At("ended")}
    BY <1>4 DEF Reserve, At
  <2>2. attempt' \in [Outputs -> Runs \cup {NoRun}]
    BY <1>0, <1>4 DEF Reserve, TypeOK
  <2> QED
    BY <1>2, <1>4, <2>1, <2>2 DEF Reserve, TypeOK, rest
<1>5. CASE RunCommand(r)
  <2>1. run' = At("running")
    BY <1>5 DEF RunCommand, At
  <2>2. command' \in [Runs -> CommandState]
    BY <1>5 DEF RunCommand, TypeOK, CommandState
  <2> QED
    BY <1>2, <1>5, <2>1, <2>2 DEF RunCommand, TypeOK
<1>6. CASE Unknown(r)
  <2>1. run' = At("ended")
    BY <1>6 DEF Unknown, At
  <2>2. receipt' \in [Outputs -> Receipt \cup {NoFile}]
    BY <1>0, <1>6, PublishedEffect DEF Unknown
  <2> QED
    BY <1>2, <1>6, <2>1, <2>2 DEF Unknown, TypeOK, rest
<1>7. CASE Conclude(r)
  <2>1. run' = At("ended")
    BY <1>7 DEF Conclude, At
  <2>2. receipt' \in [Outputs -> Receipt \cup {NoFile}]
    BY <1>0, <1>7, PublishedEffect DEF Conclude, TypeOK
  <2> QED
    BY <1>2, <1>7, <2>1, <2>2 DEF Conclude, TypeOK, rest
<1>8. CASE Stop(r)
  <2>1. run' = At("ended")
    BY <1>8 DEF Stop, At
  <2> QED
    BY <1>2, <1>8, <2>1 DEF Stop, TypeOK, rest
<1> QED
  BY <1>1, <1>3, <1>4, <1>5, <1>6, <1>7, <1>8 DEF RotationStep

\* Nor do the other commands, the cutovers, the approval and the API.
LEMMA OtherType ==
    ASSUME TypeOK,
           \/ \E r \in Runs : CommandStep(r)
           \/ \E c \in Cutovers : VerifyReceipt(c) \/ CutOver(c)
           \/ ExpireApproval
           \/ Admission
    PROVE  TypeOK'
<1>1. ASSUME NEW r \in Runs, CommandStep(r) PROVE TypeOK'
  <2>1. CASE \E c \in Classes : Revoke(r, c)
    BY <2>1 DEF Revoke, TypeOK
  <2>2. CASE WriteResult(r)
    <3>1. (revoked = Classes) \in BOOLEAN
      OBVIOUS
    <3>2. result' \in Result
      BY <2>2, <3>1 DEF WriteResult, Result
    <3> QED
      BY <2>2, <3>2 DEF WriteResult, TypeOK
  <2>3. CASE Exit(r)
    BY <2>3 DEF Exit, TypeOK, CommandState
  <2> QED
    BY <1>1, <2>1, <2>2, <2>3 DEF CommandStep
<1>2. ASSUME NEW c \in Cutovers, VerifyReceipt(c) PROVE TypeOK'
  BY <1>2 DEF VerifyReceipt, TypeOK
<1>3. ASSUME NEW c \in Cutovers, CutOver(c) PROVE TypeOK'
  BY <1>3 DEF CutOver, TypeOK
<1>4. CASE ExpireApproval
  BY <1>4 DEF ExpireApproval, TypeOK
<1>5. CASE Admission
  BY <1>5 DEF Admission, TypeOK
<1> QED
  BY <1>1, <1>2, <1>3, <1>4, <1>5

-----------------------------------------------------------------------------
(* The attempt.                                                            *)

\* One process holds the attempt of an output from Reserve on.
LEMMA RotationHolds ==
    ASSUME TypeOK, AttemptIsHeld, NEW r \in Runs, RotationStep(r)
    PROVE  AttemptIsHeld'
<1>0. \A s \in Runs : s # NoRun /\ run[s] \in RunState /\ run[s].output \in Outputs
  BY RotationAssumption DEF TypeOK, RunState
<1> USE <1>0
<1>1. CASE \E o \in Outputs : CheckFiles(r, o)
  BY <1>1 DEF CheckFiles, AttemptIsHeld, TypeOK, RunState, rest
<1>2. CASE CheckRegistry(r)
  BY <1>2 DEF CheckRegistry, AttemptIsHeld, TypeOK, RunState, rest
<1>3. CASE Reserve(r)
  <2>1. CASE attempt[run[r].output] = NoRun
    BY <1>3, <2>1 DEF Reserve, AttemptIsHeld, TypeOK, RunState, rest
  <2>2. CASE attempt[run[r].output] # NoRun
    BY <1>3, <2>2 DEF Reserve, AttemptIsHeld, TypeOK, RunState, rest
  <2> QED
    BY <2>1, <2>2
<1>4. CASE RunCommand(r)
  BY <1>4 DEF RunCommand, AttemptIsHeld, TypeOK, RunState
<1>5. CASE Unknown(r)
  BY <1>5 DEF Unknown, AttemptIsHeld, TypeOK, RunState, rest
<1>6. CASE Conclude(r)
  BY <1>6 DEF Conclude, AttemptIsHeld, TypeOK, RunState, rest
<1>7. CASE Stop(r)
  BY <1>7 DEF Stop, AttemptIsHeld, TypeOK, RunState, rest
<1> QED
  BY <1>1, <1>2, <1>3, <1>4, <1>5, <1>6, <1>7 DEF RotationStep

\* A command that ends or works has been started.
LEMMA OtherHolds ==
    ASSUME TypeOK, AttemptIsHeld,
           \/ \E r \in Runs : CommandStep(r)
           \/ \E c \in Cutovers : VerifyReceipt(c) \/ CutOver(c)
           \/ ExpireApproval
           \/ Admission
    PROVE  AttemptIsHeld'
<1>1. ASSUME NEW r \in Runs, Exit(r) PROVE AttemptIsHeld'
  BY <1>1 DEF Exit, AttemptIsHeld, TypeOK
<1>2. CASE \/ \E r \in Runs : WriteResult(r) \/ \E c \in Classes : Revoke(r, c)
           \/ \E c \in Cutovers : VerifyReceipt(c) \/ CutOver(c)
           \/ ExpireApproval
           \/ Admission
  <2>1. UNCHANGED <<run, attempt, command>>
    BY <1>2 DEF WriteResult, Revoke, VerifyReceipt, CutOver, ExpireApproval, Admission
  <2> QED
    BY <2>1 DEF AttemptIsHeld
<1> QED
  BY <1>1, <1>2 DEF CommandStep

-----------------------------------------------------------------------------
(* What receipts and cutovers rest on.                                     *)

\* No step of a rotation command undoes what receipts and cutovers rest on.
LEMMA RotationFacts ==
    ASSUME TypeOK, Facts, NEW r \in Runs, RotationStep(r)
    PROVE  Facts'
<1>0. run[r].output \in Outputs
  BY DEF TypeOK, RunState
<1>1. UNCHANGED <<result, revoked, accepting, attested, cutover>>
  BY DEF RotationStep, CheckFiles, CheckRegistry, Reserve, RunCommand, Unknown, Conclude, Stop, rest
<1>2. ObservedIsRevoked'
  <2>1. CASE UNCHANGED receipt
    BY <1>1, <2>1 DEF Facts, ObservedIsRevoked
  <2>2. CASE Unknown(r)
    <3>1. \A p \in Outputs : receipt'[p] = receipt[p] \/ receipt'[p].status \in {"unproven", "torn"}
      BY <1>0, <2>2, PublishedEffect DEF Unknown
    <3> QED
      BY <1>1, <3>1 DEF Facts, ObservedIsRevoked
  <2>3. CASE Conclude(r)
    <3> DEFINE status == IF command[r] = "zero" /\ Proven THEN "observed" ELSE "unproven"
               hash == IF command[r] = "zero" THEN result ELSE NoFile
    <3>1. hash \in Result \cup {NoFile} /\ Published(run[r].output, status, hash)
      BY <2>3 DEF Conclude, TypeOK
    <3>2. status \in {"unproven", "observed"}
      OBVIOUS
    <3>3. status = "observed" => revoked = Classes
      BY DEF Proven, Facts, ResultIsTrue
    <3> HIDE DEF status, hash
    <3>4. \A p \in Outputs : receipt'[p] = receipt[p] \/ receipt'[p].status \in {status, "torn"}
      BY <1>0, <3>1, <3>2, PublishedEffect
    <3> QED
      BY <1>1, <3>2, <3>3, <3>4 DEF Facts, ObservedIsRevoked
  <2> QED
    BY <2>1, <2>2, <2>3
       DEF RotationStep, CheckFiles, CheckRegistry, Reserve, RunCommand, Stop
<1> QED
  BY <1>1, <1>2 DEF Facts, ResultIsTrue, VerifiedIsRevoked, CutoverFollowsRevocation

\* Nor do the other commands, the cutovers, the approval and the API.
LEMMA OtherFacts ==
    ASSUME TypeOK, Facts,
           \/ \E r \in Runs : CommandStep(r)
           \/ \E c \in Cutovers : VerifyReceipt(c) \/ CutOver(c)
           \/ ExpireApproval
           \/ Admission
    PROVE  Facts'
<1> USE DEF Facts, ResultIsTrue, ObservedIsRevoked, VerifiedIsRevoked, CutoverFollowsRevocation
<1>1. ASSUME NEW r \in Runs, NEW c \in Classes, Revoke(r, c) PROVE Facts'
  <2>1. revoked = Classes => revoked' = Classes
    BY <1>1 DEF Revoke
  <2> QED
    BY <1>1, <2>1 DEF Revoke
<1>2. ASSUME NEW r \in Runs, WriteResult(r) PROVE Facts'
  BY <1>2 DEF WriteResult
<1>3. ASSUME NEW r \in Runs, Exit(r) PROVE Facts'
  BY <1>3 DEF Exit
<1>4. ASSUME NEW c \in Cutovers, VerifyReceipt(c) PROVE Facts'
  <2>1. revoked = Classes
    BY <1>4 DEF VerifyReceipt, Verifies
  <2> QED
    BY <1>4, <2>1 DEF VerifyReceipt, TypeOK
<1>5. ASSUME NEW c \in Cutovers, CutOver(c) PROVE Facts'
  BY <1>5 DEF CutOver, TypeOK
<1>6. CASE ExpireApproval
  BY <1>6 DEF ExpireApproval
<1>7. CASE Admission
  BY <1>7 DEF Admission
<1> QED
  BY <1>1, <1>2, <1>3, <1>4, <1>5, <1>6, <1>7 DEF CommandStep

-----------------------------------------------------------------------------
(* The theorems.                                                           *)

\* No step breaks the invariant.
LEMMA RotationGoesOn == RotationInv /\ [Next]_vars => RotationInv'
<1> SUFFICES ASSUME RotationInv, [Next]_vars PROVE RotationInv'
  OBVIOUS
<1> USE DEF RotationInv
<1>1. CASE \E r \in Runs : RotationStep(r)
  BY <1>1, RotationType, RotationHolds, RotationFacts
<1>2. CASE \/ \E r \in Runs : CommandStep(r)
           \/ \E c \in Cutovers : VerifyReceipt(c) \/ CutOver(c)
           \/ ExpireApproval
           \/ Admission
  BY <1>2, OtherType, OtherHolds, OtherFacts
<1>3. CASE UNCHANGED vars
  BY <1>3 DEF vars, TypeOK, AttemptIsHeld, Facts, ResultIsTrue, ObservedIsRevoked,
              VerifiedIsRevoked, CutoverFollowsRevocation, Proven
<1> QED
  BY <1>1, <1>2, <1>3 DEF Next

\* Every reachable state satisfies the invariant.
LEMMA RotationInvHolds == Spec => []RotationInv
BY RotationBegins, RotationGoesOn, PTL DEF Spec

\* Every variable of a rotation stays in its domain.
THEOREM RotationTypeCorrect == Spec => []TypeOK
BY RotationInvHolds, PTL DEF RotationInv

\* However many runs name one output, and wherever they stop, one of them at
\* most starts the command.
THEOREM CommandRunsOnce == Spec => []CommandRunsOncePerOutput
<1>1. RotationInv => CommandRunsOncePerOutput
  BY DEF RotationInv, AttemptIsHeld, CommandRunsOncePerOutput
<1> QED
  BY <1>1, RotationInvHolds, PTL

\* A receipt that says observed is true of every credential class.
THEOREM ObservedIsTrue == Spec => []ObservedIsRevoked
BY RotationInvHolds, PTL DEF RotationInv, Facts

\* No pool is cut over while an exposed credential still works.
THEOREM CutoverIsSafe == Spec => []CutoverFollowsRevocation
BY RotationInvHolds, PTL DEF RotationInv, Facts

-----------------------------------------------------------------------------
(* PlatformSupervisor.  A stop that was heard is on time because nothing   *)
(* of the grace is used up before the child is asked, and no time passes   *)
(* between the signal and that.                                            *)

\* What is true of the clocks and the child at each place of the supervisor.
SupervisorAt ==
    /\ sup \in {"new", "started"} => ~stopping /\ ~asked /\ since = 0
    /\ sup = "new" => child = "none"
    /\ sup = "watching" => ~asked /\ (stopping => term /\ since = 0)
    /\ ~asked => waited = 0
    /\ sup \in {"asking", "killing"} => stopping /\ asked /\ since <= waited
    /\ sup = "killing" => child = "ended"
    /\ sup = "exited" => ~ChildRuns
    /\ ~term => since = 0
    /\ killed => ~stopping

SupervisorInv == SupervisorTypeOK /\ SupervisorAt

USE DEF SupervisorTypeOK, SupervisorAt, ChildRuns

\* The supervisor starts with nothing running and nothing asked.
LEMMA SupervisorBegins == SupervisorInit => SupervisorInv
<1>1. 0 \in 0 .. Grace /\ 0 \in 0 .. Budget BY SupervisorAssumption
<1>. QED BY <1>1, Zenon DEF SupervisorInit, SupervisorInv

\* Every step of the supervisor, its child, the provider and time preserves it.
LEMMA SupervisorGoesOn ==
    SupervisorInv /\ [SupervisorNext]_supervisorVars => SupervisorInv'
<1>. SUFFICES ASSUME SupervisorInv, [SupervisorNext]_supervisorVars
              PROVE  SupervisorInv'
    OBVIOUS
<1>. USE SupervisorAssumption DEF SupervisorInv, Running
<1>1. CASE StartChild BY <1>1 DEF StartChild
<1>2. CASE InstallHandlers BY <1>2 DEF InstallHandlers
<1>3. CASE Ask
    <2>1. CASE child = "ended" BY <1>3, <2>1, Zenon DEF Ask
    <2>2. CASE child # "ended"
        <3>1. since = 0 /\ term BY <1>3, <2>2 DEF Ask
        <3>2. since <= waited BY <3>1
        <3>. QED BY <1>3, <2>2, <3>1, <3>2, Zenon DEF Ask
    <2>. QED BY <2>1, <2>2
<1>4. CASE Reap BY <1>4 DEF Reap
<1>5. CASE KillGroup BY <1>5 DEF KillGroup
<1>6. CASE Serve BY <1>6 DEF Serve
<1>7. CASE ChildEnds BY <1>7 DEF ChildEnds
<1>8. CASE RequestStop BY <1>8 DEF RequestStop
<1>9. CASE Elapse BY <1>9 DEF Elapse, Due
<1>10. CASE ProviderKills
    <2>1. ~stopping /\ sup = "watching" BY <1>10 DEF ProviderKills
    <2>. QED BY <1>10, <2>1 DEF ProviderKills
<1>11. CASE UNCHANGED supervisorVars BY <1>11 DEF supervisorVars
<1>. QED BY <1>1, <1>2, <1>3, <1>4, <1>5, <1>6, <1>7, <1>8, <1>9, <1>10, <1>11
         DEF SupervisorNext

LEMMA SupervisorInvHolds == SupervisorSpec => []SupervisorInv
BY SupervisorBegins, SupervisorGoesOn, PTL DEF SupervisorSpec

\* The clocks of the supervisor stay within the grace and the budget.
THEOREM SupervisorTypeCorrect == SupervisorSpec => []SupervisorTypeOK
<1>1. SupervisorInv => SupervisorTypeOK BY DEF SupervisorInv
<1>. QED BY <1>1, SupervisorInvHolds, PTL

\* shutdown_owned_child returns only of a child that has ended, so that the
\* supervisor leaves no server behind, for any grace and budget.
THEOREM SupervisorLeavesNothing == SupervisorSpec => []NothingLeftBehind
<1>1. SupervisorInv => NothingLeftBehind BY DEF SupervisorInv, NothingLeftBehind
<1>. QED BY <1>1, SupervisorInvHolds, PTL

\* As long as the grace is shorter than the budget of the provider, a stop that
\* was heard is never overtaken by the provider.
THEOREM SupervisorStopsInBudget == SupervisorSpec => []StopsInBudget
<1>1. SupervisorInv => StopsInBudget BY DEF SupervisorInv, StopsInBudget
<1>. QED BY <1>1, SupervisorInvHolds, PTL

-----------------------------------------------------------------------------
(* OperatorInit.  The response is at one of two places: it leaves the file *)
(* of its run only after the output has got it, and the output keeps it.   *)

InitAt ==
    /\ \A r \in delivered :
          /\ stage[r] \in {"publish", "tidy", "done", "failed", "interrupted"}
          /\ stage[r] = "publish" => file[r] = "response"
          /\ stage[r] = "failed" => Kept(r)
    /\ \A r \in Inits : stage[r] \in {"tidy", "done"} => output = r

InitInv == InitTypeOK /\ InitAt

USE DEF InitTypeOK, InitAt, Kept

LEMMA InitBegins == InitInit => InitInv
BY InitAssumption DEF InitInit, InitInv

LEMMA InitGoesOn == InitInv /\ [InitNext]_initVars => InitInv'
<1>. SUFFICES ASSUME InitInv, [InitNext]_initVars PROVE InitInv'
    OBVIOUS
<1>. USE InitAssumption DEF InitInv, Ends
<1>1. ASSUME NEW r \in Inits, CheckOutput(r) PROVE InitInv'
    BY <1>1 DEF CheckOutput
<1>2. ASSUME NEW r \in Inits, AskForInit(r) PROVE InitInv'
    BY <1>2 DEF AskForInit
<1>3. ASSUME NEW r \in Inits, PublishResponse(r) PROVE InitInv'
    BY <1>3 DEF PublishResponse
<1>4. ASSUME NEW r \in Inits, TidyFile(r) PROVE InitInv'
    BY <1>4 DEF TidyFile
<1>5. ASSUME NEW r \in Inits, Abort(r) PROVE InitInv'
    BY <1>5 DEF Abort
<1>6. ASSUME NEW r \in Inits, Interrupt(r) PROVE InitInv'
    BY <1>6 DEF Interrupt
<1>7. CASE CreateOutput BY <1>7 DEF CreateOutput
<1>8. CASE UNCHANGED initVars BY <1>8 DEF initVars
<1>. QED BY <1>1, <1>2, <1>3, <1>4, <1>5, <1>6, <1>7, <1>8 DEF InitNext

LEMMA InitInvHolds == InitSpec => []InitInv
BY InitBegins, InitGoesOn, PTL DEF InitSpec

\* Every variable of the initialization stays in its domain, for any runs.
THEOREM InitTypeCorrect == InitSpec => []InitTypeOK
<1>1. InitInv => InitTypeOK BY DEF InitInv
<1>. QED BY <1>1, InitInvHolds, PTL

\* initialize_cluster never loses the only response, however many runs name
\* one output and whatever fails or is killed, but for a run ended by a signal
\* its trap takes for success.
THEOREM UninterruptedKeepsResponse == InitSpec => []UninterruptedIsKept
<1>1. InitInv => UninterruptedIsKept BY DEF InitInv, UninterruptedIsKept
<1>. QED BY <1>1, InitInvHolds, PTL

-----------------------------------------------------------------------------
(* AppRoleProvision: the order of the requests.                            *)

\* The place of an element that occurs once in a sequence.
LEMMA PlaceOf ==
    ASSUME NEW o, NEW s, NEW i \in DOMAIN o, o[i] = s,
           \A j \in DOMAIN o : o[j] = s => j = i
    PROVE  (CHOOSE j \in DOMAIN o : o[j] = s) = i
OBVIOUS

\* The requests of the two scripts.
LEMMA StepsAre ==
    Steps = {"empty", "mount", "role", "policy", "enable", "assign", "issue", "write",
             "keys", "create"}
<1>1. Steps = {Order["api"][i] : i \in 1 .. 8} \cup {Order["rag"][i] : i \in 1 .. 10}
    BY DEF Steps, Kinds, Order
<1>2. {Order["api"][i] : i \in 1 .. 8} =
        {"empty", "mount", "role", "policy", "enable", "assign", "issue", "write"}
    <2>1. 1 .. 8 = {1, 2, 3, 4, 5, 6, 7, 8} OBVIOUS
    <2>. QED BY <2>1 DEF Order
<1>3. {Order["rag"][i] : i \in 1 .. 10} =
        {"keys", "mount", "role", "empty", "create", "policy", "enable", "assign", "issue",
         "write"}
    <2>1. 1 .. 10 = {1, 2, 3, 4, 5, 6, 7, 8, 9, 10} OBVIOUS
    <2>. QED BY <2>1 DEF Order
<1>. QED BY <1>1, <1>2, <1>3

\* The request after each one, for each script.
LEMMA AfterIs ==
    ASSUME NEW p \in Provisions
    PROVE  /\ Kind[p] \in {"api", "rag"}
           /\ at[p] = "mount" => After(p) = "role"
           /\ at[p] = "role" => After(p) = IF Kind[p] = "api" THEN "policy" ELSE "empty"
           /\ at[p] = "empty" => After(p) = IF Kind[p] = "api" THEN "mount" ELSE "create"
           /\ at[p] = "keys" /\ Kind[p] = "rag" => After(p) = "mount"
           /\ at[p] = "create" /\ Kind[p] = "rag" => After(p) = "policy"
           /\ at[p] = "policy" => After(p) = "enable"
           /\ at[p] = "enable" => After(p) = "assign"
           /\ at[p] = "assign" => After(p) = "issue"
           /\ at[p] = "issue" => After(p) = "write"
<1>. DEFINE o == Order[Kind[p]]
            q == CHOOSE i \in DOMAIN o : o[i] = at[p]
<1>1. After(p) = o[1 + q] BY DEF After
<1>2. CASE Kind[p] = "api"
    <2>1. /\ DOMAIN o = 1 .. 8
          /\ o[1] = "empty" /\ o[2] = "mount" /\ o[3] = "role" /\ o[4] = "policy"
          /\ o[5] = "enable" /\ o[6] = "assign" /\ o[7] = "issue" /\ o[8] = "write"
        BY <1>2 DEF Order
    <2>. HIDE DEF o
    <2>2. \A i \in 1 .. 7 : o[i] = at[p] => q = i
        <3>1. SUFFICES ASSUME NEW i \in 1 .. 7, o[i] = at[p] PROVE q = i OBVIOUS
        <3>2. \A j \in DOMAIN o : o[j] = at[p] => j = i BY <2>1, <3>1
        <3>. QED BY <2>1, <3>1, <3>2, PlaceOf
    <2>. QED BY <1>1, <1>2, <2>1, <2>2
<1>3. CASE Kind[p] = "rag"
    <2>1. /\ DOMAIN o = 1 .. 10
          /\ o[1] = "keys" /\ o[2] = "mount" /\ o[3] = "role" /\ o[4] = "empty"
          /\ o[5] = "create" /\ o[6] = "policy" /\ o[7] = "enable" /\ o[8] = "assign"
          /\ o[9] = "issue" /\ o[10] = "write"
        BY <1>3 DEF Order
    <2>. HIDE DEF o
    <2>2. \A i \in 1 .. 9 : o[i] = at[p] => q = i
        <3>1. SUFFICES ASSUME NEW i \in 1 .. 9, o[i] = at[p] PROVE q = i OBVIOUS
        <3>2. \A j \in DOMAIN o : o[j] = at[p] => j = i BY <2>1, <3>1
        <3>. QED BY <2>1, <3>1, <3>2, PlaceOf
    <2>. QED BY <1>1, <1>3, <2>1, <2>2
<1>. QED BY <1>2, <1>3, ProvisionAssumption

-----------------------------------------------------------------------------
(* What every state of the provisioning has in common.                     *)

\* A container has linked what it says, and a file that is there belongs to a
\* container that has got that far or was killed.
WritersAt ==
    /\ \A p \in Provisions :
          /\ writer[p] \in {"role", "secret", "ok", "undo"} => volume[Kind[p]].role = p
          /\ writer[p] \in {"secret", "ok"} => volume[Kind[p]].secret = p
          /\ writer[p] = "killed" => p \in Faulty
    /\ \A k \in Kinds :
          /\ \A p \in volume[k].temp :
                /\ Kind[p] = k
                /\ writer[p] \in {"files", "role", "secret", "undo", "dropped", "killed"}
          /\ volume[k].role # Nobody =>
                /\ Kind[volume[k].role] = k
                /\ writer[volume[k].role] \in {"role", "secret", "ok", "undo", "killed"}
          /\ volume[k].secret # Nobody =>
                /\ volume[k].role = volume[k].secret
                /\ writer[volume[k].secret] \in {"secret", "ok", "killed"}

\* A SecretID is valid from its issue to its end, and only a container that
\* succeeded, or one that left nothing, ends the run of an honest client.
RunsAt ==
    \A p \in Provisions :
        /\ writer[p] # "none" => at[p] \in {"write", "revoke"} \cup Ended
        /\ at[p] \in {"write", "revoke", "done"} => p \in live
        /\ p \in live => at[p] \in {"write", "revoke"} \cup Ended
        /\ at[p] = "done" => writer[p] = "ok"
        /\ p \notin Faulty /\ at[p] = "revoke" => writer[p] = "failed"
        /\ p \notin Faulty /\ at[p] = "failed" => writer[p] \in {"none", "failed"} /\ p \notin live

\* What a run has read or written of OpenBao stays so, whatever other runs do.
ConfinedAt ==
    /\ (\E k \in Kinds : role[k] # "absent") => mounted
    /\ \A p \in Provisions :
          /\ Kind[p] = "api" => at[p] \notin {"keys", "create"}
          /\ at[p] \in {"create", "policy", "enable", "assign", "issue"} => role[Kind[p]] # "other"
          /\ Kind[p] = "rag" /\ at[p] = "empty" => role[Kind[p]] # "other"
          /\ at[p] \in {"enable", "assign", "issue"} => Kind[p] \in policy
          /\ at[p] \in {"assign", "issue"} => mounted
          /\ seen[p].keys = "safe" => keys = "safe"
          /\ Kind[p] = "rag" /\ at[p] \in Steps \ {"keys", "write"} => keys # "unsafe"
          /\ Kind[p] = "rag" /\ at[p] \in {"policy", "enable", "assign", "issue"} => keys = "safe"
    /\ SecretIsConfined

ProvisionInv == ProvisionTypeOK /\ WritersAt /\ RunsAt /\ ConfinedAt

\* Every kind of run begins with its first request, and nothing of it is there.
LEMMA ProvisionBegins == ProvisionInit => ProvisionInv
<1>. SUFFICES ASSUME ProvisionInit PROVE ProvisionInv
    OBVIOUS
<1>. USE ProvisionAssumption DEF ProvisionInit, Kinds, Empty
<1>1. \A p \in Provisions : at[p] = IF Kind[p] = "api" THEN "empty" ELSE "keys"
    <2>1. SUFFICES ASSUME NEW p \in Provisions
                   PROVE  at[p] = IF Kind[p] = "api" THEN "empty" ELSE "keys"
        OBVIOUS
    <2>2. at[p] = Order[Kind[p]][1] OBVIOUS
    <2>3. CASE Kind[p] = "api" BY <2>2, <2>3 DEF Order
    <2>4. CASE Kind[p] = "rag" BY <2>2, <2>4 DEF Order
    <2>. QED BY <2>3, <2>4
<1>2. ProvisionTypeOK
    BY <1>1, StepsAre DEF ProvisionTypeOK, Ended
<1>3. WritersAt BY DEF WritersAt
<1>4. RunsAt BY <1>1 DEF RunsAt, Ended
<1>5. ConfinedAt BY <1>1 DEF ConfinedAt, SecretIsConfined
<1>. QED BY <1>2, <1>3, <1>4, <1>5 DEF ProvisionInv

\* Every step keeps every variable in its domain.
LEMMA ProvisionTypeGoesOn ==
    ASSUME ProvisionInv, NEW p \in Provisions, Run(p) \/ Container(p)
    PROVE  ProvisionTypeOK'
<1>. USE ProvisionAssumption, StepsAre
     DEF ProvisionInv, ProvisionTypeOK, Kinds, Ended, Go, baoVars
<1>0. /\ at[p] \in Steps \ {"write"} => After(p) \in Steps
      /\ Kind[p] \in Kinds
      /\ volume[Kind[p]].temp \ {p} \in SUBSET Provisions
    BY AfterIs DEF ConfinedAt
<1>1. CASE Fail(p) BY <1>1 DEF Fail
<1>2. CASE EnsureEmpty(p) BY <1>0, <1>2 DEF EnsureEmpty
<1>3. CASE ReadKeys(p) BY <1>0, <1>3 DEF ReadKeys, ConfinedAt
<1>4. CASE ReadMount(p) BY <1>0, <1>4 DEF ReadMount
<1>5. CASE ReadRole(p) BY <1>0, <1>5 DEF ReadRole
<1>6. CASE CreateKeys(p)
    <2>1. at' \in [Provisions -> Steps \cup {"revoke"} \cup Ended]
        BY <1>0, <1>6 DEF CreateKeys, Answered
    <2>. QED BY <1>6, <2>1 DEF CreateKeys
<1>7. CASE WritePolicy(p)
    <2>1. at' \in [Provisions -> Steps \cup {"revoke"} \cup Ended]
        BY <1>0, <1>7 DEF WritePolicy, Answered
    <2>. QED BY <1>0, <1>7, <2>1 DEF WritePolicy
<1>8. CASE EnableMount(p) BY <1>0, <1>8 DEF EnableMount, Answered
<1>9. CASE AssignRole(p) BY <1>0, <1>9 DEF AssignRole, Answered
<1>10. CASE IssueSecret(p) BY <1>0, <1>10 DEF IssueSecret, Answered
<1>11. CASE Succeed(p) BY <1>11 DEF Succeed
<1>12. CASE WriteFails(p) BY <1>12 DEF WriteFails
<1>13. CASE RevokeSecret(p) BY <1>13 DEF RevokeSecret
<1>14. CASE RevokeFails(p) BY <1>14 DEF RevokeFails
<1>15. CASE Kill(p) BY <1>15 DEF Kill
<1>16. CASE Start(p) BY <1>16 DEF Start
<1>17. CASE NotStarted(p) BY <1>17 DEF NotStarted
<1>18. CASE LinkRole(p) BY <1>18 DEF LinkRole
<1>19. CASE LinkSecret(p) BY <1>19 DEF LinkSecret
<1>20. CASE CommitFiles(p) BY <1>0, <1>20 DEF CommitFiles
<1>21. CASE DropSecret(p) BY <1>21 DEF DropSecret
<1>22. CASE DropRole(p) BY <1>22 DEF DropRole
<1>23. CASE DropTemp(p) BY <1>0, <1>23 DEF DropTemp
<1>24. CASE KillContainer(p) BY <1>24 DEF KillContainer
<1>. QED BY <1>1, <1>2, <1>3, <1>4, <1>5, <1>6, <1>7, <1>8, <1>9, <1>10, <1>11, <1>12,
            <1>13, <1>14, <1>15, <1>16, <1>17, <1>18, <1>19, <1>20, <1>21, <1>22, <1>23,
            <1>24, Zenon DEF Run, Container

\* Containers never overwrite each other's files.
LEMMA WritersGoOn ==
    ASSUME ProvisionInv, NEW p \in Provisions, Run(p) \/ Container(p)
    PROVE  WritersAt'
<1>. USE ProvisionAssumption
     DEF ProvisionInv, ProvisionTypeOK, WritersAt, Kinds, Ended, Go, baoVars
<1>1. CASE UNCHANGED <<volume, writer>> BY <1>1
<1>2. CASE Run(p)
    <2>1. UNCHANGED <<volume, writer>>
        BY <1>2 DEF Run, Fail, EnsureEmpty, ReadKeys, ReadMount, ReadRole, CreateKeys,
           WritePolicy, EnableMount, AssignRole, IssueSecret, Succeed, WriteFails,
           RevokeSecret, RevokeFails, Kill
    <2>. QED BY <1>1, <2>1
<1>3. CASE Start(p) BY <1>3 DEF Start
<1>4. CASE NotStarted(p) BY <1>4 DEF NotStarted
<1>5. CASE LinkRole(p) BY <1>5 DEF LinkRole
<1>6. CASE LinkSecret(p) BY <1>6 DEF LinkSecret
<1>7. CASE CommitFiles(p) BY <1>7 DEF CommitFiles
<1>8. CASE DropSecret(p) BY <1>8 DEF DropSecret
<1>9. CASE DropRole(p) BY <1>9 DEF DropRole
<1>10. CASE DropTemp(p) BY <1>10 DEF DropTemp
<1>11. CASE KillContainer(p) BY <1>11 DEF KillContainer
<1>. QED BY <1>2, <1>3, <1>4, <1>5, <1>6, <1>7, <1>8, <1>9, <1>10, <1>11 DEF Container

\* A run's SecretID and its container stay with the run.
LEMMA RunsGoOn ==
    ASSUME ProvisionInv, NEW p \in Provisions, Run(p) \/ Container(p)
    PROVE  RunsAt'
<1>. USE ProvisionAssumption
     DEF ProvisionInv, ProvisionTypeOK, RunsAt, Kinds, Ended, Go, baoVars
<1>0. /\ Kind[p] \in Kinds
      /\ at[p] \in Steps \ {"write"} =>
            /\ After(p) \in Steps
            /\ After(p) = "write" => at[p] = "issue"
            /\ at[p] \notin {"write", "revoke"} \cup Ended
      /\ "write" \in Steps
      /\ \A s \in {"revoke"} \cup Ended : s \notin Steps
    BY StepsAre, AfterIs DEF ConfinedAt
<1>. USE <1>0, StepsAre
<1>1. CASE Fail(p) BY <1>1 DEF Fail
<1>2. CASE EnsureEmpty(p) BY <1>2 DEF EnsureEmpty
<1>3. CASE ReadKeys(p) BY <1>3 DEF ReadKeys
<1>4. CASE ReadMount(p) BY <1>4 DEF ReadMount
<1>5. CASE ReadRole(p) BY <1>5 DEF ReadRole
<1>6. CASE CreateKeys(p) BY <1>6 DEF CreateKeys, Answered
<1>7. CASE WritePolicy(p) BY <1>7 DEF WritePolicy, Answered
<1>8. CASE EnableMount(p) BY <1>8 DEF EnableMount, Answered
<1>9. CASE AssignRole(p) BY <1>9 DEF AssignRole, Answered
<1>10. CASE IssueSecret(p) BY <1>10, AfterIs DEF IssueSecret, Answered
<1>11. CASE Succeed(p) BY <1>11 DEF Succeed
<1>12. CASE WriteFails(p) BY <1>12 DEF WriteFails, WritersAt
<1>13. CASE RevokeSecret(p) BY <1>13 DEF RevokeSecret
<1>14. CASE RevokeFails(p) BY <1>14 DEF RevokeFails
<1>15. CASE Kill(p) BY <1>15 DEF Kill
<1>16. CASE Start(p) BY <1>16 DEF Start
<1>17. CASE NotStarted(p) BY <1>17 DEF NotStarted
<1>18. CASE LinkRole(p) BY <1>18 DEF LinkRole
<1>19. CASE LinkSecret(p) BY <1>19 DEF LinkSecret
<1>20. CASE CommitFiles(p) BY <1>20 DEF CommitFiles
<1>21. CASE DropSecret(p) BY <1>21 DEF DropSecret
<1>22. CASE DropRole(p) BY <1>22 DEF DropRole
<1>23. CASE DropTemp(p) BY <1>23 DEF DropTemp
<1>24. CASE KillContainer(p) BY <1>24 DEF KillContainer
<1>. QED BY <1>1, <1>2, <1>3, <1>4, <1>5, <1>6, <1>7, <1>8, <1>9, <1>10, <1>11, <1>12,
            <1>13, <1>14, <1>15, <1>16, <1>17, <1>18, <1>19, <1>20, <1>21, <1>22, <1>23,
            <1>24, Zenon DEF Run, Container

\* What other runs do to OpenBao takes nothing away from this one.
LEMMA ConfinedGoesOn ==
    ASSUME ProvisionInv, NEW p \in Provisions, Run(p) \/ Container(p)
    PROVE  ConfinedAt'
<1>. USE ProvisionAssumption, StepsAre
     DEF ProvisionInv, ProvisionTypeOK, ConfinedAt, SecretIsConfined, Kinds, Ended, Go, baoVars
<1>0. \A s \in {"revoke"} \cup Ended : s \notin Steps OBVIOUS
<1>1. CASE Fail(p) BY <1>1 DEF Fail
<1>2. CASE EnsureEmpty(p) BY <1>2, AfterIs DEF EnsureEmpty
<1>3. CASE ReadKeys(p) BY <1>3, AfterIs DEF ReadKeys
<1>4. CASE ReadMount(p) BY <1>4, AfterIs DEF ReadMount
<1>5. CASE ReadRole(p) BY <1>5, AfterIs DEF ReadRole
<1>6. CASE CreateKeys(p) BY <1>6, AfterIs DEF CreateKeys, Answered
<1>7. CASE WritePolicy(p) BY <1>7, AfterIs DEF WritePolicy, Answered
<1>8. CASE EnableMount(p) BY <1>8, AfterIs DEF EnableMount, Answered
<1>9. CASE AssignRole(p) BY <1>9, AfterIs DEF AssignRole, Answered
<1>10. CASE IssueSecret(p) BY <1>10, AfterIs DEF IssueSecret, Answered
<1>11. CASE Succeed(p) BY <1>11 DEF Succeed
<1>12. CASE WriteFails(p) BY <1>12 DEF WriteFails
<1>13. CASE RevokeSecret(p) BY <1>13 DEF RevokeSecret
<1>14. CASE RevokeFails(p) BY <1>14 DEF RevokeFails
<1>15. CASE Kill(p) BY <1>15 DEF Kill
<1>16. CASE Container(p)
    <2>1. UNCHANGED <<baoVars, at, seen>>
        BY <1>16 DEF Container, Start, NotStarted, LinkRole, LinkSecret, CommitFiles,
           DropSecret, DropRole, DropTemp, KillContainer
    <2>. QED BY <2>1
<1>. QED BY <1>1, <1>2, <1>3, <1>4, <1>5, <1>6, <1>7, <1>8, <1>9, <1>10, <1>11, <1>12,
            <1>13, <1>14, <1>15, <1>16, Zenon DEF Run

LEMMA ProvisionGoesOn ==
    ProvisionInv /\ [ProvisionNext]_provisionVars => ProvisionInv'
<1>. SUFFICES ASSUME ProvisionInv, [ProvisionNext]_provisionVars PROVE ProvisionInv'
    OBVIOUS
<1>1. ASSUME NEW p \in Provisions, Run(p) \/ Container(p) PROVE ProvisionInv'
    BY <1>1, ProvisionTypeGoesOn, WritersGoOn, RunsGoOn, ConfinedGoesOn DEF ProvisionInv
<1>2. CASE UNCHANGED provisionVars
    BY <1>2 DEF provisionVars, ProvisionInv, ProvisionTypeOK, WritersAt, RunsAt, ConfinedAt,
       SecretIsConfined
<1>. QED BY <1>1, <1>2 DEF ProvisionNext

LEMMA ProvisionInvHolds == ProvisionSpec => []ProvisionInv
BY ProvisionBegins, ProvisionGoesOn, PTL DEF ProvisionSpec

\* Every variable of the provisioning stays in its domain, for any runs.
THEOREM ProvisionTypeCorrect == ProvisionSpec => []ProvisionTypeOK
<1>1. ProvisionInv => ProvisionTypeOK BY DEF ProvisionInv
<1>. QED BY <1>1, ProvisionInvHolds, PTL

\* What a run of either script reported as published stays published and valid,
\* however many others run beside it and wherever they are killed.
THEOREM CompletedStaysUsable == ProvisionSpec => []CompletedIsUsable
<1>1. ProvisionInv => CompletedIsUsable
    BY DEF ProvisionInv, WritersAt, RunsAt, CompletedIsUsable, PublishedBy
<1>. QED BY <1>1, ProvisionInvHolds, PTL

\* A service never reads the files of two runs, nor a SecretID without its role
\* ID: the container links the secret last and unlinks it first.
THEOREM PairStaysWhole == ProvisionSpec => []PairIsWhole
<1>1. ProvisionInv => PairIsWhole BY DEF ProvisionInv, WritersAt, PairIsWhole
<1>. QED BY <1>1, ProvisionInvHolds, PTL

\* A run that fails of its own accord leaves neither a SecretID nor a file.
THEOREM FailureLeavesNoTrace == ProvisionSpec => []FailureLeavesNothing
<1>1. ProvisionInv => FailureLeavesNothing
    <2>. SUFFICES ASSUME ProvisionInv, NEW p \in Provisions \ Faulty, at[p] = "failed"
                  PROVE  /\ p \notin live
                         /\ p \notin volume[Kind[p]].temp
                         /\ p # volume[Kind[p]].role /\ p # volume[Kind[p]].secret
        BY DEF FailureLeavesNothing
    <2>1. writer[p] \in {"none", "failed"} /\ p \notin live BY DEF ProvisionInv, RunsAt
    <2>2. Kind[p] \in Kinds /\ p # Nobody BY ProvisionAssumption DEF Kinds
    <2>. QED BY <2>1, <2>2 DEF ProvisionInv, WritersAt
<1>. QED BY <1>1, ProvisionInvHolds, PTL

\* No SecretID is ever valid beside a role, policy or key of someone else.
THEOREM SecretStaysConfined == ProvisionSpec => []SecretIsConfined
<1>1. ProvisionInv => SecretIsConfined BY DEF ProvisionInv, ConfinedAt
<1>. QED BY <1>1, ProvisionInvHolds, PTL

=============================================================================
