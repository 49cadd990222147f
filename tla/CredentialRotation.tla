------------------------- MODULE CredentialRotation -------------------------
(***************************************************************************)
(* rotate-credentials of scripts/runtime_fleet.py and the cutover that     *)
(* needs its receipt.                                                      *)
(*                                                                         *)
(* Under one approval a rotation runs an audited command of the operator,  *)
(* which revokes the exposed credentials at their providers and writes     *)
(* what it saw to a result file.  Its outcome may stay unknown; two files, *)
(* created and never replaced, keep it from being tried again by itself:   *)
(* the attempt and the receipt.                                            *)
(***************************************************************************)
EXTENDS Integers

CONSTANTS Runs,     \* invocations of rotate-credentials
          Outputs,  \* paths an operator may name as --output
          Classes,  \* exposed credential classes of the approval
          Cutovers, \* invocations of cutover
          NoFile,   \* a file that does not exist
          NoRun

ASSUME RotationAssumption ==
    /\ Outputs # {}
    /\ NoRun \notin Runs

VARIABLES run,       \* progress of each rotation
          attempt,   \* output.attempt: the run that reserved it
          receipt,   \* output
          command,   \* the audited command of each run
          result,    \* the approval's resultFile
          revoked,   \* classes whose old credential is denied, its replacement accepted
          expired,   \* the approval has expired
          accepting, \* some pool accepts
          attested,  \* a first cutover has left its mark
          cutover    \* progress of each cutover

vars == <<run, attempt, receipt, command, result, revoked, expired, accepting, attested, cutover>>
rest == <<command, result, revoked, expired, accepting, attested, cutover>>

\* What the result file holds: by whose command it was written, and whether
\* every class is shown to be revoked and replaced.
Result == [by : Runs, complete : BOOLEAN]

\* A receipt; hash is the result file it is bound to.
Receipt == [status : {"unproven", "observed", "torn"}, hash : Result \cup {NoFile}]

RunState == [pc : {"start", "files", "checked", "reserved", "running", "ended"},
             output : Outputs]

CommandState == {"none", "alive", "zero", "nonzero"}

-----------------------------------------------------------------------------
(* write_new_json: O_CREAT | O_EXCL.  Of a write cut short a torn file is   *)
(* left.                                                                   *)

Published(o, status, hash) ==
    IF receipt[o] # NoFile THEN receipt' = receipt
    ELSE receipt' \in {[receipt EXCEPT ![o] = [status |-> s, hash |-> hash]] : s \in {status, "torn"}}

-----------------------------------------------------------------------------
(* rotation.                                                               *)

\* Approval and paths: neither the receipt nor the result may be there.
CheckFiles(r, o) ==
    /\ run[r].pc = "start"
    /\ ~expired
    /\ receipt[o] = NoFile
    /\ result = NoFile
    /\ run' = [run EXCEPT ![r] = [pc |-> "files", output |-> o]]
    /\ UNCHANGED <<attempt, receipt, rest>>

\* The registry: nothing of the pre-HA system runs, every pool is withdrawn.
CheckRegistry(r) ==
    /\ run[r].pc = "files"
    /\ ~accepting
    /\ run' = [run EXCEPT ![r].pc = "checked"]
    /\ UNCHANGED <<attempt, receipt, rest>>

\* A slip to be caught: the attempt of an earlier run is taken over.
ReserveOver(r) ==
    /\ run[r].pc = "checked"
    /\ attempt' = [attempt EXCEPT ![run[r].output] = r]
    /\ run' = [run EXCEPT ![r].pc = "reserved"]
    /\ UNCHANGED <<receipt, rest>>

\* "Reserve the attempt before a command can change credentials."
Reserve(r) ==
    /\ run[r].pc = "checked"
    /\ IF attempt[run[r].output] = NoRun
       THEN /\ attempt' = [attempt EXCEPT ![run[r].output] = r]
            /\ run' = [run EXCEPT ![r].pc = "reserved"]
       ELSE /\ attempt' = attempt
            /\ run' = [run EXCEPT ![r].pc = "ended"]
    /\ UNCHANGED <<receipt, rest>>

RunCommand(r) ==
    /\ run[r].pc = "reserved"
    /\ run' = [run EXCEPT ![r].pc = "running"]
    /\ command' = [command EXCEPT ![r] = "alive"]
    /\ UNCHANGED <<attempt, receipt, result, revoked, expired, accepting, attested, cutover>>

\* The command cannot be started, or runs into its 300 s; what it did, and
\* what a part of it still does, is unknown.
Unknown(r) ==
    /\ run[r].pc = "running"
    /\ Published(run[r].output, "unproven", NoFile)
    /\ run' = [run EXCEPT ![r].pc = "ended"]
    /\ UNCHANGED <<attempt, rest>>

\* A slip to be caught: a zero exit is taken for proof.
ConcludeOnExit(r) ==
    /\ run[r].pc = "running"
    /\ command[r] \in {"zero", "nonzero"}
    /\ run' = [run EXCEPT ![r].pc = "ended"]
    /\ Published(run[r].output, IF command[r] = "zero" THEN "observed" ELSE "unproven", result)
    /\ UNCHANGED <<attempt, rest>>

\* require_rotation_verified: a readback of every class, under a valid approval.
Proven == result # NoFile /\ result.complete /\ ~expired

\* The command returned: only a zero exit with a complete readback is observed.
Conclude(r) ==
    /\ run[r].pc = "running"
    /\ command[r] \in {"zero", "nonzero"}
    /\ run' = [run EXCEPT ![r].pc = "ended"]
    /\ LET status == IF command[r] = "zero" /\ Proven THEN "observed" ELSE "unproven"
           hash == IF command[r] = "zero" THEN result ELSE NoFile
       IN  Published(run[r].output, status, hash)
    /\ UNCHANGED <<attempt, rest>>

\* A failed check, or the end of the operator's process at any point.
Stop(r) ==
    /\ run[r].pc # "ended"
    /\ run' = [run EXCEPT ![r].pc = "ended"]
    /\ UNCHANGED <<attempt, receipt, rest>>

-----------------------------------------------------------------------------
(* The audited command and the providers (external).                       *)

Revoke(r, c) ==
    /\ command[r] = "alive"
    /\ revoked' = revoked \cup {c}
    /\ UNCHANGED <<run, attempt, receipt, command, result, expired, accepting, attested, cutover>>

\* It reads back what is revoked; whoever writes last decides what the file holds.
WriteResult(r) ==
    /\ command[r] = "alive"
    /\ result' = [by |-> r, complete |-> revoked = Classes]
    /\ UNCHANGED <<run, attempt, receipt, command, revoked, expired, accepting, attested, cutover>>

\* It may exit with zero though it did nothing.
Exit(r) ==
    /\ command[r] = "alive"
    /\ \E code \in {"zero", "nonzero"} : command' = [command EXCEPT ![r] = code]
    /\ UNCHANGED <<run, attempt, receipt, result, revoked, expired, accepting, attested, cutover>>

ExpireApproval ==
    /\ ~expired
    /\ expired' = TRUE
    /\ UNCHANGED <<run, attempt, receipt, command, result, revoked, accepting, attested, cutover>>

-----------------------------------------------------------------------------
(* cutover and the later admission calls.                                  *)

\* A slip to be caught: any receipt will do.
VerifiesAny(o) ==
    receipt[o] # NoFile /\ receipt[o].status # "torn"

\* require_rotation_verified, of the receipt as it was written and of the
\* result file as it is now.
Verifies(o) ==
    /\ receipt[o] # NoFile
    /\ receipt[o].status = "observed"
    /\ receipt[o].hash = result
    /\ result.complete

VerifyReceipt(c) ==
    /\ cutover[c] = "start"
    /\ \E o \in Outputs : Verifies(o)
    /\ cutover' = [cutover EXCEPT ![c] = "verified"]
    /\ UNCHANGED <<run, attempt, receipt, command, result, revoked, expired, accepting, attested>>

\* Its set_admission call changes the registry later.
CutOver(c) ==
    /\ cutover[c] = "verified"
    /\ cutover' = [cutover EXCEPT ![c] = "ended"]
    /\ attested' = TRUE
    /\ accepting' = TRUE
    /\ UNCHANGED <<run, attempt, receipt, command, result, revoked, expired>>

\* withdraw, and resume under the original attestation.
Admission ==
    /\ accepting \/ attested
    /\ accepting' = ~accepting
    /\ UNCHANGED <<run, attempt, receipt, command, result, revoked, expired, attested, cutover>>

-----------------------------------------------------------------------------
(* The specification.                                                      *)

\* Before the first attempt; a run that stops leaves its files to the others.
Init ==
    /\ run \in [Runs -> [pc : {"start"}, output : {CHOOSE o \in Outputs : TRUE}]]
    /\ attempt = [o \in Outputs |-> NoRun]
    /\ receipt = [o \in Outputs |-> NoFile]
    /\ command = [r \in Runs |-> "none"]
    /\ result = NoFile
    /\ revoked = {}
    /\ expired = FALSE
    /\ accepting = FALSE
    /\ attested = FALSE
    /\ cutover = [c \in Cutovers |-> "start"]

RotationStep(r) ==
    \/ \E o \in Outputs : CheckFiles(r, o)
    \/ CheckRegistry(r) \/ Reserve(r) \/ RunCommand(r) \/ Unknown(r) \/ Conclude(r) \/ Stop(r)

CommandStep(r) == (\E c \in Classes : Revoke(r, c)) \/ WriteResult(r) \/ Exit(r)

Next ==
    \/ \E r \in Runs : RotationStep(r) \/ CommandStep(r)
    \/ \E c \in Cutovers : VerifyReceipt(c) \/ CutOver(c)
    \/ ExpireApproval \/ Admission

Spec == Init /\ [][Next]_vars

-----------------------------------------------------------------------------
(* Properties.                                                             *)

TypeOK ==
    /\ run \in [Runs -> RunState]
    /\ attempt \in [Outputs -> Runs \cup {NoRun}]
    /\ receipt \in [Outputs -> Receipt \cup {NoFile}]
    /\ command \in [Runs -> CommandState]
    /\ result \in Result \cup {NoFile}
    /\ revoked \subseteq Classes
    /\ expired \in BOOLEAN
    /\ accepting \in BOOLEAN
    /\ attested \in BOOLEAN
    /\ cutover \in [Cutovers -> {"start", "verified", "ended"}]

\* "A crash cannot silently authorize a retry": of all runs that name one
\* output, concurrent or after a crash, at most one starts the command.
CommandRunsOncePerOutput ==
    \A r, s \in Runs :
        command[r] # "none" /\ command[s] # "none" /\ run[r].output = run[s].output => r = s

\* "process exit alone is not provider revocation/replacement proof": when a
\* receipt says observed every exposed credential is revoked and replaced,
\* whichever runs raced for the result file.
ObservedIsRevoked == \A o \in Outputs :
    receipt[o] # NoFile /\ receipt[o].status = "observed" => revoked = Classes

\* No pool is cut over, and none accepts a session, while an exposed credential
\* still works, though the result file may change after the receipt was written
\* and the receipt may be torn.
CutoverFollowsRevocation == accepting \/ attested => revoked = Classes

=============================================================================
