-------------------------- MODULE AppRoleProvision --------------------------
(***************************************************************************)
(* Provisioning of AppRole credentials: scripts/openbao-app-role.py for    *)
(* the API and scripts/openbao-rag-private-data.py --apply for RAG.        *)
(*                                                                         *)
(* A run configures OpenBao, issues one SecretID and publishes it, with    *)
(* the role ID, in a Docker volume the service reads.  Runs may overlap.   *)
(* The volume is written by a container of its own, which goes on when     *)
(* the run that started it is gone.                                        *)
(***************************************************************************)
EXTENDS Integers, Sequences

CONSTANTS Provisions, \* invocations of the two scripts; each issues at most one SecretID
          Kind,   \* "api" or "rag", the script a run executes
          Nobody, \* no run
          Faulty  \* bound of the model: runs that may be killed or lose an answer

ASSUME ProvisionAssumption ==
    /\ Kind \in [Provisions -> {"api", "rag"}]
    /\ Nobody \notin Provisions
    /\ Faulty \subseteq Provisions

VARIABLES mounted, \* auth/approle exists
          role,    \* the AppRole of each kind
          policy,  \* kinds whose policy is written
          keys,    \* the transit keys of RAG
          live,    \* runs whose SecretID is valid
          volume,  \* content of each kind's credential volume
          at,      \* progress of each run
          seen,    \* what a run read of OpenBao
          writer   \* progress of each run's container

baoVars == <<mounted, role, policy, keys, live>>
provisionVars == <<mounted, role, policy, keys, live, volume, at, seen, writer>>

Kinds == {"api", "rag"}

\* The order of the requests in the two provision functions.
Order == [api |-> <<"empty", "mount", "role", "policy", "enable", "assign", "issue", "write">>,
          rag |-> <<"keys", "mount", "role", "empty", "create", "policy", "enable", "assign",
                    "issue", "write">>]

Steps == UNION {{Order[k][i] : i \in DOMAIN Order[k]} : k \in Kinds}

After(p) ==
    LET o == Order[Kind[p]]
    IN  o[1 + CHOOSE i \in DOMAIN o : o[i] = at[p]]

Ended == {"done", "failed", "unrevoked", "killed"}

\* temp: runs whose temporary directory is there.  role, secret: the run that
\* linked the file.
Empty == [temp |-> {}, role |-> Nobody, secret |-> Nobody]

-----------------------------------------------------------------------------
(* Requests.                                                               *)

Go(p, s) == at' = [at EXCEPT ![p] = s]

\* A request that changed OpenBao is answered, or the answer is lost and the
\* run ends without knowing.
Answered(p) == Go(p, After(p)) \/ (p \in Faulty /\ Go(p, "failed"))

\* A request is refused, or a check of its answer fails.
Fail(p) ==
    /\ at[p] \in Steps \ {"write"}
    /\ Go(p, "failed")
    /\ UNCHANGED <<baoVars, volume, seen, writer>>

\* ensure_empty
EnsureEmpty(p) ==
    /\ at[p] = "empty"
    /\ volume[Kind[p]] = Empty
    /\ Go(p, After(p))
    /\ UNCHANGED <<baoVars, volume, seen, writer>>

\* A slip to be caught: exportable keys are accepted.
ReadKeysUnchecked(p) ==
    /\ at[p] = "keys"
    /\ seen' = [seen EXCEPT ![p].keys = IF keys = "absent" THEN "absent" ELSE "safe"]
    /\ Go(p, After(p))
    /\ UNCHANGED <<baoVars, volume, writer>>

\* RAG: both keys are absent or non-exportable.
ReadKeys(p) ==
    /\ at[p] = "keys"
    /\ keys # "unsafe"
    /\ seen' = [seen EXCEPT ![p].keys = keys]
    /\ Go(p, After(p))
    /\ UNCHANGED <<baoVars, volume, writer>>

ReadMount(p) ==
    /\ at[p] = "mount"
    /\ seen' = [seen EXCEPT ![p].mounted = mounted]
    /\ Go(p, After(p))
    /\ UNCHANGED <<baoVars, volume, writer>>

\* A role that is there must be the desired one.
ReadRole(p) ==
    /\ at[p] = "role"
    /\ role[Kind[p]] # "other"
    /\ seen' = [seen EXCEPT ![p].role = role[Kind[p]]]
    /\ Go(p, After(p))
    /\ UNCHANGED <<baoVars, volume, writer>>

\* RAG: keys that were absent are created; OpenBao keeps those that are not.
CreateKeys(p) ==
    /\ at[p] = "create"
    /\ keys' = IF seen[p].keys = "absent" /\ keys = "absent" THEN "safe" ELSE keys
    /\ Answered(p)
    /\ UNCHANGED <<mounted, role, policy, live, volume, seen, writer>>

WritePolicy(p) ==
    /\ at[p] = "policy"
    /\ policy' = policy \cup {Kind[p]}
    /\ Answered(p)
    /\ UNCHANGED <<mounted, role, keys, live, volume, seen, writer>>

\* OpenBao refuses to enable a mount twice: a run that lost that race fails.
EnableMount(p) ==
    /\ at[p] = "enable"
    /\ ~seen[p].mounted => ~mounted
    /\ mounted' = TRUE
    /\ Answered(p)
    /\ UNCHANGED <<role, policy, keys, live, volume, seen, writer>>

AssignRole(p) ==
    /\ at[p] = "assign"
    /\ role' = IF seen[p].role = "absent" THEN [role EXCEPT ![Kind[p]] = "desired"] ELSE role
    /\ Answered(p)
    /\ UNCHANGED <<mounted, policy, keys, live, volume, seen, writer>>

\* read_role_id and issue_secret_id
IssueSecret(p) ==
    /\ at[p] = "issue"
    /\ role[Kind[p]] # "absent"
    /\ live' = live \cup {p}
    /\ Answered(p)
    /\ UNCHANGED <<mounted, role, policy, keys, volume, seen, writer>>

-----------------------------------------------------------------------------
(* volume.write: the container.                                            *)

\* docker run starts the script, which makes its temporary directory.
Start(p) ==
    /\ at[p] = "write"
    /\ writer[p] = "none"
    /\ volume' = [volume EXCEPT ![Kind[p]].temp = @ \cup {p}]
    /\ writer' = [writer EXCEPT ![p] = "files"]
    /\ UNCHANGED <<baoVars, at, seen>>

\* docker run fails: no image, no daemon.
NotStarted(p) ==
    /\ at[p] = "write"
    /\ writer[p] = "none"
    /\ writer' = [writer EXCEPT ![p] = "failed"]
    /\ UNCHANGED <<baoVars, volume, at, seen>>

\* A slip to be caught: mv replaces a file.
LinkRoleOver(p) ==
    /\ writer[p] = "files"
    /\ volume' = [volume EXCEPT ![Kind[p]].role = p]
    /\ writer' = [writer EXCEPT ![p] = "role"]
    /\ UNCHANGED <<baoVars, at, seen>>

\* ln refuses to replace a file.
LinkRole(p) ==
    /\ writer[p] = "files"
    /\ volume[Kind[p]].role = Nobody
    /\ volume' = [volume EXCEPT ![Kind[p]].role = p]
    /\ writer' = [writer EXCEPT ![p] = "role"]
    /\ UNCHANGED <<baoVars, at, seen>>

LinkSecret(p) ==
    /\ writer[p] = "role"
    /\ volume[Kind[p]].secret = Nobody
    /\ volume' = [volume EXCEPT ![Kind[p]].secret = p]
    /\ writer' = [writer EXCEPT ![p] = "secret"]
    /\ UNCHANGED <<baoVars, at, seen>>

\* The temporary directory is removed and the trap is lifted.
CommitFiles(p) ==
    /\ writer[p] = "secret"
    /\ volume' = [volume EXCEPT ![Kind[p]].temp = @ \ {p}]
    /\ writer' = [writer EXCEPT ![p] = "ok"]
    /\ UNCHANGED <<baoVars, at, seen>>

\* A slip to be caught: the trap forgets the second file.
DropNothing(p) ==
    /\ writer[p] \in {"files", "role", "secret"}
    /\ writer' = [writer EXCEPT ![p] = IF @ = "files" THEN "dropped" ELSE "undo"]
    /\ UNCHANGED <<baoVars, volume, at, seen>>

\* A command of the script fails, or ln finds the file there: the trap removes
\* what the script linked, the secret first.
DropSecret(p) ==
    /\ writer[p] \in {"files", "role", "secret"}
    /\ volume' = [volume EXCEPT ![Kind[p]].secret = IF writer[p] = "secret" THEN Nobody ELSE @]
    /\ writer' = [writer EXCEPT ![p] = IF @ = "files" THEN "dropped" ELSE "undo"]
    /\ UNCHANGED <<baoVars, at, seen>>

DropRole(p) ==
    /\ writer[p] = "undo"
    /\ volume' = [volume EXCEPT ![Kind[p]].role = Nobody]
    /\ writer' = [writer EXCEPT ![p] = "dropped"]
    /\ UNCHANGED <<baoVars, at, seen>>

DropTemp(p) ==
    /\ writer[p] = "dropped"
    /\ volume' = [volume EXCEPT ![Kind[p]].temp = @ \ {p}]
    /\ writer' = [writer EXCEPT ![p] = "failed"]
    /\ UNCHANGED <<baoVars, at, seen>>

\* The container is killed: no trap runs.
KillContainer(p) ==
    /\ p \in Faulty
    /\ writer[p] \in {"files", "role", "secret", "undo", "dropped"}
    /\ writer' = [writer EXCEPT ![p] = "killed"]
    /\ UNCHANGED <<baoVars, volume, at, seen>>

-----------------------------------------------------------------------------
(* The end of a run.                                                       *)

Succeed(p) ==
    /\ at[p] = "write"
    /\ writer[p] = "ok"
    /\ Go(p, "done")
    /\ UNCHANGED <<baoVars, volume, seen, writer>>

\* A slip to be caught: a failed write does not revoke.
WriteFailsUnrevoked(p) ==
    /\ at[p] = "write"
    /\ writer[p] \in {"failed", "killed"}
    /\ Go(p, "failed")
    /\ UNCHANGED <<baoVars, volume, seen, writer>>

\* docker exits with an error: the container's, or its own when it loses the
\* daemon, which says nothing about the container.
WriteFails(p) ==
    /\ at[p] = "write"
    /\ writer[p] \in {"failed", "killed"} \/ (p \in Faulty /\ writer[p] # "none")
    /\ Go(p, "revoke")
    /\ UNCHANGED <<baoVars, volume, seen, writer>>

\* The accessor of the new SecretID is destroyed.
RevokeSecret(p) ==
    /\ at[p] = "revoke"
    /\ live' = live \ {p}
    /\ Go(p, "failed") \/ (p \in Faulty /\ Go(p, "unrevoked"))
    /\ UNCHANGED <<mounted, role, policy, keys, volume, seen, writer>>

RevokeFails(p) ==
    /\ p \in Faulty
    /\ at[p] = "revoke"
    /\ Go(p, "unrevoked")
    /\ UNCHANGED <<baoVars, volume, seen, writer>>

\* SIGKILL, or an interrupt: "except Exception" does not see it.
Kill(p) ==
    /\ p \in Faulty
    /\ at[p] \notin Ended
    /\ Go(p, "killed")
    /\ UNCHANGED <<baoVars, volume, seen, writer>>

-----------------------------------------------------------------------------
(* The specification.                                                      *)

\* An OpenBao that was provisioned before or not, or configured by others.  The
\* content of a policy is unknown before a run writes it.
ProvisionInit ==
    /\ mounted \in BOOLEAN
    /\ role \in [Kinds -> {"absent", "desired", "other"}]
    /\ ~mounted => \A k \in Kinds : role[k] = "absent"
    /\ policy = {}
    /\ keys \in {"absent", "safe", "unsafe"}
    /\ live = {}
    /\ volume = [k \in Kinds |-> Empty]
    /\ at = [p \in Provisions |-> Order[Kind[p]][1]]
    /\ seen = [p \in Provisions |-> [mounted |-> FALSE, role |-> "absent", keys |-> "absent"]]
    /\ writer = [p \in Provisions |-> "none"]

Container(p) ==
    \/ Start(p) \/ NotStarted(p) \/ LinkRole(p) \/ LinkSecret(p) \/ CommitFiles(p)
    \/ DropSecret(p) \/ DropRole(p) \/ DropTemp(p) \/ KillContainer(p)

Run(p) ==
    \/ Fail(p) \/ EnsureEmpty(p) \/ ReadKeys(p) \/ ReadMount(p) \/ ReadRole(p) \/ CreateKeys(p)
    \/ WritePolicy(p) \/ EnableMount(p) \/ AssignRole(p) \/ IssueSecret(p)
    \/ Succeed(p) \/ WriteFails(p) \/ RevokeSecret(p) \/ RevokeFails(p) \/ Kill(p)

ProvisionNext == \E p \in Provisions : Run(p) \/ Container(p)

ProvisionSpec == ProvisionInit /\ [][ProvisionNext]_provisionVars

-----------------------------------------------------------------------------
(* Properties.                                                             *)

ProvisionTypeOK ==
    /\ mounted \in BOOLEAN
    /\ role \in [Kinds -> {"absent", "desired", "other"}]
    /\ policy \subseteq Kinds
    /\ keys \in {"absent", "safe", "unsafe"}
    /\ live \subseteq Provisions
    /\ volume \in [Kinds -> [temp : SUBSET Provisions, role : Provisions \cup {Nobody},
                             secret : Provisions \cup {Nobody}]]
    /\ at \in [Provisions -> Steps \cup {"revoke"} \cup Ended]
    /\ seen \in [Provisions -> [mounted : BOOLEAN, role : {"absent", "desired"},
                          keys : {"absent", "safe"}]]
    /\ writer \in [Provisions -> {"none", "files", "role", "secret", "ok", "undo", "dropped",
                            "failed", "killed"}]

PublishedBy(p) == volume[Kind[p]].role = p /\ volume[Kind[p]].secret = p

\* "credential volume updated": what a run reported is there, works, and is
\* neither replaced, revoked nor cleaned up by any other run, living or dead.
CompletedIsUsable == \A p \in Provisions : at[p] = "done" => PublishedBy(p) /\ p \in live

\* A service never finds the SecretID of one run beside the role ID file of
\* another, or without it, whoever is killed where.
PairIsWhole == \A k \in Kinds : volume[k].secret # Nobody => volume[k].role = volume[k].secret

\* A run that was not cut off leaves all or nothing: it fails with neither a
\* valid SecretID nor a file of its own left.
FailureLeavesNothing ==
    \A p \in Provisions \ Faulty :
        at[p] = "failed" =>
            /\ p \notin live
            /\ p \notin volume[Kind[p]].temp \cup {volume[Kind[p]].role, volume[Kind[p]].secret}

\* No SecretID is valid before the policy, the role that names it and, for RAG,
\* the keys it gives access to are those the repository defines.
SecretIsConfined ==
    \A p \in live :
        /\ mounted
        /\ role[Kind[p]] = "desired"
        /\ Kind[p] \in policy
        /\ Kind[p] = "rag" => keys = "safe"

=============================================================================
