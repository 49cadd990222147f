---------------------------- MODULE OperatorInit ----------------------------
(***************************************************************************)
(* initialize_cluster of scripts/openbao.sh.  OpenBao gives the shares of  *)
(* its key and the root token once, in the response to the initialization: *)
(* it goes to a file of this run first, and from there to the output that  *)
(* the operator named, unless something is there.                          *)
(***************************************************************************)
CONSTANTS Inits,   \* runs of the command for one output
          Nothing, \* no such file
          Foreign  \* a file that is not of this command

ASSUME InitAssumption == Nothing \notin Inits \cup {Foreign} /\ Foreign \notin Inits

VARIABLES
    stage,       \* where each run is
    file,        \* its temporary file: "absent", "empty", "response" or "error"
    output,      \* whose response OPENBAO_INIT_OUTPUT holds
    initialized, \* the cluster is
    delivered    \* the runs whose file the response has been sent to

initVars == <<stage, file, output, initialized, delivered>>

Ends(r, how) == stage' = [stage EXCEPT ![r] = how]

\* The output must not exist yet; mktemp.
CheckOutput(r) ==
    /\ stage[r] = "check"
    /\ IF output = Nothing
       THEN Ends(r, "ask") /\ file' = [file EXCEPT ![r] = "empty"]
       ELSE Ends(r, "refused") /\ UNCHANGED file
    /\ UNCHANGED <<output, initialized, delivered>>

\* bao operator init answers into the file: the first time with the response,
\* if it arrives.  Of a failure the file is kept.
AskForInit(r) ==
    /\ stage[r] = "ask"
    /\ \/ /\ ~initialized
          /\ initialized' = TRUE
          /\ Ends(r, "publish") /\ file' = [file EXCEPT ![r] = "response"]
          /\ delivered' = delivered \cup {r}
       \/ /\ initialized' \in {initialized, TRUE}
          /\ Ends(r, "failed") /\ file' = [file EXCEPT ![r] = "error"]
          /\ UNCHANGED delivered
    /\ UNCHANGED output

\* ln does not replace what is there; then the run fails and keeps its file.
PublishResponse(r) ==
    /\ stage[r] = "publish"
    /\ IF output = Nothing THEN output' = r /\ Ends(r, "tidy")
       ELSE Ends(r, "failed") /\ UNCHANGED output
    /\ UNCHANGED <<file, initialized, delivered>>

\* A slip to be caught: the file of a failed run goes, too.
TidyAlways(r) ==
    /\ stage[r] \in {"tidy", "failed"}
    /\ Ends(r, "done") /\ file' = [file EXCEPT ![r] = "absent"]
    /\ UNCHANGED <<output, initialized, delivered>>

\* rm, or the trap of a run that ends well.
TidyFile(r) ==
    /\ stage[r] = "tidy"
    /\ Ends(r, "done") /\ file' = [file EXCEPT ![r] = "absent"]
    /\ UNCHANGED <<output, initialized, delivered>>

\* The run is killed, or the host fails; OpenBao may go on.
Abort(r) ==
    /\ stage[r] \in {"check", "ask", "publish", "tidy"}
    /\ Ends(r, "failed")
    /\ initialized' \in {initialized, initialized \/ stage[r] = "ask"}
    /\ UNCHANGED <<file, output, delivered>>

\* SIGTERM, or SIGHUP from a closing terminal.  The trap reads the exit code of the
\* last command, which has succeeded everywhere from mktemp to the end: the file goes,
\* and with it what OpenBao has answered or is about to.
Interrupt(r) ==
    /\ stage[r] \in {"ask", "publish", "tidy"}
    /\ Ends(r, "interrupted") /\ file' = [file EXCEPT ![r] = "absent"]
    /\ \/ stage[r] = "ask" /\ ~initialized
          /\ initialized' = TRUE /\ delivered' = delivered \cup {r}
       \/ UNCHANGED <<initialized, delivered>>
    /\ UNCHANGED output

\* Someone else uses the name.
CreateOutput ==
    /\ output = Nothing
    /\ output' = Foreign
    /\ UNCHANGED <<stage, file, initialized, delivered>>

InitInit ==
    /\ stage = [r \in Inits |-> "check"] /\ file = [r \in Inits |-> "absent"]
    /\ output \in {Nothing, Foreign} /\ initialized \in BOOLEAN /\ delivered = {}

InitNext ==
    \/ \E r \in Inits :
          CheckOutput(r) \/ AskForInit(r) \/ PublishResponse(r) \/ TidyFile(r)
          \/ Abort(r) \/ Interrupt(r)
    \/ CreateOutput

InitSpec == InitInit /\ [][InitNext]_initVars

-----------------------------------------------------------------------------
(* Properties.                                                             *)

InitTypeOK ==
    /\ stage \in [Inits -> {"check", "ask", "publish", "tidy", "done", "refused", "failed",
                        "interrupted"}]
    /\ file \in [Inits -> {"absent", "empty", "response", "error"}]
    /\ output \in Inits \cup {Nothing, Foreign}
    /\ initialized \in BOOLEAN /\ delivered \in SUBSET Inits

Kept(r) == output = r \/ file[r] = "response"

\* The only response to the initialization is not lost once it has arrived,
\* whatever fails or is killed then, but for a run that is told to stop.
UninterruptedIsKept == \A r \in delivered : stage[r] # "interrupted" => Kept(r)

\* README: if the command ends abnormally or cannot publish the output safely,
\* it does not delete the response but leaves it in a recovery file.
ResponseIsKept == \A r \in delivered : Kept(r)

=============================================================================
