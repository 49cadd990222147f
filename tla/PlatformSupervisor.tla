------------------------- MODULE PlatformSupervisor -------------------------
(***************************************************************************)
(* scripts/openbao_platform.py, the first process of the portable OpenBao  *)
(* container, and its child: openbao/platform-entrypoint.sh, which stages  *)
(* the seal key and becomes the server.  The health pages only read.       *)
(*                                                                         *)
(* The provider asks the container to stop with one SIGTERM and kills what *)
(* is left of it when its budget has passed.  Time is in steps of that     *)
(* budget; what takes less than one takes none.                            *)
(***************************************************************************)
EXTENDS Naturals

CONSTANTS Grace, \* seconds of OPENBAO_SHUTDOWN_MS
          Budget \* of the provider

ASSUME SupervisorAssumption == Grace \in Nat /\ Budget \in Nat /\ Grace < Budget

VARIABLES
    sup,      \* the supervisor: "new", "started", "watching", "asking", "killing", "exited"
    stopping, \* the event its handlers set
    child,    \* "none", "staging", "serving", "ended"
    asked,    \* the child group has been sent SIGTERM
    waited,   \* time since then
    term,     \* the provider has asked the container to stop,
    since,    \* so long ago
    killed    \* and has killed it

supervisorVars == <<sup, stopping, child, asked, waited, term, since, killed>>

ChildRuns == child \in {"staging", "serving"}

Running == ~killed /\ sup # "exited"

-----------------------------------------------------------------------------
(* The supervisor.                                                         *)

\* Without a child that could be started it ends.
StartChild ==
    /\ Running /\ sup = "new"
    /\ \/ sup' = "started" /\ child' = "staging"
       \/ sup' = "exited" /\ UNCHANGED child
    /\ UNCHANGED <<stopping, asked, waited, term, since, killed>>

\* signal.signal, and the health listener.
InstallHandlers ==
    /\ Running /\ sup = "started"
    /\ sup' = "watching"
    /\ UNCHANGED <<stopping, child, asked, waited, term, since, killed>>

\* The loop ends with the child or with the event.  A child that has ended is
\* not signalled; another one is, and need not end: the trap of the entrypoint only
\* removes a file.
Ask ==
    /\ Running /\ sup = "watching"
    /\ stopping \/ child = "ended"
    /\ IF child = "ended"
       THEN sup' = "exited" /\ UNCHANGED asked
       ELSE sup' = "asking" /\ asked' = TRUE
    /\ stopping' = TRUE
    /\ UNCHANGED <<child, waited, term, since, killed>>

\* child.wait returns.
Reap ==
    /\ Running /\ sup \in {"asking", "killing"}
    /\ child = "ended"
    /\ sup' = "exited"
    /\ UNCHANGED <<stopping, child, asked, waited, term, since, killed>>

\* A slip to be caught: the group is asked again.
AskAgain ==
    /\ Running /\ sup = "asking"
    /\ child # "ended" /\ waited = Grace
    /\ waited' = 0
    /\ UNCHANGED <<sup, stopping, child, asked, term, since, killed>>

\* SIGKILL to the group, once the grace is over.
KillGroup ==
    /\ Running /\ sup = "asking"
    /\ child # "ended" /\ waited = Grace
    /\ sup' = "killing" /\ child' = "ended"
    /\ UNCHANGED <<stopping, asked, waited, term, since, killed>>

-----------------------------------------------------------------------------
(* The child, the provider, and time.                                      *)

\* The key is published and the server takes the place of the shell.
Serve ==
    /\ Running /\ child = "staging"
    /\ child' = "serving"
    /\ UNCHANGED <<sup, stopping, asked, waited, term, since, killed>>

\* A check of the entrypoint fails, the server fails or ends as it was asked.
ChildEnds ==
    /\ Running /\ ChildRuns
    /\ child' = "ended"
    /\ UNCHANGED <<sup, stopping, asked, waited, term, since, killed>>

\* SIGTERM: as the first process of the container, the supervisor does not
\* notice it before it has a handler.
RequestStop ==
    /\ Running /\ ~term
    /\ term' = TRUE
    /\ stopping' = (stopping \/ sup \in {"watching", "asking", "killing"})
    /\ UNCHANGED <<sup, child, asked, waited, since, killed>>

\* The steps of the supervisor that time waits for.
Due ==
    \/ sup \in {"new", "started", "killing"}
    \/ sup = "watching" /\ (stopping \/ child = "ended")
    \/ sup = "asking" /\ (child = "ended" \/ waited = Grace)

Elapse ==
    /\ Running /\ ~Due /\ (term => since < Budget)
    /\ waited' = IF asked THEN waited + 1 ELSE waited
    /\ since' = IF term THEN since + 1 ELSE since
    /\ UNCHANGED <<sup, stopping, child, asked, term, killed>>

\* The container and everything in it.
ProviderKills ==
    /\ Running /\ term /\ since = Budget
    /\ killed' = TRUE /\ child' = "ended"
    /\ UNCHANGED <<sup, stopping, asked, waited, term, since>>

-----------------------------------------------------------------------------
SupervisorInit ==
    /\ sup = "new" /\ stopping = FALSE
    /\ child = "none" /\ asked = FALSE /\ waited = 0
    /\ term = FALSE /\ since = 0 /\ killed = FALSE

SupervisorNext ==
    \/ StartChild \/ InstallHandlers \/ Ask \/ Reap \/ KillGroup
    \/ Serve \/ ChildEnds
    \/ RequestStop \/ Elapse \/ ProviderKills

SupervisorSpec == SupervisorInit /\ [][SupervisorNext]_supervisorVars

-----------------------------------------------------------------------------
(* Properties.                                                             *)

SupervisorTypeOK ==
    /\ sup \in {"new", "started", "watching", "asking", "killing", "exited"}
    /\ child \in {"none", "staging", "serving", "ended"}
    /\ stopping \in BOOLEAN /\ asked \in BOOLEAN /\ term \in BOOLEAN /\ killed \in BOOLEAN
    /\ waited \in 0 .. Grace /\ since \in 0 .. Budget

\* A supervisor that ends leaves no server behind, also of a child that was
\* still staging the key and did not end of the signal.
NothingLeftBehind == sup = "exited" => ~ChildRuns

\* A stop that was heard is over before the provider kills the container, even
\* if the server hangs: it has got its SIGTERM and all of its grace.
StopsInBudget == killed => ~stopping

=============================================================================
