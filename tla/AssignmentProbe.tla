--------------------------- MODULE AssignmentProbe --------------------------
(***************************************************************************)
(* scripts/runtime_cloud_assignment_probe.mjs beside the workers           *)
(* (runtime_native_probe_parent.mjs, runtime_native_probe_agent.mjs): a    *)
(* dispatch for the current incarnation ends in a job of its worker, and   *)
(* one for another incarnation in none.  The Cloud offers a job to the     *)
(* workers of that name one after the other, also to those that an earlier *)
(* probe left behind, and gives a worker that comes back another id.       *)
(***************************************************************************)
EXTENDS ProbeRoom, Naturals

CONSTANTS Workers, \* the processes of the parent,
          current, \* of which this one has the incarnation in the settings
          NoId,    \* not registered, nothing read
          MaxIds   \* bound on the ids the Cloud hands out

ASSUME AssignmentAssumption ==
    /\ current \in Workers
    /\ MaxIds \in Nat /\ NoId \notin 1 .. MaxIds

VARIABLES
    ids,        \* how many ids were handed out
    workerId,   \* the id of each worker
    registration, \* native-registration.sanitized.json: [worker, id]
    registered, \* the id the probe has read there
    job,        \* of each dispatch: [state, worker, id]
    declined,   \* the workers that rejected it
    known       \* the dispatches whose answer the probe has

assignmentVars == <<ids, workerId, registration, registered, job, declined, known>>

Dispatches == {"valid", "stale"}
Ids == (1 .. MaxIds) \cup {NoId}

\* Assigned to a worker whose agent will join the room, or has.
Busy(d) == job[d].state \in {"assigned", "running"}

Move(next) == pc' = next /\ UNCHANGED <<probe, created, status, report, asked, room, caller>>

-----------------------------------------------------------------------------
(* The workers.                                                            *)

\* worker_registered, at the start and whenever the connection comes back.
Register(w) ==
    /\ probe = "assignment" /\ ids < MaxIds
    /\ ids' = ids + 1
    /\ workerId' = [workerId EXCEPT ![w] = ids']
    /\ registration' = [worker |-> w, id |-> ids']
    /\ UNCHANGED <<roomVars, registered, job, declined, known>>

\* A slip to be caught: metadata that are there are good enough.
AnyMetadata(w, d) == TRUE

\* requestFunc: the nonce and the incarnation of the metadata are the worker's.
Accepts(w, d) == d = "valid" /\ w = current

\* request.accept, and prepareJob in the process of the worker.
Accept(w, d) ==
    /\ job[d].state = "offered" /\ workerId[w] # NoId /\ w \notin declined[d]
    /\ Accepts(w, d)
    /\ job' = [job EXCEPT ![d] = [state |-> "assigned", worker |-> w, id |-> workerId[w]]]
    /\ UNCHANGED <<roomVars, ids, workerId, registration, registered, declined, known>>

\* request.reject.
Reject(w, d) ==
    /\ job[d].state = "offered" /\ workerId[w] # NoId /\ w \notin declined[d]
    /\ ~Accepts(w, d)
    /\ declined' = [declined EXCEPT ![d] = @ \cup {w}]
    /\ UNCHANGED <<roomVars, ids, workerId, registration, registered, job, known>>

\* The agent connects; the token opens a room that has been removed.
AgentJoins(d) ==
    /\ job[d].state = "assigned"
    /\ job' = [job EXCEPT ![d].state = "running"]
    /\ room' = IF room = "removed" THEN "reopened" ELSE room
    /\ UNCHANGED <<probe, pc, created, status, report, asked, caller>>
    /\ UNCHANGED <<ids, workerId, registration, registered, declined, known>>

\* The agent is disconnected with its room.
AgentLeaves(d) ==
    /\ job[d].state = "running" /\ room = "removed"
    /\ job' = [job EXCEPT ![d].state = "ended"]
    /\ UNCHANGED <<roomVars, ids, workerId, registration, registered, declined, known>>

-----------------------------------------------------------------------------
(* The probe.                                                              *)

\* The registration must be one of the incarnation in the settings.
ReadRegistration ==
    /\ pc = "start"
    /\ registration.worker = current
    /\ registered' = registration.id
    /\ Move("create")
    /\ UNCHANGED <<ids, workerId, registration, job, declined, known>>

EnterAssignmentRoom == probe = "assignment" /\ EnterRoom("dispatch") /\ UNCHANGED assignmentVars

\* createDispatch, whose answer may be lost.
Dispatch(d, next) ==
    /\ job[d].state = "none"
    /\ job' = [job EXCEPT ![d].state = "offered"]
    /\ \/ known' = known \cup {d} /\ Move(next)
       \/ UNCHANGED known /\ Fail
    /\ UNCHANGED <<ids, workerId, registration, registered, declined>>

DispatchValid == pc = "dispatch" /\ Dispatch("valid", "poll")

\* The poll finds the job with the id that was registered and its agent in the
\* room, and every other observation agrees.
BindJob ==
    /\ pc = "poll"
    /\ job["valid"].state = "running" /\ job["valid"].id = registered
    /\ room = "open"
    /\ Move("bound")
    /\ UNCHANGED assignmentVars

DispatchStale == pc = "bound" /\ Dispatch("stale", "look")

\* After 1.5 s: the stale dispatch has no job of the registered worker.
SeeNoStaleJob ==
    /\ pc = "look"
    /\ ~(job["stale"].state = "running" /\ job["stale"].id = registered)
    /\ pc' = "undispatch" /\ status' = "observed"
    /\ UNCHANGED <<probe, created, report, asked, room, caller, assignmentVars>>

\* The known dispatches are deleted; a job that is assigned goes on.
DeleteDispatches ==
    /\ pc = "undispatch"
    /\ job' = [d \in Dispatches |->
                  IF d \in known /\ job[d].state = "offered" THEN [job[d] EXCEPT !.state = "deleted"]
                  ELSE job[d]]
    /\ Move("close")
    /\ UNCHANGED <<ids, workerId, registration, registered, declined, known>>

-----------------------------------------------------------------------------
AssignmentInit ==
    /\ ids = 0 /\ workerId = [w \in Workers |-> NoId]
    /\ registration = [worker |-> NoId, id |-> NoId] /\ registered = NoId
    /\ job = [d \in Dispatches |-> [state |-> "none", worker |-> NoId, id |-> NoId]]
    /\ declined = [d \in Dispatches |-> {}]
    /\ known = {}

AssignmentWork ==
    \/ ReadRegistration \/ EnterAssignmentRoom \/ DispatchValid \/ BindJob \/ DispatchStale
    \/ SeeNoStaleJob \/ DeleteDispatches

WorkerStep ==
    \/ \E w \in Workers : Register(w)
    \/ \E w \in Workers, d \in Dispatches : Accept(w, d) \/ Reject(w, d)
    \/ \E d \in Dispatches : AgentJoins(d) \/ AgentLeaves(d)

AssignmentStep == AssignmentWork \/ WorkerStep

-----------------------------------------------------------------------------
(* Properties.                                                             *)

AssignmentTypeOK ==
    /\ ids \in 0 .. MaxIds
    /\ workerId \in [Workers -> Ids]
    /\ registration \in [worker : Workers \cup {NoId}, id : Ids] /\ registered \in Ids
    /\ job \in [Dispatches -> [state : {"none", "offered", "deleted", "assigned", "running", "ended"},
                               worker : Workers \cup {NoId}, id : Ids]]
    /\ declined \in [Dispatches -> SUBSET Workers]
    /\ known \in SUBSET Dispatches

\* The probe looks for a stale job once, after 1.5 s, and only for one of the
\* worker it has read.  What it reports holds all the same, then and later: no
\* worker runs a job of another incarnation, and the bound job was run by the
\* worker of the settings under the id that was read.
ObservedAssignmentHolds ==
    probe = "assignment" /\ status = "observed" =>
        /\ job["stale"].state \notin {"assigned", "running", "ended"}
        /\ job["valid"].worker = current /\ job["valid"].id = registered

=============================================================================
