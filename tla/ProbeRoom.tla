----------------------------- MODULE ProbeRoom ------------------------------
(***************************************************************************)
(* What the two probes of LiveKit Cloud have in common                     *)
(* (scripts/runtime_cloud_revocation_probe.mjs and                         *)
(* scripts/runtime_cloud_assignment_probe.mjs): a room of their own, a     *)
(* browser in it, work that may fail at any await, the cleanup in finally, *)
(* of which a failing call skips the rest, and the report at its end.      *)
(*                                                                         *)
(* The Cloud carries requests out late and loses their answers, opens a    *)
(* room for whoever joins it, and removes it some time after the last      *)
(* participant (emptyTimeout); an agent does not keep it open.             *)
(***************************************************************************)
CONSTANT NoReport

ASSUME ReportAssumption ==
    NoReport \notin [status : {"observed", "unproven"}, removed : BOOLEAN]

VARIABLES
    probe,   \* which of them runs: "revocation" or "assignment"
    pc,      \* where it is
    created, \* the script knows that its room was created
    status,  \* result.status
    report,  \* the file it writes
    \* the Cloud
    asked,   \* a createRoom is on its way
    room,    \* "none", "open", "removed", or "reopened" by a late participant
    caller   \* the browser is in the room

roomVars == <<probe, pc, created, status, report, asked, room, caller>>

RoomIsOpen == room \in {"open", "reopened"}

FirstCleanup == IF probe = "assignment" THEN "undispatch" ELSE "close"

\* Inside try.
Working == pc \notin {"start", "create", "undispatch", "close", "delete", "write", "done", "dead"}

Ended == pc \in {"done", "dead"}

-----------------------------------------------------------------------------
(* The script.                                                             *)

CreateRoom ==
    /\ pc = "create"
    /\ pc' = "created" /\ asked' = TRUE
    /\ UNCHANGED <<probe, created, status, report, room, caller>>

RoomCreated ==
    /\ pc = "created" /\ ~asked
    /\ pc' = "join" /\ created' = TRUE
    /\ UNCHANGED <<probe, status, report, asked, room, caller>>

\* The browser connects to the room, which may have timed out before.
EnterRoom(next) ==
    /\ pc = "join"
    /\ pc' = next
    /\ caller' = TRUE
    /\ room' = IF room = "removed" THEN "reopened" ELSE room
    /\ UNCHANGED <<probe, created, status, report, asked>>

\* An await of the work throws, also when its request is carried out.
Fail ==
    /\ Working
    /\ pc' = FirstCleanup /\ status' = "unproven"
    /\ UNCHANGED <<probe, created, report, asked, room, caller>>

CloseBrowser ==
    /\ pc = "close"
    /\ pc' = IF created THEN "delete" ELSE "write"
    /\ caller' = FALSE
    /\ UNCHANGED <<probe, created, status, report, asked, room>>

\* A slip to be caught: a room that cannot be removed is taken for removed.
DeleteRoomAnyway ==
    /\ pc = "delete"
    /\ pc' = "write"
    /\ room' \in {room, IF RoomIsOpen THEN "removed" ELSE room}
    /\ UNCHANGED <<probe, created, status, report, asked, caller>>

\* A room that is gone already is an error, and so the end.
DeleteRoom ==
    /\ pc = "delete" /\ RoomIsOpen
    /\ pc' = "write"
    /\ room' = "removed"
    /\ UNCHANGED <<probe, created, status, report, asked, caller>>

\* ownedRoomRemoved is set once deleteRoom has returned.
WriteReport ==
    /\ pc = "write"
    /\ pc' = "done"
    /\ report' = [status |-> status, removed |-> created]
    /\ UNCHANGED <<probe, created, status, asked, room, caller>>

\* A slip to be caught: the browser outlives the process.
DieAlone ==
    /\ ~Ended
    /\ pc' = "dead"
    /\ UNCHANGED <<probe, created, status, report, asked, room, caller>>

\* The process is killed, or an await outside try throws: in finally, or for
\* an output file that exists.  The browser goes with it.
Die ==
    /\ ~Ended
    /\ pc' = "dead" /\ caller' = FALSE
    /\ UNCHANGED <<probe, created, status, report, asked, room>>

-----------------------------------------------------------------------------
(* The Cloud.                                                              *)

CarryOutCreate ==
    /\ asked
    /\ asked' = FALSE
    /\ room' = "open"
    /\ UNCHANGED <<probe, pc, created, status, report, caller>>

\* emptyTimeout.
EmptyRoom ==
    /\ RoomIsOpen /\ ~caller
    /\ room' = "removed"
    /\ UNCHANGED <<probe, pc, created, status, report, asked, caller>>

-----------------------------------------------------------------------------
ProbeRoomInit ==
    /\ probe \in {"revocation", "assignment"}
    /\ pc = IF probe = "assignment" THEN "start" ELSE "create"
    /\ created = FALSE /\ status = "none" /\ report = NoReport
    /\ asked = FALSE /\ room = "none" /\ caller = FALSE

\* What both scripts do before the work and after it.
RoomWork ==
    \/ CreateRoom \/ RoomCreated \/ Fail
    \/ CloseBrowser \/ DeleteRoom \/ WriteReport \/ Die

RoomStep == RoomWork \/ CarryOutCreate \/ EmptyRoom

=============================================================================
