----------------------------- MODULE OwnedRoom ------------------------------
(***************************************************************************)
(* What a probe of the provider promises about the room it makes for       *)
(* itself: a report that something was observed comes after the room, and  *)
(* the room does not come back.  A failed probe may leave a request behind *)
(* that opens it again; even then its report calls the room removed only   *)
(* if it was.                                                              *)
(***************************************************************************)

CONSTANT NoReport

VARIABLES room,  \* "none", "open", "removed", or "reopened"
          report \* [status, removed] once it is written

RoomInit == room = "none" /\ report = NoReport

Observed == report # NoReport /\ report.status = "observed"

OpenRoom ==
    /\ ~Observed
    /\ \/ room = "none" /\ room' = "open"
       \/ room = "removed" /\ room' = "reopened"
    /\ UNCHANGED report

RemoveRoom ==
    /\ room \in {"open", "reopened"}
    /\ room' = "removed"
    /\ UNCHANGED report

Report(status, removed) ==
    /\ report = NoReport
    /\ removed => room \in {"removed", "reopened"}
    /\ status = "observed" => removed /\ room = "removed"
    /\ report' = [status |-> status, removed |-> removed]
    /\ UNCHANGED room

RoomNext ==
    \/ OpenRoom
    \/ RemoveRoom
    \/ \E status \in {"observed", "unproven"}, removed \in BOOLEAN : Report(status, removed)

RoomSpec == RoomInit /\ [][RoomNext]_<<room, report>>

=============================================================================
