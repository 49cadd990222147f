--------------------------- MODULE RevocationProbe --------------------------
(***************************************************************************)
(* scripts/runtime_cloud_revocation_probe.mjs: for two identities of its   *)
(* own, one after the other, the probe lets the Cloud refresh the token,   *)
(* leaves, revokes the tokens of the identity that is now absent, and      *)
(* finds that the token it has kept is refused.                            *)
(*                                                                         *)
(* Time is in half seconds; the claims of a token and the cutoff are in    *)
(* seconds.  Only differences count, so every identity starts at 0.        *)
(***************************************************************************)
EXTENDS ProbeRoom, Integers, FiniteSetsExt

CONSTANTS Identities, \* 1 .. n, in the order they are probed
          Skews,      \* how far the clock of the Cloud may be ahead
          MaxElapsed  \* bound on the time until the second removal is computed

ASSUME RevocationAssumption ==
    /\ 1 \in Identities /\ Identities \subseteq Nat
    /\ Skews \subseteq Int
    /\ MaxElapsed \in Nat

VARIABLES
    identity, \* the one being probed
    now,      \* Date.now()
    skew,     \* of the clock of the Cloud
    initial,  \* nbf of the tokens the probe makes,
    refreshed, \* and of those the Cloud makes of them
    cutoff,   \* what the second removal revokes up to
    revoked,  \* what the Cloud has revoked, for each identity
    cases     \* the identities that are covered

revocationVars == <<identity, now, skew, initial, refreshed, cutoff, revoked, cases>>

Seconds(t) == t \div 2

-----------------------------------------------------------------------------
(* The work, an action for what comes between two awaits that matter.      *)

\* A token is made and used, and a pong awaited.
ConnectIdentity ==
    /\ probe = "revocation"
    /\ EnterRoom("refresh")
    /\ initial' = [initial EXCEPT ![identity] = Seconds(now)]
    /\ UNCHANGED <<identity, now, skew, refreshed, cutoff, revoked, cases>>

\* New metadata make the Cloud refresh the token.
RefreshToken ==
    /\ pc = "refresh" /\ caller
    /\ pc' = "leave"
    /\ refreshed' = [refreshed EXCEPT ![identity] = Seconds(now + skew)]
    /\ UNCHANGED <<probe, created, status, report, asked, room, caller>>
    /\ UNCHANGED <<identity, now, skew, initial, cutoff, revoked, cases>>

LeaveIdentity ==
    /\ pc = "leave"
    /\ pc' = "revoke"
    /\ caller' = FALSE
    /\ UNCHANGED <<probe, created, status, report, asked, room, revocationVars>>

Revoke(upTo) == revoked' = [revoked EXCEPT ![identity] = Max({@, upTo})]

FirstRemoval ==
    /\ pc = "revoke" /\ RoomIsOpen
    /\ pc' = "acknowledged"
    /\ Revoke(Seconds(now))
    /\ UNCHANGED <<probe, created, status, report, asked, room, caller>>
    /\ UNCHANGED <<identity, now, skew, initial, refreshed, cutoff, cases>>

\* A slip to be caught: the cutoff forgets that the Cloud may be ahead.
ChooseOwnCutoff == Seconds(now) + 2

\* The cutoff is past the acknowledgement and past the refreshed token.
ChooseCutoff == Max({Seconds(now), refreshed[identity]}) + 2

\* The second removal is made half a second after the cutoff, which may be no
\* more than 5 s away; it always lies ahead.
AwaitCutoff ==
    /\ pc = "acknowledged"
    /\ 2 * ChooseCutoff + 1 - now <= 10
    /\ pc' = "wait"
    /\ cutoff' = ChooseCutoff
    /\ UNCHANGED <<probe, created, status, report, asked, room, caller>>
    /\ UNCHANGED <<identity, now, skew, initial, refreshed, revoked, cases>>

SecondRemoval ==
    /\ pc = "wait" /\ now >= 2 * cutoff + 1 /\ RoomIsOpen
    /\ pc' = "attempt"
    /\ Revoke(cutoff)
    /\ UNCHANGED <<probe, created, status, report, asked, room, caller>>
    /\ UNCHANGED <<identity, now, skew, initial, refreshed, cutoff, cases>>

\* The kept token is refused.  What the probe sees of it, a message with one of
\* some words, it may also see when the Cloud cannot be reached.
AttemptRefused ==
    /\ pc = "attempt"
    /\ cases' = cases \cup {identity}
    /\ IF identity + 1 \in Identities
       THEN pc' = "join" /\ identity' = identity + 1 /\ UNCHANGED status
       ELSE pc' = "close" /\ status' = "observed" /\ UNCHANGED identity
    /\ now' = 0
    /\ UNCHANGED <<probe, created, report, asked, room, caller>>
    /\ UNCHANGED <<skew, initial, refreshed, cutoff, revoked>>

Pass ==
    /\ probe = "revocation" /\ Working
    /\ IF pc = "wait" THEN now < 2 * cutoff + 1 ELSE now < MaxElapsed
    /\ now' = now + 1
    /\ UNCHANGED <<roomVars, identity, skew, initial, refreshed, cutoff, revoked, cases>>

-----------------------------------------------------------------------------
RevocationInit ==
    /\ identity = 1 /\ now = 0
    /\ skew \in Skews
    /\ initial = [i \in Identities |-> 0] /\ refreshed = [i \in Identities |-> 0]
    /\ cutoff = 0
    /\ revoked = [i \in Identities |-> 0] /\ cases = {}

RevocationWork ==
    \/ ConnectIdentity \/ RefreshToken \/ LeaveIdentity \/ FirstRemoval \/ AwaitCutoff
    \/ SecondRemoval \/ AttemptRefused

RevocationStep == RevocationWork \/ Pass

-----------------------------------------------------------------------------
(* Properties.                                                             *)

RevocationTypeOK ==
    /\ identity \in Identities /\ now \in Nat /\ skew \in Skews
    /\ initial \in [Identities -> Int] /\ refreshed \in [Identities -> Int]
    /\ cutoff \in Int
    /\ revoked \in [Identities -> Int] /\ cases \in SUBSET Identities

\* Whichever clock is ahead, and though a refusal may be an outage: every token
\* of a covered identity, the probe's own and the refreshed one, is from before
\* what the Cloud has acknowledged to have revoked.
CoveredTokensAreRevoked ==
    \A i \in cases : initial[i] < revoked[i] /\ refreshed[i] < revoked[i]

=============================================================================
