---------------------------- MODULE BrowserPage -----------------------------
(***************************************************************************)
(* The page that both scripts of the Ghost theme run in, as the events     *)
(* they listen to and the callbacks they wait for show it                  *)
(* (ghost/theme/tello/src/hero.js and assets/js/dock.js).                  *)
(***************************************************************************)

VARIABLES
    page,   \* "active", "cached" for going back to it, or "leaving"
    hidden, \* document.hidden
    reduced \* (prefers-reduced-motion: reduce) matches

browser == <<page, hidden, reduced>>

PageTypeOK ==
    page \in {"active", "cached", "leaving"} /\ hidden \in BOOLEAN /\ reduced \in BOOLEAN

PageInit == page = "active" /\ hidden \in BOOLEAN /\ reduced \in BOOLEAN

\* The page is drawn, and frames and scroll events are delivered.
OnScreen == page = "active" /\ ~hidden

\* The tab is hidden or shown: visibilitychange.
PageToggles == page # "leaving" /\ hidden' = ~hidden /\ UNCHANGED <<page, reduced>>

\* The visitor leaves the page, which is kept (pagehide with persisted) or not,
\* and comes back to one that was kept (pageshow).
PageIsCached == page = "active" /\ page' = "cached" /\ UNCHANGED <<hidden, reduced>>

PageIsLeft == page = "active" /\ page' = "leaving" /\ UNCHANGED <<hidden, reduced>>

PageReturns == page = "cached" /\ page' = "active" /\ UNCHANGED <<hidden, reduced>>

MotionToggles == reduced' = ~reduced /\ UNCHANGED <<page, hidden>>

=============================================================================
