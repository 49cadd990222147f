----------------------------- MODULE HeaderDock -----------------------------
(***************************************************************************)
(* ghost/theme/tello/assets/js/dock.js: once the page is scrolled, the     *)
(* plate of the header goes and its bar of actions moves to the centre.    *)
(* The bar is not slid there: it fades, moves, and appears again.          *)
(*                                                                         *)
(* Positions are in half pixels: the centre of a bar then has one.         *)
(***************************************************************************)
EXTENDS BrowserPage, Integers

CONSTANTS Widths, \* of the viewport
          Edge,   \* the right edge of the bar, by the width of the viewport
          Narrow, \* how broad the bar is at its place in the header,
          Broad   \* and docked, when it has one button more

ASSUME DockAssumption ==
    /\ Widths \subseteq Int /\ Widths # {}
    /\ Edge \in [Widths -> Int] /\ Narrow \in [Widths -> Int] /\ Broad \in [Widths -> Int]

VARIABLES
    present,       \* the page has the header and its bar
    width,         \* window.innerWidth
    resized,       \* a resize event waits to be delivered
    scrolled,      \* window.scrollY > THRESHOLD
    scrollDue,     \* a scroll event waits to be delivered
    \* the script
    reducedAtLoad, \* reduced, which it reads once
    docked, ticking,
    frameDue,      \* the callback of requestAnimationFrame waits
    fadeTimer, resizeTimer,
    \* the document
    isDocked,      \* the header has the class is-docked
    fading,        \* the bar has the class is-fading
    dx             \* --dock-dx, by which a docked bar is moved, in half pixels

load     == <<present, reducedAtLoad>>
viewport == <<width, resized, scrolled, scrollDue>>
timers   == <<fadeTimer, resizeTimer>>
header   == <<isDocked, fading, dx>>

barVars  == <<load, viewport, docked, ticking, frameDue, timers, header>>
dockVars == <<browser, barVars>>

-----------------------------------------------------------------------------
(* The bar and its measure.                                                *)

\* The centre of the bar in one of its layouts, moved by dx or not.
Centre(w, inDockedLayout, moved) ==
    2 * Edge[w] - (IF inDockedLayout THEN Broad[w] ELSE Narrow[w]) + (IF moved THEN dx ELSE 0)

\* A slip to be caught: the bar is measured where it is.
MeasureInPlace(w) == w - Centre(w, TRUE, isDocked)

\* measure(): how far the centre of the viewport is from the bar, in the docked
\* layout and without the move.
Measure(w) == w - Centre(w, TRUE, FALSE)

-----------------------------------------------------------------------------
(* The script.                                                             *)

\* setDocked(next).
SetDocked(next) ==
    IF next = docked THEN UNCHANGED <<docked, fadeTimer, isDocked, fading>>
    ELSE /\ docked' = next
         /\ IF reducedAtLoad
            THEN isDocked' = next /\ fading' = FALSE /\ UNCHANGED fadeTimer
            ELSE fading' = TRUE /\ fadeTimer' = TRUE /\ UNCHANGED isDocked

\* onScroll: one animation frame for all the events that come before it.
OnScroll ==
    /\ OnScreen /\ scrollDue
    /\ scrollDue' = FALSE
    /\ ticking' = TRUE
    /\ frameDue' = (frameDue \/ ~ticking)
    /\ UNCHANGED <<browser, load, width, resized, scrolled, docked, timers, header>>

\* A slip to be caught: a frame that changes nothing leaves ticking set.
DockFrameStuck ==
    /\ OnScreen /\ frameDue
    /\ frameDue' = FALSE
    /\ SetDocked(scrolled)
    /\ ticking' = (scrolled = docked)
    /\ UNCHANGED <<browser, load, viewport, resizeTimer, dx>>

\* That frame.
DockFrame ==
    /\ OnScreen /\ frameDue
    /\ frameDue' = FALSE
    /\ SetDocked(scrolled)
    /\ ticking' = FALSE
    /\ UNCHANGED <<browser, load, viewport, resizeTimer, dx>>

\* commit(), when the bar has faded.  Timers run in a hidden tab too.
Commit ==
    /\ page = "active" /\ fadeTimer
    /\ fadeTimer' = FALSE
    /\ isDocked' = docked /\ fading' = FALSE
    /\ UNCHANGED <<browser, load, viewport, docked, ticking, frameDue, resizeTimer, dx>>

\* The handler of resize events: measure once the resizing has stopped.
OnResize ==
    /\ OnScreen /\ resized
    /\ resized' = FALSE
    /\ resizeTimer' = TRUE
    /\ UNCHANGED <<browser, load, width, scrolled, scrollDue, docked, ticking, frameDue, fadeTimer,
                   header>>

MeasureAgain ==
    /\ page = "active" /\ resizeTimer
    /\ resizeTimer' = FALSE
    /\ dx' = Measure(width)
    /\ UNCHANGED <<browser, load, viewport, docked, ticking, frameDue, fadeTimer, isDocked,
                   fading>>

-----------------------------------------------------------------------------
(* The visitor.                                                            *)

ResizeViewport(w) ==
    /\ present /\ w # width
    /\ width' = w /\ resized' = TRUE
    /\ UNCHANGED <<browser, load, scrolled, scrollDue, docked, ticking, frameDue, timers, header>>

ScrollPast ==
    /\ present /\ page # "cached"
    /\ scrolled' = ~scrolled /\ scrollDue' = TRUE
    /\ UNCHANGED <<browser, load, width, resized, docked, ticking, frameDue, timers, header>>

-----------------------------------------------------------------------------
(* The specification.                                                      *)

\* The script measures, and takes its first place without fading.
DockInit ==
    /\ PageInit /\ present \in BOOLEAN
    /\ width \in Widths /\ resized = FALSE
    /\ scrolled \in BOOLEAN /\ scrollDue = FALSE
    /\ reducedAtLoad = reduced
    /\ docked = scrolled /\ ticking = FALSE /\ frameDue = FALSE
    /\ fadeTimer = FALSE /\ resizeTimer = FALSE
    /\ isDocked = scrolled /\ fading = FALSE
    /\ dx = width - (2 * Edge[width] - Broad[width])

BarStep ==
    \/ OnScroll \/ DockFrame \/ Commit
    \/ OnResize \/ MeasureAgain
    \/ ScrollPast \/ \E w \in Widths : ResizeViewport(w)

DockNext ==
    \/ BarStep
    \/ /\ PageToggles \/ PageIsCached \/ PageIsLeft \/ PageReturns \/ MotionToggles
       /\ UNCHANGED barVars

\* The browser delivers events, frames and timers to a page that is shown.
DockFairness == WF_dockVars(OnScroll) /\ WF_dockVars(DockFrame) /\ WF_dockVars(Commit)

DockSpec == DockInit /\ [][DockNext]_dockVars

DockFairSpec == DockSpec /\ DockFairness

-----------------------------------------------------------------------------
(* Properties.                                                             *)

DockTypeOK ==
    /\ PageTypeOK /\ present \in BOOLEAN
    /\ width \in Widths /\ resized \in BOOLEAN /\ scrolled \in BOOLEAN /\ scrollDue \in BOOLEAN
    /\ reducedAtLoad \in BOOLEAN /\ docked \in BOOLEAN /\ ticking \in BOOLEAN
    /\ frameDue \in BOOLEAN /\ fadeTimer \in BOOLEAN /\ resizeTimer \in BOOLEAN
    /\ isDocked \in BOOLEAN /\ fading \in BOOLEAN /\ dx \in Int

\* Neither the move of the bar nor the width it has at its other place comes
\* into the measure: whatever was scrolled and resized meanwhile, a docked bar
\* is at the centre of the viewport once the resizing is over.
BarIsCentred ==
    isDocked /\ ~resized /\ ~resizeTimer => Centre(width, TRUE, TRUE) = width

\* Whatever is on its way for the header of a page that is shown can arrive.
BarCanGoOn ==
    OnScreen =>
        /\ scrollDue => ENABLED <<OnScroll>>_dockVars
        /\ frameDue => ENABLED <<DockFrame>>_dockVars
        /\ fadeTimer => ENABLED <<Commit>>_dockVars

\* Scrolling that turns back while the bar fades, while a frame is requested or
\* while the page is away leaves it neither at the wrong place nor faded.
BarSettles ==
    \A s \in BOOLEAN :
        <>[](present /\ OnScreen /\ scrolled = s) => <>[](isDocked = s /\ ~fading)

=============================================================================
