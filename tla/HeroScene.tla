------------------------------ MODULE HeroScene -----------------------------
(***************************************************************************)
(* ghost/theme/tello/src/hero.js: the orbital sculpture of the blog's      *)
(* first page.  The page changes at any time, and the browser tells the    *)
(* script later, through events, observers and animation frames; every     *)
(* handler of the script is one action.                                    *)
(*                                                                         *)
(* A picture is the size and the palette it was drawn with.  The pose of   *)
(* the sculpture is a bit that every animated picture flips; the pointer,  *)
(* which only bends the pose, is left out.                                 *)
(***************************************************************************)
EXTENDS BrowserPage, Naturals, Sequences

CONSTANTS Boxes,     \* sizes the host element can have
          Themes,    \* values of data-theme
          Frames,    \* handles of requestAnimationFrame
          Nothing,   \* no size, no picture, no handle
          MaxEntries \* entries the IntersectionObserver may deliver at once

ASSUME HeroAssumption ==
    /\ Nothing \notin Boxes \cup Frames
    /\ Nothing \notin [box : Boxes \cup {Nothing}, palette : Themes]
    /\ Themes # {} /\ Frames # {}
    /\ MaxEntries \in Nat \ {0}

VARIABLES
    \* the page as it is
    box,     \* the size of the host, or Nothing while it has none
    theme,   \* data-theme of the document
    gl,      \* the WebGL context: "ok", "losing" until the event, "lost"
    inView,  \* the host intersects the viewport, as sampled last
    \* what the browser has told the script
    boxSeen,     \* the size of the last ResizeObserver notification
    reducedSeen, \* reducedMotion.matches at the last change event
    entries,     \* IntersectionObserver entries that wait to be delivered
    \* the script
    scene,       \* "static" without WebGL, "on", or "disposed"
    pageActive, visible, contextLost,
    frames,      \* requested callbacks
    frameId,     \* the one the script knows of, or Nothing
    buffer,      \* the size of the renderer
    palette,     \* the colours of the materials
    \* what the visitor sees
    drawn,   \* the picture on the canvas, or Nothing
    pose,    \* of the sculpture
    outline  \* the static outline, which data-renderer hides

surface == <<box, theme, gl, inView>>
notices == <<boxSeen, reducedSeen, entries>>
flags   == <<scene, pageActive, visible, contextLost>>
loop    == <<frames, frameId>>
canvas  == <<buffer, palette, drawn, pose, outline>>

sceneVars == <<surface, notices, flags, loop, canvas>>
heroVars  == <<browser, sceneVars>>

Pictures == [box : Boxes \cup {Nothing}, palette : Themes]

-----------------------------------------------------------------------------
(* The functions of the script.  They read what their caller has assigned, *)
(* hence the primes.                                                       *)

\* render(): a context that is lost, known or not, draws nothing.
Render ==
    drawn' = IF scene' = "disposed" \/ contextLost' \/ gl' # "ok" THEN drawn
             ELSE [box |-> buffer', palette |-> palette']

\* resize(): the camera and the renderer take the size of the host, which
\* clears the canvas, and the picture is drawn again.
Resize ==
    IF box = Nothing THEN UNCHANGED <<buffer, drawn>>
    ELSE /\ buffer' = box
         /\ drawn' = IF contextLost' \/ gl' # "ok" THEN Nothing
                     ELSE [box |-> buffer', palette |-> palette']

\* What syncAnimation asks for before it looks at reduced motion.
Active == scene = "on" /\ ~contextLost /\ visible /\ pageActive /\ ~hidden

\* A slip to be caught: the frame under way is not cancelled.
RestartTwice ==
    IF Active' /\ ~reduced'
    THEN \E f \in Frames \ frames : frameId' = f /\ frames' = frames \cup {f}
    ELSE frameId' = Nothing /\ frames' = frames \ {frameId}

\* syncAnimation(): the frame under way is cancelled, and another one is
\* requested if the sculpture should move.
Restart ==
    IF Active' /\ ~reduced'
    THEN \E f \in Frames \ (frames \ {frameId}) :
            frameId' = f /\ frames' = (frames \ {frameId}) \cup {f}
    ELSE frameId' = Nothing /\ frames' = frames \ {frameId}

\* syncAnimation() where nothing else draws: a still picture if motion is
\* reduced.
SyncAnimation ==
    /\ Restart
    /\ IF Active' /\ reduced' THEN Render ELSE UNCHANGED drawn

-----------------------------------------------------------------------------
(* The page, and what it calls at once.                                    *)

\* The tab is hidden or shown; visibilitychange follows at once.
ToggleHidden ==
    /\ PageToggles
    /\ UNCHANGED <<surface, notices, flags, buffer, palette, pose, outline>>
    /\ SyncAnimation

\* pagehide: the page goes to the cache and may come back, ...
CachePage ==
    /\ PageIsCached
    /\ pageActive' = FALSE
    /\ UNCHANGED <<surface, notices, scene, visible, contextLost, buffer,
                   palette, pose, outline>>
    /\ SyncAnimation

\* ... or it is left, and everything is disposed of.  Entries that wait may
\* still be delivered.
LeavePage ==
    /\ PageIsLeft
    /\ pageActive' = FALSE
    /\ scene' = IF scene = "on" THEN "disposed" ELSE scene
    /\ UNCHANGED <<surface, notices, visible, contextLost, canvas>>
    /\ Restart

\* pageshow.
ShowPage ==
    /\ PageReturns
    /\ pageActive' = TRUE
    /\ UNCHANGED <<surface, notices, scene, visible, contextLost, buffer,
                   palette, pose, outline>>
    /\ SyncAnimation

\* A slip to be caught: a lost context keeps the old colours.
ChangeThemeLate(t) ==
    /\ scene # "static" /\ page = "active"
    /\ theme' = t
    /\ palette' = IF scene = "on" /\ ~contextLost THEN t ELSE palette
    /\ UNCHANGED <<browser, box, gl, inView, notices, flags, loop, buffer, pose, outline>>
    /\ IF scene = "on" THEN Render ELSE UNCHANGED drawn

\* updatePalette(): the MutationObserver runs right after the change.
ChangeTheme(t) ==
    /\ scene # "static" /\ page = "active"
    /\ theme' = t
    /\ palette' = IF scene = "on" THEN t ELSE palette
    /\ UNCHANGED <<browser, box, gl, inView, notices, flags, loop, buffer, pose, outline>>
    /\ IF scene = "on" THEN Render ELSE UNCHANGED drawn

-----------------------------------------------------------------------------
(* The page, and what it calls later.                                      *)

\* Of a page that is shown, the browser reports every change of the preference.
PreferMotion ==
    /\ OnScreen => reducedSeen = reduced
    /\ MotionToggles
    /\ UNCHANGED sceneVars

\* The change event comes before the next frame.
MotionChanged ==
    /\ scene = "on" /\ page # "cached"
    /\ reducedSeen # reduced
    /\ reducedSeen' = reduced
    /\ UNCHANGED <<browser, surface, boxSeen, entries, flags, buffer, palette, pose, outline>>
    /\ SyncAnimation

\* A size that the observer has not reported yet does not give way to the one
\* it has reported last: the observer would keep silent.
ChangeBox(b) ==
    /\ scene # "static"
    /\ boxSeen # box => b # boxSeen
    /\ box' = b
    /\ UNCHANGED <<browser, theme, gl, inView, notices, flags, loop, canvas>>

\* The ResizeObserver.
HostResized ==
    /\ scene = "on" /\ page # "cached"
    /\ boxSeen # box
    /\ boxSeen' = box
    /\ UNCHANGED <<browser, surface, reducedSeen, entries, flags, loop, palette, pose, outline>>
    /\ Resize

\* The page is scrolled; the observer samples it and queues an entry.
Scroll ==
    /\ scene = "on" /\ page # "cached"
    /\ Len(entries) < MaxEntries
    /\ inView' = ~inView
    /\ entries' = Append(entries, ~inView)
    /\ UNCHANGED <<browser, box, theme, gl, boxSeen, reducedSeen, flags, loop, canvas>>

\* The IntersectionObserver calls with all its entries, of which the script
\* takes the first; disconnect leaves what is queued.
Intersected ==
    /\ scene # "static" /\ page # "cached"
    /\ entries # <<>>
    /\ entries' = <<>>
    /\ visible' = Head(entries)
    /\ UNCHANGED <<browser, surface, boxSeen, reducedSeen, scene, pageActive, contextLost,
                   buffer, palette, pose, outline>>
    /\ SyncAnimation

\* The graphics context is lost, with the picture.
BreakContext ==
    /\ scene # "static" /\ gl = "ok"
    /\ gl' = "losing"
    /\ drawn' = Nothing
    /\ UNCHANGED <<browser, box, theme, inView, notices, flags, loop, buffer, palette, pose,
                   outline>>

\* webglcontextlost.
LoseContext ==
    /\ scene = "on" /\ page # "cached"
    /\ gl = "losing"
    /\ gl' = "lost"
    /\ contextLost' = TRUE
    /\ outline' = TRUE
    /\ UNCHANGED <<browser, box, theme, inView, notices, scene, pageActive, visible, buffer,
                   palette, drawn, pose>>
    /\ Restart

\* webglcontextrestored: resize() and then syncAnimation(), whose picture is
\* the same.
RestoreContext ==
    /\ scene = "on" /\ page # "cached"
    /\ gl = "lost"
    /\ gl' = "ok"
    /\ contextLost' = FALSE
    /\ outline' = FALSE
    /\ UNCHANGED <<browser, box, theme, inView, notices, scene, pageActive, visible, palette,
                   pose>>
    /\ Restart
    /\ IF box = Nothing /\ Active' /\ reduced THEN UNCHANGED buffer /\ Render ELSE Resize

\* A slip to be caught: a frame that comes too early requests no other one.
FrameOnce(f, due) ==
    /\ f \in frames
    /\ OnScreen /\ reducedSeen = reduced
    /\ IF due THEN \E g \in Frames \ (frames \ {f}) :
                      frameId' = g /\ frames' = (frames \ {f}) \cup {g}
       ELSE frames' = frames \ {f} /\ UNCHANGED frameId
    /\ UNCHANGED <<browser, surface, notices, flags, buffer, palette, outline>>
    /\ IF due THEN pose' = 1 - pose /\ Render ELSE UNCHANGED <<pose, drawn>>

\* frame(now): requests the next frame; draws if this one is due, 1/30 s
\* after the last.  The browser runs frames of a page that is shown.
Frame(f, due) ==
    /\ f \in frames
    /\ OnScreen /\ reducedSeen = reduced
    /\ \E g \in Frames \ (frames \ {f}) : frameId' = g /\ frames' = (frames \ {f}) \cup {g}
    /\ UNCHANGED <<browser, surface, notices, flags, buffer, palette, outline>>
    /\ IF due THEN pose' = 1 - pose /\ Render ELSE UNCHANGED <<pose, drawn>>

-----------------------------------------------------------------------------
(* The specification.                                                      *)

\* createThoughtScene: without WebGL the script ends; otherwise it has drawn
\* the page as it found it, and the observers report it once.
HeroInit ==
    /\ PageInit
    /\ box \in Boxes \cup {Nothing} /\ theme \in Themes /\ gl = "ok" /\ inView \in BOOLEAN
    /\ boxSeen = Nothing /\ reducedSeen = reduced
    /\ scene \in {"static", "on"}
    /\ entries = IF scene = "on" THEN <<inView>> ELSE <<>>
    /\ pageActive = TRUE /\ visible = FALSE /\ contextLost = FALSE
    /\ frames = {} /\ frameId = Nothing
    /\ buffer = IF scene = "on" THEN box ELSE Nothing
    /\ palette = theme
    /\ drawn = IF scene = "on" THEN [box |-> box, palette |-> theme] ELSE Nothing
    /\ pose = 0
    /\ outline = (scene = "static")

PageEvent == ToggleHidden \/ CachePage \/ LeavePage \/ ShowPage \/ PreferMotion

PageChange ==
    \/ Scroll \/ BreakContext
    \/ \E b \in Boxes \cup {Nothing} : ChangeBox(b)
    \/ \E t \in Themes : ChangeTheme(t)

Notice == MotionChanged \/ HostResized \/ Intersected \/ LoseContext \/ RestoreContext

HeroStep ==
    \/ PageChange
    \/ Notice
    \/ \E f \in Frames, due \in BOOLEAN : Frame(f, due)

HeroNext == PageEvent \/ HeroStep

\* The browser delivers what it has to tell, and runs the frames of a page
\* that is shown; of these some are due.
HeroFairness ==
    /\ WF_heroVars(MotionChanged)
    /\ WF_heroVars(HostResized)
    /\ WF_heroVars(Intersected)
    /\ WF_heroVars(LoseContext)
    /\ WF_heroVars(\E f \in Frames : Frame(f, TRUE))

HeroSpec == HeroInit /\ [][HeroNext]_heroVars

HeroFairSpec == HeroSpec /\ HeroFairness

-----------------------------------------------------------------------------
(* Properties.                                                             *)

HeroTypeOK ==
    /\ PageTypeOK
    /\ box \in Boxes \cup {Nothing} /\ theme \in Themes /\ inView \in BOOLEAN
    /\ gl \in {"ok", "losing", "lost"}
    /\ boxSeen \in Boxes \cup {Nothing} /\ reducedSeen \in BOOLEAN
    /\ entries \in Seq(BOOLEAN) /\ Len(entries) <= MaxEntries
    /\ scene \in {"static", "on", "disposed"}
    /\ pageActive \in BOOLEAN /\ visible \in BOOLEAN /\ contextLost \in BOOLEAN
    /\ frames \subseteq Frames /\ frameId \in Frames \cup {Nothing}
    /\ buffer \in Boxes \cup {Nothing} /\ palette \in Themes
    /\ drawn \in Pictures \cup {Nothing} /\ pose \in {0, 1} /\ outline \in BOOLEAN

\* The script knows the page as it is.
Told == /\ boxSeen = box /\ reducedSeen = reduced
        /\ entries = <<>> /\ gl # "losing"

\* The sculpture can be seen.
Shown == scene = "on" /\ OnScreen /\ inView /\ gl = "ok"

\* It stops outside the viewport and in an inactive tab, and reduced motion
\* stops it: once the script has been told of the page as it is, one loop of
\* frames runs if the sculpture can be seen and may move, and none otherwise,
\* also after the page was cached, the context lost, or all disposed of.
AnimatesAsShown ==
    /\ frames \subseteq {frameId}
    /\ Told => (frames # {} <=> Shown /\ ~reduced)

\* Whatever comes together - a theme, a size, a lost context, a cached page -
\* a visitor sees the sculpture in the size and the colours of the page, or
\* the static outline.
PictureIsCurrent ==
    Told /\ page = "active" /\ box # Nothing /\ scene # "disposed" =>
        outline \/ drawn = [box |-> box, palette |-> theme]

\* Whatever the script of a sculpture that can be seen waits for can come.
SceneCanGoOn ==
    Shown =>
        /\ reducedSeen # reduced => ENABLED <<MotionChanged>>_heroVars
        /\ entries # <<>> => ENABLED <<Intersected>>_heroVars
        /\ reducedSeen = reduced /\ frames # {} =>
              ENABLED <<\E f \in Frames : Frame(f, TRUE)>>_heroVars

\* As long as it can be seen and may move, it moves.
SculptureMoves ==
    <>[](Shown /\ ~reduced) => []<>(pose = 0) /\ []<>(pose = 1)

=============================================================================
