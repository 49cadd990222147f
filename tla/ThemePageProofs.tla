--------------------------- MODULE ThemePageProofs --------------------------
(***************************************************************************)
(* Proofs about the two scripts of the Ghost theme, each by itself: they   *)
(* share nothing but the page.                                             *)
(***************************************************************************)
EXTENDS ThemePage, TLAPS

-----------------------------------------------------------------------------
(* HeroScene.                                                              *)

\* At most one frame is requested, the script knows it, and it was requested
\* for the page as the script has last been told of it.
LoopAt ==
    /\ frames = IF frameId = Nothing THEN {} ELSE {frameId}
    /\ frames # {} => Active
    /\ reducedSeen = reduced => (frames # {} <=> Active /\ ~reduced)

\* The flags of the script are the page, but for what waits to be delivered.
FlagsAt ==
    /\ pageActive <=> page = "active"
    /\ contextLost <=> gl = "lost"
    /\ MaxEntries = 1 /\ scene = "on" =>
            IF entries = <<>> THEN visible = inView ELSE entries = <<inView>>

\* The canvas is up to date when the observer has reported the size.
CanvasAt ==
    /\ scene = "static" => outline
    /\ scene = "on" =>
            /\ palette = theme
            /\ outline <=> contextLost
            /\ boxSeen = box /\ box # Nothing => buffer = box
            /\ boxSeen = box /\ box # Nothing /\ gl = "ok" =>
                    drawn = [box |-> box, palette |-> theme]

HeroInv == HeroTypeOK /\ LoopAt /\ FlagsAt /\ CanvasAt

\* What syncAnimation does to the loop.
LEMMA Restarts ==
    ASSUME HeroTypeOK, LoopAt, Restart
    PROVE  /\ frames' \subseteq Frames /\ frameId' \in Frames \cup {Nothing}
           /\ frames' = IF frameId' = Nothing THEN {} ELSE {frameId'}
           /\ frames' # {} <=> Active' /\ ~reduced'
<1>1. frames \ {frameId} = {} BY DEF LoopAt
<1>2. CASE Active' /\ ~reduced'
    <2>1. PICK f \in Frames : frameId' = f /\ frames' = {f} BY <1>1, <1>2 DEF Restart
    <2>. QED BY <1>2, <2>1, HeroAssumption
<1>3. CASE ~(Active' /\ ~reduced')
    <2>1. frameId' = Nothing /\ frames' = {} BY <1>1, <1>3 DEF Restart
    <2>. QED BY <1>3, <2>1
<1>. QED BY <1>2, <1>3

\* What it does to the canvas: a picture of the palette and the size it has.
LEMMA Synchronizes ==
    ASSUME SyncAnimation
    PROVE  /\ Restart
           /\ \/ drawn' = drawn
              \/ drawn' = [box |-> buffer', palette |-> palette']
BY DEF SyncAnimation, Render

LEMMA HeroBegins == HeroInit => HeroInv
<1>. SUFFICES ASSUME HeroInit PROVE HeroInv
    OBVIOUS
<1>. USE HeroAssumption DEF HeroInit, PageInit
<1>1. HeroTypeOK
    <2>1. entries \in Seq(BOOLEAN) /\ Len(entries) <= MaxEntries
        <3>1. CASE scene = "on"
            <4>1. \A v \in BOOLEAN : <<v>> \in Seq(BOOLEAN) /\ Len(<<v>>) = 1 OBVIOUS
            <4>2. entries = <<inView>> /\ inView \in BOOLEAN BY <3>1, Zenon
            <4>3. entries \in Seq(BOOLEAN) /\ Len(entries) = 1 BY <4>1, <4>2, Zenon
            <4>. QED BY <4>3
        <3>2. CASE scene = "static" BY <3>2
        <3>. QED BY <3>1, <3>2
    <2>2. drawn \in Pictures \cup {Nothing} /\ buffer \in Boxes \cup {Nothing} BY DEF Pictures
    <2>3. outline \in BOOLEAN OBVIOUS
    <2>. QED BY <2>1, <2>2, <2>3 DEF HeroTypeOK, PageTypeOK
<1>2. LoopAt BY DEF LoopAt, Active
<1>3. FlagsAt BY DEF FlagsAt
<1>4. CanvasAt BY DEF CanvasAt
<1>. QED BY <1>1, <1>2, <1>3, <1>4 DEF HeroInv

\* Every handler keeps every variable in its domain.
LEMMA HeroTypeGoesOn ==
    ASSUME HeroInv, [HeroNext]_heroVars
    PROVE  HeroTypeOK'
<1>. USE HeroAssumption
     DEF HeroInv, HeroTypeOK, PageTypeOK, Pictures, browser, sceneVars, surface,
         notices, flags, loop, canvas
<1>1. CASE ToggleHidden
    BY <1>1, Synchronizes, Restarts DEF ToggleHidden, PageToggles
<1>2. CASE CachePage
    <2>1. frames' \subseteq Frames /\ frameId' \in Frames \cup {Nothing}
        BY <1>2, Synchronizes, Restarts DEF CachePage
    <2>2. drawn' \in Pictures \cup {Nothing} BY <1>2, Synchronizes DEF CachePage
    <2>4. (/\ PageTypeOK /\ box \in Boxes \cup {Nothing} /\ theme \in Themes /\ inView \in BOOLEAN
           /\ gl \in {"ok", "losing", "lost"} /\ boxSeen \in Boxes \cup {Nothing})'
        BY <1>2 DEF CachePage, PageIsCached
    <2>5. (/\ reducedSeen \in BOOLEAN /\ entries \in Seq(BOOLEAN) /\ Len(entries) <= MaxEntries
           /\ pageActive \in BOOLEAN /\ visible \in BOOLEAN /\ contextLost \in BOOLEAN)'
        BY <1>2 DEF CachePage
    <2>6. (/\ buffer \in Boxes \cup {Nothing} /\ palette \in Themes /\ pose \in {0, 1}
           /\ outline \in BOOLEAN /\ scene \in {"static", "on", "disposed"})'
        BY <1>2 DEF CachePage
    <2>. QED BY <2>1, <2>2, <2>4, <2>5, <2>6
<1>3. CASE LeavePage
    <2>1. frames' \subseteq Frames /\ frameId' \in Frames \cup {Nothing}
        BY <1>3, Restarts DEF LeavePage
    <2>2. scene' \in {"static", "on", "disposed"} BY <1>3 DEF LeavePage
    <2>4. (/\ PageTypeOK /\ box \in Boxes \cup {Nothing} /\ theme \in Themes /\ inView \in BOOLEAN
           /\ gl \in {"ok", "losing", "lost"} /\ boxSeen \in Boxes \cup {Nothing})'
        BY <1>3 DEF LeavePage, PageIsLeft
    <2>5. (/\ reducedSeen \in BOOLEAN /\ entries \in Seq(BOOLEAN) /\ Len(entries) <= MaxEntries
           /\ pageActive \in BOOLEAN /\ visible \in BOOLEAN /\ contextLost \in BOOLEAN)'
        BY <1>3 DEF LeavePage
    <2>6. (/\ buffer \in Boxes \cup {Nothing} /\ palette \in Themes /\ pose \in {0, 1}
           /\ outline \in BOOLEAN /\ drawn \in Pictures \cup {Nothing})'
        BY <1>3 DEF LeavePage
    <2>. QED BY <2>1, <2>2, <2>4, <2>5, <2>6
<1>4. CASE ShowPage
    BY <1>4, Synchronizes, Restarts DEF ShowPage, PageReturns
<1>5. CASE PreferMotion
    BY <1>5 DEF PreferMotion, MotionToggles
<1>6. CASE Scroll
    BY <1>6 DEF Scroll
<1>7. CASE BreakContext
    BY <1>7 DEF BreakContext
<1>8. ASSUME NEW b \in Boxes \cup {Nothing}, ChangeBox(b) PROVE HeroTypeOK'
    BY <1>8 DEF ChangeBox
<1>9. ASSUME NEW t \in Themes, ChangeTheme(t) PROVE HeroTypeOK'
    BY <1>9 DEF ChangeTheme, Render
<1>10. CASE MotionChanged
    BY <1>10, Synchronizes, Restarts DEF MotionChanged
<1>11. CASE HostResized
    BY <1>11 DEF HostResized, Resize
<1>12. CASE Intersected
    BY <1>12, Synchronizes, Restarts DEF Intersected
<1>13. CASE LoseContext
    BY <1>13, Restarts DEF LoseContext
<1>14. CASE RestoreContext
    <2>1. frames' \subseteq Frames /\ frameId' \in Frames \cup {Nothing}
        BY <1>14, Restarts DEF RestoreContext
    <2>2. drawn' \in Pictures \cup {Nothing} /\ buffer' \in Boxes \cup {Nothing}
        BY <1>14 DEF RestoreContext, Resize, Render
    <2>. QED BY <1>14, <2>1, <2>2 DEF RestoreContext
<1>15. ASSUME NEW f \in Frames, NEW due \in BOOLEAN, Frame(f, due) PROVE HeroTypeOK'
    <2>1. frames' \subseteq Frames /\ frameId' \in Frames BY <1>15 DEF Frame
    <2>. QED BY <1>15, <2>1 DEF Frame, Render
<1>16. CASE UNCHANGED heroVars BY <1>16 DEF heroVars
<1>. HIDE DEF HeroInv, HeroTypeOK, PageTypeOK, Pictures
<1>. QED
    BY <1>1, <1>2, <1>3, <1>4, <1>5, <1>6, <1>7, <1>8, <1>9, <1>10, <1>11, <1>12,
       <1>13, <1>14, <1>15, <1>16, Zenon
    DEF HeroNext, PageEvent, HeroStep, PageChange, Notice

\* One loop of frames at most, requested for what the script knows.
LEMMA LoopGoesOn ==
    ASSUME HeroInv, [HeroNext]_heroVars
    PROVE  LoopAt'
<1>. USE HeroAssumption
     DEF HeroInv, HeroTypeOK, PageTypeOK, Pictures, LoopAt, FlagsAt, browser,
         sceneVars, surface, notices, flags, loop, canvas, Active
<1>1. CASE ToggleHidden
    BY <1>1, Synchronizes, Restarts DEF ToggleHidden, PageToggles
<1>2. CASE CachePage
    BY <1>2, Synchronizes, Restarts DEF CachePage, PageIsCached
<1>3. CASE LeavePage
    BY <1>3, Restarts DEF LeavePage, PageIsLeft
<1>4. CASE ShowPage
    BY <1>4, Synchronizes, Restarts DEF ShowPage, PageReturns
<1>5. CASE PreferMotion
    BY <1>5 DEF PreferMotion, MotionToggles, OnScreen
<1>6. CASE Scroll
    BY <1>6 DEF Scroll
<1>7. CASE BreakContext
    BY <1>7 DEF BreakContext
<1>8. ASSUME NEW b \in Boxes \cup {Nothing}, ChangeBox(b) PROVE LoopAt'
    BY <1>8 DEF ChangeBox
<1>9. ASSUME NEW t \in Themes, ChangeTheme(t) PROVE LoopAt'
    BY <1>9 DEF ChangeTheme
<1>10. CASE MotionChanged
    BY <1>10, Synchronizes, Restarts DEF MotionChanged
<1>11. CASE HostResized
    BY <1>11 DEF HostResized
<1>12. CASE Intersected
    BY <1>12, Synchronizes, Restarts DEF Intersected
<1>13. CASE LoseContext
    BY <1>13, Restarts DEF LoseContext
<1>14. CASE RestoreContext
    BY <1>14, Restarts DEF RestoreContext
<1>15. ASSUME NEW f \in Frames, NEW due \in BOOLEAN, Frame(f, due) PROVE LoopAt'
    BY <1>15 DEF Frame, OnScreen
<1>16. CASE UNCHANGED heroVars BY <1>16 DEF heroVars
<1>. HIDE DEF HeroInv, HeroTypeOK, PageTypeOK, Pictures, LoopAt, FlagsAt
<1>. QED
    BY <1>1, <1>2, <1>3, <1>4, <1>5, <1>6, <1>7, <1>8, <1>9, <1>10, <1>11, <1>12,
       <1>13, <1>14, <1>15, <1>16, Zenon
    DEF HeroNext, PageEvent, HeroStep, PageChange, Notice

\* The flags follow the page.
LEMMA FlagsGoOn ==
    ASSUME HeroInv, [HeroNext]_heroVars
    PROVE  FlagsAt'
<1>. USE HeroAssumption
     DEF HeroInv, HeroTypeOK, PageTypeOK, Pictures, FlagsAt, browser, sceneVars,
         surface, notices, flags, loop, canvas
<1>1. CASE ToggleHidden
    BY <1>1 DEF ToggleHidden, PageToggles
<1>2. CASE CachePage
    BY <1>2 DEF CachePage, PageIsCached
<1>3. CASE LeavePage
    BY <1>3 DEF LeavePage, PageIsLeft
<1>4. CASE ShowPage
    BY <1>4 DEF ShowPage, PageReturns
<1>5. CASE PreferMotion
    BY <1>5 DEF PreferMotion, MotionToggles
<1>6. CASE Scroll
    <2>1. pageActive' <=> page' = "active" BY <1>6 DEF Scroll
    <2>2. contextLost' <=> gl' = "lost" BY <1>6 DEF Scroll
    <2>3. ASSUME MaxEntries = 1 PROVE entries' = <<inView'>>
        <3>1. Len(entries) = 0 BY <1>6, <2>3 DEF Scroll
        <3>2. entries = <<>> BY <3>1
        <3>. QED BY <1>6, <3>2 DEF Scroll
    <2>. QED BY <2>1, <2>2, <2>3
<1>7. CASE BreakContext
    BY <1>7 DEF BreakContext
<1>8. ASSUME NEW b \in Boxes \cup {Nothing}, ChangeBox(b) PROVE FlagsAt'
    BY <1>8 DEF ChangeBox
<1>9. ASSUME NEW t \in Themes, ChangeTheme(t) PROVE FlagsAt'
    BY <1>9 DEF ChangeTheme
<1>10. CASE MotionChanged
    BY <1>10 DEF MotionChanged
<1>11. CASE HostResized
    BY <1>11 DEF HostResized
<1>12. CASE Intersected
    BY <1>12 DEF Intersected
<1>13. CASE LoseContext
    BY <1>13 DEF LoseContext
<1>14. CASE RestoreContext
    BY <1>14 DEF RestoreContext
<1>15. ASSUME NEW f \in Frames, NEW due \in BOOLEAN, Frame(f, due) PROVE FlagsAt'
    BY <1>15 DEF Frame
<1>16. CASE UNCHANGED heroVars BY <1>16 DEF heroVars
<1>. HIDE DEF HeroInv, HeroTypeOK, PageTypeOK, Pictures, FlagsAt
<1>. QED
    BY <1>1, <1>2, <1>3, <1>4, <1>5, <1>6, <1>7, <1>8, <1>9, <1>10, <1>11, <1>12,
       <1>13, <1>14, <1>15, <1>16, Zenon
    DEF HeroNext, PageEvent, HeroStep, PageChange, Notice

\* Whatever clears the canvas or changes the picture draws it again.
LEMMA CanvasGoesOn ==
    ASSUME HeroInv, [HeroNext]_heroVars
    PROVE  CanvasAt'
<1>. USE HeroAssumption
     DEF HeroInv, HeroTypeOK, PageTypeOK, Pictures, FlagsAt, CanvasAt, browser,
         sceneVars, surface, notices, flags, loop, canvas
<1>1. CASE ToggleHidden
    BY <1>1, Synchronizes DEF ToggleHidden, PageToggles
<1>2. CASE CachePage
    BY <1>2, Synchronizes DEF CachePage, PageIsCached
<1>3. CASE LeavePage
    BY <1>3 DEF LeavePage, PageIsLeft
<1>4. CASE ShowPage
    BY <1>4, Synchronizes DEF ShowPage, PageReturns
<1>5. CASE PreferMotion
    BY <1>5 DEF PreferMotion, MotionToggles
<1>6. CASE Scroll
    BY <1>6 DEF Scroll
<1>7. CASE BreakContext
    BY <1>7 DEF BreakContext
<1>8. ASSUME NEW b \in Boxes \cup {Nothing}, ChangeBox(b) PROVE CanvasAt'
    BY <1>8 DEF ChangeBox
<1>9. ASSUME NEW t \in Themes, ChangeTheme(t) PROVE CanvasAt'
    BY <1>9 DEF ChangeTheme, Render
<1>10. CASE MotionChanged
    BY <1>10, Synchronizes DEF MotionChanged
<1>11. CASE HostResized
    BY <1>11 DEF HostResized, Resize
<1>12. CASE Intersected
    BY <1>12, Synchronizes DEF Intersected
<1>13. CASE LoseContext
    BY <1>13 DEF LoseContext
<1>14. CASE RestoreContext
    BY <1>14 DEF RestoreContext, Resize, Render
<1>15. ASSUME NEW f \in Frames, NEW due \in BOOLEAN, Frame(f, due) PROVE CanvasAt'
    BY <1>15 DEF Frame, Render
<1>16. CASE UNCHANGED heroVars BY <1>16 DEF heroVars
<1>. HIDE DEF HeroInv, HeroTypeOK, PageTypeOK, Pictures, FlagsAt, CanvasAt
<1>. QED
    BY <1>1, <1>2, <1>3, <1>4, <1>5, <1>6, <1>7, <1>8, <1>9, <1>10, <1>11, <1>12,
       <1>13, <1>14, <1>15, <1>16, Zenon
    DEF HeroNext, PageEvent, HeroStep, PageChange, Notice

LEMMA HeroGoesOn == HeroInv /\ [HeroNext]_heroVars => HeroInv'
BY HeroTypeGoesOn, LoopGoesOn, FlagsGoOn, CanvasGoesOn DEF HeroInv

LEMMA HeroInvHolds == HeroSpec => []HeroInv
BY HeroBegins, HeroGoesOn, PTL DEF HeroSpec

\* Every variable of the hero script stays in its domain, for any sizes, themes
\* and however many entries the observer delivers at once.
THEOREM HeroTypeCorrect == HeroSpec => []HeroTypeOK
<1>1. HeroInv => HeroTypeOK BY DEF HeroInv
<1>. QED BY <1>1, HeroInvHolds, PTL

\* There is never more than one loop of frames, and if the observer delivers its
\* entries one by one, the sculpture moves exactly while it can be seen and may.
THEOREM SculptureAnimatesAsShown ==
    ASSUME MaxEntries = 1
    PROVE  HeroSpec => []AnimatesAsShown
<1>1. HeroInv => AnimatesAsShown
    BY DEF HeroInv, HeroTypeOK, PageTypeOK, LoopAt, FlagsAt, AnimatesAsShown, Told, Shown,
       OnScreen, Active
<1>. QED BY <1>1, HeroInvHolds, PTL

\* Whatever the page does, and however many entries come at once, a visitor who
\* looks at it sees the sculpture as the page is now, or its outline.
THEOREM PictureStaysCurrent == HeroSpec => []PictureIsCurrent
<1>1. HeroInv => PictureIsCurrent
    BY DEF HeroInv, HeroTypeOK, FlagsAt, CanvasAt, PictureIsCurrent, Told
<1>. QED BY <1>1, HeroInvHolds, PTL

-----------------------------------------------------------------------------
(* The sculpture moves.                                                    *)

\* A page that stays in view is not scrolled in or out of it.
LEMMA NothingNewIsSeen ==
    ASSUME HeroInv, [HeroNext]_heroVars, Shown, Shown', ~reduced, ~reduced'
    PROVE  /\ entries = <<>> => entries' = <<>>
           /\ reducedSeen = reduced => reducedSeen' = reduced'
<1>. DEFINE Calm == /\ entries = <<>> => entries' = <<>>
                    /\ reducedSeen = reduced => reducedSeen' = reduced'
<1>. SUFFICES Calm OBVIOUS
<1>. USE DEF browser, sceneVars, surface, notices, flags, loop, canvas
<1>1. CASE ToggleHidden BY <1>1 DEF ToggleHidden, PageToggles
<1>2. CASE CachePage BY <1>2 DEF CachePage, PageIsCached
<1>3. CASE LeavePage BY <1>3 DEF LeavePage, PageIsLeft
<1>4. CASE ShowPage BY <1>4 DEF ShowPage, PageReturns
<1>5. CASE PreferMotion BY <1>5 DEF PreferMotion, MotionToggles, HeroInv, HeroTypeOK, PageTypeOK
<1>6. CASE Scroll BY <1>6 DEF Scroll, Shown, HeroInv, HeroTypeOK
<1>7. CASE BreakContext BY <1>7 DEF BreakContext
<1>8. ASSUME NEW b \in Boxes \cup {Nothing}, ChangeBox(b) PROVE Calm
    BY <1>8 DEF ChangeBox
<1>9. ASSUME NEW t \in Themes, ChangeTheme(t) PROVE Calm
    BY <1>9 DEF ChangeTheme
<1>10. CASE MotionChanged BY <1>10 DEF MotionChanged
<1>11. CASE HostResized BY <1>11 DEF HostResized
<1>12. CASE Intersected BY <1>12 DEF Intersected
<1>13. CASE LoseContext BY <1>13 DEF LoseContext
<1>14. CASE RestoreContext BY <1>14 DEF RestoreContext
<1>15. ASSUME NEW f \in Frames, NEW due \in BOOLEAN, Frame(f, due) PROVE Calm
    BY <1>15 DEF Frame
<1>16. CASE UNCHANGED heroVars BY <1>16 DEF heroVars
<1>. HIDE DEF Calm
<1>. QED
    BY <1>1, <1>2, <1>3, <1>4, <1>5, <1>6, <1>7, <1>8, <1>9, <1>10, <1>11, <1>12,
       <1>13, <1>14, <1>15, <1>16, Zenon
    DEF HeroNext, PageEvent, HeroStep, PageChange, Notice

\* If the observer delivers its entries one by one, a sculpture that can be seen
\* and may move is told so and then drawn again and again.
THEOREM SculptureAlwaysMoves ==
    ASSUME MaxEntries = 1
    PROVE  HeroFairSpec /\ []SceneCanGoOn => SculptureMoves
<1>. DEFINE Stage == Shown /\ ~reduced
            Turn  == \E f \in Frames : Frame(f, TRUE)
            Still == entries = <<>>
            Heard == reducedSeen = reduced
<1>1. HeroInv /\ [HeroNext]_heroVars /\ Stage /\ Stage' =>
          (Still => Still') /\ (Heard => Heard')
    BY NothingNewIsSeen
<1>2. (<<MotionChanged>>_heroVars => Heard') /\ (<<Intersected>>_heroVars => Still')
    BY DEF MotionChanged, Intersected, browser
<1>3. HeroInv /\ Stage /\ Still /\ Heard => frames # {}
    <2>. SUFFICES ASSUME HeroInv, Stage, Still, Heard PROVE frames # {}
        OBVIOUS
    <2>1. visible = inView BY DEF HeroInv, FlagsAt, Shown
    <2>2. Active BY <2>1 DEF HeroInv, FlagsAt, Shown, OnScreen, Active
    <2>. QED BY <2>2 DEF HeroInv, LoopAt
<1>4. SceneCanGoOn /\ Stage =>
          /\ ~Heard => ENABLED <<MotionChanged>>_heroVars
          /\ ~Still => ENABLED <<Intersected>>_heroVars
          /\ Heard /\ frames # {} => ENABLED <<Turn>>_heroVars
    BY DEF SceneCanGoOn
<1>5. HeroInv /\ <<Turn>>_heroVars =>
          (pose = 0 => (pose = 1)') /\ (pose = 1 => (pose = 0)') /\ (pose = 0 \/ pose = 1)
    BY DEF HeroInv, HeroTypeOK, Frame
<1>. QED
    BY <1>1, <1>2, <1>3, <1>4, <1>5, HeroInvHolds, PTL
    DEF HeroFairSpec, HeroSpec, HeroFairness, SculptureMoves

-----------------------------------------------------------------------------
(* HeaderDock.                                                             *)

\* The measure depends on nothing but the width.
Gap(w) == w - (2 * Edge[w] - Broad[w])

LEMMA MeasureIsGap ==
    /\ \A w \in Widths : Gap(w) \in Int /\ Measure(w) = Gap(w)
    /\ \A w \in Widths : Measure(w)' = Gap(w)
BY DockAssumption DEF Gap, Measure, Centre

\* The move is the gap of the width at hand, unless a measurement is to come.
DockAt == DockTypeOK /\ (~resized /\ ~resizeTimer => dx = Gap(width))

LEMMA DockBegins == DockInit => DockAt
<1>. SUFFICES ASSUME DockInit PROVE DockAt
    OBVIOUS
<1>1. dx = Gap(width) /\ dx \in Int BY MeasureIsGap DEF DockInit, Gap
<1>. QED BY <1>1, Zenon DEF DockInit, PageInit, DockAt, DockTypeOK, PageTypeOK

LEMMA DockGoesOn == DockAt /\ [DockNext]_dockVars => DockAt'
<1>. SUFFICES ASSUME DockAt, [DockNext]_dockVars PROVE DockAt'
    OBVIOUS
<1>. USE DEF DockAt, DockTypeOK, PageTypeOK, browser, load, viewport, timers, header
<1>1. CASE OnScroll
    <2>1. frameDue' \in BOOLEAN BY <1>1, Zenon DEF OnScroll
    <2>4. (PageTypeOK /\ present \in BOOLEAN /\ width \in Widths /\ reducedAtLoad \in BOOLEAN)'
        BY <1>1 DEF OnScroll
    <2>5. (/\ resized \in BOOLEAN /\ scrolled \in BOOLEAN /\ scrollDue \in BOOLEAN
           /\ docked \in BOOLEAN /\ ticking \in BOOLEAN /\ frameDue \in BOOLEAN)'
        BY <1>1, <2>1 DEF OnScroll
    <2>6. (/\ fadeTimer \in BOOLEAN /\ resizeTimer \in BOOLEAN /\ isDocked \in BOOLEAN
           /\ fading \in BOOLEAN /\ dx \in Int)'
        BY <1>1, <2>1 DEF OnScroll
    <2>7. (~resized /\ ~resizeTimer => dx = Gap(width))' BY <1>1, <2>1 DEF OnScroll
    <2>. QED BY <2>4, <2>5, <2>6, <2>7
<1>2. CASE DockFrame
    <2>1. /\ docked' \in BOOLEAN /\ fadeTimer' \in BOOLEAN /\ isDocked' \in BOOLEAN
          /\ fading' \in BOOLEAN
        BY <1>2, Zenon DEF DockFrame, SetDocked
    <2>4. (PageTypeOK /\ present \in BOOLEAN /\ width \in Widths /\ reducedAtLoad \in BOOLEAN)'
        BY <1>2 DEF DockFrame
    <2>5. (/\ resized \in BOOLEAN /\ scrolled \in BOOLEAN /\ scrollDue \in BOOLEAN
           /\ docked \in BOOLEAN /\ ticking \in BOOLEAN /\ frameDue \in BOOLEAN)'
        BY <1>2, <2>1 DEF DockFrame
    <2>6. (/\ fadeTimer \in BOOLEAN /\ resizeTimer \in BOOLEAN /\ isDocked \in BOOLEAN
           /\ fading \in BOOLEAN /\ dx \in Int)'
        BY <1>2, <2>1 DEF DockFrame
    <2>7. (~resized /\ ~resizeTimer => dx = Gap(width))' BY <1>2, <2>1 DEF DockFrame
    <2>. QED BY <2>4, <2>5, <2>6, <2>7
<1>3. CASE Commit BY <1>3 DEF Commit
<1>4. CASE OnResize
    <2>4. (PageTypeOK /\ present \in BOOLEAN /\ width \in Widths /\ reducedAtLoad \in BOOLEAN)'
        BY <1>4 DEF OnResize
    <2>5. (/\ resized \in BOOLEAN /\ scrolled \in BOOLEAN /\ scrollDue \in BOOLEAN
           /\ docked \in BOOLEAN /\ ticking \in BOOLEAN /\ frameDue \in BOOLEAN)'
        BY <1>4 DEF OnResize
    <2>6. (/\ fadeTimer \in BOOLEAN /\ resizeTimer \in BOOLEAN /\ isDocked \in BOOLEAN
           /\ fading \in BOOLEAN /\ dx \in Int)'
        BY <1>4 DEF OnResize
    <2>7. (~resized /\ ~resizeTimer => dx = Gap(width))' BY <1>4 DEF OnResize
    <2>. QED BY <2>4, <2>5, <2>6, <2>7
<1>5. CASE MeasureAgain
    <2>1. dx' = Gap(width') /\ dx' \in Int BY <1>5, MeasureIsGap DEF MeasureAgain
    <2>4. (PageTypeOK /\ present \in BOOLEAN /\ width \in Widths /\ reducedAtLoad \in BOOLEAN)'
        BY <1>5 DEF MeasureAgain
    <2>5. (/\ resized \in BOOLEAN /\ scrolled \in BOOLEAN /\ scrollDue \in BOOLEAN
           /\ docked \in BOOLEAN /\ ticking \in BOOLEAN /\ frameDue \in BOOLEAN)'
        BY <1>5, <2>1 DEF MeasureAgain
    <2>6. (/\ fadeTimer \in BOOLEAN /\ resizeTimer \in BOOLEAN /\ isDocked \in BOOLEAN
           /\ fading \in BOOLEAN /\ dx \in Int)'
        BY <1>5, <2>1 DEF MeasureAgain
    <2>7. (~resized /\ ~resizeTimer => dx = Gap(width))' BY <1>5, <2>1 DEF MeasureAgain
    <2>. QED BY <2>4, <2>5, <2>6, <2>7
<1>6. CASE ScrollPast BY <1>6 DEF ScrollPast
<1>7. ASSUME NEW w \in Widths, ResizeViewport(w) PROVE DockAt'
    BY <1>7 DEF ResizeViewport
<1>8. CASE /\ PageToggles \/ PageIsCached \/ PageIsLeft \/ PageReturns \/ MotionToggles
           /\ UNCHANGED barVars
    <2>1. PageTypeOK'
        BY <1>8, Zenon DEF PageToggles, PageIsCached, PageIsLeft, PageReturns, MotionToggles
    <2>. QED BY <1>8, <2>1, Zenon DEF barVars
<1>9. CASE UNCHANGED dockVars BY <1>9 DEF dockVars, barVars
<1>. HIDE DEF DockAt
<1>. QED BY <1>1, <1>2, <1>3, <1>4, <1>5, <1>6, <1>7, <1>8, <1>9, Zenon DEF DockNext, BarStep

LEMMA DockAtHolds == DockSpec => []DockAt
BY DockBegins, DockGoesOn, PTL DEF DockSpec

\* Every variable of the header's script stays in its domain, for any layout.
THEOREM DockTypeCorrect == DockSpec => []DockTypeOK
<1>1. DockAt => DockTypeOK BY DEF DockAt
<1>. QED BY <1>1, DockAtHolds, PTL

\* For every layout and every width, the bar is in the middle of the viewport
\* when it is docked and the resizing is over.
THEOREM BarStaysCentred == DockSpec => []BarIsCentred
<1>1. DockAt => BarIsCentred
    BY DockAssumption DEF DockAt, DockTypeOK, BarIsCentred, Gap, Centre
<1>. QED BY <1>1, DockAtHolds, PTL

-----------------------------------------------------------------------------
(* The bar settles.                                                        *)

\* The script knows of every frame and timer it asked for, and a place other
\* than the one that was scrolled to is on its way to be noticed.
SettleAt ==
    /\ DockTypeOK
    /\ ticking = frameDue /\ fading = fadeTimer
    /\ reducedAtLoad => ~fadeTimer
    /\ docked # scrolled => scrollDue \/ frameDue
    /\ ~fadeTimer => isDocked = docked

LEMMA SettleBegins == DockInit => SettleAt
<1>1. DockInit => DockTypeOK BY DockBegins DEF DockAt
<1>. QED BY <1>1, Zenon DEF DockInit, SettleAt

LEMMA SettleGoesOn == SettleAt /\ DockTypeOK' /\ [DockNext]_dockVars => SettleAt'
<1>. SUFFICES ASSUME SettleAt, DockTypeOK', [DockNext]_dockVars PROVE SettleAt'
    OBVIOUS
<1>. USE DEF SettleAt, browser, load, viewport, timers, header
<1>1. CASE OnScroll BY <1>1, Zenon DEF OnScroll
<1>2. CASE DockFrame
    <2>1. CASE scrolled = docked BY <1>2, <2>1, Zenon DEF DockFrame, SetDocked
    <2>2. CASE scrolled # docked /\ reducedAtLoad
        <3>1. docked' = scrolled /\ isDocked' = scrolled /\ fading' = FALSE /\ fadeTimer' = fadeTimer
            BY <1>2, <2>2, Zenon DEF DockFrame, SetDocked
        <3>2. ~fading' /\ ~fadeTimer' BY <2>2, <3>1
        <3>3. ticking' = FALSE /\ frameDue' = FALSE /\ scrolled' = scrolled
              /\ reducedAtLoad' = reducedAtLoad
            BY <1>2, Zenon DEF DockFrame
        <3>4. fading' = fadeTimer'
            <4>1. fadeTimer = FALSE BY <2>2 DEF DockTypeOK
            <4>. QED BY <3>1, <4>1
        <3>. QED BY <3>1, <3>2, <3>3, <3>4
    <2>3. CASE scrolled # docked /\ ~reducedAtLoad BY <1>2, <2>3, Zenon DEF DockFrame, SetDocked
    <2>. QED BY <2>1, <2>2, <2>3
<1>3. CASE Commit BY <1>3, Zenon DEF Commit
<1>4. CASE OnResize BY <1>4, Zenon DEF OnResize
<1>5. CASE MeasureAgain BY <1>5, Zenon DEF MeasureAgain
<1>6. CASE ScrollPast BY <1>6, Zenon DEF ScrollPast
<1>7. ASSUME NEW w \in Widths, ResizeViewport(w) PROVE SettleAt'
    BY <1>7, Zenon DEF ResizeViewport
<1>8. CASE UNCHANGED barVars BY <1>8, Zenon DEF barVars
<1>9. CASE UNCHANGED dockVars BY <1>9, Zenon DEF dockVars, barVars
<1>. HIDE DEF SettleAt
<1>. QED BY <1>1, <1>2, <1>3, <1>4, <1>5, <1>6, <1>7, <1>8, <1>9, Zenon DEF DockNext, BarStep

LEMMA SettleAtHolds == DockSpec => []SettleAt
<1>1. DockAt => DockTypeOK BY DEF DockAt
<1>. QED BY <1>1, SettleBegins, SettleGoesOn, DockAtHolds, PTL DEF DockSpec

\* While the page stays where it was scrolled to, what has arrived is not asked for
\* again: first the scroll event, then the frame, then the timer.
LEMMA NothingNewToArrive ==
    ASSUME SettleAt, [DockNext]_dockVars, scrolled' = scrolled
    PROVE  /\ ~scrollDue => ~scrollDue'
           /\ ~scrollDue /\ ~frameDue => ~frameDue'
           /\ ~frameDue /\ ~fadeTimer => ~fadeTimer'
<1>. DEFINE Calm == /\ ~scrollDue => ~scrollDue'
                    /\ ~scrollDue /\ ~frameDue => ~frameDue'
                    /\ ~frameDue /\ ~fadeTimer => ~fadeTimer'
<1>. SUFFICES Calm OBVIOUS
<1>. USE DEF browser, load, viewport, timers, header
<1>1. CASE OnScroll BY <1>1, Zenon DEF OnScroll
<1>2. CASE DockFrame BY <1>2, Zenon DEF DockFrame
<1>3. CASE Commit BY <1>3, Zenon DEF Commit
<1>4. CASE OnResize BY <1>4, Zenon DEF OnResize
<1>5. CASE MeasureAgain BY <1>5, Zenon DEF MeasureAgain
<1>6. ~ScrollPast BY DEF ScrollPast, SettleAt, DockTypeOK
<1>7. ASSUME NEW w \in Widths, ResizeViewport(w) PROVE Calm
    BY <1>7, Zenon DEF ResizeViewport
<1>8. CASE UNCHANGED barVars BY <1>8, Zenon DEF barVars
<1>9. CASE UNCHANGED dockVars BY <1>9, Zenon DEF dockVars, barVars
<1>. HIDE DEF Calm
<1>. QED BY <1>1, <1>2, <1>3, <1>4, <1>5, <1>6, <1>7, <1>8, <1>9, Zenon DEF DockNext, BarStep

\* However often the visitor scrolls while the bar fades, in the end it is where
\* the last scrolling puts it, and not faded.
THEOREM BarAlwaysSettles == DockFairSpec /\ []BarCanGoOn => BarSettles
<1>. SUFFICES ASSUME NEW s \in BOOLEAN
     PROVE  DockFairSpec /\ []BarCanGoOn
            => (<>[](present /\ OnScreen /\ scrolled = s) => <>[](isDocked = s /\ ~fading))
    BY DEF BarSettles
<1>. DEFINE Rest == present /\ OnScreen /\ scrolled = s
<1>1. Rest /\ Rest' => scrolled' = scrolled
    OBVIOUS
<1>2. SettleAt /\ [DockNext]_dockVars /\ Rest /\ Rest' =>
          /\ ~scrollDue => ~scrollDue'
          /\ ~scrollDue /\ ~frameDue => ~frameDue'
          /\ ~frameDue /\ ~fadeTimer => ~fadeTimer'
    BY <1>1, NothingNewToArrive
<1>3. /\ <<OnScroll>>_dockVars => ~scrollDue'
      /\ <<DockFrame>>_dockVars => ~frameDue'
      /\ <<Commit>>_dockVars => ~fadeTimer'
    BY Zenon DEF OnScroll, DockFrame, Commit
<1>4. BarCanGoOn /\ Rest =>
          /\ scrollDue => ENABLED <<OnScroll>>_dockVars
          /\ frameDue => ENABLED <<DockFrame>>_dockVars
          /\ fadeTimer => ENABLED <<Commit>>_dockVars
    BY DEF BarCanGoOn
<1>5. SettleAt /\ Rest /\ ~scrollDue /\ ~frameDue /\ ~fadeTimer => isDocked = s /\ ~fading
    <2>. SUFFICES ASSUME SettleAt, Rest, ~scrollDue, ~frameDue, ~fadeTimer
                  PROVE  isDocked = s /\ ~fading
        OBVIOUS
    <2>1. docked = scrolled /\ isDocked = docked BY DEF SettleAt
    <2>2. ~fading BY Zenon DEF SettleAt
    <2>. QED BY <2>1, <2>2
<1>. QED BY <1>2, <1>3, <1>4, <1>5, SettleAtHolds, PTL DEF DockFairSpec, DockSpec, DockFairness

-----------------------------------------------------------------------------
(* The page.                                                               *)

\* A page with both scripts is a page of each: what one of them does is no step
\* of the other, and what holds of each by itself holds on the page.
THEOREM ScriptsShareThePage == ThemeSpec => HeroFairSpec /\ DockFairSpec
<1>1. ThemeInit => HeroInit /\ DockInit BY DEF ThemeInit
<1>2. ASSUME [ThemeNext]_themeVars PROVE [HeroNext]_heroVars
    <2>1. CASE SharedEvent BY <2>1, Zenon DEF SharedEvent, HeroNext, PageEvent
    <2>2. CASE HeroStep BY <2>2, Zenon DEF HeroNext
    <2>3. CASE BarStep /\ UNCHANGED sceneVars
        <3>1. UNCHANGED browser
            BY <2>3, Zenon DEF BarStep, OnScroll, DockFrame, Commit, OnResize, MeasureAgain,
               ScrollPast, ResizeViewport
        <3>. QED BY <2>3, <3>1 DEF heroVars
    <2>4. CASE UNCHANGED themeVars BY <2>4 DEF themeVars
    <2>. QED BY <1>2, <2>1, <2>2, <2>3, <2>4, Zenon DEF ThemeNext
<1>3. ASSUME [ThemeNext]_themeVars PROVE [DockNext]_dockVars
    <2>1. CASE SharedEvent
        BY <2>1, Zenon
        DEF SharedEvent, DockNext, ToggleHidden, CachePage, LeavePage, ShowPage, PreferMotion
    <2>2. CASE HeroStep /\ UNCHANGED barVars
        <3>1. UNCHANGED browser
            BY <2>2, Zenon DEF HeroStep, PageChange, Notice, Scroll, BreakContext, ChangeBox,
               ChangeTheme, MotionChanged, HostResized, Intersected, LoseContext,
               RestoreContext, Frame
        <3>. QED BY <2>2, <3>1 DEF dockVars
    <2>3. CASE BarStep BY <2>3, Zenon DEF DockNext
    <2>4. CASE UNCHANGED themeVars BY <2>4 DEF themeVars
    <2>. QED BY <1>3, <2>1, <2>2, <2>3, <2>4, Zenon DEF ThemeNext
<1>. QED
    BY <1>1, <1>2, <1>3, PTL
    DEF ThemeSpec, HeroFairSpec, HeroSpec, DockFairSpec, DockSpec

=============================================================================
