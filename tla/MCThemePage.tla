---------------------------- MODULE MCThemePage -----------------------------
(* A blog page for TLC: a phone's viewport, one as broad as the text and a *)
(* broader one.                                                            *)
EXTENDS ThemePage, TLC

CONSTANTS wide, tall, dark, light, f1, f2

MCWidths == {320, 1120, 1440}
MCEdge == 320 :> 296 @@ 1120 :> 1096 @@ 1440 :> 1256
MCNarrow == 320 :> 190 @@ 1120 :> 250 @@ 1440 :> 250
MCBroad == 320 :> 222 @@ 1120 :> 282 @@ 1440 :> 282

\* The scripts share nothing but the page: each runs with the other at rest.
MCInit ==
    /\ ThemeInit
    /\ IF scene = "on" THEN ~present /\ width = 320 /\ ~scrolled
       ELSE present /\ box = Nothing /\ theme = dark /\ ~inView

\* What the proofs of SculptureAlwaysMoves and BarAlwaysSettles leave to TLC holds in
\* every state.
MCNext ==
    /\ Assert(SceneCanGoOn, "the sculpture cannot go on")
    /\ Assert(BarCanGoOn, "the bar cannot go on")
    /\ ThemeNext

MCSpec == MCInit /\ [][MCNext]_themeVars /\ HeroFairness /\ DockFairness

=============================================================================
