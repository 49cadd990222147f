----------------------------- MODULE ThemePage ------------------------------
(***************************************************************************)
(* A page of the Ghost theme with both of its scripts.  They share nothing *)
(* but the page: its events are steps of both, everything else is a step   *)
(* of one.                                                                 *)
(***************************************************************************)
EXTENDS HeroScene, HeaderDock

themeVars == <<browser, heroVars, dockVars>>

ThemeInit == HeroInit /\ DockInit

\* dock.js listens to none of them.
SharedEvent ==
    /\ ToggleHidden \/ CachePage \/ LeavePage \/ ShowPage \/ PreferMotion
    /\ UNCHANGED barVars

ThemeNext ==
    \/ SharedEvent
    \/ HeroStep /\ UNCHANGED barVars
    \/ BarStep /\ UNCHANGED sceneVars

ThemeSpec == ThemeInit /\ [][ThemeNext]_themeVars /\ HeroFairness /\ DockFairness

=============================================================================
