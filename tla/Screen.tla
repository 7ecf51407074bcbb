------------------------------- MODULE Screen -------------------------------
(* The screen of the starfield demo: main, its workers and the stars share *)
(* the size that FBIOGET_VSCREENINFO has returned (main.c).                *)
CONSTANTS Xres, Yres
=============================================================================
