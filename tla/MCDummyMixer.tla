--------------------------- MODULE MCDummyMixer ---------------------------
(* Volumes below and above the range of the controls.                      *)
EXTENDS DummyMixer

MCLevels == {-51, 101}
===========================================================================
