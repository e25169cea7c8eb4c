----------------------------- MODULE MCVencChan -----------------------------
(***************************************************************************)
(* A channel of each kind, and its source, at 1 or 2 pictures a second,    *)
(* with two overlays.  The GOP lengths cover a rescaling that is rounded.  *)
(***************************************************************************)
EXTENDS VencChan

CONSTANTS small, large, slow, fast, clock, title

MCResolutions == {small, large}
MCProfiles == {"BASELINE", "HIGH"}
MCFramerates == {1, 2}
MCGops == {1, 2}
MCBitrates == {slow, fast}
MCRegions == {clock, title}
=============================================================================
