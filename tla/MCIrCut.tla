------------------------------ MODULE MCIrCut -------------------------------
(***************************************************************************)
(* The IR-cut filters of the three platforms, in ticks of 0.25 s: a pulse  *)
(* of 0.1 s takes one, one of 0.5 s two, and the sensor is read every 4.   *)
(***************************************************************************)
EXTENDS IrCut

ev200 == [pulse |-> [on |-> 1, off |-> 2], gray |-> FALSE]
cv300 == [pulse |-> [on |-> 1, off |-> 2], gray |-> TRUE]
v200 == [pulse |-> [on |-> 2, off |-> 2], gray |-> TRUE]

MCPlatforms == {ev200, cv300, v200}
=============================================================================
