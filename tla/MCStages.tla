------------------------------ MODULE MCStages ------------------------------
(***************************************************************************)
(* The capture, audio and system chains of the three platforms.            *)
(***************************************************************************)
EXTENDS Stages

ev200 == INSTANCE StagesEv200
cv300 == INSTANCE StagesCv300
v200 == INSTANCE StagesV200

MCChains == ev200!Pipes \cup cv300!Pipes \cup v200!Pipes
MCCreated == {"pipe", "group", "aenc", "adec"}
=============================================================================
