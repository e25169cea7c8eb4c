---------------------------- MODULE MCConfigStore ----------------------------
(***************************************************************************)
(* The frame rate of an encoder, which is capped by the input's, and    *)
(* a setting of each of two overlays, in the  *)
(* order of the document.                                                  *)
(***************************************************************************)
EXTENDS ConfigStore

CONSTANTS low, high

framerate == 1
overlay0 == 2
overlay1 == 3

MCValues == {low, high}
MCDefault == [p \in 1..3 |-> low]
MCEffects ==
    [p \in 1..3 |-> [v \in MCValues |->
                        IF p = framerate /\ v = high THEN {low, high} ELSE {v}]]
MCDisturbs == [p \in 1..3 |-> {}]
MCOverlay == [p \in 1..3 |-> CASE p = overlay0 -> 0
                               [] p = overlay1 -> 1
                               [] OTHER -> None]
=============================================================================
