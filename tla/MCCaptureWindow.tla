-------------------------- MODULE MCCaptureWindow ---------------------------
(***************************************************************************)
(* One sensor of each kind of table, extents below all sensors and one     *)
(* above, and a word that leaves room for them.                            *)
(***************************************************************************)
EXTENDS CaptureWindow

OnEv200 == INSTANCE SensorsEv200
OnCv300 == INSTANCE SensorsCv300
OnV200 == INSTANCE SensorsV200

MCSensors == {OnEv200!gc2053, OnCv300!imx323, OnV200!imx222}

ASSUME EverySensorAssumption ==
    \A s \in OnEv200!SensorMap \cup OnCv300!SensorMap \cup OnV200!SensorMap : WellFormed(s)
MCOffsets == {-400}

\* Bound: not followed once the table of the sensor is overwritten for good.
TableSound == ~grown
=============================================================================
