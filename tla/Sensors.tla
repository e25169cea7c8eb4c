------------------------------ MODULE Sensors -------------------------------
(***************************************************************************)
(* What the capture path takes from the table of a sensor, axis by axis.   *)
(* The registers, timings and lanes are left to the SDK.                   *)
(***************************************************************************)
EXTENDS Naturals

Axes == {"x", "y"}

\* A rectangle as one interval per axis.
Rect(x, y, w, h) == [x |-> [at |-> x, extent |-> w], y |-> [at |-> y, extent |-> h]]

\* hi3516ev200: the image of the sensor, the size of the capture device, the
\* default window of the ISP in it.
OnSensor(name, image, device, window, rate) ==
    [platform |-> "hi3516ev200", name |-> name, image |-> image, device |-> device,
     window |-> window, rate |-> rate]

\* The others: the window of the ISP, the rectangle the device captures.
OnDevice(platform, name, window, device, rate) ==
    [platform |-> platform, name |-> name, image |-> device, device |-> device,
     window |-> window, rate |-> rate]

\* A table is usable if its rates are positive and no rectangle is empty.  The
\* windows on hi3516ev200 are counted from the corner of the image.
WellFormed(s) ==
    /\ s.rate \in Nat \ {0}
    /\ \A a \in Axes :
         {s.image[a], s.device[a], s.window[a]} \subseteq [at : Nat, extent : Nat \ {0}]
    /\ s.platform = "hi3516ev200" => \A a \in Axes : s.image[a].at = 0
=============================================================================
