------------------------------ MODULE Settings ------------------------------
(***************************************************************************)
(* How a stage implements a setting of VideoSource::Imaging.  A setting is *)
(* named by its class and property, and described by                       *)
(*   attr     the attribute structure of the driver that holds it,         *)
(*   conv     what the driver makes of the value,                          *)
(*   start    how doEnableElement() writes it, which has lists of its own. *)
(* The setters share one shape: while the stage is enabled they read the   *)
(* structure, change one member and write it back, and throw if either     *)
(* call fails; then they store the value.                                  *)
(***************************************************************************)
EXTENDS Integers, TLC

Live(attr, conv) == [attr |-> attr, conv |-> conv, start |-> "never"]

\* Never given to the driver.
Stored == [attr |-> "none", conv |-> "word", start |-> "never"]

Of(class, properties, descriptor) == [n \in {class} \X properties |-> descriptor]

\* Those of the properties that doEnableElement() takes care of, and how:
\*   always     a failure is only logged
\*   needed     the stage cannot start without
\*   offline    if the capture device is not online
\*   read back  the member is first overwritten with what the driver has
Starts(settings, properties, how) ==
    [n \in DOMAIN settings |->
        IF n \in properties THEN [settings[n] EXCEPT !.start = how] ELSE settings[n]]

\* A stage that implements nothing.
Forwarder == [n \in {} |-> Stored]

-----------------------------------------------------------------------------
\* The driver's own value, which no conversion gives.
Factory == 77

\* Values that a switch has no case for, and curves of a wrong size.
Stray(conv, v) == conv = "mode" /\ v > 2
Refused(conv, v) == conv = "curve" /\ v = 1

\* The members of the structures are narrower than the uint32_t of the bus;
\* modes are compared with one of their values.  An empty curve selects the
\* table of the driver.
Convert(conv, v) ==
    CASE conv = "byte" -> v % 256
      [] conv = "half" -> v % 65536
      [] conv = "first" -> IF v = 0 THEN 1 ELSE 0
      [] conv = "on" -> IF v = 1 THEN 1 ELSE 0
      [] conv = "bool" -> IF v = 0 THEN 0 ELSE 1
      [] conv = "curve" -> IF v = 0 THEN Factory ELSE v
      [] OTHER -> v
=============================================================================
