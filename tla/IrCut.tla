------------------------------- MODULE IrCut --------------------------------
(***************************************************************************)
(* The IR-cut filter (HimppIrCut): the light sensor is read every second,  *)
(* a coil moves the filter while it is energised, a timer ends the pulse,  *)
(* and the capture device upstream drops the colours at night.             *)
(*                                                                         *)
(* Time advances in ticks, and the event loop runs the expired timers      *)
(* before the next tick.  A stopped libev timer keeps the time it had left *)
(* and loses its pending event.                                            *)
(***************************************************************************)
EXTENDS Naturals

CONSTANTS
    Platforms,      \* pulse.on, pulse.off: how long a pulse is; gray: the
                    \* capture device has an IrCutFilter of its own
    Period,         \* of the sensor timer
    Saturations     \* what a client may ask for

ASSUME TimersAssumption ==
    /\ Period \in Nat \ {0}
    /\ \A p \in Platforms :
         p.pulse.on \in Nat \ {0} /\ p.pulse.off \in Nat \ {0} /\ p.gray \in BOOLEAN

Positions == {"on", "off"}
Modes == Positions \cup {"auto", "stray"}

VARIABLES
    platform, hasSensor,
    enabled,        \* is_enabled()
    mode, status, count,
    sensing, sensorLeft,    \* _sensor_timer: active, ticks left (0: pending)
    pulsing, pulseLeft,     \* _ircut_timer
    coil,           \* the output that is 1
    led,            \* irleden
    light,          \* what the sensor sees: below, in or above the band
    \* the capture device upstream
    viUp, viMode, saturation,
    csc,            \* the saturation in the driver, "lost" if setting it failed
    \* history
    filter,         \* where the filter is, "boot" before the first pulse
    spent,          \* how long the coil has been energised
    refused,        \* the last setMode() was refused
    deaf,           \* the capture device has missed the last switch
    readings        \* readings off the band since the last automatic switch

ircutVars == <<enabled, mode, status, count, sensing, sensorLeft, pulsing,
               pulseLeft, coil, led, filter, spent, refused, readings>>
viVars == <<viUp, viMode, saturation, csc>>
vars == <<platform, hasSensor, light, deaf, ircutVars, viVars>>

Init ==
    /\ platform \in Platforms
    /\ hasSensor \in BOOLEAN
    /\ enabled = FALSE
    /\ mode = "auto"
    /\ status = "off"
    /\ count = 0
    /\ sensing = FALSE /\ sensorLeft = Period
    /\ pulsing = TRUE /\ pulseLeft = platform.pulse.off
    /\ coil = "none"
    /\ led = "boot"
    /\ light \in {"dark", "dusk", "bright"}
    /\ viUp = FALSE
    /\ viMode = "off"
    /\ saturation \in Saturations
    /\ csc = "lost"
    /\ filter = "boot"
    /\ spent = 0
    /\ refused = FALSE
    /\ deaf = FALSE
    /\ readings = 0

-----------------------------------------------------------------------------
(* The capture device upstream.                                            *)

Colours(m, s) == IF m = "on" THEN "none" ELSE s

\* IrCutFilter::setMode() of the capture device, for which a device that is up
\* asks the driver; when that fails the exception is swallowed by the caller.
Forward(m, ok) ==
    IF platform.gray /\ (viUp => ok)
    THEN /\ viMode' = m
         /\ csc' = IF viUp THEN Colours(m, saturation) ELSE csc
         /\ deaf' = FALSE
         /\ UNCHANGED <<viUp, saturation>>
    ELSE deaf' = TRUE /\ UNCHANGED viVars

\* Seeded bug: the colours come back although the filter is at night.
SetSaturationAtNight(s) ==
    /\ saturation' = s
    /\ csc' = IF viUp THEN s ELSE csc
    /\ UNCHANGED <<platform, hasSensor, light, deaf, ircutVars, viUp, viMode>>

\* HimppViDev::Imaging::setSaturation(), when the driver takes it.
SetSaturation(s) ==
    /\ saturation' = s
    /\ csc' = IF viUp /\ viMode # "on" THEN s ELSE csc
    /\ UNCHANGED <<platform, hasSensor, light, deaf, ircutVars, viUp, viMode>>

\* doEnableElement() of the device; a failing SetCSCAttr is only logged.
ViDevUp(ok) ==
    /\ ~viUp
    /\ viUp' = TRUE
    /\ csc' = IF ok THEN Colours(viMode, saturation) ELSE "lost"
    /\ UNCHANGED <<platform, hasSensor, light, deaf, ircutVars, viMode, saturation>>

\* It goes down after its readers.
ViDevDown ==
    /\ viUp /\ ~enabled
    /\ viUp' = FALSE
    /\ csc' = "lost"
    /\ UNCHANGED <<platform, hasSensor, light, deaf, ircutVars, viMode, saturation>>

-----------------------------------------------------------------------------
(* Switching.                                                              *)

\* Seeded bug: a pulse that is under way keeps its timer.
SwitchKeepsTimer(m) ==
    /\ coil' = m
    /\ spent' = IF coil = m THEN spent ELSE 0
    /\ led' = m
    /\ status' = m
    /\ pulsing' = TRUE
    /\ pulseLeft' = IF pulsing THEN pulseLeft ELSE platform.pulse[m]
    /\ filter' = IF coil = m THEN filter ELSE "between"

\* ircut_on() and ircut_off(), on the side of the filter.
Switch(m) ==
    /\ coil' = m
    /\ spent' = IF coil = m THEN spent ELSE 0
    /\ led' = m
    /\ status' = m
    /\ pulsing' = TRUE
    /\ pulseLeft' = platform.pulse[m]
    /\ filter' = IF coil = m THEN filter ELSE "between"

NoSwitch == UNCHANGED <<coil, spent, led, status, pulsing, pulseLeft, filter, deaf, viVars>>

\* A stopped timer whose event was pending has been set to its next period.
Stopped == IF sensorLeft = 0 THEN Period ELSE sensorLeft

\* Seeded bug: the timer goes on in the modes without a sensor.
ApplyKeepsSensing(m, ok) ==
    /\ sensorLeft' = sensorLeft
    /\ sensing' = (sensing \/ (m = "auto" /\ hasSensor))
    /\ IF m \in Positions THEN Switch(m) /\ Forward(m, ok) ELSE NoSwitch

\* setMode() on an enabled filter: _sensor_timer.stop(), then by the value.
Apply(m, ok) ==
    /\ sensorLeft' = Stopped
    /\ sensing' = (m = "auto" /\ hasSensor)
    /\ IF m \in Positions THEN Switch(m) /\ Forward(m, ok) ELSE NoSwitch

\* Seeded bug: a mode set before the start is not applied.
EnableForgetsMode(ok) ==
    /\ ~enabled /\ viUp
    /\ mode # "stray"
    /\ enabled' = TRUE
    /\ refused' = FALSE
    /\ Apply("auto", ok)
    /\ UNCHANGED <<platform, hasSensor, light, mode, count, readings>>

\* doEnableElement(): an invalid mode that was stored throws, and nothing is
\* enabled.
Enable(ok) ==
    /\ ~enabled /\ viUp
    /\ mode # "stray"
    /\ enabled' = TRUE
    /\ refused' = FALSE
    /\ Apply(mode, ok)
    /\ UNCHANGED <<platform, hasSensor, light, mode, count, readings>>

\* doDisableElement()
Disable(ok) ==
    /\ enabled
    /\ enabled' = FALSE
    /\ refused' = FALSE
    /\ Apply("off", ok)
    /\ UNCHANGED <<platform, hasSensor, light, mode, count, readings>>

\* Seeded bug: AUTO does not start the timer again.
SetModeForgetsTimer(m, ok) ==
    /\ IF enabled
       THEN Apply(IF m = "auto" THEN "stray" ELSE m, ok) /\ refused' = (m = "stray")
       ELSE NoSwitch /\ UNCHANGED <<sensing, sensorLeft, refused>>
    /\ mode' = IF enabled /\ m = "stray" THEN mode ELSE m
    /\ UNCHANGED <<platform, hasSensor, light, enabled, count, readings>>

\* setMode(): a value that is none of the three is refused after the timer was
\* stopped, and stored if the filter is disabled.
SetMode(m, ok) ==
    /\ IF enabled
       THEN Apply(m, ok) /\ refused' = (m = "stray")
       ELSE NoSwitch /\ UNCHANGED <<sensing, sensorLeft, refused>>
    /\ mode' = IF enabled /\ m = "stray" THEN mode ELSE m
    /\ UNCHANGED <<platform, hasSensor, light, enabled, count, readings>>

-----------------------------------------------------------------------------
(* The timers.                                                             *)

Wanted ==
    IF status = "on" /\ light = "bright" THEN "off"
    ELSE IF status = "off" /\ light = "dark" THEN "on"
    ELSE "none"

Pending == (sensing /\ sensorLeft = 0) \/ (pulsing /\ pulseLeft = 0)

\* Seeded bug: the count is not reset after a switch.
SensorHandlerKeepsCount(ok) ==
    /\ sensing /\ sensorLeft = 0
    /\ sensorLeft' = Period
    /\ count' = IF Wanted = "none" THEN 0 ELSE IF count < 2 THEN count + 1 ELSE count
    /\ readings' = IF Wanted = "none" THEN readings
                   ELSE IF count < 2 THEN (IF readings < 3 THEN readings + 1 ELSE 3) ELSE 0
    /\ IF Wanted # "none" /\ count >= 2
       THEN Switch(Wanted) /\ Forward(Wanted, ok)
       ELSE NoSwitch
    /\ UNCHANGED <<platform, hasSensor, light, enabled, mode, sensing, refused>>

\* sensor_timer_handler(): the third reading in a row off the band switches.
\* The count is not touched by setMode() and doDisableElement().
SensorHandler(ok) ==
    /\ sensing /\ sensorLeft = 0
    /\ sensorLeft' = Period
    /\ IF Wanted = "none" THEN count' = 0 /\ readings' = readings /\ NoSwitch
       ELSE IF count < 2
            THEN /\ count' = count + 1
                 /\ readings' = IF readings < 3 THEN readings + 1 ELSE 3
                 /\ NoSwitch
            ELSE count' = 0 /\ readings' = 0 /\ Switch(Wanted) /\ Forward(Wanted, ok)
    /\ UNCHANGED <<platform, hasSensor, light, enabled, mode, sensing, refused>>

\* sensor_timer_handler() when the sensor cannot be read, or says nothing.
SensorFails ==
    /\ sensing /\ sensorLeft = 0
    /\ sensorLeft' = Period
    /\ NoSwitch
    /\ UNCHANGED <<platform, hasSensor, light, enabled, mode, count, sensing, refused, readings>>

\* ircut_timer_handler(): the filter has arrived if the pulse was long enough.
PulseEnd ==
    /\ pulsing /\ pulseLeft = 0
    /\ pulsing' = FALSE
    /\ coil' = "none"
    /\ filter' = IF coil # "none" /\ spent >= platform.pulse[coil] THEN coil ELSE filter
    /\ spent' = 0
    /\ UNCHANGED <<platform, hasSensor, light, deaf, enabled, mode, status, count,
                   sensing, sensorLeft, pulseLeft, led, refused, readings, viVars>>

\* Long pulses are counted up to the longest that a filter needs.
Longest == IF platform.pulse.on < platform.pulse.off THEN platform.pulse.off ELSE platform.pulse.on

Tick ==
    /\ ~Pending
    /\ sensing \/ pulsing
    /\ sensorLeft' = IF sensing THEN sensorLeft - 1 ELSE sensorLeft
    /\ pulseLeft' = IF pulsing THEN pulseLeft - 1 ELSE pulseLeft
    /\ spent' = IF coil # "none" /\ spent < Longest THEN spent + 1 ELSE spent
    /\ UNCHANGED <<platform, hasSensor, light, deaf, enabled, mode, status, count,
                   sensing, pulsing, coil, led, filter, refused, readings, viVars>>

\* Day and night.
LightChanges ==
    /\ \/ light = "dusk" /\ light' \in {"dark", "bright"}
       \/ light # "dusk" /\ light' = "dusk"
    /\ UNCHANGED <<platform, hasSensor, deaf, ircutVars, viVars>>

-----------------------------------------------------------------------------
Next ==
    \/ \E s \in Saturations : SetSaturation(s)
    \/ \E ok \in BOOLEAN : ViDevUp(ok) \/ Enable(ok) \/ Disable(ok) \/ SensorHandler(ok)
    \/ \E m \in Modes, ok \in BOOLEAN : SetMode(m, ok)
    \/ ViDevDown
    \/ SensorFails \/ PulseEnd \/ Tick \/ LightChanges

Spec == Init /\ [][Next]_vars

\* The loop runs expired timers, and time goes on.  The sensor does not fail
\* each time it is read.
Fairness ==
    /\ WF_vars(Tick)
    /\ WF_vars(PulseEnd)
    /\ SF_vars(\E ok \in BOOLEAN : SensorHandler(ok))

FairSpec == Spec /\ Fairness

-----------------------------------------------------------------------------
(* Properties.                                                             *)

TypeOK ==
    /\ platform \in Platforms /\ hasSensor \in BOOLEAN
    /\ enabled \in BOOLEAN /\ mode \in Modes /\ status \in Positions /\ count \in 0..2
    /\ sensing \in BOOLEAN /\ sensorLeft \in 0..Period
    /\ pulsing \in BOOLEAN /\ pulseLeft \in Nat /\ spent \in Nat
    /\ coil \in Positions \cup {"none"}
    /\ led \in Positions \cup {"boot"}
    /\ filter \in Positions \cup {"boot", "between"}
    /\ refused \in BOOLEAN /\ deaf \in BOOLEAN /\ readings \in 0..3
    /\ viUp \in BOOLEAN /\ viMode \in Positions

\* The filter and the IR LED do what the mode says, and a filter that is
\* disabled is off, whatever the sensor saw before and calls were refused.
ModeHolds ==
    /\ enabled /\ mode \in Positions => status = mode
    /\ ~enabled => status = "off"
    /\ led # "boot" => led = status

\* The sensor is read in the automatic mode of an enabled filter, and only
\* then: only a refused setMode() leaves AUTO without its timer.
AutoSenses ==
    IF enabled /\ mode = "auto" /\ hasSensor THEN sensing \/ refused ELSE ~sensing

\* A coil is energised only towards the reported position and while a timer
\* runs that ends it; when it ends the filter is where status says, however
\* many pulses have cut each other short.
FilterSettles ==
    /\ coil # "none" => coil = status /\ pulsing /\ spent + pulseLeft >= platform.pulse[coil]
    /\ coil = "none" => filter \in {status, "boot"}

\* The picture has no colours exactly while the filter is at night, unless the
\* driver has refused: the capture device lags behind only if it has missed
\* the last switch.
ColourFollows ==
    platform.gray =>
        /\ viUp => csc \in {Colours(viMode, saturation), "lost"}
        /\ deaf \/ viMode = status

\* Between two automatic switches there are three readings off the band.
AutoSwitch == status' # status /\ enabled' = enabled /\ mode' = mode
SwitchesApart == [][AutoSwitch /\ sensorLeft = 0 /\ sensing => readings >= 2]_vars

\* When it stays dark and nobody calls, the filter ends at the side of the
\* night and stays there, also if readings fail now and then.
Calls ==
    \/ \E ok \in BOOLEAN : ViDevUp(ok) \/ Enable(ok) \/ Disable(ok)
    \/ \E m \in Modes, ok \in BOOLEAN : SetMode(m, ok)

AutoMode == enabled /\ mode = "auto" /\ hasSensor /\ ~refused

NightFalls ==
    (<>[](AutoMode /\ light = "dark") /\ <>[][~Calls]_vars) => <>[](filter = "on")

\* The inductive invariant.
IInv ==
    /\ TypeOK /\ ModeHolds /\ AutoSenses /\ FilterSettles /\ ColourFollows
    /\ count <= readings
=============================================================================
