---------------------------- MODULE PictureProofs ----------------------------
(***************************************************************************)
(* What is proved of the picture.                                          *)
(*                                                                         *)
(* IrCut.                                                                  *)
(* For any platforms, periods and light: the filter settles where the mode *)
(* says, and the sensor is read in the automatic mode only.                *)
(*                                                                         *)
(* Imaging.                                                                *)
(* For any pipe whose settings are listed like those of the three          *)
(* platforms, any values and any refusals: the driver does, and a client   *)
(* reads, what was asked for last.                                         *)
(***************************************************************************)
EXTENDS IrCut, Imaging, TLAPS

\* The pulse of a platform, and the longest that a filter needs.
LEMMA PulseTyped ==
    ASSUME platform \in Platforms, NEW m \in Positions
    PROVE  /\ platform.pulse[m] \in Nat \ {0}
           /\ Longest \in Nat
           /\ platform.pulse[m] <= Longest
<1>1. platform.pulse.on \in Nat \ {0} /\ platform.pulse.off \in Nat \ {0}
  BY TimersAssumption
<1>2. m = "on" \/ m = "off"
  BY DEF Positions
<1>3. platform.pulse["on"] = platform.pulse.on /\ platform.pulse["off"] = platform.pulse.off
  OBVIOUS
<1> QED
  BY <1>1, <1>2, <1>3 DEF Longest

LEMMA InitIInv == Init => IInv
<1> SUFFICES ASSUME Init PROVE IInv
  OBVIOUS
<1>1. platform.pulse.off \in Nat \ {0} /\ Period \in Nat \ {0}
  BY TimersAssumption DEF Init
<1>2. TypeOK
  <2>1. /\ sensorLeft \in 0..Period /\ pulseLeft \in Nat /\ spent \in Nat
        /\ count \in 0..2 /\ readings \in 0..3
    BY <1>1 DEF Init
  <2>2. /\ platform \in Platforms /\ hasSensor \in BOOLEAN /\ enabled \in BOOLEAN
        /\ sensing \in BOOLEAN /\ pulsing \in BOOLEAN /\ refused \in BOOLEAN
        /\ deaf \in BOOLEAN /\ viUp \in BOOLEAN
    BY Zenon DEF Init
  <2>3. /\ mode \in Modes /\ status \in Positions /\ viMode \in Positions
        /\ coil \in Positions \cup {"none"} /\ led \in Positions \cup {"boot"}
        /\ filter \in Positions \cup {"boot", "between"}
    BY DEF Init, Modes, Positions
  <2> QED
    BY <2>1, <2>2, <2>3 DEF TypeOK
<1>3. ModeHolds /\ FilterSettles
  BY DEF Init, ModeHolds, FilterSettles, Positions
<1>4. AutoSenses
  BY DEF Init, AutoSenses
<1>5. ColourFollows
  BY DEF Init, ColourFollows
<1>6. count <= readings
  BY DEF Init
<1> QED
  BY <1>2, <1>3, <1>4, <1>5, <1>6 DEF IInv

\* What a switch does.
LEMMA SwitchTyped ==
    ASSUME TypeOK, NEW m \in Positions, Switch(m), platform' = platform
    PROVE  /\ coil' = m /\ led' = m /\ status' = m /\ pulsing' = TRUE
           /\ spent' \in Nat /\ pulseLeft' \in Nat
           /\ filter' \in Positions \cup {"boot", "between"}
           /\ FilterSettles'
<1>1. platform.pulse[m] \in Nat \ {0}
  BY PulseTyped DEF TypeOK
<1>2. coil' = m /\ led' = m /\ status' = m /\ pulsing' = TRUE /\ pulseLeft' = platform.pulse[m]
  BY DEF Switch
<1>3. spent' \in Nat
  BY DEF Switch, TypeOK
<1>4. filter' \in Positions \cup {"boot", "between"}
  BY DEF Switch, TypeOK
<1>5. spent' + pulseLeft' >= platform.pulse[m]
  BY <1>1, <1>2, <1>3
<1>6. m # "none"
  BY DEF Positions
<1> QED
  BY <1>1, <1>2, <1>3, <1>4, <1>5, <1>6 DEF FilterSettles

\* What the capture device makes of it.
LEMMA ForwardColours ==
    ASSUME TypeOK, ColourFollows, NEW m \in Positions, NEW ok \in BOOLEAN,
           Forward(m, ok), status' = m, platform' = platform
    PROVE  ColourFollows' /\ viUp' \in BOOLEAN /\ viMode' \in Positions /\ deaf' \in BOOLEAN
<1>1. CASE platform.gray /\ (viUp => ok)
  <2>1. viMode' = m /\ deaf' = FALSE /\ UNCHANGED <<viUp, saturation>>
    BY <1>1 DEF Forward
  <2>2. viUp => csc' = Colours(m, saturation)
    BY <1>1 DEF Forward
  <2> QED
    BY <2>1, <2>2 DEF ColourFollows, TypeOK, Colours
<1>2. CASE ~(platform.gray /\ (viUp => ok))
  <2>1. deaf' = TRUE /\ UNCHANGED <<viUp, viMode, saturation, csc>>
    BY <1>2 DEF Forward, viVars
  <2> QED
    BY <2>1 DEF ColourFollows, TypeOK, Colours
<1> QED
  BY <1>1, <1>2

\* What a mode applied to an enabled filter leaves.
LEMMA ApplyTyped ==
    ASSUME IInv, NEW m \in Modes, NEW ok \in BOOLEAN, Apply(m, ok),
           UNCHANGED <<platform, hasSensor>>
    PROVE  /\ sensing' \in BOOLEAN /\ sensing' = (m = "auto" /\ hasSensor)
           /\ sensorLeft' \in 0..Period
           /\ pulsing' \in BOOLEAN /\ pulseLeft' \in Nat /\ spent' \in Nat
           /\ coil' \in Positions \cup {"none"} /\ led' \in Positions \cup {"boot"}
           /\ filter' \in Positions \cup {"boot", "between"}
           /\ viUp' \in BOOLEAN /\ viMode' \in Positions /\ deaf' \in BOOLEAN
           /\ status' \in Positions
           /\ m \in Positions => status' = m
           /\ m \notin Positions => status' = status
           /\ led' # "boot" => led' = status'
           /\ FilterSettles'
           /\ ColourFollows'
<1>1. TypeOK /\ ModeHolds /\ FilterSettles /\ ColourFollows
  BY DEF IInv
<1>2. sensing' \in BOOLEAN /\ sensing' = (m = "auto" /\ hasSensor)
  BY <1>1 DEF Apply, TypeOK
<1>3. sensorLeft' \in 0..Period
  BY <1>1, TimersAssumption DEF Apply, Stopped, TypeOK
<1>4. CASE m \in Positions
  <2>1. Switch(m) /\ Forward(m, ok)
    BY <1>4 DEF Apply
  <2>2. /\ coil' = m /\ led' = m /\ status' = m /\ pulsing' = TRUE
        /\ spent' \in Nat /\ pulseLeft' \in Nat
        /\ filter' \in Positions \cup {"boot", "between"}
        /\ FilterSettles'
    BY <1>1, <1>4, <2>1, SwitchTyped
  <2>3. ColourFollows' /\ viUp' \in BOOLEAN /\ viMode' \in Positions /\ deaf' \in BOOLEAN
    BY <1>1, <1>4, <2>1, <2>2, ForwardColours
  <2> QED
    BY <1>2, <1>3, <1>4, <2>2, <2>3
<1>5. CASE m \notin Positions
  <2>1. UNCHANGED <<coil, spent, led, status, pulsing, pulseLeft, filter, deaf,
                    viUp, viMode, saturation, csc>>
    BY <1>5 DEF Apply, NoSwitch, viVars
  <2>2. FilterSettles' /\ ColourFollows'
    BY <1>1, <2>1 DEF FilterSettles, ColourFollows, Colours
  <2> QED
    BY <1>1, <1>2, <1>3, <1>5, <2>1, <2>2 DEF TypeOK, ModeHolds
<1> QED
  BY <1>4, <1>5
-----------------------------------------------------------------------------
(* The calls.                                                              *)

LEMMA EnableIInv ==
    ASSUME IInv, NEW ok \in BOOLEAN, Enable(ok) PROVE IInv'
<1>1. TypeOK /\ ModeHolds /\ AutoSenses /\ count <= readings
  BY DEF IInv
<1>2. /\ mode \in Modes /\ mode # "stray" /\ enabled' = TRUE /\ refused' = FALSE
      /\ Apply(mode, ok) /\ UNCHANGED <<platform, hasSensor, light, mode, count, readings>>
  BY <1>1 DEF Enable, TypeOK
<1>3. /\ sensing' \in BOOLEAN /\ sensing' = (mode = "auto" /\ hasSensor)
      /\ sensorLeft' \in 0..Period
      /\ pulsing' \in BOOLEAN /\ pulseLeft' \in Nat /\ spent' \in Nat
      /\ coil' \in Positions \cup {"none"} /\ led' \in Positions \cup {"boot"}
      /\ filter' \in Positions \cup {"boot", "between"}
      /\ viUp' \in BOOLEAN /\ viMode' \in Positions /\ deaf' \in BOOLEAN
      /\ status' \in Positions
      /\ mode \in Positions => status' = mode
      /\ led' # "boot" => led' = status'
      /\ FilterSettles' /\ ColourFollows'
  BY <1>2, ApplyTyped
<1>4. TypeOK'
  BY <1>1, <1>2, <1>3 DEF TypeOK
<1>5. ModeHolds'
  BY <1>2, <1>3 DEF ModeHolds
<1>6. AutoSenses'
  BY <1>2, <1>3 DEF AutoSenses
<1> QED
  BY <1>1, <1>2, <1>3, <1>4, <1>5, <1>6 DEF IInv

LEMMA DisableIInv ==
    ASSUME IInv, NEW ok \in BOOLEAN, Disable(ok) PROVE IInv'
<1>1. TypeOK /\ ModeHolds /\ AutoSenses /\ count <= readings
  BY DEF IInv
<1>2. /\ enabled' = FALSE /\ refused' = FALSE
      /\ Apply("off", ok) /\ UNCHANGED <<platform, hasSensor, light, mode, count, readings>>
  BY DEF Disable
<1>3. "off" \in Modes /\ "off" \in Positions
  BY DEF Modes, Positions
<1>4. /\ sensing' \in BOOLEAN /\ sensing' = FALSE
      /\ sensorLeft' \in 0..Period
      /\ pulsing' \in BOOLEAN /\ pulseLeft' \in Nat /\ spent' \in Nat
      /\ coil' \in Positions \cup {"none"} /\ led' \in Positions \cup {"boot"}
      /\ filter' \in Positions \cup {"boot", "between"}
      /\ viUp' \in BOOLEAN /\ viMode' \in Positions /\ deaf' \in BOOLEAN
      /\ status' = "off"
      /\ led' # "boot" => led' = status'
      /\ FilterSettles' /\ ColourFollows'
  BY <1>2, <1>3, ApplyTyped
<1>5. TypeOK'
  BY <1>1, <1>2, <1>3, <1>4 DEF TypeOK
<1>6. ModeHolds' /\ AutoSenses'
  BY <1>2, <1>4 DEF ModeHolds, AutoSenses
<1> QED
  BY <1>1, <1>2, <1>4, <1>5, <1>6 DEF IInv

LEMMA SetModeIInv ==
    ASSUME IInv, NEW m \in Modes, NEW ok \in BOOLEAN, SetMode(m, ok) PROVE IInv'
<1>1. TypeOK /\ ModeHolds /\ AutoSenses /\ FilterSettles /\ ColourFollows /\ count <= readings
  BY DEF IInv
<1>2. UNCHANGED <<platform, hasSensor, light, enabled, count, readings>>
  BY DEF SetMode
<1>3. CASE enabled
  <2>1. /\ Apply(m, ok) /\ refused' = (m = "stray")
        /\ mode' = IF m = "stray" THEN mode ELSE m
    BY <1>3 DEF SetMode
  <2>2. /\ sensing' \in BOOLEAN /\ sensing' = (m = "auto" /\ hasSensor)
        /\ sensorLeft' \in 0..Period
        /\ pulsing' \in BOOLEAN /\ pulseLeft' \in Nat /\ spent' \in Nat
        /\ coil' \in Positions \cup {"none"} /\ led' \in Positions \cup {"boot"}
        /\ filter' \in Positions \cup {"boot", "between"}
        /\ viUp' \in BOOLEAN /\ viMode' \in Positions /\ deaf' \in BOOLEAN
        /\ status' \in Positions
        /\ m \in Positions => status' = m
        /\ m \notin Positions => status' = status
        /\ led' # "boot" => led' = status'
        /\ FilterSettles' /\ ColourFollows'
    BY <1>2, <2>1, ApplyTyped
  <2>3. mode' \in Modes /\ refused' \in BOOLEAN
    BY <1>1, <2>1 DEF TypeOK
  <2>4. TypeOK'
    BY <1>1, <1>2, <2>2, <2>3 DEF TypeOK
  <2>5. ModeHolds'
    BY <1>1, <1>2, <1>3, <2>1, <2>2 DEF ModeHolds, Modes, Positions
  <2>6. AutoSenses'
    BY <1>2, <1>3, <2>1, <2>2 DEF AutoSenses
  <2> QED
    BY <1>1, <1>2, <2>2, <2>4, <2>5, <2>6 DEF IInv
<1>4. CASE ~enabled
  <2>1. /\ UNCHANGED <<coil, spent, led, status, pulsing, pulseLeft, filter, deaf,
                       viUp, viMode, saturation, csc, sensing, sensorLeft, refused>>
        /\ mode' = m
    BY <1>4 DEF SetMode, NoSwitch, viVars
  <2>2. TypeOK'
    BY <1>1, <1>2, <2>1 DEF TypeOK
  <2>3. ModeHolds' /\ AutoSenses'
    BY <1>1, <1>2, <1>4, <2>1 DEF ModeHolds, AutoSenses
  <2>4. FilterSettles' /\ ColourFollows'
    BY <1>1, <1>2, <2>1 DEF FilterSettles, ColourFollows, Colours
  <2> QED
    BY <1>1, <1>2, <2>2, <2>3, <2>4 DEF IInv
<1> QED
  BY <1>3, <1>4

\* The saturation and the capture device.
LEMMA ViDevIInv ==
    ASSUME IInv,
           \/ \E s \in Saturations : SetSaturation(s)
           \/ \E ok \in BOOLEAN : ViDevUp(ok)
           \/ ViDevDown
    PROVE  IInv'
<1>1. TypeOK /\ ModeHolds /\ AutoSenses /\ FilterSettles /\ ColourFollows /\ count <= readings
  BY DEF IInv
<1>2. UNCHANGED <<platform, hasSensor, light, deaf, enabled, mode, status, count, sensing,
                  sensorLeft, pulsing, pulseLeft, coil, led, filter, spent, refused,
                  readings, viMode>>
  BY DEF SetSaturation, ViDevUp, ViDevDown, ircutVars
<1>3. viUp' \in BOOLEAN /\ ColourFollows'
  <2>1. CASE \E s \in Saturations : SetSaturation(s)
    BY <1>1, <2>1 DEF SetSaturation, ColourFollows, Colours, TypeOK, ircutVars
  <2>2. CASE \E ok \in BOOLEAN : ViDevUp(ok)
    BY <1>1, <2>2 DEF ViDevUp, ColourFollows, Colours, TypeOK, ircutVars
  <2>3. CASE ViDevDown
    BY <1>1, <2>3 DEF ViDevDown, ColourFollows, Colours, TypeOK, ircutVars
  <2> QED
    BY <2>1, <2>2, <2>3
<1>4. TypeOK'
  BY <1>1, <1>2, <1>3 DEF TypeOK
<1>5. ModeHolds' /\ AutoSenses' /\ FilterSettles'
  BY <1>1, <1>2 DEF ModeHolds, AutoSenses, FilterSettles
<1> QED
  BY <1>1, <1>2, <1>3, <1>4, <1>5 DEF IInv

-----------------------------------------------------------------------------
(* The timers.                                                             *)

LEMMA SensorIInv ==
    ASSUME IInv, NEW ok \in BOOLEAN, SensorHandler(ok) PROVE IInv'
<1>1. TypeOK /\ ModeHolds /\ AutoSenses /\ FilterSettles /\ ColourFollows /\ count <= readings
  BY DEF IInv
<1>2. /\ sensing /\ sensorLeft' = Period
      /\ UNCHANGED <<platform, hasSensor, light, enabled, mode, sensing, refused>>
  BY DEF SensorHandler
<1>3. enabled /\ mode = "auto"
  BY <1>1, <1>2 DEF AutoSenses
<1>4. AutoSenses' /\ sensorLeft' \in 0..Period
  BY <1>1, <1>2, TimersAssumption DEF AutoSenses
<1>5. CASE Wanted = "none" \/ count < 2
  <2>1. NoSwitch
    BY <1>5 DEF SensorHandler
  <2>2. UNCHANGED <<coil, spent, led, status, pulsing, pulseLeft, filter, deaf,
                    viUp, viMode, saturation, csc>>
    BY <2>1 DEF NoSwitch, viVars
  <2>3. count' \in 0..2 /\ readings' \in 0..3 /\ count' <= readings'
    <3>1. count \in 0..2 /\ readings \in 0..3
      BY <1>1 DEF TypeOK
    <3>2. CASE Wanted = "none"
      BY <1>1, <3>1, <3>2 DEF SensorHandler
    <3>3. CASE Wanted # "none"
      BY <1>1, <1>5, <3>1, <3>3 DEF SensorHandler
    <3> QED
      BY <3>2, <3>3
  <2>4. TypeOK'
    BY <1>1, <1>2, <1>4, <2>2, <2>3 DEF TypeOK
  <2>5. ModeHolds' /\ FilterSettles' /\ ColourFollows'
    BY <1>1, <1>2, <2>2 DEF ModeHolds, FilterSettles, ColourFollows, Colours
  <2> QED
    BY <1>4, <2>3, <2>4, <2>5 DEF IInv
<1>6. CASE ~(Wanted = "none" \/ count < 2)
  <2>1. count' = 0 /\ readings' = 0 /\ Switch(Wanted) /\ Forward(Wanted, ok)
    BY <1>6 DEF SensorHandler
  <2>2. Wanted \in Positions
    BY <1>6 DEF Wanted, Positions
  <2>3. /\ coil' = Wanted /\ led' = Wanted /\ status' = Wanted /\ pulsing' = TRUE
        /\ spent' \in Nat /\ pulseLeft' \in Nat
        /\ filter' \in Positions \cup {"boot", "between"}
        /\ FilterSettles'
    BY <1>1, <1>2, <2>1, <2>2, SwitchTyped
  <2>4. ColourFollows' /\ viUp' \in BOOLEAN /\ viMode' \in Positions /\ deaf' \in BOOLEAN
    BY <1>1, <1>2, <2>1, <2>2, <2>3, ForwardColours
  <2>5. TypeOK'
    BY <1>1, <1>2, <1>4, <2>1, <2>2, <2>3, <2>4 DEF TypeOK
  <2>6. ModeHolds'
    BY <1>2, <1>3, <2>3 DEF ModeHolds, Positions
  <2> QED
    BY <1>4, <2>1, <2>3, <2>4, <2>5, <2>6 DEF IInv
<1> QED
  BY <1>5, <1>6

LEMMA SensorFailsIInv == ASSUME IInv, SensorFails PROVE IInv'
<1>1. TypeOK /\ ModeHolds /\ AutoSenses /\ FilterSettles /\ ColourFollows /\ count <= readings
  BY DEF IInv
<1>2. /\ sensorLeft' = Period
      /\ UNCHANGED <<platform, hasSensor, light, deaf, enabled, mode, status, count, sensing,
                     pulsing, pulseLeft, coil, led, filter, spent, refused, readings,
                     viUp, viMode, saturation, csc>>
  BY DEF SensorFails, NoSwitch, viVars
<1>3. TypeOK'
  BY <1>1, <1>2, TimersAssumption DEF TypeOK
<1>4. ModeHolds' /\ AutoSenses' /\ FilterSettles'
  BY <1>1, <1>2 DEF ModeHolds, AutoSenses, FilterSettles
<1>5. ColourFollows'
  BY <1>1, <1>2 DEF ColourFollows, Colours
<1> QED
  BY <1>1, <1>2, <1>3, <1>4, <1>5 DEF IInv

LEMMA PulseEndIInv == ASSUME IInv, PulseEnd PROVE IInv'
<1>1. TypeOK /\ ModeHolds /\ AutoSenses /\ FilterSettles /\ ColourFollows /\ count <= readings
  BY DEF IInv
<1>2. /\ pulsing' = FALSE /\ coil' = "none" /\ spent' = 0 /\ pulseLeft = 0
      /\ UNCHANGED <<platform, hasSensor, light, deaf, enabled, mode, status, count, sensing,
                     sensorLeft, pulseLeft, led, refused, readings, viUp, viMode, saturation, csc>>
  BY DEF PulseEnd, viVars
<1>3. filter' \in {status, "boot"}
  <2>1. CASE coil = "none"
    BY <1>1, <2>1 DEF PulseEnd, FilterSettles
  <2>2. CASE coil # "none"
    <3>1. coil = status /\ spent + pulseLeft >= platform.pulse[coil] /\ spent \in Nat
      BY <1>1, <2>2 DEF FilterSettles, TypeOK
    <3>2. spent >= platform.pulse[coil]
      BY <1>2, <3>1
    <3> QED
      BY <2>2, <3>1, <3>2 DEF PulseEnd
  <2> QED
    BY <2>1, <2>2
<1>4. TypeOK'
  BY <1>1, <1>2, <1>3 DEF TypeOK
<1>5. ModeHolds' /\ AutoSenses' /\ FilterSettles' /\ ColourFollows'
  BY <1>1, <1>2, <1>3 DEF ModeHolds, AutoSenses, FilterSettles, ColourFollows, Colours
<1> QED
  BY <1>1, <1>2, <1>4, <1>5 DEF IInv

LEMMA TickIInv == ASSUME IInv, Tick PROVE IInv'
<1>1. TypeOK /\ ModeHolds /\ AutoSenses /\ FilterSettles /\ ColourFollows /\ count <= readings
  BY DEF IInv
<1>2. UNCHANGED <<platform, hasSensor, light, deaf, enabled, mode, status, count, sensing,
                  pulsing, coil, led, filter, refused, readings, viUp, viMode, saturation, csc>>
  BY DEF Tick, viVars
<1>3. /\ sensing => sensorLeft # 0
      /\ pulsing => pulseLeft # 0
  BY DEF Tick, Pending
<1>4. sensorLeft' \in 0..Period /\ pulseLeft' \in Nat
  BY <1>1, <1>3, TimersAssumption DEF Tick, TypeOK
<1>5. spent' \in Nat
  BY <1>1 DEF Tick, TypeOK
<1>6. FilterSettles'
  <2>1. CASE coil = "none"
    BY <1>1, <1>2, <2>1 DEF FilterSettles
  <2>2. CASE coil # "none"
    <3>1. /\ coil = status /\ pulsing /\ spent + pulseLeft >= platform.pulse[coil]
          /\ coil \in Positions /\ spent \in Nat /\ pulseLeft \in Nat
      BY <1>1, <2>2 DEF FilterSettles, TypeOK
    <3>2. platform.pulse[coil] \in Nat /\ platform.pulse[coil] <= Longest /\ Longest \in Nat
      BY <1>1, <3>1, PulseTyped DEF TypeOK
    <3>3. pulseLeft' = pulseLeft - 1 /\ pulseLeft' \in Nat
      BY <1>4, <3>1 DEF Tick
    <3>4. spent' + pulseLeft' >= platform.pulse[coil]
      <4>1. CASE spent < Longest
        <5>1. spent' = spent + 1
          BY <2>2, <4>1 DEF Tick
        <5> QED
          BY <3>1, <3>2, <3>3, <5>1
      <4>2. CASE ~(spent < Longest)
        <5>1. spent' = spent
          BY <4>2 DEF Tick
        <5> QED
          BY <3>1, <3>2, <3>3, <4>2, <5>1
      <4> QED
        BY <4>1, <4>2
    <3> QED
      BY <1>2, <2>2, <3>1, <3>4 DEF FilterSettles
  <2> QED
    BY <2>1, <2>2
<1>7. TypeOK'
  BY <1>1, <1>2, <1>4, <1>5 DEF TypeOK
<1>8. ModeHolds' /\ AutoSenses' /\ ColourFollows'
  BY <1>1, <1>2 DEF ModeHolds, AutoSenses, ColourFollows, Colours
<1> QED
  BY <1>1, <1>2, <1>6, <1>7, <1>8 DEF IInv

\* The light, and steps of something else.
LEMMA OtherIInv ==
    ASSUME IInv, UNCHANGED <<platform, hasSensor, deaf, ircutVars, viVars>> PROVE IInv'
<1>1. TypeOK' /\ ModeHolds' /\ AutoSenses'
  BY DEF IInv, TypeOK, ModeHolds, AutoSenses, ircutVars, viVars
<1>2. FilterSettles' /\ ColourFollows' /\ count' <= readings'
  BY DEF IInv, FilterSettles, ColourFollows, Colours, ircutVars, viVars
<1> QED
  BY <1>1, <1>2 DEF IInv

-----------------------------------------------------------------------------
LEMMA NextIInv == IInv /\ [Next]_vars => IInv'
<1> SUFFICES ASSUME IInv, [Next]_vars PROVE IInv'
  OBVIOUS
<1>1. CASE \E s \in Saturations : SetSaturation(s)
  BY <1>1, ViDevIInv
<1>2. CASE \E ok \in BOOLEAN : Enable(ok)
  BY <1>2, EnableIInv
<1>3. CASE \E ok \in BOOLEAN : Disable(ok)
  BY <1>3, DisableIInv
<1>4. CASE \E ok \in BOOLEAN : SensorHandler(ok)
  BY <1>4, SensorIInv
<1>5. CASE \E m \in Modes, ok \in BOOLEAN : SetMode(m, ok)
  BY <1>5, SetModeIInv
<1>6. CASE PulseEnd
  BY <1>6, PulseEndIInv
<1>7. CASE Tick
  BY <1>7, TickIInv
<1>8. CASE (\E ok \in BOOLEAN : ViDevUp(ok)) \/ ViDevDown
  BY <1>8, ViDevIInv
<1>9. CASE LightChanges
  BY <1>9, OtherIInv DEF LightChanges
<1>10. CASE UNCHANGED vars
  BY <1>10, OtherIInv DEF vars
<1>11. CASE SensorFails
  BY <1>11, SensorFailsIInv
<1> QED
  BY <1>1, <1>2, <1>3, <1>4, <1>5, <1>6, <1>7, <1>8, <1>9, <1>10,
     <1>11 DEF Next

\* The inductive invariant holds.
THEOREM InductiveInvariant == Spec => []IInv
BY InitIInv, NextIInv, PTL DEF Spec

\* Whatever pulses cut each other short: when a pulse ends the filter is
\* where status says.
THEOREM FilterAlwaysSettles == Spec => []FilterSettles
<1>1. IInv => FilterSettles
  BY DEF IInv
<1> QED
  BY <1>1, InductiveInvariant, PTL

\* The filter does what the mode says.
THEOREM ModeAlwaysHolds == Spec => []ModeHolds
<1>1. IInv => ModeHolds
  BY DEF IInv
<1> QED
  BY <1>1, InductiveInvariant, PTL

\* The sensor is read in AUTO only, and there unless setMode() was refused.
THEOREM AutoAlwaysSenses == Spec => []AutoSenses
<1>1. IInv => AutoSenses
  BY DEF IInv
<1> QED
  BY <1>1, InductiveInvariant, PTL

\* The colours go with the filter unless the driver has refused.
THEOREM ColourAlwaysFollows == Spec => []ColourFollows
<1>1. IInv => ColourFollows
  BY DEF IInv
<1> QED
  BY <1>1, InductiveInvariant, PTL

\* Three readings off the band lie between two automatic switches.
THEOREM SwitchesAlwaysApart == Spec => SwitchesApart
<1>1. IInv /\ [Next]_vars => [AutoSwitch /\ sensorLeft = 0 /\ sensing => readings >= 2]_vars
  <2> SUFFICES ASSUME IInv, [Next]_vars, AutoSwitch, sensorLeft = 0, sensing
               PROVE  readings >= 2
    OBVIOUS
  <2>1. TypeOK /\ ModeHolds /\ AutoSenses /\ count <= readings
    BY DEF IInv
  <2>2. count \in 0..2 /\ readings \in 0..3
    BY <2>1 DEF TypeOK
  <2>3. CASE \E ok \in BOOLEAN : SensorHandler(ok)
    <3>1. Wanted # "none" /\ ~(count < 2)
      BY <2>3 DEF SensorHandler, NoSwitch, AutoSwitch
    <3> QED
      BY <2>1, <2>2, <3>1
  <2>4. enabled /\ mode = "auto"
    BY <2>1 DEF AutoSenses
  <2>5. CASE \E m \in Modes, ok \in BOOLEAN : SetMode(m, ok)
    <3>1. PICK m \in Modes, ok \in BOOLEAN : SetMode(m, ok)
      BY <2>5
    <3>2. m = "auto" \/ m = "stray"
      BY <2>4, <3>1 DEF SetMode, AutoSwitch
    <3>3. m \notin Positions
      BY <3>2 DEF Positions
    <3> QED
      BY <2>4, <3>1, <3>3 DEF SetMode, Apply, NoSwitch, AutoSwitch
  <2>6. CASE \E ok \in BOOLEAN : Enable(ok) \/ Disable(ok)
    BY <2>6 DEF Enable, Disable, AutoSwitch
  <2>7. CASE \/ \E s \in Saturations : SetSaturation(s)
             \/ \E ok \in BOOLEAN : ViDevUp(ok)
             \/ ViDevDown \/ SensorFails \/ PulseEnd \/ Tick \/ LightChanges
             \/ UNCHANGED vars
    BY <2>7 DEF SetSaturation, ViDevUp, ViDevDown, SensorFails, NoSwitch, PulseEnd, Tick,
                LightChanges, vars, ircutVars, AutoSwitch
  <2> QED
    BY <2>3, <2>5, <2>6, <2>7 DEF Next
<1> QED
  BY <1>1, InductiveInvariant, PTL DEF Spec, SwitchesApart

-----------------------------------------------------------------------------
(* The picture settings.                                                   *)

\* Reported, of a single stage: what a setter stored last is still there.
FieldAsAsked ==
    \A s \in Slots :
        \/ field[s] = asked[s]
        \/ Setting(s).conv = "curve" /\ (s \in lost \/ asked[s] = 0)

ImagingIInv == ImagingTypeOK /\ InEffect /\ FieldAsAsked

\* What the tables of a pipe have in common.
LEMMA Tables ==
    ASSUME ImagingTypeOK
    PROVE  /\ Depth \in Nat /\ DOMAIN pipe.stages = 1..Depth /\ level \in 0..Depth
           /\ pipe.ends \subseteq 1..Depth
           /\ \A s \in Slots :
                /\ s[1] \in 1..Depth
                /\ Given(s) => Setting(s).start # "never" \/ Unlisted(s[2], Setting(s))
                /\ Setting(s).conv = "curve" <=> Setting(s).start = "read back"
                /\ Setting(s).conv = "curve" => Given(s)
<1>1. pipe \in Pipes /\ level \in 0..Depth
  BY DEF ImagingTypeOK
<1>2. Depth \in Nat /\ DOMAIN pipe.stages = 1..Depth /\ pipe.ends \subseteq 1..Depth
  BY <1>1, PipesAssumption DEF Depth
<1>3. ASSUME NEW s \in Slots
      PROVE  /\ s[1] \in 1..Depth
             /\ Given(s) => Setting(s).start # "never" \/ Unlisted(s[2], Setting(s))
             /\ Setting(s).conv = "curve" <=> Setting(s).start = "read back"
             /\ Setting(s).conv = "curve" => Given(s)
  <2>1. s[1] \in DOMAIN pipe.stages /\ s[2] \in DOMAIN pipe.stages[s[1]]
    BY <1>2 DEF Slots, Implements
  <2> QED
    BY <1>1, <1>2, <2>1, PipesAssumption DEF Setting, Given
<1> QED
  BY <1>1, <1>2, <1>3

LEMMA ImagingInitially == ImagingInit => ImagingIInv
<1> SUFFICES ASSUME ImagingInit PROVE ImagingIInv
  OBVIOUS
<1>1. pipe \in Pipes
  BY DEF ImagingInit
<1>2. Depth \in Nat
  BY <1>1, PipesAssumption DEF Depth
<1>3. ImagingTypeOK
  BY <1>1, <1>2 DEF ImagingInit, ImagingTypeOK
<1>4. \A s \in Slots : ~Up(s[1])
  <2>1. \A k \in 1..Depth : ~(k > Depth - level)
    BY <1>2 DEF ImagingInit
  <2> QED
    BY <1>3, <2>1, Tables DEF Up
<1> QED
  BY <1>3, <1>4 DEF ImagingIInv, InEffect, FieldAsAsked, ImagingInit

\* The stages of a pipe do not change.
LEMMA SamePipe ==
    ASSUME pipe' = pipe
    PROVE  /\ Depth' = Depth /\ Slots' = Slots
           /\ \A s : Setting(s)' = Setting(s) /\ (Given(s)' <=> Given(s))
BY DEF Depth, Slots, Implements, Setting, Given

\* The stage that answers a call has the setting.
LEMMA HomesHaveIt ==
    ASSUME ImagingTypeOK, NEW e \in pipe.ends, NEW n \in pipe.watched, NEW i \in Homes(e, n)
    PROVE  <<i, n>> \in Slots
<1>1. Depth \in Nat /\ e \in 1..Depth
  BY Tables
<1>2. i \in e..Depth /\ Implements(i, n)
  BY DEF Homes
<1> QED
  BY <1>1, <1>2 DEF Slots

LEMMA SetKeeps ==
    ASSUME ImagingIInv, NEW e \in pipe.ends, NEW n \in pipe.watched,
           NEW v \in Words, NEW ok \in BOOLEAN, Set(e, n, v, ok)
    PROVE  ImagingIInv'
<1>1. PICK i \in Homes(e, n) :
        LET s == <<i, n>>
            told == Up(i) /\ Given(s)
            conv == Setting(s).conv
        IN  /\ ~Refused(conv, v)
            /\ told => ok
            /\ field' = [field EXCEPT ![s] = v]
            /\ driver' = IF told /\ ~Stray(conv, v)
                         THEN [driver EXCEPT ![s] = Convert(conv, v)] ELSE driver
            /\ asked' = [asked EXCEPT ![s] = v]
            /\ lost' = lost \ {s}
            /\ UNCHANGED <<pipe, level>>
  BY DEF Set
<1> DEFINE s == <<i, n>>
<1>2. pipe' = pipe /\ level' = level
  BY <1>1
<1>3. s \in Slots /\ s[1] = i
  BY HomesHaveIt DEF ImagingIInv
<1>4. /\ DOMAIN field = Slots /\ DOMAIN driver = Slots /\ DOMAIN asked = Slots
      /\ field' = [field EXCEPT ![s] = v] /\ asked' = [asked EXCEPT ![s] = v]
      /\ lost' = lost \ {s}
      /\ DOMAIN driver' = Slots
      /\ \A r \in Slots \ {s} : driver'[r] = driver[r]
      /\ Up(i) /\ Given(s) /\ ~Stray(Setting(s).conv, v) => driver'[s] = Convert(Setting(s).conv, v)
  BY <1>1, <1>3 DEF ImagingIInv, ImagingTypeOK
<1> HIDE DEF s
<1>5. \A r : Setting(r)' = Setting(r) /\ (Given(r)' <=> Given(r)) /\ (Up(r[1])' <=> Up(r[1]))
  BY <1>2, SamePipe DEF Up
<1>6. Slots' = Slots /\ Depth' = Depth
  BY <1>2, SamePipe
<1>7. ImagingTypeOK'
  BY <1>2, <1>4, <1>6 DEF ImagingIInv, ImagingTypeOK
<1>8. ASSUME NEW r \in Slots, Up(r[1]), Given(r), r \notin lost', ~Stray(Setting(r).conv, asked'[r])
      PROVE  driver'[r] = Convert(Setting(r).conv, asked'[r])
  <2>1. CASE r = s
    BY <1>3, <1>4, <1>8, <2>1
  <2>2. CASE r # s
    BY <1>3, <1>4, <1>8, <2>2 DEF ImagingIInv, InEffect
  <2> QED
    BY <2>1, <2>2
<1>9. InEffect'
  BY <1>5, <1>6, <1>8 DEF InEffect
<1>10. ASSUME NEW r \in Slots
       PROVE  \/ field'[r] = asked'[r]
              \/ Setting(r).conv = "curve" /\ (r \in lost' \/ asked'[r] = 0)
  BY <1>3, <1>4 DEF ImagingIInv, FieldAsAsked
<1>11. FieldAsAsked'
  BY <1>5, <1>6, <1>10 DEF FieldAsAsked
<1> QED
  BY <1>7, <1>9, <1>11 DEF ImagingIInv

\* The curve that a getter fetches is the one that was asked for, or lost.
LEMMA GetKeeps ==
    ASSUME ImagingIInv, NEW e \in pipe.ends, NEW n \in pipe.watched, Get(e, n)
    PROVE  ImagingIInv'
<1>1. PICK i \in Homes(e, n) :
        /\ Up(i) /\ Setting(<<i, n>>).conv = "curve"
        /\ field' = [field EXCEPT ![<<i, n>>] = driver[<<i, n>>]]
        /\ UNCHANGED <<pipe, level, driver, asked, lost>>
  BY DEF Get
<1> DEFINE s == <<i, n>>
<1>2. s \in Slots /\ s[1] = i
  BY HomesHaveIt DEF ImagingIInv
<1>3. /\ Up(s[1]) /\ Setting(s).conv = "curve"
      /\ field' = [field EXCEPT ![s] = driver[s]]
      /\ UNCHANGED <<pipe, level, driver, asked, lost>>
  BY <1>1
<1> HIDE DEF s
<1>4. \A r : Setting(r)' = Setting(r) /\ (Given(r)' <=> Given(r)) /\ (Up(r[1])' <=> Up(r[1]))
  BY <1>3, SamePipe DEF Up
<1>5. Slots' = Slots /\ Depth' = Depth
  BY <1>3, SamePipe
<1>6. ImagingTypeOK'
  BY <1>3, <1>5 DEF ImagingIInv, ImagingTypeOK
<1>7. InEffect'
  BY <1>3, <1>4, <1>5 DEF ImagingIInv, InEffect
<1>8. s \in lost \/ asked[s] = 0 \/ driver[s] = asked[s]
  <2>1. Given(s)
    BY <1>2, <1>3, Tables DEF ImagingIInv
  <2>2. ~Stray(Setting(s).conv, asked[s])
    BY <1>3 DEF Stray
  <2>3. asked[s] # 0 => Convert(Setting(s).conv, asked[s]) = asked[s]
    BY <1>3 DEF Convert
  <2> QED
    BY <1>2, <1>3, <2>1, <2>2, <2>3 DEF ImagingIInv, InEffect
<1>9. ASSUME NEW r \in Slots
      PROVE  \/ field'[r] = asked[r]
             \/ Setting(r).conv = "curve" /\ (r \in lost \/ asked[r] = 0)
  BY <1>2, <1>3, <1>8 DEF ImagingIInv, ImagingTypeOK, FieldAsAsked
<1>10. FieldAsAsked'
  BY <1>3, <1>4, <1>5, <1>9 DEF FieldAsAsked
<1> QED
  BY <1>6, <1>7, <1>10 DEF ImagingIInv

\* A start writes what was asked for, or says what is lost.
LEMMA StartKeeps ==
    ASSUME ImagingIInv, NEW taken, Start(taken)
    PROVE  ImagingIInv'
<1> DEFINE i == Depth - level
           attempted(s) == \/ Setting(s).start \in {"always", "needed"}
                           \/ Setting(s).start = "offline" /\ pipe.offline
           written(s) == attempted(s) /\ Setting(s).attr \in taken
           stays(s) == Setting(s).start = "never" /\ ~Unlisted(s[2], Setting(s))
<1>1. /\ level < Depth /\ level' = level + 1
      /\ driver' = [s \in Slots |->
                       IF s \in SlotsOf(i) /\ written(s) /\ ~Stray(Setting(s).conv, field[s])
                       THEN Convert(Setting(s).conv, field[s]) ELSE driver[s]]
      /\ field' = [s \in Slots |-> IF s \in SlotsOf(i) /\ Setting(s).start = "read back"
                                   THEN driver[s] ELSE field[s]]
      /\ lost' = {s \in lost : s \notin SlotsOf(i)}
                 \cup {s \in SlotsOf(i) : ~written(s) /\ (Setting(s).start # "never"
                                                        \/ Unlisted(s[2], Setting(s)))}
      /\ UNCHANGED <<pipe, asked>>
  BY DEF Start
<1>2. \A s \in Slots : s \in SlotsOf(i) <=> s[1] = i
  BY DEF SlotsOf
<1>3. \A s \in Slots : Up(s[1])' => Up(s[1]) \/ s[1] = i
  <2>1. Depth' = Depth
    BY <1>1, SamePipe
  <2>2. Depth \in Nat /\ level \in 0..Depth /\ \A s \in Slots : s[1] \in 1..Depth
    BY Tables DEF ImagingIInv
  <2>3. \A k \in 1..Depth : k > Depth - (level + 1) => k > Depth - level \/ k = Depth - level
    BY <2>2
  <2> QED
    BY <1>1, <2>1, <2>2, <2>3 DEF Up
<1>4. \A s : Setting(s)' = Setting(s) /\ (Given(s)' <=> Given(s))
  BY <1>1, SamePipe
<1>5. Slots' = Slots /\ Depth' = Depth
  BY <1>1, SamePipe
<1>6. ImagingTypeOK'
  <2>1. level' \in 0..Depth
    <3>1. Depth \in Nat /\ level \in 0..Depth
      BY Tables DEF ImagingIInv
    <3>2. level < Depth /\ level' = level + 1
      BY <1>1
    <3> QED
      BY <3>1, <3>2
  <2>2. lost' \subseteq Slots
    BY <1>1 DEF SlotsOf, ImagingIInv, ImagingTypeOK
  <2>3. DOMAIN field' = Slots /\ DOMAIN driver' = Slots
    BY <1>1
  <2> QED
    BY <1>1, <1>5, <2>1, <2>2, <2>3 DEF ImagingIInv, ImagingTypeOK
<1>7. ASSUME NEW s \in Slots
      PROVE  /\ Given(s) => ~stays(s)
             /\ Setting(s).start = "read back" <=> Setting(s).conv = "curve"
             /\ Setting(s).conv = "curve" => ~written(s) /\ ~stays(s)
  BY Tables DEF ImagingIInv
<1>8. ASSUME NEW s \in Slots, s[1] = i
      PROVE  /\ s \in lost' <=> ~written(s) /\ ~stays(s)
             /\ driver'[s] = IF written(s) /\ ~Stray(Setting(s).conv, field[s])
                             THEN Convert(Setting(s).conv, field[s]) ELSE driver[s]
             /\ field'[s] = IF Setting(s).conv = "curve" THEN driver[s] ELSE field[s]
  BY <1>1, <1>2, <1>7, <1>8
<1>9. ASSUME NEW s \in Slots, s[1] # i
      PROVE  (s \in lost' <=> s \in lost) /\ driver'[s] = driver[s] /\ field'[s] = field[s]
  BY <1>1, <1>2, <1>9
<1> HIDE DEF i, written, stays
<1>10. ASSUME NEW s \in Slots, Up(s[1])', Given(s), s \notin lost',
              ~Stray(Setting(s).conv, asked[s])
       PROVE  driver'[s] = Convert(Setting(s).conv, asked[s])
  <2>1. CASE s[1] = i
    <3>1. written(s) /\ Setting(s).conv # "curve"
      BY <1>7, <1>8, <1>10, <2>1
    <3>2. field[s] = asked[s]
      BY <3>1 DEF ImagingIInv, FieldAsAsked
    <3> QED
      BY <1>8, <1>10, <2>1, <3>1, <3>2
  <2>2. CASE s[1] # i
    BY <1>3, <1>9, <1>10, <2>2 DEF ImagingIInv, InEffect
  <2> QED
    BY <2>1, <2>2
<1>11. InEffect'
  BY <1>1, <1>4, <1>5, <1>10 DEF InEffect
<1>12. ASSUME NEW s \in Slots
       PROVE  \/ field'[s] = asked[s]
              \/ Setting(s).conv = "curve" /\ (s \in lost' \/ asked[s] = 0)
  BY <1>7, <1>8, <1>9 DEF ImagingIInv, FieldAsAsked
<1>13. FieldAsAsked'
  BY <1>1, <1>4, <1>5, <1>12 DEF FieldAsAsked
<1> QED
  BY <1>6, <1>11, <1>13 DEF ImagingIInv

\* What the driver forgets belongs to a stage that is down.
LEMMA StopKeeps ==
    ASSUME ImagingIInv, Stop
    PROVE  ImagingIInv'
<1>1. /\ level > 0 /\ level' = level - 1
      /\ driver' = [s \in Slots |-> IF s[1] = Depth - level + 1 THEN Factory ELSE driver[s]]
      /\ UNCHANGED <<pipe, field, asked, lost>>
  BY DEF Stop
<1>2. Slots' = Slots /\ Depth' = Depth
  BY <1>1, SamePipe
<1>3. \A s : Setting(s)' = Setting(s) /\ (Given(s)' <=> Given(s))
  BY <1>1, SamePipe
<1>4. Depth \in Nat /\ level \in 0..Depth /\ \A s \in Slots : s[1] \in 1..Depth
  BY Tables DEF ImagingIInv
<1>5. \A s \in Slots : Up(s[1])' => Up(s[1]) /\ s[1] # Depth - level + 1
  <2>1. \A k \in 1..Depth : k > Depth - (level - 1) => k > Depth - level /\ k # Depth - level + 1
    BY <1>4
  <2> QED
    BY <1>1, <1>2, <1>4, <2>1 DEF Up
<1>6. ImagingTypeOK'
  BY <1>1, <1>2, <1>4 DEF ImagingIInv, ImagingTypeOK
<1>7. InEffect'
  BY <1>1, <1>2, <1>3, <1>5 DEF ImagingIInv, InEffect
<1>8. FieldAsAsked'
  BY <1>1, <1>2, <1>3 DEF ImagingIInv, FieldAsAsked
<1> QED
  BY <1>6, <1>7, <1>8 DEF ImagingIInv

\* The inductive invariant.
THEOREM ImagingInvariant == ImagingSpec => []ImagingIInv
<1>1. ImagingIInv /\ [ImagingNext]_imagingVars => ImagingIInv'
  <2> SUFFICES ASSUME ImagingIInv, [ImagingNext]_imagingVars PROVE ImagingIInv'
    OBVIOUS
  <2>1. CASE ImagingNext
    BY <2>1, SetKeeps, GetKeeps, StartKeeps, StopKeeps DEF ImagingNext
  <2>2. CASE UNCHANGED imagingVars
    <3>1. /\ UNCHANGED <<pipe, level, field, driver, asked, lost>>
          /\ Slots' = Slots /\ Depth' = Depth
          /\ \A s : Setting(s)' = Setting(s) /\ (Given(s)' <=> Given(s)) /\ (Up(s[1])' <=> Up(s[1]))
      BY <2>2, SamePipe DEF imagingVars, Up
    <3> QED
      BY <3>1 DEF ImagingIInv, ImagingTypeOK, InEffect, FieldAsAsked
  <2> QED
    BY <2>1, <2>2
<1> QED
  BY <1>1, ImagingInitially, PTL DEF ImagingSpec

\* For any pipe whose settings are listed as the tables list them, any values
\* and any refusals: while a stage is up, the driver does what was asked for.
THEOREM AlwaysInEffect == ImagingSpec => []InEffect
<1>1. ImagingIInv => InEffect
  BY DEF ImagingIInv
<1> QED
  BY <1>1, ImagingInvariant, PTL

\* And a client reads, at the end of any pipe, what was asked for last.
THEOREM AlwaysReported == ImagingSpec => []Reported
<1>1. ASSUME ImagingIInv PROVE Reported
  BY <1>1, HomesHaveIt DEF ImagingIInv, FieldAsAsked, Reported
<1> QED
  BY <1>1, ImagingInvariant, PTL
=============================================================================
