--------------------------- MODULE CaptureWindow ----------------------------
(***************************************************************************)
(* Resolutions and frame rates along the capture path: what a stage        *)
(* reports, what the next one takes from it when it is started, and what   *)
(* the driver is given.                                                    *)
(*                                                                         *)
(* The path is ISP, device, channel, group, channel of the group (on       *)
(* hi3516ev200: device, ISP, ...): stages 1 to 5, of which the first `up'  *)
(* are enabled.  Stage 2 sets the window on the sensor.  The two axes and  *)
(* the frame rate are computed apart, so that a behaviour watches one of   *)
(* the three: what is refused on account of another one does not happen.   *)
(***************************************************************************)
EXTENDS Sensors, Integers, FiniteSetsExt

CONSTANTS
    Sensors,        \* what a platform may be built with
    Extents, Rates, \* what a client writes; 0: what cannot be parsed
    Offsets,        \* the crop offset of the pipe description
    Smallest, Largest,  \* extents the group's channel can scale to
    Word            \* 2^32 of the code, with room for the extents

\* A rectangle and its neighbourhood stay within a signed number.
ASSUME SensorsAssumption ==
    /\ Word \in Nat \ {0}
    /\ \A s \in Sensors :
         /\ WellFormed(s)
         /\ \A a \in Axes : \A r \in {s.image[a], s.device[a]} :
               4 * (r.at + r.extent) < Word
    /\ Extents \cup Rates \subseteq Nat /\ Offsets \subseteq Int

VARIABLES
    sensor, watched, offset,
    offline,    \* hi3516ev200: the channel may crop
    own,        \* [1..5 -> Nat]: _resolution or _framerate of each stage, 0: none
    up,         \* how many stages are enabled
    table,      \* the rectangle of the device in the sensor's table
    driver,     \* [1..5 -> what the stage takes and gives], of those that are up
    \* history
    late,       \* stages that are not as they were started any more
    grown       \* the device was started with more than the table had left

setup == <<sensor, watched, offset, offline>>
captureVars == <<setup, own, up, table, driver, late, grown>>

Stages == 1 .. 5
Ev200 == sensor.platform = "hi3516ev200"
Cv300 == sensor.platform = "hi3516cv300"
V200 == sensor.platform = "hi3518v200"
Sizes == watched \in Axes

\* The entry of the sensor's table; the constructor of the hi3518v200 ISP
\* takes it over.
Default == IF Sizes THEN sensor.window[watched].extent ELSE sensor.rate
NoRect == [at |-> 0, extent |-> 0]
Idle == [takes |-> 0, gives |-> 0]

CaptureInit ==
    /\ sensor \in Sensors
    /\ watched \in Axes \cup {"rate"}
    /\ offset \in (IF Sizes THEN Offsets ELSE {0})
    /\ offline \in (IF Ev200 THEN BOOLEAN ELSE {FALSE})
    /\ own = [k \in Stages |-> IF V200 /\ k = 1 THEN Default ELSE 0]
    /\ up = 0
    /\ table = IF Sizes THEN sensor.device[watched] ELSE NoRect
    /\ driver = [k \in Stages |-> Idle]
    /\ late = {}
    /\ grown = FALSE

-----------------------------------------------------------------------------
(* What is reported, and what is accepted.                                 *)

\* getResolution(), getFrameRate(): of the nearest stage that has one of its
\* own.
Reported(o, k) ==
    LET with == {j \in 1 .. k : o[j] > 0}
    IN  IF with # {} THEN o[Max(with)] ELSE IF V200 THEN 0 ELSE Default

\* A setter has stored o; the stages that are enabled go on as they were.
\* Those that were set, or report something else from now on, are late.
Store(o) ==
    /\ own' = o
    /\ late' = late \cup
          {k \in 1 .. up : o[k] # own[k] \/ Reported(o, k) # Reported(own, k)}
    /\ UNCHANGED <<setup, up, table, driver, grown>>

\* hi3516ev200: the device, to which the ISP forwards, the channel and the
\* group take everything.  The rate of the device is stored but never read.
SetEv200(k, v) ==
    /\ Ev200
    /\ \/ k \in {1, 2} /\ Sizes /\ Store([own EXCEPT ![1] = v])
       \/ k \in {3, 4} /\ Store([own EXCEPT ![k] = v])

\* hi3516cv300: the device takes what the ISP delivers; its rate is checked but
\* never read.  The channel refuses, the group and the ISP pass the refusal on.
SetCv300(v) ==
    /\ Cv300 /\ Sizes
    /\ v <= Reported(own, 1)
    /\ Store([own EXCEPT ![2] = v])

\* Seeded bug: the ISP is not told what the device is set to.
SetV200DeviceOnly(k, v) ==
    /\ V200
    /\ \/ k = 1 /\ v <= Default /\ Store([own EXCEPT ![1] = v])
       \/ k = 2 /\ Sizes /\ v <= Reported(own, 1) /\ Store([own EXCEPT ![2] = v])
       \/ k = 2 /\ ~Sizes /\ v <= Default /\ Store([own EXCEPT ![2] = v])

\* hi3518v200: the ISP takes what its sensor has; the device tells the ISP,
\* a resolution only if it is no larger than what the ISP had before.
SetV200(k, v) ==
    /\ V200
    /\ \/ k = 1 /\ v <= Default /\ Store([own EXCEPT ![1] = v])
       \/ k = 2 /\ Sizes /\ v <= Reported(own, 1) /\ Store([own EXCEPT ![1] = v, ![2] = v])
       \/ k = 2 /\ ~Sizes /\ v <= Default /\ Store([own EXCEPT ![1] = v])

\* The channel of the group: what it can scale to, no rate above its source's.
SetVpssChan(v) ==
    /\ IF Sizes THEN Smallest <= v /\ v <= Largest ELSE v <= Reported(own, 4)
    /\ Store([own EXCEPT ![5] = v])

-----------------------------------------------------------------------------
(* Starting.                                                               *)

Half(a, b) == ((a - b) % Word) \div 2
Signed(n) == IF n % Word < Word \div 2 THEN n % Word ELSE (n % Word) - Word
Inside(w, r) == r.at <= w.at /\ w.at + w.extent <= r.at + r.extent

\* Seeded bug: the offset is not limited to what the crop leaves.
WindowUnclamped ==
    IF Ev200
    THEN LET r == Reported(own, 1)
         IN  [at |-> Signed(Half(sensor.image[watched].extent, r) + offset), extent |-> r]
    ELSE IF own[2] = 0 THEN table
    ELSE [at |-> Signed(table.at + Signed(Half(table.extent, own[2])) + offset), extent |-> own[2]]

\* The window on the sensor of the next start: centred and moved by the offset,
\* on hi3516ev200 as asked, else within what the table has left.
Window ==
    IF Ev200
    THEN LET r == Reported(own, 1)
         IN  [at |-> Signed(Half(sensor.image[watched].extent, r) + offset), extent |-> r]
    ELSE IF own[2] = 0 THEN table
    ELSE LET slack == Signed(Half(table.extent, own[2]))
             shift == Max({Min({offset, slack}), -slack})
         IN  [at |-> Signed(table.at + slack + shift), extent |-> own[2]]

\* Started stages take what the previous one reports and give g.
Start(k, g) ==
    /\ up = k - 1
    /\ up' = k
    /\ driver' = [driver EXCEPT ![k] = [takes |-> Reported(own, k - 1), gives |-> g]]
    /\ late' = late \ {k}
    /\ UNCHANGED <<setup, own>>

\* The first stage: the ISP of hi3518v200 is given its resolution and rate, the
\* others work as the sensor's table says.
StartFirst ==
    /\ up = 0 /\ up' = 1
    /\ driver' = [driver EXCEPT ![1] = [takes |-> 0, gives |-> Reported(own, 1)]]
    /\ UNCHANGED <<setup, own, table, late, grown>>

\* The window is set; other than hi3516ev200 the table of the sensor keeps it.
StartWindow ==
    /\ Sizes
    /\ Start(2, Window.extent)
    /\ table' = IF Ev200 THEN table ELSE Window
    /\ grown' = (grown \/ (~Ev200 /\ own[2] > table.extent))

\* The channel: on hi3516ev200 a crop, without which it does not start, if the
\* device and the group work offline.
Crop(k) == [at |-> Signed(Half(Reported(own, k - 1), own[k])), extent |-> own[k]]
CropFits(k) == Inside(Crop(k), [at |-> 0, extent |-> Reported(own, k - 1)])

StartViChan ==
    /\ Sizes
    /\ LET in == Reported(own, 2)
           crops == Ev200 /\ offline /\ own[3] \notin {0, in}
       IN  /\ crops => CropFits(3)
           /\ Start(3, IF crops THEN own[3] ELSE in)
    /\ UNCHANGED <<table, grown>>

\* The group: a crop that the driver refuses, on account of this axis or the
\* other, is only logged.
StartGroup ==
    /\ Sizes
    /\ \E crops \in (IF Ev200 /\ own[4] > 0 /\ CropFits(4) THEN BOOLEAN ELSE {FALSE}) :
          Start(4, IF crops THEN own[4] ELSE Reported(own, 3))
    /\ UNCHANGED <<table, grown>>

\* The channel of the group scales.
StartVpssChan ==
    /\ Sizes
    /\ Start(5, Reported(own, 5))
    /\ UNCHANGED <<table, grown>>

\* Rates: channels tell the driver the rate of their source and their own, or
\* nothing if they have none.
StartRate(k) ==
    /\ watched = "rate"
    /\ up = k - 1 /\ k > 1 /\ up' = k
    /\ LET tells == k \in {3, 5} /\ own[k] > 0
           given == driver[k - 1].gives
       IN  driver' = [driver EXCEPT ![k] =
               [takes |-> IF tells THEN Reported(own, k - 1) ELSE given,
                gives |-> IF tells THEN own[k] ELSE given]]
    /\ late' = late \ {k}
    /\ UNCHANGED <<setup, own, table, grown>>

\* The last stage that is enabled goes down first.
Stop ==
    /\ up > 0
    /\ up' = up - 1
    /\ driver' = [driver EXCEPT ![up] = Idle]
    /\ late' = late \ {up}
    /\ UNCHANGED <<setup, own, table, grown>>

Values == IF Sizes THEN Extents ELSE Rates

CaptureNext ==
    \/ \E v \in Values, k \in Stages : SetEv200(k, v) \/ SetV200(k, v)
    \/ \E v \in Values : SetCv300(v) \/ SetVpssChan(v)
    \/ StartFirst \/ StartWindow \/ StartViChan \/ StartGroup \/ StartVpssChan
    \/ \E k \in Stages : StartRate(k)
    \/ Stop

CaptureSpec == CaptureInit /\ [][CaptureNext]_captureVars

-----------------------------------------------------------------------------
(* Properties.                                                             *)

\* The window of the next start lies on the sensor, however often and to
\* whatever the resolution was changed before: on hi3516ev200 if resolution and
\* offset fit, on the others unless the resolution was ever raised again, after
\* which the shared table is of no use any more.
Fits ==
    LET image == sensor.image[watched].extent
        rest == (image - Reported(own, 1)) \div 2
    IN  Reported(own, 1) <= image /\ -rest <= offset /\ offset <= rest

WindowOnSensor ==
    Sizes =>
        IF Ev200 THEN Fits => Inside(Window, sensor.image[watched])
        ELSE grown \/ own[2] > table.extent \/ Inside(Window, sensor.device[watched])

\* The driver does not hear of the size that the device gives before it has ever
\* been set, of that of the channel of hi3516ev200 unless it is offline, of the
\* group's crop that was refused and of the group's rate.
Unheeded(k) ==
    \/ k = 2 /\ Sizes /\ own[2] = 0 /\ table.extent # Reported(own, 2)
    \/ k = 3 /\ Sizes /\ Ev200 /\ ~offline
    \/ k = 4 /\ Ev200 /\ own[4] > 0 /\ driver[4].gives = driver[4].takes

\* Device and group pass a rate on without a word to the driver: for them
\* the stages before count.
Late(k) == IF Sizes THEN k \in late ELSE late \cap 1 .. k # {}

\* A stage that is up takes what the one before it gives, whatever was set in
\* between and in whatever order they were started, unless the latter was set
\* since its start or the driver does not hear of it.
ChainAgrees ==
    \A k \in 2 .. up - 1 :
        driver[k + 1].takes = driver[k].gives \/ Late(k) \/ Unheeded(k)
=============================================================================
