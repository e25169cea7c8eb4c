--------------------------- MODULE VencChanProofs ---------------------------
(***************************************************************************)
(* For any settings, overlays and number of users, whatever the frame rate *)
(* of the source: a setter is applied or rolled back, an intact channel    *)
(* honours what the getters report, and what a failure leaves behind in    *)
(* the driver is bounded.                                                  *)
(*                                                                         *)
(* The four invariants together are inductive.  Each lemma says what one   *)
(* of the operators that stand for doEnableElement() and                   *)
(* doDisableElement() does to a driver in which overlays are only on a     *)
(* channel.                                                                *)
(***************************************************************************)
EXTENDS VencChan, TLAPS

IInv ==
    /\ TypeOK
    /\ EncodesAsReported
    /\ OverlaysOnChannel
    /\ LeftOnlyByThrow
    /\ BrokenOnlyByRestart

\* The overlays of d are on its channel, at most once, and among O.
Neat(d, O) ==
    \A o \in Regions :
        d.shows[o] > 0 => d.shows[o] = 1 /\ "created" \in d.channel /\ o \in O

AllShown(d, O) == \A o \in O : d.shows[o] > 0

\* d runs as doEnableElement() leaves it when it returns.
Good(d, c) ==
    /\ Encoding(d)
    /\ Honours(d.attr, c)
    /\ d.attr.source = input
    /\ d.attr.gop = c.gop
    /\ AllShown(d, osds)

\* Nothing of the channel is left, or what a doEnableElement() that threw
\* past the undo labels has left.
Remains(d) ==
    \/ d.channel = {}
    \/ d.channel = {"created"} /\ Refused(d.attr.mode)
    \/ Encoding(d) /\ ~AllShown(d, osds)

-----------------------------------------------------------------------------
(* What the callbacks do to the driver.                                    *)

\* The attributes honour the fields they are made of.
LEMMA AttrIs ==
    ASSUME TypeOK, NEW c \in Configs
    PROVE  /\ Attr(c) \in Attrs
           /\ Honours(Attr(c), c)
           /\ Attr(c).source = input /\ Attr(c).gop = c.gop
           /\ Attr(c).mode = c.mode
<1>0. /\ c.framerate \in Framerates /\ input \in Framerates
      /\ c.framerate \in Nat /\ input \in Nat
  BY VencChanAssumption DEF TypeOK, Configs
<1>1. /\ Smaller(c.framerate, input) \in Framerates
      /\ Smaller(c.framerate, input) \in {c.framerate, input}
      /\ Smaller(c.framerate, input) <= c.framerate
      /\ Smaller(c.framerate, input) <= input
  BY <1>0 DEF Smaller
<1>2. /\ (IF ev200 THEN "BASELINE" ELSE c.profile) \in Profiles
      /\ ~ev200 => (IF ev200 THEN "BASELINE" ELSE c.profile) = c.profile
  BY VencChanAssumption DEF Configs, TypeOK
<1>3. /\ (IF c.mode = "FIXQP" THEN None ELSE c.bitrate) \in Bitrates \cup {None}
      /\ c.mode # "FIXQP" =>
            (IF c.mode = "FIXQP" THEN None ELSE c.bitrate) = c.bitrate
  BY DEF Configs
<1>4. Attr(c) \in Attrs
  BY <1>1, <1>2, <1>3 DEF Attr, Attrs, Configs, TypeOK
<1>5. Honours(Attr(c), c)
  BY <1>1, <1>2, <1>3 DEF Attr, Honours
<1> QED
  BY <1>4, <1>5 DEF Attr

LEMMA RunningIs ==
    ASSUME TypeOK, NEW d \in Driver, NEW c \in Configs, NEW O \in SUBSET Regions,
           NEW P \in SUBSET Regions, O \subseteq P, Neat(d, P), d.channel = {}
    PROVE  /\ Running(d, c, O) \in Driver
           /\ Encoding(Running(d, c, O))
           /\ Running(d, c, O).attr = Attr(c)
           /\ Neat(Running(d, c, O), P)
           /\ \A o \in Regions : Running(d, c, O).shows[o] > 0 <=> o \in O
<1> DEFINE r == Running(d, c, O)
           a == Attached(d, O)
<1>1. \A o \in Regions : d.shows[o] = 0
  BY DEF Neat, Driver
<1>2. /\ r \in Driver /\ r.channel = Everything /\ r.attr = Attr(c)
      /\ r.shows = [o \in Regions |-> IF o \in O THEN d.shows[o] + 1
                                                 ELSE d.shows[o]]
  <2>1. /\ a \in Driver
        /\ a.shows = [o \in Regions |-> IF o \in O THEN d.shows[o] + 1
                                                   ELSE d.shows[o]]
    BY DEF Attached, Driver
  <2>2. r = [a EXCEPT !.channel = Everything, !.attr = Attr(c)]
    BY DEF Running
  <2> HIDE DEF a, r
  <2> QED
    BY <2>1, <2>2, AttrIs DEF Driver
<1>4. \A o \in Regions : r.shows[o] = IF o \in O THEN 1 ELSE 0
  BY <1>1, <1>2
<1> HIDE DEF r
<1>6. Neat(r, P)
  BY <1>2, <1>4 DEF Neat, Everything
<1>7. Encoding(r) /\ \A o \in Regions : r.shows[o] > 0 <=> o \in O
  BY <1>2, <1>4 DEF Encoding
<1> QED
  BY <1>2, <1>6, <1>7 DEF r

LEMMA StoppedIs ==
    ASSUME NEW d \in Driver, Neat(d, osds)
    PROVE  /\ Stopped(d) \in Driver
           /\ Stopped(d).channel = {}
           /\ Neat(Stopped(d), osds)
<1> DEFINE r == Stopped(d)
           a == Detached(d, osds)
<1>1. /\ r \in Driver /\ r.channel = {}
      /\ r.shows = [o \in Regions |-> IF o \in osds /\ d.shows[o] > 0
                                      THEN d.shows[o] - 1 ELSE d.shows[o]]
  <2>1. /\ a \in Driver
        /\ a.shows = [o \in Regions |-> IF o \in osds /\ d.shows[o] > 0
                                        THEN d.shows[o] - 1 ELSE d.shows[o]]
    BY DEF Detached, Driver
  <2>2. r = [a EXCEPT !.channel = {}, !.attr = None]
    BY DEF Stopped
  <2> HIDE DEF a, r
  <2> QED
    BY <2>1, <2>2 DEF Driver
<1>2. \A o \in Regions : r.shows[o] = 0
  BY <1>1 DEF Neat, Driver
<1> HIDE DEF r
<1>5. Neat(r, osds)
  BY <1>2 DEF Neat
<1> QED
  BY <1>1, <1>5 DEF r

LEMMA StartsIs ==
    ASSUME TypeOK, NEW d \in Driver, NEW c \in Configs, Neat(d, osds),
           NEW e \in Starts(d, c)
    PROVE  e \in Driver /\ Neat(e, osds) /\ Good(e, c)
<1>1. d.channel = {} /\ e = Running(d, c, osds)
  BY DEF Starts
<1>2. osds \in SUBSET Regions
  BY DEF TypeOK
<1>3. /\ e \in Driver /\ Encoding(e) /\ e.attr = Attr(c) /\ Neat(e, osds)
      /\ \A o \in Regions : e.shows[o] > 0 <=> o \in osds
  BY <1>1, <1>2, RunningIs
<1> QED
  BY <1>2, <1>3, AttrIs DEF Good, AllShown

LEMMA StartFailsIs ==
    ASSUME TypeOK, NEW d \in Driver, NEW c \in Configs, Neat(d, osds),
           Remains(d), NEW e \in StartFails(d, c)
    PROVE  e \in Driver /\ Neat(e, osds) /\ Remains(e)
<1>1. CASE e = d
  BY <1>1
<1>2. CASE /\ d.channel = {} /\ Refused(c.mode)
           /\ e = [d EXCEPT !.channel = {"created"}, !.attr = Attr(c)]
  <2>1. /\ e \in Driver /\ e.channel = {"created"} /\ e.attr = Attr(c)
        /\ e.shows = d.shows
    BY <1>2, AttrIs DEF Driver, Everything
  <2>2. Neat(e, osds)
    BY <1>2, <2>1 DEF Neat
  <2> QED
    BY <1>2, <2>1, <2>2, AttrIs DEF Remains
<1>3. ASSUME d.channel = {}, NEW O \in (SUBSET osds) \ {osds},
             e = Running(d, c, O)
      PROVE  e \in Driver /\ Neat(e, osds) /\ Remains(e)
  <2>1. O \in SUBSET Regions /\ osds \in SUBSET Regions /\ O \subseteq osds
    BY DEF TypeOK
  <2>2. /\ e \in Driver /\ Encoding(e) /\ Neat(e, osds)
        /\ \A o \in Regions : e.shows[o] > 0 <=> o \in O
    BY <1>3, <2>1, RunningIs
  <2>3. PICK o \in osds : o \notin O
    OBVIOUS
  <2> QED
    BY <2>1, <2>2, <2>3 DEF Remains, AllShown
<1> QED
  BY <1>1, <1>2, <1>3 DEF StartFails

\* A restart: the new fields and a good channel, or the old fields and either
\* a good channel or the remains of two failures.
LEMMA RestartsIs ==
    ASSUME TypeOK, NEW d \in Driver, NEW old \in Configs, NEW new \in Configs,
           Neat(d, osds), NEW r \in Restarts(d, old, new)
    PROVE  /\ r.driver \in Driver /\ Neat(r.driver, osds)
           /\ \/ r.config = new /\ Good(r.driver, new)
              \/ r.config = old /\ (Good(r.driver, old) \/ Remains(r.driver))
<1> DEFINE s == Stopped(d)
<1>1. s \in Driver /\ Neat(s, osds) /\ Remains(s)
  BY StoppedIs DEF Remains
<1> HIDE DEF s
<1>2. CASE r \in [config : {new}, driver : Starts(s, new)]
  <2>1. r.config = new /\ r.driver \in Starts(s, new)
    BY <1>2
  <2> QED
    BY <1>1, <2>1, StartsIs
<1>3. ASSUME NEW f \in StartFails(s, new),
             r \in [config : {old},
                    driver : Starts(f, old) \cup StartFails(f, old)]
      PROVE  /\ r.driver \in Driver /\ Neat(r.driver, osds)
             /\ r.config = old /\ (Good(r.driver, old) \/ Remains(r.driver))
  <2>1. f \in Driver /\ Neat(f, osds) /\ Remains(f)
    BY <1>1, StartFailsIs
  <2>2. r.config = old /\ r.driver \in Starts(f, old) \cup StartFails(f, old)
    BY <1>3
  <2>3. CASE r.driver \in Starts(f, old)
    BY <2>1, <2>2, <2>3, StartsIs
  <2>4. CASE r.driver \in StartFails(f, old)
    BY <2>1, <2>2, <2>4, StartFailsIs
  <2> QED
    BY <2>2, <2>3, <2>4
<1> QED
  BY <1>2, <1>3 DEF Restarts, s

-----------------------------------------------------------------------------
(* The inductive invariant, in the words of the lemmas.                    *)

Shape ==
    /\ TypeOK
    /\ Neat(driver, osds)
    /\ users = 0 => Remains(driver)
    /\ users > 0 => Encoding(driver) \/ Remains(driver)
    /\ Encoding(driver) /\ AllShown(driver, osds)
          => Honours(driver.attr, config)

LEMMA ShapeIsIInv == Shape <=> IInv
<1> SUFFICES ASSUME TypeOK PROVE Shape <=> IInv
  BY DEF Shape, IInv
<1>1. Neat(driver, osds) <=> OverlaysOnChannel
  BY DEF Neat, OverlaysOnChannel
<1>2. (Encoding(driver) /\ AllShown(driver, osds)
          => Honours(driver.attr, config)) <=> EncodesAsReported
  BY DEF AllShown, EncodesAsReported, Intact
<1>3. AllShown(driver, osds) <=> ~ \E o \in osds : driver.shows[o] = 0
  BY DEF AllShown, TypeOK, Driver
<1>4. (users = 0 => Remains(driver)) <=> LeftOnlyByThrow
  BY <1>3 DEF Remains, LeftOnlyByThrow
<1>5. (users > 0 => Encoding(driver) \/ Remains(driver)) <=> BrokenOnlyByRestart
  BY DEF Remains, BrokenOnlyByRestart
<1> QED
  BY <1>1, <1>2, <1>4, <1>5 DEF Shape, IInv

\* A good channel and the remains of a failure both fit the fields.
LEMMA FitsFields ==
    ASSUME TypeOK', Neat(driver', osds'), osds' = osds,
           encoding' = encoding, ev200' = ev200,
           Good(driver', config') \/ Remains(driver'),
           users' = 0 => Remains(driver'),
           Remains(driver') /\ Encoding(driver') => ~AllShown(driver', osds)
    PROVE  Shape'
BY DEF Shape, Good, Remains, Refused, Neat, AllShown, Encoding, Honours

\* The remains of a failure are no intact channel.
LEMMA RemainsNotIntact ==
    ASSUME NEW d, Remains(d), Encoding(d)
    PROVE  ~AllShown(d, osds)
BY DEF Remains, Encoding, Everything

LEMMA Initially == Init => Shape
<1> SUFFICES ASSUME Init PROVE Shape
  OBVIOUS
<1>1. driver \in Driver /\ driver.channel = {} /\ Neat(driver, osds)
  BY DEF Init, Driver, Neat
<1>4. config \in Configs
  <2>1. input \in Nat /\ input * 2 \in Nat
    BY VencChanAssumption DEF Init
  <2> QED
    BY <2>1, VencChanAssumption DEF Init, Configs, Modes
<1>2. TypeOK
  BY <1>1, <1>4, VencChanAssumption DEF Init, TypeOK
<1>3. ~Encoding(driver)
  BY <1>1 DEF Encoding, Everything
<1> QED
  BY <1>1, <1>2, <1>3 DEF Init, Shape, Remains

\* play() and stop().
LEMMA PlayKeeps ==
    ASSUME Shape, Play
    PROVE  Shape'
<1>1. users \in Nat /\ users' = users + 1 /\ users' \in 0..MaxUsers
  BY VencChanAssumption DEF Shape, TypeOK, Play
<1>2. CASE users = 0
  <2>1. /\ driver' \in Driver /\ Neat(driver', osds)
        /\ Good(driver', config)
    BY <1>2, StartsIs DEF Play, Shape, TypeOK
  <2> QED
    BY <1>1, <2>1, RemainsNotIntact, FitsFields DEF Play, Shape, TypeOK
<1>3. CASE users # 0
  BY <1>1, <1>3 DEF Play, Shape, TypeOK, Neat, Remains, Refused, Encoding,
     AllShown, Honours
<1> QED
  BY <1>2, <1>3

LEMMA PlayFailsKeeps ==
    ASSUME Shape, PlayFails
    PROVE  Shape'
<1>1. driver' \in Driver /\ Neat(driver', osds) /\ Remains(driver')
  BY StartFailsIs DEF PlayFails, Shape, TypeOK
<1> QED
  BY <1>1, RemainsNotIntact, FitsFields DEF PlayFails, Shape, TypeOK

LEMMA StopKeeps ==
    ASSUME Shape, Stop
    PROVE  Shape'
<1>1. users \in Nat /\ users' = users - 1 /\ users' \in 0..MaxUsers
  BY VencChanAssumption DEF Shape, TypeOK, Stop
<1>2. CASE users = 1
  <2>1. /\ driver' \in Driver /\ Neat(driver', osds)
        /\ driver'.channel = {}
    BY <1>2, StoppedIs DEF Stop, Shape, TypeOK
  <2>2. Remains(driver')
    BY <2>1 DEF Remains
  <2> QED
    BY <1>1, <2>1, <2>2, RemainsNotIntact, FitsFields DEF Stop, Shape, TypeOK
<1>3. CASE users # 1
  BY <1>1, <1>3 DEF Stop, Shape, TypeOK, Neat, Remains, Refused, Encoding,
     AllShown, Honours
<1> QED
  BY <1>2, <1>3

\* The settings.
LEMMA ReconfigureKeeps ==
    ASSUME Shape, NEW c \in Configs, Reconfigure(c)
    PROVE  Shape'
<1>1. CASE users > 0
  <2>1. PICK r \in Restarts(driver, config, c) :
                config' = r.config /\ driver' = r.driver
    BY <1>1 DEF Reconfigure
  <2>2. /\ driver' \in Driver /\ Neat(driver', osds) /\ config' \in Configs
        /\ Good(driver', config') \/ Remains(driver')
    BY <2>1, RestartsIs DEF Shape, TypeOK
  <2>3. users' = users /\ osds' = osds /\ TypeOK'
        /\ encoding' = encoding /\ ev200' = ev200
    BY <2>2 DEF Reconfigure, Shape, TypeOK
  <2> QED
    BY <1>1, <2>2, <2>3, RemainsNotIntact, FitsFields
<1>2. CASE ~(users > 0)
  <2>1. users = 0 /\ users' = users /\ driver' = driver /\ osds' = osds
        /\ config' \in Configs
        /\ encoding' = encoding /\ ev200' = ev200 /\ input' = input
    BY <1>2 DEF Reconfigure, Shape, TypeOK
  <2>2. Remains(driver')
    BY <2>1 DEF Shape
  <2> QED
    BY <2>1, <2>2, RemainsNotIntact, FitsFields DEF Shape, TypeOK
<1> QED
  BY <1>1, <1>2

\* The GOP length is rescaled to another length.
LEMMA RescaledIsNat ==
    ASSUME NEW gop \in Nat, NEW f \in Nat \ {0}, NEW g \in Nat
    PROVE  ((gop + f \div 2) \div f) * g \in Nat
<1>1. f \div 2 \in Nat
  OBVIOUS
<1>2. gop + f \div 2 \in Nat
  BY <1>1
<1>3. \A n \in Nat : n \div f \in Nat
  OBVIOUS
<1>4. (gop + f \div 2) \div f \in Nat
  BY <1>2, <1>3
<1>5. \A m, n \in Nat : m * n \in Nat
  OBVIOUS
<1> QED
  BY <1>4, <1>5

\* All setters that restart the channel.
LEMMA SettersReconfigure ==
    ASSUME Shape,
           \/ \E m \in Modes : SetRcMode(m)
           \/ \E p \in Profiles : SetH264Profile(p)
           \/ \E r \in Resolutions : SetResolution(r)
           \/ \E f \in Framerates : SetFramerate(f)
    PROVE  \E c \in Configs : Reconfigure(c)
<1>0. config \in Configs
  BY DEF Shape, TypeOK
<1>1. ASSUME NEW m \in Modes, SetRcMode(m)
      PROVE  \E c \in Configs : Reconfigure(c)
  <2>1. [config EXCEPT !.mode = m] \in Configs
    BY <1>0 DEF Configs
  <2> QED
    BY <1>1, <2>1 DEF SetRcMode
<1>2. ASSUME NEW p \in Profiles, SetH264Profile(p)
      PROVE  \E c \in Configs : Reconfigure(c)
  <2>1. [config EXCEPT !.profile = p] \in Configs
    BY <1>0 DEF Configs
  <2> QED
    BY <1>2, <2>1 DEF SetH264Profile
<1>3. ASSUME NEW r \in Resolutions, SetResolution(r)
      PROVE  \E c \in Configs : Reconfigure(c)
  <2>1. [config EXCEPT !.resolution = r] \in Configs
    BY <1>0 DEF Configs
  <2> QED
    BY <1>3, <2>1 DEF SetResolution
<1>4. ASSUME NEW f \in Framerates, SetFramerate(f)
      PROVE  \E c \in Configs : Reconfigure(c)
  <2> DEFINE g == ((config.gop + config.framerate \div 2)
                       \div config.framerate) * f
  <2>1. config.gop \in Nat /\ config.framerate \in Nat \ {0} /\ f \in Nat
    BY <1>0, VencChanAssumption DEF Configs
  <2>2. g \in Nat
    BY <2>1, RescaledIsNat
  <2>3. Reconfigure([config EXCEPT !.framerate = f, !.gop = g])
    BY <1>4 DEF SetFramerate
  <2> HIDE DEF g
  <2>4. [config EXCEPT !.framerate = f, !.gop = g] \in Configs
    BY <1>0, <2>2 DEF Configs
  <2> QED
    BY <2>3, <2>4
<1> QED
  BY <1>1, <1>2, <1>3, <1>4

\* The driver's channel is changed in place, as the fields are.
LEMMA InPlaceKeeps ==
    ASSUME Shape, NEW c \in Configs, NEW a, SetInPlace(c, a),
           driver.channel # {} => a \in Attrs,
           driver.channel # {} => a.mode = driver.attr.mode,
           driver.channel # {} /\ Honours(driver.attr, config) => Honours(a, c)
    PROVE  Shape'
<1>0. /\ encoding' = encoding /\ ev200' = ev200 /\ input' = input
      /\ users' = users /\ osds' = osds /\ config' = c
  BY DEF SetInPlace
<1>1. CASE users > 0
  <2>1. driver.channel # {} /\ driver' = [driver EXCEPT !.attr = a]
    BY <1>1 DEF SetInPlace
  <2>2. /\ driver' \in Driver /\ driver'.channel = driver.channel
        /\ driver'.shows = driver.shows /\ driver'.attr = a
    BY <2>1 DEF Shape, TypeOK, Driver
  <2>3. TypeOK'
    BY <1>0, <2>2 DEF Shape, TypeOK
  <2>4. Honours(driver.attr, config) => Honours(a, c)'
    BY <1>0, <2>1 DEF Honours
  <2> QED
    BY <1>0, <1>1, <2>1, <2>2, <2>3, <2>4
       DEF Shape, Neat, Remains, Refused, Encoding, AllShown, Honours
<1>2. CASE ~(users > 0)
  <2>1. users = 0 /\ driver' = driver
    BY <1>2 DEF SetInPlace, Shape, TypeOK
  <2>2. Remains(driver')
    BY <2>1 DEF Shape
  <2> QED
    BY <1>0, <2>1, <2>2, RemainsNotIntact, FitsFields DEF Shape, TypeOK
<1> QED
  BY <1>1, <1>2

LEMMA SetBitrateKeeps ==
    ASSUME Shape, NEW b \in Bitrates, SetBitrate(b)
    PROVE  Shape'
<1> DEFINE c == [config EXCEPT !.bitrate = b]
           a == [driver.attr EXCEPT !.bitrate = b]
<1>1. /\ c \in Configs /\ c.bitrate = b /\ c.mode = config.mode
      /\ c.resolution = config.resolution /\ c.profile = config.profile
      /\ c.framerate = config.framerate /\ c.gop = config.gop
  BY DEF Shape, TypeOK, Configs
<1>2. ASSUME driver.channel # {}
      PROVE  /\ a \in Attrs /\ a.bitrate = b /\ a.mode = driver.attr.mode
             /\ a.resolution = driver.attr.resolution
             /\ a.profile = driver.attr.profile
             /\ a.source = driver.attr.source
             /\ a.framerate = driver.attr.framerate /\ a.gop = driver.attr.gop
  BY <1>2 DEF Shape, TypeOK, Driver, Attrs
<1>3. SetInPlace(c, a)
  BY DEF SetBitrate
<1> HIDE DEF c, a
<1>4. driver.channel # {} /\ Honours(driver.attr, config) => Honours(a, c)
  BY <1>1, <1>2 DEF Honours
<1> QED
  BY <1>1, <1>2, <1>3, <1>4, InPlaceKeeps

LEMMA SetGovLengthKeeps ==
    ASSUME Shape, NEW g \in Gops, SetGovLength(g)
    PROVE  Shape'
<1> DEFINE c == [config EXCEPT !.gop = g]
           a == [driver.attr EXCEPT !.gop = g]
<1>0. g \in Nat
  BY VencChanAssumption
<1>1. /\ c \in Configs /\ c.gop = g /\ c.mode = config.mode
      /\ c.resolution = config.resolution /\ c.profile = config.profile
      /\ c.framerate = config.framerate /\ c.bitrate = config.bitrate
  BY <1>0 DEF Shape, TypeOK, Configs
<1>2. ASSUME driver.channel # {}
      PROVE  /\ a \in Attrs /\ a.gop = g /\ a.mode = driver.attr.mode
             /\ a.resolution = driver.attr.resolution
             /\ a.profile = driver.attr.profile
             /\ a.source = driver.attr.source
             /\ a.framerate = driver.attr.framerate
             /\ a.bitrate = driver.attr.bitrate
  BY <1>0, <1>2 DEF Shape, TypeOK, Driver, Attrs
<1>3. SetInPlace(c, a)
  BY DEF SetGovLength
<1> HIDE DEF c, a
<1>4. driver.channel # {} /\ Honours(driver.attr, config) => Honours(a, c)
  BY <1>1, <1>2 DEF Honours
<1> QED
  BY <1>1, <1>2, <1>3, <1>4, InPlaceKeeps

\* The source is not the channel's.
LEMMA SourceChangesKeeps ==
    ASSUME Shape, NEW f \in Framerates, SourceChanges(f)
    PROVE  Shape'
BY DEF Shape, SourceChanges, TypeOK, Neat, Remains, Refused, Encoding, AllShown,
       Honours

-----------------------------------------------------------------------------
(* The overlays.                                                           *)

\* Enabling one unused region among the overlays P.
LEMMA RegionEnabledIs ==
    ASSUME NEW d \in Driver, NEW P \in SUBSET Regions, NEW o \in P,
           Neat(d, P), d.shows[o] = 0, NEW e \in RegionEnabled(d, o)
    PROVE  /\ e \in Driver /\ Neat(e, P)
           /\ e.channel = d.channel /\ e.attr = d.attr
           /\ \A p \in Regions : p # o => e.shows[p] = d.shows[p]
<1>1. CASE e = d
  BY <1>1
<1>2. CASE "created" \in d.channel /\ e = Attached(d, {o})
  <2>1. /\ e \in Driver /\ e.channel = d.channel /\ e.attr = d.attr
        /\ e.shows = [p \in Regions |-> IF p \in {o} THEN d.shows[p] + 1
                                                     ELSE d.shows[p]]
    BY <1>2 DEF Attached, Driver
  <2>2. /\ \A p \in Regions : p # o => e.shows[p] = d.shows[p]
        /\ e.shows[o] = 1
    BY <2>1
  <2>3. Neat(e, P)
    BY <1>2, <2>1, <2>2 DEF Neat
  <2> QED
    BY <2>1, <2>2, <2>3
<1> QED
  BY <1>1, <1>2 DEF RegionEnabled

LEMMA CreateOSDKeeps ==
    ASSUME Shape, NEW o \in Regions, CreateOSD(o)
    PROVE  Shape'
<1>1. /\ o \notin osds /\ osds' = osds \cup {o} /\ osds' \in SUBSET Regions
      /\ users' = users /\ config' = config
      /\ encoding' = encoding /\ ev200' = ev200 /\ input' = input
  BY DEF CreateOSD, Shape, TypeOK
<1>2. driver.shows[o] = 0 /\ Neat(driver, osds')
  BY <1>1 DEF Shape, TypeOK, Driver, Neat
<1>3. driver' \in RegionEnabled(driver, o)
  BY DEF CreateOSD, RegionEnabled
<1>4. /\ driver' \in Driver /\ Neat(driver', osds')
      /\ driver'.channel = driver.channel /\ driver'.attr = driver.attr
      /\ \A p \in Regions : p # o => driver'.shows[p] = driver.shows[p]
  BY <1>1, <1>2, <1>3, RegionEnabledIs DEF Shape, TypeOK
<1>5. AllShown(driver', osds') => AllShown(driver, osds)
  BY <1>1, <1>4 DEF AllShown
<1>6. Remains(driver) => Remains(driver)'
  BY <1>1, <1>4, <1>5 DEF Remains, Refused, Encoding
<1> QED
  BY <1>1, <1>4, <1>5, <1>6 DEF Shape, TypeOK, Encoding, Neat,
     AllShown, Honours

LEMMA RecreateKeeps ==
    ASSUME Shape, NEW o \in Regions, Recreate(o)
    PROVE  Shape'
<1> DEFINE d == Detached(driver, {o})
<1>1. /\ osds' = osds /\ users' = users /\ config' = config
      /\ encoding' = encoding /\ ev200' = ev200 /\ input' = input
      /\ o \in osds /\ driver.shows[o] = 1
  BY DEF Recreate, Shape, Neat
<1>2. /\ d \in Driver /\ d.channel = driver.channel
      /\ d.attr = driver.attr
      /\ d.shows = [p \in Regions |->
                      IF p \in {o} /\ driver.shows[p] > 0
                      THEN driver.shows[p] - 1 ELSE driver.shows[p]]
  BY DEF Detached, Shape, TypeOK, Driver
<1>3. /\ d.shows[o] = 0
      /\ \A p \in Regions : p # o => d.shows[p] = driver.shows[p]
  BY <1>1, <1>2
<1>4. driver' \in RegionEnabled(d, o)
  BY <1>1 DEF Recreate
<1> HIDE DEF d
<1>5. Neat(d, osds)
  BY <1>2, <1>3 DEF Neat, Shape
<1>6. /\ driver' \in Driver /\ Neat(driver', osds)
      /\ driver'.channel = driver.channel /\ driver'.attr = driver.attr
      /\ \A p \in Regions : p # o => driver'.shows[p] = driver.shows[p]
  BY <1>1, <1>2, <1>3, <1>4, <1>5, RegionEnabledIs DEF Shape, TypeOK
<1>7. AllShown(driver', osds') => AllShown(driver, osds)
  BY <1>1, <1>6 DEF AllShown, Shape, TypeOK
<1>8. Remains(driver) => Remains(driver)'
  BY <1>1, <1>6, <1>7 DEF Remains, Refused, Encoding
<1> QED
  BY <1>1, <1>6, <1>7, <1>8 DEF Shape, TypeOK, Encoding, Neat,
     AllShown, Honours

-----------------------------------------------------------------------------
(* The theorems.                                                           *)

\* The fields, the overlays and the driver fit together after every
\* operation, wherever the driver has refused.
THEOREM Invariant == Spec => []IInv
<1>1. Init => IInv
  BY Initially, ShapeIsIInv
<1>2. Shape /\ UNCHANGED vars => Shape'
  BY DEF Shape, vars, TypeOK, Neat, Remains, Refused, Encoding, AllShown, Honours
<1>3. Shape /\ [Next]_vars => Shape'
  BY <1>2, PlayKeeps, PlayFailsKeeps, StopKeeps, SettersReconfigure,
     ReconfigureKeeps, SetBitrateKeeps, SetGovLengthKeeps, SourceChangesKeeps,
     CreateOSDKeeps, RecreateKeeps DEF Next
<1>4. Init => Shape
  BY Initially
<1>5. Shape => IInv
  BY ShapeIsIInv
<1> QED
  BY <1>3, <1>4, <1>5, PTL DEF Spec

\* The state is well typed: no region and no channel is disabled once too
\* often.
THEOREM TypeCorrect == Spec => []TypeOK
<1>1. IInv => TypeOK
  BY DEF IInv
<1> QED
  BY <1>1, Invariant, PTL

\* A channel that encodes and shows all its overlays has attributes that honour
\* the settings that the getters report.
THEOREM AlwaysEncodesAsReported == Spec => []EncodesAsReported
<1>1. IInv => EncodesAsReported
  BY DEF IInv
<1> QED
  BY <1>1, Invariant, PTL

\* Overlays are enabled at most once, on an existing channel that will take
\* them down.
THEOREM OverlaysAlwaysOnChannel == Spec => []OverlaysOnChannel
<1>1. IInv => OverlaysOnChannel
  BY DEF IInv
<1> QED
  BY <1>1, Invariant, PTL

\* What a channel nobody uses may leave in the driver.
THEOREM AlwaysLeftOnlyByThrow == Spec => []LeftOnlyByThrow
<1>1. IInv => LeftOnlyByThrow
  BY DEF IInv
<1> QED
  BY <1>1, Invariant, PTL

\* What a channel in use that does not encode may leave in the driver.
THEOREM AlwaysBrokenOnlyByRestart == Spec => []BrokenOnlyByRestart
<1>1. IInv => BrokenOnlyByRestart
  BY DEF IInv
<1> QED
  BY <1>1, Invariant, PTL

\* A setter under a channel in use is applied as a whole or rolled back.
THEOREM AlwaysAppliedOrRolledBack == Spec => AppliedOrRolledBack
<1> DEFINE Done ==
        /\ users > 0 /\ Restarting(config') # Restarting(config) =>
               /\ Intact(driver', osds)
               /\ Honours(driver'.attr, config')
               /\ driver'.attr.source = input
        /\ users > 0 /\ config'.gop # config.gop =>
               driver'.channel # {} /\ driver'.attr.gop = config'.gop
<1>1. ASSUME Shape, users > 0, NEW c \in Configs, Reconfigure(c)
      PROVE  Done
  <2>1. PICK r \in Restarts(driver, config, c) :
                config' = r.config /\ driver' = r.driver
    BY <1>1 DEF Reconfigure
  <2>2. config' = config \/ (config' = c /\ Good(driver', c))
    BY <1>1, <2>1, RestartsIs DEF Shape, TypeOK
  <2> QED
    BY <2>2 DEF Good, Intact, AllShown, Encoding, Everything
<1>2. ASSUME Shape, users > 0, NEW b \in Bitrates, SetBitrate(b)
      PROVE  Done
  <2>1. config' = [config EXCEPT !.bitrate = b] /\ config \in Configs
    BY <1>2 DEF SetBitrate, SetInPlace, Shape, TypeOK
  <2>2. Restarting(config') = Restarting(config) /\ config'.gop = config.gop
    BY <2>1 DEF Restarting, Configs
  <2> QED
    BY <2>2
<1>3. ASSUME Shape, users > 0, NEW g \in Gops, SetGovLength(g)
      PROVE  Done
  <2>1. /\ config' = [config EXCEPT !.gop = g] /\ config \in Configs
        /\ driver.channel # {} /\ driver \in Driver
        /\ driver' = [driver EXCEPT !.attr = [driver.attr EXCEPT !.gop = g]]
    BY <1>3 DEF SetGovLength, SetInPlace, Shape, TypeOK
  <2>2. Restarting(config') = Restarting(config) /\ config'.gop = g
    BY <2>1 DEF Restarting, Configs
  <2>3. driver'.channel # {} /\ driver'.attr.gop = g
    BY <2>1 DEF Driver, Attrs
  <2> QED
    BY <2>2, <2>3
<1>4. ASSUME config' = config PROVE Done
  BY <1>4
<1> HIDE DEF Done
<1>5. ASSUME Shape, users > 0, [Next]_vars PROVE Done
  <2>1. CASE \E c \in Configs : Reconfigure(c)
    BY <1>1, <1>5, <2>1
  <2>2. CASE \E b \in Bitrates : SetBitrate(b)
    BY <1>2, <1>5, <2>2
  <2>3. CASE \E g \in Gops : SetGovLength(g)
    BY <1>3, <1>5, <2>3
  <2>4. CASE \/ Play \/ PlayFails \/ Stop
             \/ \E f \in Framerates : SourceChanges(f)
             \/ \E o \in Regions : CreateOSD(o) \/ Recreate(o)
             \/ UNCHANGED vars
    <3>1. config' = config
      BY <2>4 DEF Play, PlayFails, Stop, SourceChanges, CreateOSD, Recreate, vars
    <3> QED
      BY <1>4, <3>1
  <2> QED
    BY <1>5, <2>1, <2>2, <2>3, <2>4, SettersReconfigure DEF Next
<1>6. IInv /\ [Next]_vars => [Done]_vars
  BY <1>5, ShapeIsIInv DEF Done
<1>7. IInv /\ [Next]_vars =>
        [/\ users > 0 /\ Restarting(config') # Restarting(config) =>
              /\ Intact(driver', osds)
              /\ Honours(driver'.attr, config')
              /\ driver'.attr.source = input
         /\ users > 0 /\ config'.gop # config.gop =>
              driver'.channel # {} /\ driver'.attr.gop = config'.gop]_vars
  BY <1>6 DEF Done
<1> QED
  BY <1>7, Invariant, PTL DEF Spec, AppliedOrRolledBack
=============================================================================
