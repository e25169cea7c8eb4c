------------------------------ MODULE VencChan ------------------------------
(***************************************************************************)
(* HimppVencChan: a video encoder channel, its settings, the overlay       *)
(* regions (HimppVideoRegion) on its picture, and what of both exists in   *)
(* the driver.                                                             *)
(*                                                                         *)
(* A setting that the driver cannot change in place (rate control mode,    *)
(* profile, resolution, frame rate) is changed by restarting the channel   *)
(* under its users: doDisableElement(), doEnableElement() with the new     *)
(* value and, if that throws, doEnableElement() with the old one.          *)
(*                                                                         *)
(* The driver is not handed the fields as they are: prepareChnAttr() makes *)
(* its attributes of them and of the frame rate of the picture's source.   *)
(*                                                                         *)
(* enable() and disable() are those of MediaElement.tla, whose callbacks   *)
(* are spelled out here.  The driver is external: what it refuses is up to *)
(* it, but it refuses a second channel of the same number and a region on  *)
(* a channel that does not exist, and its undo calls succeed.              *)
(***************************************************************************)
EXTENDS Naturals, FiniteSets

CONSTANTS
    Resolutions,    \* those the source's picture is large enough for
    Profiles,       \* H264Profile
    Framerates,     \* those of the channel and of its source
    Gops,           \* lengths of a group of pictures, as set over D-Bus
    Bitrates,
    None,           \* no channel, or no bitrate
    Regions,        \* the region handles of the allocator
    MaxUsers        \* bound of the model: how many may play at a time

ASSUME VencChanAssumption ==
    /\ {"BASELINE", "HIGH"} \subseteq Profiles
    /\ Framerates \subseteq Nat \ {0}
    /\ Gops \subseteq Nat
    /\ MaxUsers \in Nat \ {0}

\* RateCtrlMode; D-Bus casts any number to it.
Modes == {"CBR", "VBR", "FIXQP", "invalid"}

VARIABLES
    encoding,   \* _encoding
    ev200,      \* the program is built for hi3516ev200
    input,      \* framerate() of the source
    users,      \* _enable_count
    config,     \* the fields of the settings
    osds,       \* _osds
    driver      \* what exists in the driver

vars == <<encoding, ev200, input, users, config, osds, driver>>

Configs == [mode : Modes, resolution : Resolutions, profile : Profiles,
            framerate : Framerates, gop : Nat, bitrate : Bitrates]

\* VENC_CHN_ATTR_S.
Attrs == [mode : Modes, resolution : Resolutions, profile : Profiles,
          source : Framerates, framerate : Framerates, gop : Nat,
          bitrate : Bitrates \cup {None}]

Everything == {"created", "receiving", "bound"}

\* channel: which of CreateChn, StartRecvFrame and SYS_Bind are in effect.
\* attr: the attributes it has, when there is one.
\* shows: the _enable_count of each region, which exists while it is not 0.
Driver ==
    {d \in [channel : SUBSET Everything, attr : Attrs \cup {None},
            shows : [Regions -> Nat]] : d.channel # {} => d.attr \in Attrs}

TypeOK ==
    /\ encoding \in {"H264", "H265"}
    /\ ev200 \in BOOLEAN
    /\ input \in Framerates
    /\ users \in 0..MaxUsers
    /\ config \in Configs
    /\ osds \subseteq Regions
    /\ driver \in Driver

Encoding(d) == d.channel = Everything

\* Only hi3516ev200 encodes H.265.  The script that builds the pipe then calls
\* the setters.
Init ==
    /\ encoding \in {"H264", "H265"}
    /\ ev200 \in BOOLEAN
    /\ encoding = "H265" => ev200
    /\ input \in Framerates
    /\ users = 0
    /\ config \in [mode : {"VBR"}, resolution : Resolutions,
                   profile : {"HIGH"}, framerate : {input},
                   gop : {input * 2}, bitrate : Bitrates]
    /\ osds = {}
    /\ driver = [channel |-> {}, attr |-> None,
                 shows |-> [o \in Regions |-> 0]]

-----------------------------------------------------------------------------
(* The attributes.                                                         *)

Smaller(a, b) == IF a < b THEN a ELSE b

\* prepareChnAttr(), prepareRcAttr().  The profile of hi3516ev200 is always 0.
Attr(c) ==
    [mode |-> c.mode, resolution |-> c.resolution,
     profile |-> IF ev200 THEN "BASELINE" ELSE c.profile,
     source |-> input, framerate |-> Smaller(c.framerate, input),
     gop |-> c.gop,
     bitrate |-> IF c.mode = "FIXQP" THEN None ELSE c.bitrate]

\* There are no attributes of an invalid mode: prepareRcAttr() throws for
\* H.264, and for H.265 leaves 0, which CreateChn refuses.
Prepared(c) == c.mode # "invalid"

\* Between CreateChn and StartRecvFrame the limits of the quantiser are set for
\* H.264, which throws for want of such limits.
Refused(mode) == encoding = "H264" /\ mode = "FIXQP"

-----------------------------------------------------------------------------
(* The regions.                                                            *)

Attached(d, O) == [d EXCEPT !.shows = [o \in Regions |->
                                IF o \in O THEN d.shows[o] + 1 ELSE d.shows[o]]]

Detached(d, O) == [d EXCEPT !.shows = [o \in Regions |->
                                IF o \in O /\ d.shows[o] > 0
                                THEN d.shows[o] - 1 ELSE d.shows[o]]]

\* What enable() of the region o, in use by nobody, may leave: nothing if it
\* throws, as it does when there is no channel.
RegionEnabled(d, o) ==
    {d} \cup IF "created" \in d.channel THEN {Attached(d, {o})} ELSE {}

-----------------------------------------------------------------------------
(* doEnableElement() and doDisableElement().                               *)

Running(d, c, O) ==
    [Attached(d, O) EXCEPT !.channel = Everything, !.attr = Attr(c)]

\* The driver after doEnableElement() has returned.
Starts(d, c) ==
    IF Prepared(c) /\ d.channel = {} THEN {Running(d, c, osds)} ELSE {}

\* Seeded bug: StartRecvFrame fails and DestroyChn is not called.
StartFailsSkipsDestroy(d, c) ==
    {d} \cup
    IF ~Prepared(c) \/ d.channel # {} THEN {}
    ELSE {[d EXCEPT !.channel = {"created"}, !.attr = Attr(c)]}
         \cup {Running(d, c, O) : O \in (SUBSET osds) \ {osds}}

\* The driver after doEnableElement() has thrown: because CreateChn failed, or
\* a later call whose undo labels were reached; because the rate control mode
\* is one it cannot configure, after CreateChn; or because a region could not
\* be enabled, with everything else done.  The last two undo nothing.
StartFails(d, c) ==
    {d} \cup
    IF ~Prepared(c) \/ d.channel # {} THEN {}
    ELSE {[d EXCEPT !.channel = {"created"}, !.attr = Attr(c)] :
              mode \in {m \in {c.mode} : Refused(m)}}
         \cup {Running(d, c, O) : O \in (SUBSET osds) \ {osds}}

\* Seeded bug: the channel is destroyed under its overlays.
StoppedUnderOverlays(d) == [d EXCEPT !.channel = {}, !.attr = None]

\* Seeded bug: DestroyChn is forgotten.
StoppedNotDestroyed(d) ==
    [Detached(d, osds) EXCEPT !.channel = @ \cap {"created"}]

Stopped(d) == [Detached(d, osds) EXCEPT !.channel = {}, !.attr = None]

\* Seeded bug: the catch block does not restore the field.
RestartsKeepsField(d, old, new) ==
    [config : {new}, driver : Starts(Stopped(d), new)]
    \cup UNION {[config : {new},
                 driver : Starts(failed, old) \cup StartFails(failed, old)] :
                    failed \in StartFails(Stopped(d), new)}

\* Seeded bug: it restores the field after starting again.
RestartsWithNew(d, old, new) ==
    [config : {new}, driver : Starts(Stopped(d), new)]
    \cup UNION {[config : {old},
                 driver : Starts(failed, new) \cup StartFails(failed, new)] :
                    failed \in StartFails(Stopped(d), new)}

\* The body of setRcMode() and its like on a channel in use, from the fields
\* old to new: what it may leave in the fields and in the driver.  It throws
\* when the fields are the old ones again.
Restarts(d, old, new) ==
    [config : {new}, driver : Starts(Stopped(d), new)]
    \cup UNION {[config : {old},
                 driver : Starts(failed, old) \cup StartFails(failed, old)] :
                    failed \in StartFails(Stopped(d), new)}

-----------------------------------------------------------------------------
(* The users: the RTSP sources.                                            *)

\* play(): the first user starts the channel.
Play ==
    /\ users < MaxUsers
    /\ users' = users + 1
    /\ IF users = 0
       THEN driver' \in Starts(driver, config)
       ELSE UNCHANGED driver
    /\ UNCHANGED <<encoding, ev200, input, config, osds>>

\* play() throws: nobody is counted, whatever doEnableElement() has left.
PlayFails ==
    /\ users = 0
    /\ driver' \in StartFails(driver, config)
    /\ UNCHANGED <<encoding, ev200, input, users, config, osds>>

\* stop(): the last user stops the channel.
Stop ==
    /\ users > 0
    /\ users' = users - 1
    /\ driver' = IF users = 1 THEN Stopped(driver) ELSE driver
    /\ UNCHANGED <<encoding, ev200, input, config, osds>>

-----------------------------------------------------------------------------
(* The settings: D-Bus and the configuration file.                         *)

\* The setters that restart a channel in use.
Reconfigure(c) ==
    /\ IF users > 0
       THEN \E r \in Restarts(driver, config, c) :
                config' = r.config /\ driver' = r.driver
       ELSE config' = c /\ UNCHANGED driver
    /\ UNCHANGED <<encoding, ev200, input, users, osds>>

SetRcMode(m) == Reconfigure([config EXCEPT !.mode = m])

\* The profile and the GOP length are on D-Bus for H.264 only.
SetH264Profile(p) ==
    encoding = "H264" /\ Reconfigure([config EXCEPT !.profile = p])

\* A size that is larger than the source's is refused at once.
SetResolution(r) == Reconfigure([config EXCEPT !.resolution = r])

\* The GOP length is rescaled to last as many seconds, in whole seconds.
SetFramerate(f) ==
    LET seconds == (config.gop + config.framerate \div 2) \div config.framerate
    IN  Reconfigure([config EXCEPT !.framerate = f, !.gop = seconds * f])

\* On a channel in use the other setters throw, and change nothing, unless the
\* driver has the channel and takes the value.  When a restart has failed twice
\* its mode may not be the field's; what the value means to it then is left out.
SetInPlace(c, attr) ==
    /\ config' = c
    /\ IF users > 0
       THEN driver.channel # {} /\ driver' = [driver EXCEPT !.attr = attr]
       ELSE UNCHANGED driver
    /\ UNCHANGED <<encoding, ev200, input, users, osds>>

SetBitrate(b) ==
    /\ users > 0 => config.mode \in {"CBR", "VBR"}
    /\ SetInPlace([config EXCEPT !.bitrate = b],
                  [driver.attr EXCEPT !.bitrate = b])

SetGovLength(g) ==
    /\ encoding = "H264"
    /\ users > 0 => config.mode \in {"CBR", "VBR", "FIXQP"}
    /\ SetInPlace([config EXCEPT !.gop = g], [driver.attr EXCEPT !.gop = g])

\* setFrameRate() of an element before the channel, which is not told.
SourceChanges(f) ==
    /\ input' = f
    /\ UNCHANGED <<encoding, ev200, users, config, osds, driver>>

-----------------------------------------------------------------------------
(* The overlays: D-Bus and the configuration file.                         *)

\* CreateOSD(): the region is in _osds before it is enabled, and stays there
\* when that throws.
CreateOSD(o) ==
    /\ o \notin osds
    /\ osds' = osds \cup {o}
    /\ IF users > 0
       THEN driver' \in RegionEnabled(driver, o)
       ELSE UNCHANGED driver
    /\ UNCHANGED <<encoding, ev200, input, users, config>>

\* setSize() and setInvertColor() of a region in use: disable(), enable().
Recreate(o) ==
    /\ driver.shows[o] > 0
    /\ driver' \in IF driver.shows[o] = 1
                   THEN RegionEnabled(Detached(driver, {o}), o)
                   ELSE {driver}
    /\ UNCHANGED <<encoding, ev200, input, users, config, osds>>

-----------------------------------------------------------------------------
Next ==
    \/ Play \/ PlayFails \/ Stop
    \/ \E m \in Modes : SetRcMode(m)
    \/ \E p \in Profiles : SetH264Profile(p)
    \/ \E r \in Resolutions : SetResolution(r)
    \/ \E f \in Framerates : SetFramerate(f) \/ SourceChanges(f)
    \/ \E b \in Bitrates : SetBitrate(b)
    \/ \E g \in Gops : SetGovLength(g)
    \/ \E o \in Regions : CreateOSD(o) \/ Recreate(o)

Spec == Init /\ [][Next]_vars

-----------------------------------------------------------------------------
(* Properties.                                                             *)

Intact(d, O) == Encoding(d) /\ \A o \in O : d.shows[o] > 0

\* The channel does what the getters say of c, as far as the code hands it on:
\* no more pictures than its source gives when it is started; a bitrate unless
\* the quantiser is fixed; and the profile not on hi3516ev200.
Honours(attr, c) ==
    /\ attr.mode = c.mode
    /\ attr.resolution = c.resolution
    /\ attr.gop = c.gop
    /\ attr.framerate \in {c.framerate, attr.source}
    /\ attr.framerate <= c.framerate /\ attr.framerate <= attr.source
    /\ c.mode # "FIXQP" => attr.bitrate = c.bitrate
    /\ ~ev200 => attr.profile = c.profile

Restarting(c) == <<c.mode, c.resolution, c.profile, c.framerate>>

\* A setting that takes a restart changes under a channel in use only by one
\* that ends with the channel encoding with all the fields, at the frame rate
\* its source has now, and its overlays shown; the GOP length, by one or in
\* place, only to what the channel has.  A setter that throws has rolled the
\* fields back, whatever is left of the channel.
AppliedOrRolledBack ==
    [][/\ users > 0 /\ Restarting(config') # Restarting(config) =>
            /\ Intact(driver', osds)
            /\ Honours(driver'.attr, config')
            /\ driver'.attr.source = input
       /\ users > 0 /\ config'.gop # config.gop =>
            driver'.channel # {} /\ driver'.attr.gop = config'.gop]_vars

\* What the getters report is what the encoder does, whatever failed before:
\* an encoding channel that shows all its overlays honours the fields.
EncodesAsReported == Intact(driver, osds) => Honours(driver.attr, config)

\* No overlay is enabled twice, or without a channel under it, or unless
\* doDisableElement() will disable it: it can always be taken down.
OverlaysOnChannel ==
    \A o \in Regions :
        driver.shows[o] > 0 => /\ driver.shows[o] = 1
                               /\ "created" \in driver.channel
                               /\ o \in osds

\* A channel that nobody uses is gone from the driver, except after a play()
\* that threw past the undo labels: at a rate control mode it could not
\* configure, or at an overlay that could not be shown.
LeftOnlyByThrow ==
    users = 0 /\ driver.channel # {} =>
        \/ driver.channel = {"created"} /\ Refused(driver.attr.mode)
        \/ Encoding(driver) /\ \E o \in osds : driver.shows[o] = 0

\* A channel in use that does not encode is the rest of a restart that threw
\* twice: either nothing of it exists, or what a refused mode has left.
BrokenOnlyByRestart ==
    users > 0 /\ ~Encoding(driver) =>
        \/ driver.channel = {}
        \/ driver.channel = {"created"} /\ Refused(driver.attr.mode)

\* media-element.h: "enable(); // enable streaming".
EnableStreams == [][users' > users => Encoding(driver')]_vars
=============================================================================
