# Live streamer: a verification development

live-streamer turns a HiSilicon camera into an RTSP server that is configured
over D-Bus. It is one process with one libev loop. RTSP clients (live555), D-Bus
calls, encoder descriptors and timers are all callbacks of that loop, so two
handlers never run at the same instant. What makes the program hard is that a
handler leaves shared state half way when the driver refuses something, that one
object serves several clients, and that some handlers run the loop again from
inside.

Source paths below are relative to `src/src/`. `PROJECT.json` maps every
definition to the lines it stands for.

## 1. Inventory

### Parts, their state and their operations

| Part | Source | State | Modelled |
|---|---|---|---|
| MediaElement | `common/media-element.cpp` | `_source`, `_enable_count`, the driver object behind it | yes |
| Pipe construction | `platform/*/himpp-media.cpp`, `himpp-sysctl.cpp` | the elements by name, the streams, the audio sinks | partly |
| Capture, processing and audio stages | `platform/*/himpp-{sysctl,video-viu,video-vpss,video-isp,audio}.cpp` | what exists in the driver | start and stop, picture settings, noise reduction, resolutions and rates |
| Sensor tables | `platform/*/himpp-video-sensor.cpp` | constants | yes |
| IR-cut filter | `platform/*/himpp-ircut.cpp` | mode, status, debounce count, two timers, four GPIOs | yes |
| Video source and its D-Bus object | `common/video-source.cpp`, `dbus/dbus-video-source.cpp` | none of its own: forwarding | yes |
| Encoder channel | `platform/*/himpp-video-venc.cpp` | codec, mode, resolution, frame rate, GOP, bitrate, `_osds`, `_io` | partly |
| Overlay region | `platform/*/himpp-video-region.cpp`, `common/video-osd.cpp` | size, position, text, font, picture, clock timer, handle | creation and destruction |
| Stream delivery | `rtsp-server/LiveStreamInput.cpp`, `common/media-stream.cpp` | `_sinks`, `fStreamStarted`, what live555 is waiting for | yes |
| DESCRIBE | `rtsp-server/LiveStreamInput.cpp` 150-240, 390-470 | `fAuxSDPLine`, `fDummyRTPSink`, `fDoneFlag` | yes |
| Event loop | `rtsp-server/EvUsageEnvironment.cpp`, `dbus/dbusxx-libev-integration.cpp`, `main.cpp` | delayed tasks, socket handlers, triggers, `_terminated` | nesting and end |
| Configuration store | `ipcam-runtime.cpp`, `dbus/dbus-ipcam-base.cpp`, `dbus/dbus-video-encoder.cpp` 128-171 | `_config_root`, `_config_dirty`, `_config_timer`, the file | yes |
| Other D-Bus objects | `dbus/*.cpp` | the overlay table of an encoder | that table, in the configuration store |
| JPEG stream | `rtsp-server/LiveStreamInput.cpp` 500-743 | one source for all clients | no |
| AAC encoding | `rtsp-server/AACAudioEncoder.cpp` | an input buffer and its fill | no |
| Audio output | `rtsp-server/LiveStreamOutput.cpp` | `streamStarted` | its hold on the decoder |

The three platforms (`hi3516ev200`, `hi3516cv300`, `hi3518v200`) are copies of one
another with differences. Where a property can tell them apart the difference is
data: a constant or a variable that is chosen at the start (`stopsWatch`, the pulses
of the IR-cut filters), or a module of tables per platform (`Stages*`, `Imaging*`,
`Sensors*`).

### How the parts interact

    RTSP client -> live555 -> LiveStreamSource -- play/stop ----> encoder channel (a MediaElement)
                                   |    ^                            |   enable/disable along _source
                                   |    +-- streamData -- watcher <--+   down to the sensor
                                   +------ resume/pause --------------^
    D-Bus client -> D-Bus object -- setter --> element: restarts itself under its users
                        +-- document --> 20 s timer --> file --> LoadConfig() at the next start

* `play()` of the first source enables the encoder, and through `_source` every
  stage down to the sensor. Pipes share their prefixes, so stages have several
  readers.
* Sources ask for a frame with `resume()`. There is one watcher per encoder, and
  every source pauses it when it has been served.
* Setters of a running encoder take it down and up again without asking the
  sources that read it.
* What a D-Bus client has set is replayed through the same setters at the start.
* A picture setting travels along `_source` from the encoder's end of the pipe to the
  first stage that implements it.
* DESCRIBE runs the event loop inside of its handler; whatever is in this list may
  happen there.

### What is hard, and what makes each part correct

* *MediaElement*: an `enable()` may throw at any depth of the chain. Correct if
  counts are exact after every failure, no stage runs on a stopped source, and
  exactly what is needed runs.
* *Pipe construction*: pipes share elements, in an order nobody checks. Correct if
  the sources form a forest, and the destructor gives back what was enabled.
* *Stages*: each driver call may fail. Correct if a failed start leaves nothing, and
  nothing in use is closed first.
* *Picture settings*: members of one structure, set before, during and after the
  stages run. Correct if what was asked for last is in effect and is read back.
* *Noise reduction*: a timer, a mode, a table and a level, set in any order.
* *Resolutions*: each stage has its own and takes from the one before it. Correct if
  the window is on the sensor and neighbours agree.
* *IR-cut*: two timers and a bistable filter. Correct if a manual mode holds, the
  coil is released, and the filter is where the status says.
* *Stream delivery*: sources that pause one another. Correct if a waiting source
  is served, every `play()` has its `stop()`, and no destroyed channel is watched.
* *DESCRIBE*: a nested loop and a flag for several callers. Correct if every caller
  returns, no sink is used after it was closed, and a signal gets through.
* *Encoder channel*: a restart may fail, and its rollback too. Correct if a setting
  is applied or rolled back, the getters tell what the encoder runs with unless the input or
  the driver allows less, overlays stay on an
  existing channel, and nothing outlives its users unnoticed.
* *Configuration store*: crashes, failing writes, a timer that is restarted, setters
  that throw. Correct if elements and document agree, nothing is dropped silently,
  and a restart finds a whole document unless the program died while it was written.
* *JPEG stream*: one client pauses the source of all. Correct if a pause concerns
  only its client.

The list with lines is under "hazards" in `PROJECT.json`.

## 2. Modules

| Module | What it is |
|---|---|
| `Forests`, `ElementTree` | the elements and their sources: a finite forest in construction order |
| `RunningTree` | abstract: stages run on running sources, held stages run, the rest stops |
| `MediaElement`, `MediaElementProofs` | `enable` and `disable`, one action per statement that matters |
| `Pipes`, `PipesProofs` (with the proofs of `CaptureWindow`) | the command line, the elements it makes, initial enables, the destructor |
| `Scripts`, `StagesEv200`, `StagesCv300`, `StagesV200` | the driver calls of every start and stop as data |
| `Stages`, `StagesProofs` | their interpreter |
| `Settings`, `ImagingEv200`, `ImagingCv300`, `ImagingV200` | which stage implements which picture setting, and how |
| `VideoSource`, `DBusVideoSource` | the interface, what its default forwards, what D-Bus reaches |
| `Imaging` | settings travelling along a pipe, starts and stops |
| `NoiseReduction`, `NoiseReductionProofs` | modes, levels, table and timer of the VPSS group |
| `Sensors`, `SensorsEv200`, `SensorsCv300`, `SensorsV200` | geometry and rate of every sensor |
| `CaptureWindow` | resolutions and frame rates from the sensor to the encoder |
| `IrCut`, `PictureProofs` (with the proofs of `Imaging`) | the IR-cut filter |
| `StreamDelivery`, `RtspProofs` (with the proofs of `Describe`) | one encoder watcher and its sources |
| `Describe` | nested DESCRIBEs, signals and the main loop |
| `VencChan`, `VencChanProofs` | a channel, its settings, its overlays and the driver's view |
| `ConfigSnapshots` | abstract: a document, its last snapshot, the begin and end of a save, an end in order, a crash |
| `ConfigStore`, `ConfigStoreProofs` | elements, overlays, document, timer and file |
| `MC*` | instances for TLC; each has its `.cfg` file. `StreamDelivery` and `Describe` need sets of model values only, which their `.cfg` files give |

A proof module EXTENDS two components where it has the theorems of both; `Imaging`,
`CaptureWindow` and `Describe` therefore call their specification `ImagingSpec`,
`CaptureSpec` and `DescribeSpec`.

They meet at their interfaces. `Pipes` proves what `ElementTree` assumes of the
sources (`AlwaysElementTree`); `Stages` spells out the `doEnableElement()` that `MediaElement` lets succeed or
fail; `Describe` lets other readers stop and resume a watcher as `StreamDelivery` says
they do; `ConfigStore` replays into setters whose failures `VencChan`, `Imaging` and
`NoiseReduction` detail.

### MediaElement

`count`, `up`, `holds` are `_enable_count`, the stages whose `doEnableElement()` has
succeeded, and what callers have obtained. The recursion along `_source` is a
chain: `target` is the element of the outermost `enable()`, `current` the innermost,
`waiting` those in between. `mode` is the next statement and `cursor` the element
`disable()` has come to. `FirstUser` and `FurtherUser` are the two branches of
`_enable_count++ == 0`, `DoEnableOK` and `DoEnableFails` the return and the throw of
`doEnableElement()`, `Rethrow` a catch block, `LastUser` and `OtherUsersRemain` the
branches of `disable()`. Callers are any code that enables an element and disables
it again: RTSP sources, audio sinks, elements that are enabled at the start.

### Pipes

A `pipe` argument is a sequence of descriptions; each `Mention` is one turn of the loop
in `buildElementPipe()`: it finds or creates an element behind `last`, flags it, or
breaks off. A name prefix that is not known is passed over, and its `enable` then flags
the element before it. What was built before a pipe broke off stays. Then the elements
that are flagged are enabled, the audio outputs are started, clients come and go, and
the destructor gives back. An exception in the constructor is caught by nobody: the
program ends without the destructor. An element behind one of the other medium gets
no source and crashes when it is enabled; these ends are `phase` values too.

### Scripts and Stages

A script is a sequence of steps. A step is one driver call with the names of what it
obtains or gives back, whether its failure throws or is only logged, and the releases
behind the `goto` label it jumps to. `Stages` runs the scripts of a chain in the order of
`MediaElement`: start from the source on, stop from the top, stop what a failing
enable has started, restart one stage (`setRotateAngle()`). `held` is what is obtained,
`lost` what a throw has left without a release. Undo calls are assumed to succeed.

### Imaging

A setting is a pair of class and property. A platform's table tells which of its stages
implement it, which structure of the driver it is a member of, how it is converted
(narrow members keep the low bits, a `switch` without a case keeps what was there) and
how the start writes it: not at all, always, only in some cases, or after having read it
back. `Set` walks the pipe with `Homes`, tells the driver if the stage is up, stores the
member. Only physical channels are modelled. On hi3516ev200 the setter of the lens
correction's mode swaps pipe and channel: it means the same on channel 0, and fails on any
other, since only pipe 0 is ever created; any setter of a stage that is up may fail here.

### NoiseReduction

`mode`, `level`, `table` are the members, `timer`, `nr` and `strength` what is active. The
table is searched as in the code. An exception in the timer, or `std::out_of_range` at a
start in MANUAL with a level beyond the table, ends the program.

### CaptureWindow

`own` holds the `_resolution` or `_framerate` of the five stages, 0 where it was never set;
`Reported` is the chain of getters, `driver` what each stage was started with. The axes
and the rate do not influence one another but through refusals, so that a behaviour
watches one of them. Arithmetic is modulo `Word`, as the window is computed with
unsigned members. On hi3516cv300 and hi3518v200 the start of the device overwrites the
shared table of the sensor (`table`).

### IrCut

A tick is 0.25 s. `Tick` may not pass an expired timer. `SensorHandler` and `PulseEnd` are
the handlers of the two timers, `SensorFails` the former when the sensor cannot be read, `Enable`, `Disable`, `SetMode`, `SetSaturation` the calls,
`ViDevUp` and `ViDevDown` the capture device whose colours follow. `filter`, `spent`,
`readings`, `refused` and `deaf` are history: where the coil has moved the filter, and what
was refused.

### StreamDelivery

`source[s]` is the state of a source as live555 sees it, `attached` is `_sinks`,
`started` is `fStreamStarted`, `users` the encoder's count, `watching` the activity of
`_io`, `frame` a frame ready in the driver. `todo` and `last` are the loop in
`streamData()`: `WatchHandler` starts it and one `HandTo` per sink runs it. Between two
sinks, and in the last one, the sink just served may call `resume()`, since
`afterGetting()` may ask for the next frame at once. `Open`/`OpenFails` are the
constructor; a source whose `play()` threw goes on existing for live555. The H.264,
H.265 and audio sources have the same code. `stopsWatch` tells the two kinds of
encoder apart: `stop()` stops the watcher for audio everywhere and for video on
hi3518v200, and leaves it alone for video on the other two.

### Describe

`nested` is the stack of handlers that wait in `doEventLoop()`. `DescribeFirst` and
`DescribeNext` are `getAuxSDPLine()` up to the loop, without and with a dummy sink being
set up; `Answer` is an iteration that was the last one, and what live555 does with the
result. `dummy[s]` is what `fDummyRTPSink` points to: a sink whose source plays, one whose
source could not, one that has been closed. `broken` is libev's `loop_done`: a signal sets
it for all loops, and every `ev_run()` clears it when it is entered. The rest of an
iteration may go on after a signal; the model does not bound it. When a closed
sink is asked, the program crashes or reads what the memory still holds.

### VencChan

`config` is what the members of the channel hold and the getters report; `driver` is what
the vendor library has: which of create, receive and bind are in effect, with which
attributes, and how often each region is enabled. `Attr` makes the attributes of the
configuration as `prepareChnAttr()` and
`prepareRcAttr()` do, and the two are not the same: hi3516ev200 always
hands over profile 0, whatever `setH264Profile()` has accepted; the frame rate is the
smaller of the configured one and the input's, which may change under the channel
(`SourceChanges`); FIXQP has no bit rate. `Honours` says independently of `Attr` what of
a configuration the encoder has to run with.

The operators `Starts`, `StartFails`, `Stopped` are the outcomes of `doEnableElement()`
and `doDisableElement()`. `StartFails` has every place where it throws, with exactly
what the undo labels give back there; two throws are past the labels (line 778, an
unsupported rate control mode, and line 817, an overlay). `Restarts` is the
pattern *disable, enable with the new value, catch: enable with the old value* that
`setRcMode`, `setH264Profile`, `setResolution` and `setFramerate` share; `setBitrate` and
`setGovLength` change the attributes of the running channel in place. The driver is
assumed to refuse a second channel of the same number and a region on a missing
channel, and its undo calls to succeed. VUI, reference mode, intra refresh, QP and
crop are set in a best-effort way, failures being only logged, and are left out.

### ConfigStore

A property (object path, interface, name) is its place in the document. `live` is
what the elements run with, `root` is `_config_root`. A setter need not make the element
run with the value it stores: `Effects[p][v]` is what it may run with, which is less for a
frame rate above the input's, and nothing new for the frame rate of a capture device, which
is stored and never read. `Disturbs` tells which setters change other properties too:
`setFramerate()` rescales the GOP length, which is loaded before it.

`Boot` reads the file and sets its properties in their order. Setters may throw a D-Bus
error, which `LoadConfig()` catches; those properties are `ignored`. A value that
cannot be converted (`Odd`) makes jsoncpp throw what nobody catches: `BootThrows` ends the
program, at every start until somebody repairs the file. Each overlay of the document makes
`LoadConfig()` create one with the lowest free index and load what is stored under that
index (`Restored`, `Reached`): gaps are closed, and settings above a gap are lost until a
further overlay is created, which has its defaults although the document has something
else (`CreateOSD`). `DeleteOSD` leaves the document alone. These are overlays of one encoder.

`Set` is `on_set_property()`: the setter, the document, `SaveConfig()`; a setter that
throws changes nothing and is no step. `Expire` and `Exit` go as far as the opening of the
file, which truncates it; `Saved` and `Closed` write the document, whose outcome nobody
looks at. `Crash` may come anywhere, on any disk; while the file is open it leaves a `Cut`
of the document, from nothing to all of it, with its last value possibly cut to another
one. `spoilt` is a history variable: an access to the file has failed since it was last
read or written in full. `diskFails` is chosen at the start; the refinement of
`ConfigSnapshots` maps a disk that fails to a program that is never started, since nothing
is promised of it. On a sound disk it has every crash, and the snapshots say openly that
a crash in a save may leave a part of the document.

Left out are documents of another shape that somebody wrote by hand, an overlay of which
a cut file has only the name (it comes back with its defaults), overlays that the driver
refuses to create, those beyond the eight that `LoadConfig()` looks for, and a power failure
that loses what a closed file was given.

## 3. What is checked

| Run | States | Shows |
|---|---|---|
| `media_element` | 13,084 | six elements in a tree with a fork in the middle and one at the end, two holders each, a failure at every `doEnableElement()`: counts stay exact, calls end, exactly what is needed runs, `RunningTree` is implemented |
| `pipes` | 996,483 | any command line of up to five descriptions of a video and an audio pipe, cut off anywhere: the sources form a forest, the destructor gives back all |
| `stages` | 22,633 | every chain of the three platforms, with every placement of failures |
| `imaging` | 148,124 | every setting, alone and beside one of the same structure, through two pipes that share stages |
| `noise_reduction` | 5,427 | modes, levels and tables in any order, with and without an ISP |
| `capture_window` | 513,124 | one sensor per platform, resolutions and rates set on any stage at any time |
| `ircut` | 145,161 | the filters of the three platforms |
| `stream_delivery` | 2,427 | three sources on an encoder of either kind: plays and stops match, a waiting source is served unless somebody who was being read leaves |
| `describe` | 7,856 | two streams, three nested handlers, failing `play()`, readers that come and go, signals |
| `venc_chan` | 587,712 | two overlays, three modes of which one is refused, two profiles, rates above and below the input's, an input that changes, two users, every failure, on hi3516ev200 and the others |
| `venc_enable_streams` | violation | `enable()` of a further user returns although nothing streams (see 3.2) |
| `config_store` | 89,944 | a capped property and two overlays with a setting each, any file at the first start, a sound disk and one that fails in every way, crashes anywhere, also in a write |

### 3.1 The properties

* `AssertsHold`: the assertions of `media-element.cpp` hold. `CountsAccounted`: between
  calls a count is its holders plus its enabled readers. `UpIffNeeded`: the running stages
  are exactly the needed ones. `ImplementsRunningTree`, `CallsEnd`.
* `Forest`, `AllGivenBack`: whatever was mentioned in whatever order.
* `NothingElseLeft`, `UsedIsThere`, `UpIsComplete`, `RetryBlockedOnlyByPipe`: what a failing
  start, a stop or a restart may leave, and that nothing that exists uses what is gone.
* `InEffect`, `Reported`: what was asked for last is what the driver has, and what the
  getter returns.
* `TimerMatches`, `LevelHolds`, `StrengthFollows`: when the timer runs, which strength the
  driver has, and that it ends up at the one for the light.
* `WindowOnSensor`, `ChainAgrees`: the next start's window lies on the sensor; a stage
  takes what the one before it gives.
* `ModeHolds`, `AutoSenses`, `FilterSettles`, `ColourFollows`, `SwitchesApart`, `NightFalls`:
  the filter obeys its mode, pulses that cut each other short still move it, colours
  follow, automatic switches are three readings apart, and darkness wins in the end.
* `PlaysMatchSources`: the encoder's count is the number of started sources.
  `WatchedChannelExists`: what is watched exists, except on behalf of a source whose
  `play()` had failed. `ServedUnlessStranded`, `StrandedOnlyByLeaving`: who waits is
  served, or another source has left and nobody will turn the watcher on again. That
  starvation is the code's behaviour, and the two properties say exactly when.
* `AnswersSound`: no description without parameter sets is given out or kept, no closed
  sink is remembered. `DescribeAnswered`: a handler waits for ever only if it, or one above
  it, asks about a stream whose parameter sets are not coming. `SignalEnds`.
* `AppliedOrRolledBack`, `EncodesAsReported`, `OverlaysOnChannel`, `LeftOnlyByThrow`,
  `BrokenOnlyByRestart`: after any sequence of failures, what the fields, the driver
  and the overlays may look like.
* `LiveAsStored`: the elements run with what their setters make of the document, and with
  defaults where it is silent or ignored, except for disturbed properties.
  `CleanIsSaved`: what is not dirty is in the file unless the disk failed.
  `ImplementsSnapshots`: on a sound disk the file is a sequence of whole documents, or, from
  the truncation to the end of a write or a crash in it, a part of one, and an end in order
  loses nothing. `SavedOnceQuiet`: changes are written, unless somebody sets
  properties for ever within 20 s of one another.

### 3.2 What they say about the code

A divergence: `media-element.h:45` says of `enable()`: "enable streaming". When a restart
of a channel in use fails and its rollback fails too (certain for FIXQP on H.264,
because the first failure leaves the created channel behind), the channel is counted as
enabled with nothing running. A further `enable()` returns normally and streams nothing,
until all users have gone. `venc_enable_streams` shows it.

The other properties hold, but with exceptions that had to be written into them. They
are behaviour of the code that a maintainer may want to change:

* *Stages*: hi3516ev200 loses the VI pipe when `StartPipe` fails, and every later start
  fails; AE stays registered when AWB cannot be; hi3516cv300 and hi3518v200 close the
  sensor library before they join the thread that runs it; a rotation refused with the
  new and the old angle leaves the channel down under its readers.
* *Imaging*: a gamma curve that is set before the start is overwritten by its own getter;
  hi3516ev200 never writes the ISP's colours at a start, and hi3516cv300 and hi3518v200
  the lens correction not when the device is online; structures that the driver refuses at
  a start are only logged; nobody implements sharpness, backlight and focus.
* *NoiseReduction*: a number that is no mode, stored over AUTO, leaves the timer running;
  AUTO without an ISP upstream cannot be left while the group is up; a start in MANUAL
  with a level beyond the table ends the program.
* *CaptureWindow*: hi3518v200 can only lower the resolution of its device; a device whose
  resolution is raised after it was lowered computes its window from a wrapped unsigned
  number; the crop offset of hi3516ev200 is not clamped; rates of the devices and of the
  group, and the resolution of an online channel, are accepted and not used; the
  windows of gc2053 and imx290 differ from their devices.
* *Pipes*: an unknown prefix is passed over in silence; the number of entries in the
  buffer list has no bound; option `-b` falls through into `-p`.
* *Describe*: a DESCRIBE of a stream whose encoder cannot start never returns, nor does
  any below it on the stack, of a healthy stream too. A DESCRIBE handled after a signal in
  the same iteration makes the program forget the signal: it goes on with `_terminated`
  set, answers without parameter sets, and checks a sink that was closed.
* *IrCut*: a refused `setMode()` stops the sensor timer although the mode still reads AUTO.
  The debounce count survives a change of mode, so that a single reading may switch after it.
* *VencChan*: on hi3516ev200 the profile is accepted, reported and never given to the driver;
  a frame rate above the input's is reported as it was asked for.
* *ConfigStore*: the file is truncated before it is written, so that a crash in between loses
  the document on any disk; a value of the wrong type in the file ends every start; the frame
  rate of a capture device is kept in the document and never used; overlays come back under
  other indices, those that were deleted too, and settings above a gap are lost.

### 3.3 Bounds

* `MaxHolds = 2`: one holder and *a further user* are the two branches of the code; a
  third is the second again. The tree has a chain of three, so that a failure passes
  through a waiting element, and forks at two depths.
* `MaxMentions = 5` of six names: a pipe of three and one of two, or one of them twice.
  `MaxSinks = 2`: the same output twice. `MaxClients = 2`: the first and a further one.
* The chains of `Stages` are complete. At most one stage below is held by others.
* `Imaging` uses one property, or two that share a structure: settings of different
  structures do not meet. The words are 0, 1 and one whose low byte and half word
  differ from it.
* Tables of one and two items, levels within and beyond; sensitivities below, at and
  above the items.
* Extents 400 and 1200 below every sensor and above `Largest`, 0 for what cannot be
  parsed; `Word = 65536` keeps the wrap of 2^32 and leaves room for the extents. The run
  does not follow a behaviour after the shared table is overwritten for good
  (`TableSound`): from there on `WindowOnSensor` has nothing to say.
* Pulses of one and two ticks and a period of four keep the order of 0.1 s, 0.5 s and 1 s.
* Three sources: one leaves, one is served, one waits. Two cannot tell "the other
  one resumes" from "everybody resumes".
* `MaxNested = 3` with two streams: two handlers of one stream, with one of the other
  below, between or above.
* `MaxUsers = 2` for the channel, as above; two overlays, so that one is enabled and
  the other fails; two modes that work, so that one can be rolled back to.
* Three properties in the document: before, at and after a cut; settings of two overlays,
  so that there is a gap. None disturbs another in this run (that is left to the
  theorem, and for the GOP length to `venc_chan`). `Ticks = 2`: a timer that has begun to run, and one just started.

The bounds are in guards, in constants and in the MC modules. The theorems hold for
every value of these constants.

`CHECK_DEADLOCK FALSE` stands where the system may stop: `Pipes` and `Describe` end with
the program, `NoiseReduction` with an exception, `IrCut` when nobody calls and no timer
runs.

### 3.4 Fairness

* `MediaElement`: `WF(Call)`. A callback runs to its end. Callers owe nothing.
* `StreamDelivery`: libev dispatches a readable descriptor (`WatchHandler`), a loop over
  the sinks goes on (`HandTo`), the encoder encodes (`Encode`), and an RTP sink that has
  got a frame asks for the next (`GetNextFrame` in state `idle`; live555's
  `MultiFramedRTPSink` does so after sending). Nobody has to open, play or close.
* `Describe`: libev ends its iterations (`Answer`, `End`) and calls expired timers
  (`CheckForAuxSDPLine`); a stream whose frames are fetched brings a key frame (`Feed`).
  Nobody has to ask, leave or resume, and `play()` need not succeed.
* `ConfigStore`: time passes (`Tick`), libev calls an expired timer (`Expire`), and what has
  opened the file comes to its end (`Saved`, `Closed`).
  Nobody has to set, start, or end anything, and the disk need not be good.
* `IrCut`: time passes and the loop calls expired timers; GPIO writes succeed. The light
  sensor may fail, but not each time it is read (strong fairness of `SensorHandler`).
* `NoiseReduction`: the timer's handler finds the ISP answering and the driver willing
  again and again (`TimeoutHandler(TRUE)`), as `StrengthFollows` needs.

The other modules have no liveness property and no fairness.

## 4. What is proved

The theorems hold for all values of the constants under the assumptions named in
the modules, which TLC evaluates in the runs.

* **`MediaElementProofs`** (`ElementTreeAssumption`, `MaxHoldsAssumption`). `IInv` is the
  inductive invariant, needed because the interesting properties only hold between
  calls. `CallsAreAChain` says that the pending calls lie on one source chain, ordered
  by construction; `BusyCountedOnce` that each of them has been counted once and is
  not up; `EveryCountAccounted` that a count is holders plus linked readers plus the
  calls in progress; `UpIffCounted` that up is counted and not busy. From it follow
  `TypeCorrect`, `AssertsAlwaysHold`, `SourceAlwaysUp`, `CountsAlwaysAccounted`,
  `EnabledAlwaysIffUp`, and `ImplementsSafely`: every step is a `Start`, `Stop`, `Acquire`
  or `Release` of `RunningTree`, or a stutter. `AlwaysUpIffNeeded` compares `up` with
  `Needed`, which is recursive over the tree. `NeededSolves`: the recursive equation has
  a solution, the least set that is closed under *held, or read by a member*. `up` is
  closed in the same way (`UpForSomebody`). If the two differed, the element created
  last of those on which they differ would have a reader on which they differ too.
* **`PipesProofs`** (`PipesAssumption`, `SensorsAssumption`).
  *Pipes*: `Forest` with the fact that `last` exists is inductive (`InductiveInvariant`).
  `AlwaysElementTree` composes: what exists after any prefix of any command line meets
  `IsForest`, the assumption of `ElementTree`, so that the theorems about `MediaElement`
  apply to what is built (nothing is added once the arguments are read).
  `AlwaysAllGivenBack` needs `Balance`: in each phase `holds` is exactly what the initial
  enables, the outputs (counted as often as they were named) and the clients still owe,
  minus what the running loop has already given back, and nothing is held while the
  system is down.
  *CaptureWindow*: `CaptureIInv` is inductive. `OwnKept`: a setter that a platform does not
  have leaves no value; `TableShrinks`: the window left in the shared table lies in that of
  the sensor, until it has been overwritten with a larger one; `TakesReported` and
  `GivesReported`: what a stage was told is what the one before it reported. From it follow
  `AlwaysWindowOnSensor` and `AlwaysChainAgrees`, for every sensor whose tables are well
  formed (TLC evaluates that for all sensors of the three platforms) and every word with
  room for four times its extents. Lemmas about arithmetic modulo `Word` say that the
  subtractions of unsigned members do not wrap while no more is asked for than there is.
* **`StagesProofs`** (`ChainsAssumption`, `SeparateAssumption`, `OrderAssumption`,
  `LeftAssumption`). The assumptions speak of the scripts only, never of a behaviour, and TLC
  finds them true of every script of the three platforms: a stop gives back what the start
  may obtain; no stage gives back what another one obtains; a script obtains what is used
  before its users and releases it after them; what a single throw leaves behind is
  nothing that the driver would refuse to create again, but the pipe. What is proved is
  that the interpreter keeps chains of such scripts in order, for any number of stages,
  placement of failures and readers below.
  `HeldAccounted` (what is held belongs to settled stages, to what the running script has
  still to give back, or was lost) gives `LeavesNothingElse`. `IntactInv` adds that every
  enabled stage is whole, down after failed restarts, or the one being worked on
  (`OthersIntact`), that a start has what its steps so far obtained (`StartSure`), and whose
  labels run (`UndoOwn`, `RestartHolds`); from it follows `AlwaysUpIsComplete`. `NeedsInv`
  adds `LostHarmless` and gives `AlwaysUsedIsThere` and `RetryAlwaysPossible`.
* **`NoiseReductionProofs`** (`TablesAssumption`). `TimerAlwaysMatches` and `LevelAlwaysHolds`
  are inductive together with "no timer without ISP, none on hi3516ev200".
* **`PictureProofs`** (`TimersAssumption`, and `PipesAssumption` of `Imaging`).
  *IrCut*: all four invariants are inductive together with the types and the bound of the
  debounce count by the readings; `SwitchesAlwaysApart` follows for every step.
  *Imaging*: `AlwaysInEffect` and `AlwaysReported`, for every pipe whose stages list their
  settings as the tables do. `FieldAsAsked` is what has to be added: the member holds what
  was asked for, unless a gamma curve was read back over it.
* **`RtspProofs`** (`SinksAssumption`, `MaxNestedAssumption`).
  *StreamDelivery*: `IInv` adds that started sources exist, that a watcher that is on is on
  for somebody, and that while frames are handed out whoever has paused can still resume
  (`HandingOut`). From it follow `TypeCorrect`, `PlaysAlwaysMatchSources`,
  `WatchedChannelAlwaysExists` and `OnlyLeavingStrands`.
  *Describe*: `AnswersAlwaysSound` is inductive with two facts that are theorems themselves:
  the program reads a closed sink only after a signal (`CrashesOnlyWhenTerminated`), and
  every waiting handler has its check scheduled or made (`EveryoneAlwaysChecked`).
* **`VencChanProofs`** (`VencChanAssumption`). The invariants of the module are inductive
  together. One lemma for each operator says what it does to a driver whose
  overlays are on a channel, then one for each action. The action property
  `AlwaysAppliedOrRolledBack` follows from the same lemmas.
* **`ConfigStoreProofs`** (`ConfigStoreAssumption`). `LiveAlwaysAsStored` is inductive with
  the types: each of a start, a setter, a created and a deleted overlay has its step.
  `SnapshotsImplemented` rests on `CleanAlwaysSaved` for a program that ends with nothing to
  write, and on `CutIsPart`: what is left of a document that is being written has nothing
  else in it, but for the last value.

Every invariant and every action property of the passing runs is the statement of a
theorem. Only model-checked: liveness (`CallsEnd`, `ServedUnlessStranded`,
`DescribeAnswered`, `SignalEnds`, `SavedOnceQuiet`, `NightFalls`, `StrengthFollows`, the
fairness part of `ImplementsRunningTree`), which is beyond the proof system; that the
tables and scripts of the three platforms meet the assumptions of the theorems, which
is an evaluation and not a proof; and the violation of 3.2.

## 5. Plan

In the order of importance:

1. `JpegStream`: one source for several clients; `pauseStream()` of one stops it for all,
   and `play()` is called after `startStream()` has answered. Reuses the shape of
   `StreamDelivery`.
2. Delayed tasks and socket handlers that remove themselves or one another inside of a
   callback, against an abstract set of pending tasks.
3. The geometry of overlays (alignment, inverted colours, negative positions), the
   clock timer of an overlay, the buffer of the AAC encoder.

## 6. What is not modelled

* Not yet: the plan above; VUI, reference mode, intra refresh, QP and crop of an encoder;
  the settings of extended channels; the D-Bus objects of encoders and overlays, but for
  the properties and the table of overlays in `ConfigStore`.
* Two things known to go wrong that no property is about: `DeleteOSD()` frees no region,
  so that `RGN_HANDLE_MAX` creations use up the handles (nothing ever gives one back,
  so a model has nothing to check), and the clock timer of an overlay that has been a
  clock never stops. Whether the descriptor of a channel survives its restart is up to
  the driver.
* `afterPlayingDummy1()` is never called: a source reports its closure only in its
  constructor, before a sink reads it.
* Not at all: sensor registers, options of `main.cpp` that are read once, rendering of
  text, the packets of an audio back channel; live555, libev, dbus-c++, jsoncpp, the AAC
  codec and the vendor libraries, which are external and modelled as far as the code
  relies on them.

## 7. Running it

    tlc -workers 2 -config MCMediaElement.cfg MCMediaElement
    tlapm MediaElementProofs.tla

and likewise for the others. Definitions marked "Seeded bug" are not part of a
specification: each stands beside the definition that it would replace, and breaks
the property named with it in `PROJECT.json`.
