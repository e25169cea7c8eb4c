--------------------------- MODULE StreamDelivery ---------------------------
(***************************************************************************)
(* From an encoder channel to the RTSP sessions that read it: the encoder  *)
(* (HimppVencChan or HimppAencChan), its one libev watcher, and the        *)
(* LiveH264/H265/AudioStreamSources attached to it, one for each RTSP      *)
(* stream that names the encoder and one while a DESCRIBE of a stream      *)
(* waits for its parameter sets.                                           *)
(*                                                                         *)
(* Frames are pulled: a source that live555 asks for a frame resumes the   *)
(* watcher, and pauses it again when it has got one.  There is one watcher *)
(* and there are many sources.                                             *)
(*                                                                         *)
(* live555 itself (FramedSource::getNextFrame, stopGettingFrames, the      *)
(* creation and closing of sources) and the encoder driver are external.   *)
(***************************************************************************)
EXTENDS Naturals, FiniteSets

CONSTANTS
    Sinks,          \* the Live*StreamSource objects that may exist
    Encoders        \* per kind of encoder: stop() also stops its watcher

ASSUME SinksAssumption == IsFiniteSet(Sinks) /\ Encoders \subseteq BOOLEAN

VARIABLES
    stopsWatch, \* the kind of this encoder
    source,     \* source[s]: the state of the object s, seen from live555
    attached,   \* the encoder's _sinks
    started,    \* the objects with fStreamStarted
    users,      \* the encoder's _enable_count
    watching,   \* the encoder's _io is active
    frame,      \* the encoder has a frame that nobody has fetched
    todo,       \* the sinks streamData() has still to call
    last        \* while some remain, the one it is calling, as a set

vars == <<stopsWatch, source, attached, started, users, watching, frame, todo, last>>

SourceStates == {"none",        \* it does not exist
                 "open",        \* created, not read yet: SETUP without PLAY
                 "idle",        \* it has delivered and is not asked again yet
                 "awaiting"}    \* isCurrentlyAwaitingData()

TypeOK ==
    /\ stopsWatch \in BOOLEAN
    /\ source \in [Sinks -> SourceStates]
    /\ attached \subseteq Sinks
    /\ started \subseteq Sinks
    /\ users \in Nat
    /\ watching \in BOOLEAN
    /\ frame \in BOOLEAN
    /\ todo \subseteq Sinks
    /\ last \subseteq Sinks

Init ==
    /\ stopsWatch \in Encoders
    /\ source = [s \in Sinks |-> "none"]
    /\ attached = {}
    /\ started = {}
    /\ users = 0
    /\ watching = FALSE
    /\ frame = FALSE
    /\ todo = {}
    /\ last = {}

Playing(s) == source[s] \in {"idle", "awaiting"}

\* No callback of the event loop is running.
Quiet == todo = {}

-----------------------------------------------------------------------------
(* The encoder.                                                            *)

resume == watching' = (watching \/ users > 0)

pause == watching' = FALSE

-----------------------------------------------------------------------------
(* Seeded bugs: each breaks one of the properties below.                   *)

\* The constructor forgets to detach when play() throws.
OpenFailsAttached(s) ==
    /\ Quiet
    /\ source[s] = "none"
    /\ users = 0
    /\ source' = [source EXCEPT ![s] = "open"]
    /\ attached' = attached \cup {s}
    /\ UNCHANGED <<stopsWatch, started, users, watching, frame, todo, last>>

\* streamData() calls only one of the sinks.
WatchHandlerOneSink ==
    /\ Quiet
    /\ watching
    /\ frame
    /\ frame' = FALSE
    /\ todo' = IF attached = {} THEN {} ELSE {CHOOSE s \in attached : TRUE}
    /\ UNCHANGED <<stopsWatch, source, attached, started, users, watching, last>>

\* It is paused for every attached source, also for one that is not ready.
HandToPausesAlways(s) ==
    /\ s \in todo
    /\ todo' = todo \ {s}
    /\ last' = IF todo = {s} THEN {} ELSE {s}
    /\ IF source[s] = "awaiting"
       THEN source' = [source EXCEPT ![s] = "idle"]
       ELSE UNCHANGED source
    /\ pause
    /\ UNCHANGED <<stopsWatch, attached, started, users, frame>>

\* The watcher is left to the next source that asks.
CloseKeepsWatch(s) ==
    /\ Quiet
    /\ source[s] # "none"
    /\ source' = [source EXCEPT ![s] = "none"]
    /\ attached' = attached \ {s}
    /\ started' = started \ {s}
    /\ users' = IF s \in started THEN users - 1 ELSE users
    /\ frame' = (frame /\ users' > 0)
    /\ UNCHANGED <<stopsWatch, watching, todo, last>>

-----------------------------------------------------------------------------
(* The sources.                                                            *)

\* The constructor: attach(), play().
Open(s) ==
    /\ Quiet
    /\ source[s] = "none"
    /\ source' = [source EXCEPT ![s] = "open"]
    /\ attached' = attached \cup {s}
    /\ users' = users + 1
    /\ started' = started \cup {s}
    /\ UNCHANGED <<stopsWatch, watching, frame, todo, last>>

\* play() throws, which it only does for the encoder's first user:
\* detach(), handleClosure().  live555 goes on with the source.
OpenFails(s) ==
    /\ Quiet
    /\ source[s] = "none"
    /\ users = 0
    /\ source' = [source EXCEPT ![s] = "open"]
    /\ UNCHANGED <<stopsWatch, attached, started, users, watching, frame, todo, last>>

\* The RTP sink asks for the next frame: on PLAY, when it has sent the last
\* one, or before afterGetting() returns.
GetNextFrame(s) ==
    /\ Quiet \/ s \in last
    /\ source[s] \in {"open", "idle"}
    /\ source' = [source EXCEPT ![s] = "awaiting"]
    /\ resume
    /\ UNCHANGED <<stopsWatch, attached, started, users, frame, todo, last>>

\* TEARDOWN, a timeout, or the end of a DESCRIBE: the RTP sink, if it reads
\* the source, stops it, doStopGettingFrames(); then the destructor.
Close(s) ==
    /\ Quiet
    /\ source[s] # "none"
    /\ source' = [source EXCEPT ![s] = "none"]
    /\ attached' = attached \ {s}
    /\ started' = started \ {s}
    /\ users' = IF s \in started THEN users - 1 ELSE users
    /\ frame' = (frame /\ users' > 0)
    /\ IF Playing(s) \/ (s \in started /\ stopsWatch)
       THEN pause
       ELSE UNCHANGED watching
    /\ UNCHANGED <<stopsWatch, todo, last>>

-----------------------------------------------------------------------------
(* Delivery.                                                               *)

\* The channel produces a frame; its file descriptor becomes readable.
Encode ==
    /\ Quiet
    /\ users > 0
    /\ ~frame
    /\ frame' = TRUE
    /\ UNCHANGED <<stopsWatch, source, attached, started, users, watching, todo, last>>

\* watch_handler(): fetch the frame, streamData().
WatchHandler ==
    /\ Quiet
    /\ watching
    /\ frame
    /\ frame' = FALSE
    /\ todo' = attached
    /\ UNCHANGED <<stopsWatch, source, attached, started, users, watching, last>>

\* streamData() of one source: pause(), afterGetting(), unless it is not
\* ready for the data.
HandTo(s) ==
    /\ s \in todo
    /\ todo' = todo \ {s}
    /\ last' = IF todo = {s} THEN {} ELSE {s}
    /\ IF source[s] = "awaiting"
       THEN source' = [source EXCEPT ![s] = "idle"] /\ pause
       ELSE UNCHANGED <<source, watching>>
    /\ UNCHANGED <<stopsWatch, attached, started, users, frame>>

-----------------------------------------------------------------------------
Next ==
    \/ \E s \in Sinks : Open(s) \/ OpenFails(s) \/ GetNextFrame(s) \/ Close(s)
    \/ Encode \/ WatchHandler \/ \E s \in Sinks : HandTo(s)

\* The loop dispatches a readable descriptor, callbacks run to their end, the
\* encoder keeps encoding, and an RTP sink asks again after it has sent.
Fairness ==
    /\ WF_vars(Encode)
    /\ WF_vars(WatchHandler)
    /\ \A s \in Sinks :
         /\ WF_vars(HandTo(s))
         /\ WF_vars(source[s] = "idle" /\ GetNextFrame(s))

Spec == Init /\ [][Next]_vars /\ Fairness

-----------------------------------------------------------------------------
(* Properties.                                                             *)

\* Every play() is matched by the source that will stop() it, through failed
\* plays and every order of closing: the encoder's count is the number of
\* started sources, and those are the ones it delivers to.
PlaysMatchSources ==
    /\ users = Cardinality(started)
    /\ attached = started

\* Somebody waits for a frame that nothing will ever fetch: the watcher is
\* off and no source is about to turn it on again.
Stranded ==
    /\ Quiet
    /\ ~watching
    /\ \E s \in started : source[s] = "awaiting"
    /\ \A s \in started : source[s] # "idle"

\* A source that is waiting for a frame gets it, however many others share
\* the watcher and pause it in turn, unless it is stranded.
ServedUnlessStranded ==
    \A s \in Sinks :
        source[s] = "awaiting" /\ s \in started
            ~> source[s] # "awaiting" \/ Stranded

\* The only way to be stranded is that another source leaves: one that is
\* being read or, where stop() stops the watcher, any other.  Delivery, a new
\* source, or one whose play() failed never strand anybody.
LeavesWatchOff(s) ==
    /\ source[s] # "none"
    /\ Playing(s) \/ stopsWatch
    /\ source'[s] = "none"

StrandedOnlyByLeaving ==
    [][~Stranded /\ Stranded' => \E s \in Sinks : LeavesWatchOff(s)]_vars

\* Where stop() stops the watcher it never watches a channel that has been
\* destroyed; elsewhere it does so only on behalf of a source whose play()
\* failed and that live555 reads all the same.
WatchedChannelExists ==
    watching /\ users = 0 =>
        /\ ~stopsWatch
        /\ \E s \in Sinks : source[s] = "awaiting" /\ s \notin started

-----------------------------------------------------------------------------
(* The inductive invariant.                                                *)

\* The destructor of a started source has still to come.
StartedExist == \A s \in started : source[s] # "none"

\* A watcher that is on was turned on for a source that still waits.
WatchedForSomebody ==
    /\ watching => \E s \in Sinks : source[s] = "awaiting"
    /\ watching /\ stopsWatch => users > 0

\* While a frame is handed out, whoever has paused the watcher can still
\* turn it on again.
HandingOut ==
    /\ todo \subseteq attached
    /\ todo # {} => watching \/ \E s \in started : source[s] = "idle"

IInv ==
    /\ TypeOK
    /\ PlaysMatchSources
    /\ StartedExist
    /\ WatchedForSomebody
    /\ HandingOut
=============================================================================
