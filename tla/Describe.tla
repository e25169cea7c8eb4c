------------------------------- MODULE Describe -------------------------------
(***************************************************************************)
(* The answer to DESCRIBE and the end of the program.                      *)
(*                                                                         *)
(* The description of an H.264 or H.265 stream holds its parameter sets,   *)
(* which only a frame brings.  The first DESCRIBE of a stream starts a     *)
(* dummy sink on it, looks every 100 ms whether that has seen them, and    *)
(* runs the event loop inside of its handler until then.  Another DESCRIBE *)
(* that comes in there nests: it runs the event loop once more, and has to *)
(* return before the one below it can.  A signal has to end them all, and  *)
(* the main loop.                                                          *)
(*                                                                         *)
(* External: live555, which calls sdpLines() until it has an answer it can *)
(* keep and closes sink and source after it; libev, whose ev_run() forgets *)
(* an ev_break() when it is entered; and the other readers of the encoder, *)
(* which may stop its watcher (StreamDelivery) and start it again.         *)
(***************************************************************************)
EXTENDS Naturals, Sequences

CONSTANTS
    Streams,    \* the RTSP streams that have a video encoder
    MaxNested   \* bound of the model: handlers of DESCRIBE that wait at once

ASSUME MaxNestedAssumption == MaxNested \in Nat

VARIABLES
    phase,      \* the program is "up", has "ended" or has "crashed"
    nested,     \* the handlers that wait, the innermost one last
    line,       \* the streams with fAuxSDPLine
    dummy,      \* dummy[s]: the source of fDummyRTPSink
    fed,        \* the streams whose fDummyRTPSink has its auxSDPLine()
    doneFlag,   \* the streams with fDoneFlag
    nextTask,   \* the streams whose check is scheduled
    starved,    \* the streams whose frames nobody fetches
    sdp,        \* sdp[s]: the answer that live555 keeps
    terminated, \* _terminated
    broken      \* libev's loop_done is EVBREAK_ALL

subsession == <<line, dummy, fed, doneFlag, nextTask>>
signals == <<terminated, broken>>
describeVars == <<phase, nested, subsession, starved, sdp, signals>>

\* A handler: its stream, whether its source plays, whether its sink is (or
\* was) fDummyRTPSink.
Handlers == [of : Streams, plays : BOOLEAN, owns : BOOLEAN]

DummyStates == {"none",     \* fDummyRTPSink is NULL
                "playing",  \* its source is attached to the encoder
                "silent",   \* its source could not play()
                "closed"}   \* it points to a sink that has been closed

DescribeTypeOK ==
    /\ phase \in {"up", "ended", "crashed"}
    /\ nested \in Seq(Handlers)
    /\ line \subseteq Streams
    /\ dummy \in [Streams -> DummyStates]
    /\ fed \subseteq Streams
    /\ doneFlag \subseteq Streams
    /\ nextTask \subseteq Streams
    /\ starved \subseteq Streams
    /\ sdp \in [Streams -> {"none", "bare", "full"}]
    /\ terminated \in BOOLEAN
    /\ broken \in BOOLEAN

DescribeInit ==
    /\ phase = "up"
    /\ nested = <<>>
    /\ line = {}
    /\ dummy = [s \in Streams |-> "none"]
    /\ fed = {}
    /\ doneFlag = {}
    /\ nextTask = {}
    /\ starved = {}
    /\ sdp = [s \in Streams |-> "none"]
    /\ terminated = FALSE
    /\ broken = FALSE

-----------------------------------------------------------------------------
(* DESCRIBE.                                                               *)

\* createNewStreamSource(): play() can only fail for the first user of the
\* encoder.
MayPlay(s, plays) ==
    plays \/ \A i \in DOMAIN nested : ~(nested[i].of = s /\ nested[i].plays)

\* Every ev_run() starts with loop_done = EVBREAK_CANCEL.
doEventLoop(handler) ==
    /\ nested' = Append(nested, handler)
    /\ broken' = FALSE

\* getAuxSDPLine() for a stream that nobody is asking about: startPlaying(),
\* and checkForAuxSDPLine1() for the first time.
DescribeFirst(s, plays) ==
    /\ phase = "up"
    /\ sdp[s] = "none" /\ s \notin line
    /\ dummy[s] = "none"
    /\ Len(nested) < MaxNested
    /\ MayPlay(s, plays)
    /\ dummy' = [dummy EXCEPT ![s] = IF plays THEN "playing" ELSE "silent"]
    /\ fed' = fed \ {s}
    /\ nextTask' = IF s \in doneFlag THEN nextTask ELSE nextTask \cup {s}
    /\ starved' = IF plays THEN starved \ {s} ELSE starved
    /\ doEventLoop([of |-> s, plays |-> plays, owns |-> TRUE])
    /\ UNCHANGED <<phase, line, doneFlag, sdp, terminated>>

\* getAuxSDPLine() for a stream that is "already being set up for another,
\* concurrent" DESCRIBE.
DescribeNext(s, plays) ==
    /\ phase = "up"
    /\ sdp[s] = "none" /\ s \notin line
    /\ dummy[s] # "none"
    /\ Len(nested) < MaxNested
    /\ MayPlay(s, plays)
    /\ doEventLoop([of |-> s, plays |-> plays, owns |-> FALSE])
    /\ UNCHANGED <<phase, subsession, starved, sdp, terminated>>

Innermost == nested[Len(nested)]

\* What getAuxSDPLine() returns goes into the answer.  The sink and the
\* source of the handler are closed.
Reply ==
    LET s == Innermost.of
    IN  /\ nested' = SubSeq(nested, 1, Len(nested) - 1)
        /\ sdp' = [sdp EXCEPT ![s] = IF s \in line THEN "full" ELSE "bare"]
        /\ dummy' = IF Innermost.owns /\ dummy[s] # "none"
                    THEN [dummy EXCEPT ![s] = "closed"] ELSE dummy
        /\ UNCHANGED <<phase, line, fed, doneFlag, nextTask, starved, signals>>

\* Seeded bug: doEventLoop() does not look at _terminated.
AnswerWhenDone ==
    /\ phase = "up"
    /\ nested # <<>> /\ Innermost.of \in doneFlag
    /\ Reply

\* An iteration of doEventLoop() is over and was the last one.
Answer ==
    /\ phase = "up"
    /\ nested # <<>>
    /\ Innermost.of \in doneFlag \/ terminated
    /\ Reply

-----------------------------------------------------------------------------
(* What happens in the event loop, on whatever level it runs.              *)

SetsSeen(s) == s \in line \/ (s \in fed /\ dummy[s] # "none")

\* Seeded bug: the dummy sink is not forgotten.
CheckForAuxSDPLineKeepsSink(s) ==
    /\ phase = "up"
    /\ s \in nextTask
    /\ IF SetsSeen(s)
       THEN /\ line' = line \cup {s}
            /\ doneFlag' = doneFlag \cup {s}
            /\ nextTask' = nextTask \ {s}
       ELSE UNCHANGED <<line, doneFlag, nextTask>>
    /\ UNCHANGED <<phase, nested, dummy, fed, starved, sdp, signals>>

\* Seeded bug: it is not scheduled again.
CheckForAuxSDPLineOnce(s) ==
    /\ phase = "up"
    /\ s \in nextTask
    /\ nextTask' = nextTask \ {s}
    /\ IF SetsSeen(s)
       THEN /\ line' = line \cup {s}
            /\ doneFlag' = doneFlag \cup {s}
            /\ dummy' = [dummy EXCEPT ![s] = "none"]
       ELSE UNCHANGED <<line, doneFlag, dummy>>
    /\ UNCHANGED <<phase, nested, fed, starved, sdp, signals>>

\* checkForAuxSDPLine1(), called by its timer.
CheckForAuxSDPLine(s) ==
    /\ phase = "up"
    /\ s \in nextTask
    /\ IF SetsSeen(s)
       THEN /\ line' = line \cup {s}
            /\ dummy' = IF s \in line THEN dummy ELSE [dummy EXCEPT ![s] = "none"]
            /\ doneFlag' = doneFlag \cup {s}
            /\ nextTask' = nextTask \ {s}
       ELSE /\ nextTask' = IF s \in doneFlag THEN nextTask \ {s} ELSE nextTask
            /\ UNCHANGED <<line, dummy, doneFlag>>
    /\ UNCHANGED <<phase, nested, fed, starved, sdp, signals>>

\* The same, when the sink that it asks is gone and its memory with it.
CheckClosedSink(s) ==
    /\ phase = "up"
    /\ s \in nextTask
    /\ s \notin line /\ dummy[s] = "closed"
    /\ phase' = "crashed"
    /\ UNCHANGED <<nested, subsession, starved, sdp, signals>>

\* A frame with the parameter sets reaches the dummy sink.
Feed(s) ==
    /\ phase = "up"
    /\ dummy[s] = "playing"
    /\ s \notin starved
    /\ fed' = fed \cup {s}
    /\ UNCHANGED <<phase, nested, line, dummy, doneFlag, nextTask, starved, sdp, signals>>

\* Another reader of the encoder leaves and pauses the watcher, or asks for a
\* frame and resumes it.
ReaderLeaves(s) ==
    /\ phase = "up"
    /\ starved' = starved \cup {s}
    /\ UNCHANGED <<phase, nested, subsession, sdp, signals>>

ReaderAsks(s) ==
    /\ phase = "up"
    /\ starved' = starved \ {s}
    /\ UNCHANGED <<phase, nested, subsession, sdp, signals>>

\* sigterm_handler(), also a second time.
Terminate ==
    /\ phase = "up"
    /\ terminated' = TRUE
    /\ broken' = TRUE
    /\ UNCHANGED <<phase, nested, subsession, starved, sdp>>

\* mainloop.run() returns to main().
End ==
    /\ phase = "up"
    /\ nested = <<>> /\ broken
    /\ phase' = "ended"
    /\ UNCHANGED <<nested, subsession, starved, sdp, signals>>

-----------------------------------------------------------------------------
DescribeSteps ==
    \/ \E s \in Streams, plays \in BOOLEAN :
            DescribeFirst(s, plays) \/ DescribeNext(s, plays)
    \/ Answer
    \/ \E s \in Streams : CheckForAuxSDPLine(s) \/ CheckClosedSink(s)
    \/ \E s \in Streams : Feed(s) \/ ReaderLeaves(s) \/ ReaderAsks(s)
    \/ Terminate \/ End

\* libev calls the timers that have expired and ends its iterations, and the
\* encoder of a stream whose frames are fetched brings a key frame.
DescribeFairness ==
    /\ WF_describeVars(Answer)
    /\ WF_describeVars(End)
    /\ \A s \in Streams : WF_describeVars(CheckForAuxSDPLine(s)) /\ WF_describeVars(Feed(s))

DescribeSpec == DescribeInit /\ [][DescribeSteps]_describeVars /\ DescribeFairness

-----------------------------------------------------------------------------
(* Properties.                                                             *)

\* In whatever order the nested handlers return, no description is given out,
\* and kept for all later clients, without its parameter sets, and
\* fDummyRTPSink is never left pointing to a sink that live555 has closed.
\* Both happen only in a program that has been told to end.
AnswersSound ==
    \A s \in Streams :
        sdp[s] = "bare" \/ dummy[s] = "closed" => terminated

\* The parameter sets of s are not coming: the source of its dummy sink could
\* not play(), or its frames are not fetched any more.
Stuck(s) ==
    /\ s \notin doneFlag
    /\ dummy[s] = "silent" \/ (s \in starved /\ s \notin fed)

\* The d-th handler cannot return before those above it.
HeldUp(d) == \E i \in DOMAIN nested : i >= d /\ Stuck(nested[i].of)

\* A DESCRIBE is answered, unless it, or one that came in while it waited, is
\* for a stream whose parameter sets are not coming.
DescribeAnswered ==
    \A d \in 1..MaxNested :
        Len(nested) >= d ~>
            (Len(nested) < d \/ HeldUp(d) \/ phase = "crashed")

\* A signal ends the program, through all handlers that wait, even for ever.
\* The exception is a DESCRIBE handled after the signal in the same iteration:
\* the loop it runs forgets that the main loop was to end.
SignalEnds ==
    (terminated /\ broken) ~> (phase # "up" \/ ~broken)

=============================================================================
