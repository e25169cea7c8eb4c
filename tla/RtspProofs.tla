----------------------------- MODULE RtspProofs -----------------------------
(***************************************************************************)
(* What is proved of the RTSP side.                                        *)
(*                                                                         *)
(* StreamDelivery.                                                         *)
(* For any number of sources on one encoder: the encoder's count matches   *)
(* the started sources, a watcher is only on for a source that waits, and  *)
(* nobody is stranded unless another source leaves.                        *)
(*                                                                         *)
(* Describe.                                                               *)
(* For any number of streams and of nested handlers: no answer without its *)
(* parameter sets, and no sink that is used after it was closed.           *)
(***************************************************************************)
EXTENDS StreamDelivery, Describe, FiniteSetTheorems, SequenceTheorems, TLAPS

-----------------------------------------------------------------------------
(* Facts of one state.                                                     *)

\* The encoder has no user exactly when no source is started.
LEMMA NoUsers ==
    ASSUME TypeOK, PlaysMatchSources
    PROVE  users = 0 <=> started = {}
<1>1. IsFiniteSet(started)
  BY SinksAssumption, FS_Subset DEF TypeOK
<1> QED
  BY <1>1, FS_EmptySet DEF PlaysMatchSources

\* What adding and removing a started source does to the count.
LEMMA StartedCount ==
    ASSUME TypeOK, NEW s \in Sinks
    PROVE  /\ Cardinality(started) \in Nat
           /\ s \notin started =>
                Cardinality(started \cup {s}) = Cardinality(started) + 1
           /\ s \in started =>
                /\ Cardinality(started) > 0
                /\ Cardinality(started \ {s}) = Cardinality(started) - 1
           /\ s \notin started => started \ {s} = started
<1>1. IsFiniteSet(started)
  BY SinksAssumption, FS_Subset DEF TypeOK
<1>2. Cardinality(started) \in Nat
  BY <1>1, FS_CardinalityType
<1>3. s \notin started => Cardinality(started \cup {s}) = Cardinality(started) + 1
  BY <1>1, FS_AddElement
<1>4. s \in started => /\ Cardinality(started) > 0
                       /\ Cardinality(started \ {s}) = Cardinality(started) - 1
  <2>1. s \in started => Cardinality(started \ {s}) = Cardinality(started) - 1
    BY <1>1, FS_RemoveElement
  <2>2. s \in started => Cardinality(started) # 0
    BY <1>1, FS_EmptySet
  <2> QED
    BY <2>1, <2>2, <1>2
<1> QED
  BY <1>2, <1>3, <1>4

-----------------------------------------------------------------------------
(* The inductive invariant.                                                *)

LEMMA Initially == Init => IInv
<1> SUFFICES ASSUME Init PROVE IInv
  OBVIOUS
<1>1. TypeOK
  <2>1. stopsWatch \in BOOLEAN
    BY SinksAssumption DEF Init
  <2> QED
    BY <2>1 DEF Init, TypeOK, SourceStates
<1>2. PlaysMatchSources
  BY FS_EmptySet DEF Init, PlaysMatchSources
<1>3. StartedExist /\ WatchedForSomebody /\ HandingOut
  BY DEF Init, StartedExist, WatchedForSomebody, HandingOut
<1> QED
  BY <1>1, <1>2, <1>3 DEF IInv

\* The constructor.
LEMMA OpenKeeps ==
    ASSUME IInv, NEW s \in Sinks, Open(s)
    PROVE  IInv'
<1> USE DEF IInv, Open
<1>1. s \notin started
  BY DEF StartedExist
<1>2. TypeOK'
  BY DEF TypeOK, SourceStates
<1>3. PlaysMatchSources'
  BY <1>1, StartedCount DEF PlaysMatchSources
<1>4. StartedExist'
  BY DEF StartedExist, TypeOK
<1>5. WatchedForSomebody'
  BY DEF WatchedForSomebody, TypeOK
<1>6. HandingOut'
  BY DEF HandingOut, Quiet
<1> QED
  BY <1>2, <1>3, <1>4, <1>5, <1>6

\* The constructor, when play() throws.
LEMMA OpenFailsKeeps ==
    ASSUME IInv, NEW s \in Sinks, OpenFails(s)
    PROVE  IInv'
<1> USE DEF IInv, OpenFails
<1>1. TypeOK'
  BY DEF TypeOK, SourceStates
<1>2. PlaysMatchSources' /\ HandingOut'
  BY DEF PlaysMatchSources, HandingOut, Quiet
<1>3. StartedExist'
  BY DEF StartedExist, TypeOK
<1>4. WatchedForSomebody'
  BY DEF WatchedForSomebody, TypeOK
<1> QED
  BY <1>1, <1>2, <1>3, <1>4

\* doGetNextFrame().
LEMMA GetNextFrameKeeps ==
    ASSUME IInv, NEW s \in Sinks, GetNextFrame(s)
    PROVE  IInv'
<1> USE DEF IInv, GetNextFrame
<1>1. TypeOK'
  BY DEF TypeOK, SourceStates, resume
<1>2. PlaysMatchSources'
  BY DEF PlaysMatchSources
<1>3. StartedExist'
  BY DEF StartedExist, TypeOK
<1>4. WatchedForSomebody'
  BY DEF WatchedForSomebody, TypeOK, resume
<1>5. HandingOut'
  <2>1. todo' \subseteq attached'
    BY DEF HandingOut
  <2>2. todo # {} => users > 0
    BY NoUsers DEF HandingOut, PlaysMatchSources, TypeOK
  <2> QED
    BY <2>1, <2>2 DEF HandingOut, resume
<1> QED
  BY <1>1, <1>2, <1>3, <1>4, <1>5

\* doStopGettingFrames() and the destructor.
LEMMA CloseKeeps ==
    ASSUME IInv, NEW s \in Sinks, Close(s)
    PROVE  IInv'
<1> USE DEF IInv, Close
<1>1. PlaysMatchSources'
  BY StartedCount DEF PlaysMatchSources
<1>2. TypeOK'
  <2>1. users' = Cardinality(started \ {s})
    BY StartedCount DEF PlaysMatchSources
  <2>2. Cardinality(started \ {s}) \in Nat
    BY SinksAssumption, FS_Subset, FS_RemoveElement, FS_CardinalityType DEF TypeOK
  <2> QED
    BY <2>1, <2>2 DEF TypeOK, SourceStates, pause
<1>3. StartedExist'
  BY DEF StartedExist, TypeOK
<1>4. WatchedForSomebody'
  <2>1. CASE Playing(s) \/ (s \in started /\ stopsWatch)
    BY <2>1 DEF WatchedForSomebody, pause
  <2>2. CASE ~(Playing(s) \/ (s \in started /\ stopsWatch))
    <3>1. watching' = watching /\ source[s] # "awaiting"
      BY <2>2 DEF Playing
    <3>2. watching' /\ stopsWatch => users' > 0
      BY <2>2, <3>1 DEF WatchedForSomebody
    <3> QED
      BY <3>1, <3>2 DEF WatchedForSomebody, TypeOK
  <2> QED
    BY <2>1, <2>2
<1>5. HandingOut'
  BY DEF HandingOut, Quiet
<1> QED
  BY <1>1, <1>2, <1>3, <1>4, <1>5

\* The driver, watch_handler() and streamData().
LEMMA DeliveryKeeps ==
    ASSUME IInv, Encode \/ WatchHandler \/ \E s \in Sinks : HandTo(s)
    PROVE  IInv'
<1> USE DEF IInv
<1>1. CASE Encode
  BY <1>1 DEF Encode, TypeOK, PlaysMatchSources, StartedExist,
              WatchedForSomebody, HandingOut, Quiet
<1>2. CASE WatchHandler
  BY <1>2 DEF WatchHandler, TypeOK, PlaysMatchSources, StartedExist,
              WatchedForSomebody, HandingOut, Quiet
<1>3. ASSUME NEW s \in Sinks, HandTo(s)
      PROVE  IInv'
  <2> USE <1>3 DEF HandTo
  <2>1. TypeOK'
    BY DEF TypeOK, SourceStates, pause
  <2>2. PlaysMatchSources'
    BY DEF PlaysMatchSources
  <2>3. StartedExist'
    BY DEF StartedExist, TypeOK
  <2>4. WatchedForSomebody'
    BY DEF WatchedForSomebody, pause
  <2>5. HandingOut'
    <3>1. todo' \subseteq attached' /\ s \in started
      BY DEF HandingOut, PlaysMatchSources
    <3>2. CASE source[s] = "awaiting"
      BY <3>1, <3>2 DEF HandingOut, TypeOK
    <3>3. CASE source[s] # "awaiting"
      BY <3>1, <3>3 DEF HandingOut
    <3> QED
      BY <3>2, <3>3
  <2> QED
    BY <2>1, <2>2, <2>3, <2>4, <2>5
<1> QED
  BY <1>1, <1>2, <1>3

LEMMA Unchanged ==
    ASSUME IInv, UNCHANGED vars
    PROVE  IInv'
BY DEF IInv, vars, TypeOK, PlaysMatchSources, StartedExist,
       WatchedForSomebody, HandingOut

\* Through every order of opening, failing, reading, delivering and closing,
\* the encoder's count matches its sources and nobody is forgotten while a
\* frame is handed out.
THEOREM Invariant == Spec => []IInv
<1>1. IInv /\ [Next]_vars => IInv'
  <2> SUFFICES ASSUME IInv, [Next]_vars PROVE IInv'
    OBVIOUS
  <2> QED
    BY OpenKeeps, OpenFailsKeeps, GetNextFrameKeeps, CloseKeeps,
       DeliveryKeeps, Unchanged DEF Next
<1> QED
  BY Initially, <1>1, PTL DEF Spec

-----------------------------------------------------------------------------
(* What follows from it.                                                   *)

\* The state is well typed: stop() is never called once too often.
THEOREM TypeCorrect == Spec => []TypeOK
<1>1. IInv => TypeOK
  BY DEF IInv
<1> QED
  BY <1>1, Invariant, PTL

\* play() and stop() match: the encoder's count is the number of started
\* sources, and they are the sinks it delivers to.
THEOREM PlaysAlwaysMatchSources == Spec => []PlaysMatchSources
<1>1. IInv => PlaysMatchSources
  BY DEF IInv
<1> QED
  BY <1>1, Invariant, PTL

\* A channel that has been destroyed is only watched for a source whose
\* play() failed, and not at all where stop() stops the watcher.
THEOREM WatchedChannelAlwaysExists == Spec => []WatchedChannelExists
<1>1. IInv => WatchedChannelExists
  <2> SUFFICES ASSUME IInv, watching, users = 0
               PROVE  /\ ~stopsWatch
                      /\ \E s \in Sinks : source[s] = "awaiting" /\ s \notin started
    BY DEF WatchedChannelExists
  <2>1. started = {}
    BY NoUsers DEF IInv
  <2> QED
    BY <2>1, SinksAssumption DEF IInv, WatchedForSomebody
<1> QED
  BY <1>1, Invariant, PTL

\* A source that waits for a frame is left without anybody to fetch it only
\* by a step in which another source leaves.
THEOREM OnlyLeavingStrands == Spec => StrandedOnlyByLeaving
<1>1. ASSUME IInv, [Next]_vars, ~Stranded, Stranded'
      PROVE  \E s \in Sinks : LeavesWatchOff(s)
  <2> USE <1>1 DEF IInv
  <2>1. CASE UNCHANGED vars
    BY <2>1 DEF vars, Stranded, Quiet
  <2>2. ASSUME NEW s \in Sinks, Open(s) PROVE FALSE
    BY <2>2 DEF Open, Stranded, Quiet, StartedExist, TypeOK
  <2>3. ASSUME NEW s \in Sinks, OpenFails(s) PROVE FALSE
    BY <2>3, NoUsers DEF OpenFails, Stranded
  <2>4. ASSUME NEW s \in Sinks, GetNextFrame(s) PROVE FALSE
    <3>1. ~(users > 0)
      BY <2>4 DEF GetNextFrame, resume, Stranded
    <3>2. users = 0
      BY <3>1 DEF TypeOK
    <3> QED
      BY <2>4, <3>2, NoUsers DEF GetNextFrame, Stranded
  <2>5. ASSUME NEW s \in Sinks, Close(s) PROVE LeavesWatchOff(s)
    <3>1. CASE Playing(s) \/ stopsWatch
      BY <2>5, <3>1 DEF Close, LeavesWatchOff, TypeOK
    <3>2. CASE ~(Playing(s) \/ stopsWatch)
      BY <2>5, <3>2 DEF Close, Stranded, Quiet, Playing, TypeOK
    <3> QED
      BY <3>1, <3>2
  <2>6. CASE Encode
    BY <2>6 DEF Encode, Stranded, Quiet
  <2>7. CASE WatchHandler
    BY <2>7 DEF WatchHandler, Stranded
  <2>8. ASSUME NEW s \in Sinks, HandTo(s) PROVE FALSE
    <3>1. s \in started
      BY <2>8 DEF HandTo, HandingOut, PlaysMatchSources
    <3>2. CASE source[s] = "awaiting"
      BY <2>8, <3>1, <3>2 DEF HandTo, Stranded, TypeOK
    <3>3. CASE source[s] # "awaiting"
      BY <2>8, <3>3 DEF HandTo, Stranded, HandingOut
    <3> QED
      BY <3>2, <3>3
  <2> QED
    BY <2>1, <2>2, <2>3, <2>4, <2>5, <2>6, <2>7, <2>8 DEF Next
<1>2. IInv /\ [Next]_vars =>
        [~Stranded /\ Stranded' => \E s \in Sinks : LeavesWatchOff(s)]_vars
  BY <1>1
<1> QED
  BY <1>2, Invariant, PTL DEF Spec, StrandedOnlyByLeaving

-----------------------------------------------------------------------------
(* DESCRIBE.                                                               *)

\* A stream is done when its line is known, and from then on it has no dummy
\* sink: the handler that owned it finds nothing to close.
DoneIsDescribed ==
    /\ doneFlag = line
    /\ \A s \in line : dummy[s] = "none"

\* The timer that asks a dummy sink finds a closed one only after a signal.
CrashOnlyWhenTerminated == phase = "crashed" => terminated

\* Whoever waits waits for a check that is scheduled or has been made: the
\* dummy sink that a handler finds, or starts, is being asked.
EveryoneIsChecked ==
    /\ \A s \in Streams : dummy[s] # "none" => s \in nextTask
    /\ \A i \in 1..Len(nested) : nested[i].of \in nextTask \cup doneFlag

Sound == DoneIsDescribed /\ AnswersSound /\ CrashOnlyWhenTerminated

DescribeIInv == DescribeTypeOK /\ Sound /\ EveryoneIsChecked

LEMMA DescribeInitially == DescribeInit => DescribeIInv
<1> SUFFICES ASSUME DescribeInit PROVE DescribeIInv
  OBVIOUS
<1>1. nested \in Seq(Handlers) /\ Len(nested) = 0
  BY DEF DescribeInit
<1>2. DescribeTypeOK
  BY <1>1 DEF DescribeInit, DescribeTypeOK, DummyStates
<1>3. Sound /\ EveryoneIsChecked
  BY <1>1 DEF DescribeInit, Sound, DoneIsDescribed, AnswersSound, CrashOnlyWhenTerminated,
              EveryoneIsChecked
<1> QED
  BY <1>2, <1>3 DEF DescribeIInv

\* A handler begins to wait, on whatever sink.
LEMMA HandlerAdded ==
    ASSUME DescribeTypeOK, NEW h \in Handlers, doEventLoop(h), EveryoneIsChecked,
           nextTask \subseteq nextTask', doneFlag' = doneFlag,
           h.of \in nextTask' \cup doneFlag,
           \A s \in Streams : dummy'[s] # "none" => s \in nextTask'
    PROVE  nested' \in Seq(Handlers) /\ broken' \in BOOLEAN /\ EveryoneIsChecked'
<1>1. nested \in Seq(Handlers) /\ nested' = Append(nested, h) /\ broken' = FALSE
  BY DEF DescribeTypeOK, doEventLoop
<1>2. /\ nested' \in Seq(Handlers) /\ Len(nested') = Len(nested) + 1
      /\ Len(nested) \in Nat
      /\ \A i \in 1..Len(nested) : nested'[i] = nested[i]
      /\ nested'[Len(nested) + 1] = h
  BY <1>1, AppendProperties
<1>3. ASSUME NEW i \in 1..Len(nested')
      PROVE  nested'[i].of \in nextTask' \cup doneFlag'
  <2>1. CASE i \in 1..Len(nested)
    BY <1>2, <2>1 DEF EveryoneIsChecked
  <2>2. CASE i = Len(nested) + 1
    BY <1>2, <2>2
  <2> QED
    BY <1>2, <2>1, <2>2
<1> QED
  BY <1>1, <1>2, <1>3 DEF EveryoneIsChecked

LEMMA DescribeFirstStep ==
    ASSUME DescribeIInv, NEW s \in Streams, NEW plays \in BOOLEAN, DescribeFirst(s, plays)
    PROVE  DescribeIInv'
<1> DEFINE h == [of |-> s, plays |-> plays, owns |-> TRUE]
<1>1. DescribeTypeOK /\ h \in Handlers /\ doEventLoop(h)
  BY DEF DescribeIInv, DescribeFirst, Handlers
<1>3. /\ s \notin line
      /\ dummy' = [dummy EXCEPT ![s] = IF plays THEN "playing" ELSE "silent"]
      /\ UNCHANGED <<phase, line, doneFlag, sdp, terminated>>
      /\ nextTask' = nextTask \cup {s}
  BY DEF DescribeFirst, DescribeIInv, Sound, DoneIsDescribed
<1>2. nested' \in Seq(Handlers) /\ broken' \in BOOLEAN /\ EveryoneIsChecked'
  <2>1. \A r \in Streams : dummy'[r] # "none" => r \in nextTask'
    BY <1>3 DEF DescribeIInv, DescribeTypeOK, EveryoneIsChecked
  <2> QED
    BY <1>1, <1>3, <2>1, HandlerAdded DEF DescribeIInv
<1>4. fed' \subseteq Streams /\ nextTask' \subseteq Streams /\ starved' \subseteq Streams
  BY <1>1 DEF DescribeTypeOK, DescribeFirst
<1>5. DescribeTypeOK'
  BY <1>1, <1>2, <1>3, <1>4 DEF DescribeTypeOK, DummyStates
<1>6. Sound'
  BY <1>1, <1>3 DEF DescribeIInv, DescribeTypeOK, Sound, DoneIsDescribed, AnswersSound, CrashOnlyWhenTerminated
<1> QED
  BY <1>2, <1>5, <1>6 DEF DescribeIInv

LEMMA DescribeNextStep ==
    ASSUME DescribeIInv, NEW s \in Streams, NEW plays \in BOOLEAN, DescribeNext(s, plays)
    PROVE  DescribeIInv'
<1> DEFINE h == [of |-> s, plays |-> plays, owns |-> FALSE]
<1>1. DescribeTypeOK /\ h \in Handlers /\ doEventLoop(h)
  BY DEF DescribeIInv, DescribeNext, Handlers
<1>3. /\ UNCHANGED <<phase, line, dummy, fed, doneFlag, nextTask, starved, sdp, terminated>>
      /\ dummy[s] # "none"
  BY DEF DescribeNext, subsession
<1>2. nested' \in Seq(Handlers) /\ broken' \in BOOLEAN /\ EveryoneIsChecked'
  <2>1. h.of \in nextTask /\ \A r \in Streams : dummy[r] # "none" => r \in nextTask
    BY <1>3 DEF DescribeIInv, EveryoneIsChecked
  <2> QED
    BY <1>1, <1>3, <2>1, HandlerAdded DEF DescribeIInv
<1>5. DescribeTypeOK'
  BY <1>1, <1>2, <1>3 DEF DescribeTypeOK
<1>6. Sound'
  BY <1>3 DEF DescribeIInv, Sound, DoneIsDescribed, AnswersSound, CrashOnlyWhenTerminated
<1> QED
  BY <1>2, <1>5, <1>6 DEF DescribeIInv

\* The handler that returns is done, or the program is about to end.
LEMMA AnswerStep ==
    ASSUME DescribeIInv, Answer
    PROVE  DescribeIInv'
<1> DEFINE s == Innermost.of
<1>1. DescribeTypeOK /\ nested # <<>>
  BY DEF DescribeIInv, Answer
<1>2. /\ Innermost \in Handlers
      /\ s \in Streams
      /\ nested' \in Seq(Handlers)
      /\ \A i \in 1..Len(nested') : i \in 1..Len(nested) /\ nested'[i] = nested[i]
  <2>1. nested \in Seq(Handlers) /\ Len(nested) \in Nat /\ Len(nested) \in 1..Len(nested)
    BY <1>1 DEF DescribeTypeOK
  <2>2. Innermost \in Handlers
    BY <2>1 DEF Innermost
  <2>3. nested' = SubSeq(nested, 1, Len(nested) - 1)
    BY DEF Answer, Reply
  <2>4. 1 \in 1..Len(nested) + 1 /\ Len(nested) - 1 \in 0..Len(nested)
    BY <2>1
  <2>5. nested' \in Seq(Handlers)
    BY <2>1, <2>3, <2>4
  <2>6. Len(nested') = Len(nested) - 1
    <3> DEFINE n == Len(nested) - 1
    <3>1. n \in Int /\ n >= 0 /\ \A i \in 1..n : nested[i] \in Handlers
      BY <2>1
    <3> HIDE DEF n
    <3>2. Len(SubSeq(nested, 1, n)) = IF 1 <= n THEN n - 1 + 1 ELSE 0
      BY <3>1, SubSeqProperties
    <3>3. Len(SubSeq(nested, 1, n)) = n
      BY <3>1, <3>2
    <3> QED
      BY <2>3, <3>3 DEF n
  <2>7. \A i \in 1..(Len(nested) - 1) : nested'[i] = nested[i]
    BY <2>1, <2>3, <2>4
  <2> QED
    BY <2>1, <2>2, <2>5, <2>6, <2>7 DEF Handlers
<1>3. /\ sdp' = [sdp EXCEPT ![s] = IF s \in line THEN "full" ELSE "bare"]
      /\ dummy' = IF Innermost.owns /\ dummy[s] # "none"
                  THEN [dummy EXCEPT ![s] = "closed"] ELSE dummy
      /\ UNCHANGED <<phase, line, fed, doneFlag, nextTask, starved, terminated, broken>>
  BY DEF Answer, Reply, signals
<1>4. s \in line \/ terminated
  BY DEF Answer, DescribeIInv, Sound, DoneIsDescribed
<1> HIDE DEF s
<1>5. DescribeTypeOK'
  BY <1>1, <1>2, <1>3 DEF DescribeTypeOK, DummyStates
<1>6. DoneIsDescribed'
  BY <1>2, <1>3 DEF DescribeIInv, Sound, DescribeTypeOK, DoneIsDescribed
<1>7. AnswersSound'
  BY <1>2, <1>3, <1>4 DEF DescribeIInv, Sound, DescribeTypeOK, DoneIsDescribed, AnswersSound
<1>8. CrashOnlyWhenTerminated'
  BY <1>3 DEF DescribeIInv, Sound, CrashOnlyWhenTerminated
<1>9. EveryoneIsChecked'
  <2>1. ASSUME NEW r \in Streams, dummy'[r] # "none"
        PROVE  dummy[r] # "none"
    BY <1>1, <1>2, <1>3, <2>1 DEF DescribeTypeOK
  <2> QED
    BY <1>2, <1>3, <2>1 DEF DescribeIInv, EveryoneIsChecked
<1> QED
  BY <1>5, <1>6, <1>7, <1>8, <1>9 DEF DescribeIInv, Sound

\* The line is stored, the sink forgotten and the flag set at once.
LEMMA CheckStep ==
    ASSUME DescribeIInv, NEW s \in Streams, CheckForAuxSDPLine(s)
    PROVE  DescribeIInv'
<1>1. CASE SetsSeen(s)
  <2>1. /\ line' = line \cup {s} /\ doneFlag' = doneFlag \cup {s}
        /\ nextTask' = nextTask \ {s}
        /\ dummy' = IF s \in line THEN dummy ELSE [dummy EXCEPT ![s] = "none"]
        /\ UNCHANGED <<phase, nested, fed, starved, sdp, terminated, broken>>
    BY <1>1 DEF CheckForAuxSDPLine, signals
  <2>2. DescribeTypeOK'
    BY <2>1 DEF DescribeIInv, DescribeTypeOK, DummyStates
  <2>3. Sound'
    BY <2>1 DEF DescribeIInv, Sound, DescribeTypeOK, DoneIsDescribed, AnswersSound, CrashOnlyWhenTerminated
  <2>4. EveryoneIsChecked'
    <3>1. dummy'[s] = "none" /\ \A r \in Streams \ {s} : dummy'[r] = dummy[r]
      BY <2>1 DEF DescribeIInv, Sound, DescribeTypeOK, DoneIsDescribed
    <3> QED
      BY <2>1, <3>1 DEF DescribeIInv, EveryoneIsChecked
  <2> QED
    BY <2>2, <2>3, <2>4 DEF DescribeIInv
<1>2. CASE ~SetsSeen(s)
  <2>1. /\ nextTask' = IF s \in doneFlag THEN nextTask \ {s} ELSE nextTask
        /\ UNCHANGED <<phase, nested, line, dummy, doneFlag, fed, starved, sdp, terminated, broken>>
    BY <1>2 DEF CheckForAuxSDPLine, signals
  <2>2. DescribeTypeOK' /\ Sound'
    BY <2>1 DEF DescribeIInv, Sound, DescribeTypeOK, DoneIsDescribed, AnswersSound, CrashOnlyWhenTerminated
  <2>3. EveryoneIsChecked'
    BY <2>1 DEF DescribeIInv, Sound, DoneIsDescribed, EveryoneIsChecked
  <2> QED
    BY <2>2, <2>3 DEF DescribeIInv
<1> QED
  BY <1>1, <1>2

\* The others leave the subsession as it is.
LEMMA OtherSteps ==
    ASSUME DescribeIInv,
           \/ \E s \in Streams : \/ CheckClosedSink(s) \/ Feed(s)
                                 \/ ReaderLeaves(s) \/ ReaderAsks(s)
           \/ Terminate \/ End \/ UNCHANGED describeVars
    PROVE  DescribeIInv'
<1>1. /\ UNCHANGED <<nested, line, dummy, doneFlag, nextTask, sdp>>
      /\ fed' \subseteq Streams /\ starved' \subseteq Streams
      /\ terminated => terminated'
      /\ terminated' \in BOOLEAN /\ broken' \in BOOLEAN
      /\ phase' \in {"up", "ended", "crashed"}
  BY DEF DescribeIInv, DescribeTypeOK, CheckClosedSink, Feed, ReaderLeaves, ReaderAsks, Terminate, End,
         describeVars, subsession, signals
<1>2. phase' = "crashed" => terminated'
  BY <1>1 DEF DescribeIInv, Sound, AnswersSound, CrashOnlyWhenTerminated, CheckClosedSink, Feed,
         ReaderLeaves, ReaderAsks, Terminate, End, describeVars
<1> QED
  BY <1>1, <1>2 DEF DescribeIInv, Sound, DescribeTypeOK, DoneIsDescribed, AnswersSound,
                    CrashOnlyWhenTerminated, EveryoneIsChecked

\* The inductive invariant holds.
THEOREM DescribeInvariant == DescribeSpec => []DescribeIInv
<1>1. DescribeIInv /\ [DescribeSteps]_describeVars => DescribeIInv'
  BY DescribeFirstStep, DescribeNextStep, AnswerStep, CheckStep, OtherSteps DEF DescribeSteps
<1> QED
  BY <1>1, DescribeInitially, PTL DEF DescribeSpec

\* However many handlers of DESCRIBE nest, and in whatever order they return:
\* no description is kept without its parameter sets, and fDummyRTPSink never
\* points to a closed sink, before a signal ends the program.
THEOREM AnswersAlwaysSound == DescribeSpec => []AnswersSound
<1>1. DescribeIInv => AnswersSound
  BY DEF DescribeIInv, Sound
<1> QED
  BY <1>1, DescribeInvariant, PTL

\* The program reads the memory of a closed sink only after a signal.
THEOREM CrashesOnlyWhenTerminated == DescribeSpec => []CrashOnlyWhenTerminated
<1>1. DescribeIInv => CrashOnlyWhenTerminated
  BY DEF DescribeIInv, Sound
<1> QED
  BY <1>1, DescribeInvariant, PTL

\* No handler waits for a check that will never be made.
THEOREM EveryoneAlwaysChecked == DescribeSpec => []EveryoneIsChecked
<1>1. DescribeIInv => EveryoneIsChecked
  BY DEF DescribeIInv
<1> QED
  BY <1>1, DescribeInvariant, PTL
=============================================================================

