---------------------------- MODULE MediaElement ----------------------------
(***************************************************************************)
(* MediaElement::enable and disable, statement by statement.               *)
(*                                                                         *)
(* enable() counts, enables its source first when it is the first user,    *)
(* then runs the element's own doEnableElement().  Either of the two may   *)
(* throw: the element then gives back what it has obtained, in reverse,    *)
(* and rethrows to the enable() that called it.  disable() undoes it, from *)
(* the reader towards the sensor.                                          *)
(*                                                                         *)
(* The recursion over _source is the chain of enable() calls from target,  *)
(* the element the caller enables, to current, the innermost one; those in *)
(* between, and target itself, are waiting for their source's enable().    *)
(*                                                                         *)
(* All calls come from the callbacks of one libev loop: a new one starts   *)
(* only when the previous one has returned.                                *)
(***************************************************************************)
EXTENDS ElementTree

CONSTANT MaxHolds   \* bound: how many times one element is held at once

ASSUME MaxHoldsAssumption == MaxHolds \in Nat \ {0}

VARIABLES
    count,      \* count[e] is e._enable_count
    up,         \* the elements whose doEnableElement() has succeeded
    holds,      \* holds[e]: successful enable()s of e by callers, not given back
    target,     \* the element the caller's enable() is for, or NoElement
    current,    \* the element whose enable() is innermost, or NoElement
    waiting,    \* the elements whose enable() waits for their source
    mode,       \* the statement that is next
    cursor      \* in "release": the element disable() is called on

vars == <<count, up, holds, target, current, waiting, mode, cursor>>

Modes == {"idle",       \* no call is active
          "enter",      \* the enable() of current begins
          "start",      \* its source is enabled, doEnableElement() is next
          "release",    \* the disable() of cursor begins
          "throw",      \* the enable() of current counts back and rethrows
          "return"}     \* the enable() of target returns to the caller

TypeOK ==
    /\ count \in [Elements -> Nat]
    /\ up \subseteq Elements
    /\ holds \in [Elements -> Nat]
    /\ target \in Elements \cup {NoElement}
    /\ current \in Elements \cup {NoElement}
    /\ waiting \subseteq Elements
    /\ mode \in Modes
    /\ cursor \in Elements \cup {NoElement}

Init ==
    /\ count = [e \in Elements |-> 0]
    /\ up = {}
    /\ holds = [e \in Elements |-> 0]
    /\ target = NoElement
    /\ current = NoElement
    /\ waiting = {}
    /\ mode = "idle"
    /\ cursor = NoElement

-----------------------------------------------------------------------------
(* Returning from a call.                                                  *)

\* The enable() of current is over: the reader that called it is innermost.
BackToReader ==
    \E r \in waiting :
        /\ Source[r] = current
        /\ current' = r
        /\ waiting' = waiting \ {r}

\* It returns normally: the reader's doEnableElement() is next.
ReturnFromCurrent ==
    IF current = target
    THEN mode' = "return" /\ UNCHANGED <<current, waiting>>
    ELSE mode' = "start" /\ BackToReader

\* It throws to the reader, or to the caller.
RethrowFromCurrent ==
    /\ IF current = target
       THEN /\ mode' = "idle"
            /\ target' = NoElement
            /\ current' = NoElement
            /\ UNCHANGED waiting
       ELSE BackToReader /\ UNCHANGED <<mode, target>>
    /\ UNCHANGED <<up, holds, cursor>>

\* The disable() of cursor is over: back to the enable() that is failing,
\* or to the caller.
Released ==
    /\ cursor' = NoElement
    /\ mode' = IF current # NoElement THEN "throw" ELSE "idle"

-----------------------------------------------------------------------------
(* Seeded bugs: each breaks one of the properties below.                   *)

\* The catch of doEnableElement() forgets _source->disable().
DoEnableFailsKeepsSource ==
    /\ mode = "start"
    /\ mode' = "throw"
    /\ UNCHANGED <<count, up, holds, target, current, waiting, cursor>>

\* The catch of _source->enable() disables the source, which had failed.
RethrowReleasesSource ==
    /\ mode = "throw"
    /\ count' = [count EXCEPT ![current] = @ - 1]
    /\ IF current = target
       THEN mode' = "idle" /\ target' = NoElement /\ current' = NoElement
            /\ UNCHANGED <<waiting, cursor>>
       ELSE BackToReader /\ mode' = "release" /\ cursor' = current /\ UNCHANGED target
    /\ UNCHANGED <<up, holds>>

\* The failed enable() is tried again.
RethrowRetries ==
    /\ mode = "throw"
    /\ count' = [count EXCEPT ![current] = @ - 1]
    /\ mode' = "enter"
    /\ UNCHANGED <<up, holds, target, current, waiting, cursor>>

\* The last user does not give the source back.
LastUserKeepsSource ==
    /\ mode = "release"
    /\ count[cursor] = 1
    /\ count' = [count EXCEPT ![cursor] = @ - 1]
    /\ up' = up \ {cursor}
    /\ Released
    /\ UNCHANGED <<holds, target, current, waiting>>

\* The element is torn down for every user that leaves.
AnyUserTearsDown ==
    /\ mode = "release"
    /\ count[cursor] >= 1
    /\ count' = [count EXCEPT ![cursor] = @ - 1]
    /\ up' = up \ {cursor}
    /\ IF HasSource(cursor)
       THEN cursor' = Source[cursor] /\ UNCHANGED mode
       ELSE Released
    /\ UNCHANGED <<holds, target, current, waiting>>

-----------------------------------------------------------------------------
(* Callers: MEFLAGS_INITIAL_ENABLED, RTSP sessions, audio sinks.           *)

CallEnable(e) ==
    /\ mode = "idle"
    /\ holds[e] < MaxHolds
    /\ target' = e
    /\ current' = e
    /\ mode' = "enter"
    /\ UNCHANGED <<count, up, holds, waiting, cursor>>

CallDisable(e) ==
    /\ mode = "idle"
    /\ holds[e] > 0
    /\ holds' = [holds EXCEPT ![e] = @ - 1]
    /\ mode' = "release"
    /\ cursor' = e
    /\ UNCHANGED <<count, up, target, current, waiting>>

-----------------------------------------------------------------------------
(* enable()                                                                *)

\* if (_enable_count++ == 0) { if (_source) ...
FirstUser ==
    /\ mode = "enter"
    /\ count[current] = 0
    /\ count' = [count EXCEPT ![current] = @ + 1]
    /\ IF HasSource(current)
       THEN /\ waiting' = waiting \cup {current}
            /\ current' = Source[current]
            /\ UNCHANGED mode
       ELSE /\ mode' = "start"
            /\ UNCHANGED <<waiting, current>>
    /\ UNCHANGED <<up, holds, target, cursor>>

FurtherUser ==
    /\ mode = "enter"
    /\ count[current] > 0
    /\ count' = [count EXCEPT ![current] = @ + 1]
    /\ ReturnFromCurrent
    /\ UNCHANGED <<up, holds, target, cursor>>

DoEnableOK ==
    /\ mode = "start"
    /\ up' = up \cup {current}
    /\ ReturnFromCurrent
    /\ UNCHANGED <<count, holds, target, cursor>>

\* catch: if (_source) _source->disable();
DoEnableFails ==
    /\ mode = "start"
    /\ IF HasSource(current)
       THEN mode' = "release" /\ cursor' = Source[current]
       ELSE mode' = "throw" /\ UNCHANGED cursor
    /\ UNCHANGED <<count, up, holds, target, current, waiting>>

\* _enable_count--; throw e; the reader's catch then does the same.
Rethrow ==
    /\ mode = "throw"
    /\ count' = [count EXCEPT ![current] = @ - 1]
    /\ RethrowFromCurrent

Return ==
    /\ mode = "return"
    /\ holds' = [holds EXCEPT ![target] = @ + 1]
    /\ mode' = "idle"
    /\ target' = NoElement
    /\ current' = NoElement
    /\ UNCHANGED <<count, up, waiting, cursor>>

-----------------------------------------------------------------------------
(* disable()                                                               *)

LastUser ==
    /\ mode = "release"
    /\ count[cursor] = 1
    /\ count' = [count EXCEPT ![cursor] = @ - 1]
    /\ up' = up \ {cursor}
    /\ IF HasSource(cursor)
       THEN cursor' = Source[cursor] /\ UNCHANGED mode
       ELSE Released
    /\ UNCHANGED <<holds, target, current, waiting>>

OtherUsersRemain ==
    /\ mode = "release"
    /\ count[cursor] > 1
    /\ count' = [count EXCEPT ![cursor] = @ - 1]
    /\ Released
    /\ UNCHANGED <<up, holds, target, current, waiting>>

-----------------------------------------------------------------------------
Caller == \E e \in Elements : CallEnable(e) \/ CallDisable(e)

Call ==
    \/ FirstUser \/ FurtherUser \/ DoEnableOK \/ DoEnableFails
    \/ Rethrow \/ Return \/ LastUser \/ OtherUsersRemain

Next == Caller \/ Call

\* A callback of the event loop runs to its end; nobody owes another call.
Spec == Init /\ [][Next]_vars /\ WF_vars(Call)

-----------------------------------------------------------------------------
(* Properties.                                                             *)

\* assert(_enable_count > 0) in disable() and assert(_enable_count >= 0) in
\* enable() hold: no sequence of calls, failures included, gives an element
\* back more often than it was taken.
AssertsHold == mode = "release" => count[cursor] > 0

\* At every statement, also in the middle of a failing enable(), an element
\* that is up has a source that is up: no stage is left reading a stage
\* that has been torn down.
SourceUp == \A e \in up : HasSource(e) => Source[e] \in up

\* Between two calls an element's count is what its callers hold plus one
\* for every enabled reader, whatever failed before: no reference is lost
\* or leaked by the undo paths of enable().
CountsAccounted ==
    mode = "idle" =>
        \A e \in Elements :
            count[e] = holds[e] + Cardinality({r \in Readers(e) : count[r] > 0})

\* Between two calls is_enabled() tells the truth about the driver object.
EnabledIffUp == mode = "idle" => \A e \in Elements : count[e] > 0 <=> e \in up

\* Between two calls exactly the stages that some caller holds, directly or
\* through their readers, are up: an enable() that threw has left nothing
\* running behind it, and has stopped nothing that others use.
Needed[e \in Elements] ==
    \/ holds[e] > 0
    \/ \E r \in Readers(e) : Needed[r]

UpIffNeeded == mode = "idle" => \A e \in Elements : e \in up <=> Needed[e]

Abstract == INSTANCE RunningTree WITH running <- up

\* enable() and disable(), with their failures, implement the abstract
\* promise: step by step, and in that what nobody needs is stopped.
ImplementsRunningTree == Abstract!Spec

\* Every enable() and disable() returns or throws to its caller: the walk
\* along _source, up, down and back, ends.
CallsEnd == mode # "idle" ~> mode = "idle"

-----------------------------------------------------------------------------
(* The inductive invariant.                                                *)

\* The calls in progress are along one chain, which ends at target: nothing
\* of it is between a waiting element and its source.
CallsAreAChain ==
    /\ waiting # {} => current # NoElement
    /\ current # NoElement <=> target # NoElement
    /\ target # NoElement => target \in waiting \cup {current}
    /\ \A w \in waiting :
         /\ HasSource(w)
         /\ Source[w] \in waiting \cup {current}
         /\ Created[current] < Created[w]
         /\ Created[w] <= Created[target]
         /\ \A v \in waiting \ {w} :
              \/ Created[v] <= Created[Source[w]]
              \/ Created[w] <= Created[Source[v]]
    /\ \A e \in waiting \cup {current} :
         e # target => \E w \in waiting : Source[w] = e

ModeFits ==
    /\ mode = "idle" => current = NoElement
    /\ mode \in {"enter", "start", "throw", "return"} => current # NoElement
    /\ mode = "return" => current = target
    /\ mode = "release" <=> cursor # NoElement
    /\ mode = "release" /\ current # NoElement => Created[cursor] < Created[current]

\* The elements whose enable() has counted and is not yet through.
Busy ==
    waiting \cup IF mode \in {"start", "release", "throw"} /\ current # NoElement
                 THEN {current}
                 ELSE {}

BusyCountedOnce == \A e \in Busy : count[e] = 1 /\ e \notin up

\* The element whose use of its source is not yet, or no more, counted there.
Pending ==
    IF mode = "enter" THEN {w \in waiting : Source[w] = current}
    ELSE IF mode \in {"release", "throw"} THEN {current}
    ELSE {}

\* The elements whose use of their source is counted there.
Linked == {r \in Elements : HasSource(r) /\ count[r] > 0} \ Pending

\* What the calls in progress add to a count: the caller's enable(), once it
\* has counted, and the disable() that is about to count back.
InProgress(e) ==
    (IF e = target /\ ~(mode = "enter" /\ current = target) THEN 1 ELSE 0)
      + (IF e = cursor THEN 1 ELSE 0)

EveryCountAccounted ==
    \A e \in Elements :
        count[e] = holds[e] + Cardinality({r \in Linked : Source[r] = e}) + InProgress(e)

UpIffCounted == \A e \in Elements : e \in up <=> count[e] > 0 /\ e \notin Busy

IInv ==
    /\ TypeOK
    /\ CallsAreAChain
    /\ ModeFits
    /\ BusyCountedOnce
    /\ EveryCountAccounted
    /\ UpIffCounted
    /\ SourceUp
=============================================================================
