------------------------------- MODULE Pipes --------------------------------
(***************************************************************************)
(* HimppMedia: the elements that its arguments describe, those that are    *)
(* enabled as long as it lives, and its end.                               *)
(*                                                                         *)
(* An argument `pipe' is a sequence of element descriptions, a name with   *)
(* parameters each, which are taken one after the other: one Mention per   *)
(* turn of the loop.  How enable() and disable() work through a chain is   *)
(* the subject of MediaElement; here an element is up if it or one that    *)
(* reads it, at whatever distance, is held.                                *)
(***************************************************************************)
EXTENDS Naturals, Sequences, FiniteSets, Functions

CONSTANTS
    Names,          \* names a description may mention
    Kind,           \* what the name begins with; "": nothing that is known
    None,           \* NULL
    MaxMentions,    \* bound: descriptions on the command line
    MaxSinks,       \* bound: audio outputs on the command line
    MaxClients      \* bound: clients of one stream

ASSUME PipesAssumption ==
    /\ IsFiniteSet(Names)
    /\ None \notin Names
    /\ DOMAIN Kind = Names
    /\ {MaxMentions, MaxSinks, MaxClients} \subseteq Nat

VARIABLES
    platform,
    phase,      \* where the program is
    last,       \* last_element of the pipe that is being built
    mentions,   \* descriptions read
    elements,   \* _elements, in the order they were created
    source,     \* source[e] is e's _source
    flagged,    \* the elements with MEFLAGS_INITIAL_ENABLED
    streams,    \* what RTSP clients can play
    sinks,      \* _audiosinks
    todo,       \* what the loop over elements or sinks has still to do
    sys,        \* _sysctl is enabled
    holds       \* holds[e]: enable() calls on e that were not given back

tables == <<elements, source, flagged>>
args == <<platform, last, mentions, tables, streams, sinks>>
vars == <<args, phase, todo, sys, holds>>

Platforms == {"hi3516ev200", "hi3516cv300", "hi3518v200"}
Video == {"isp", "videv", "vichn", "vpgrp", "vpchn", "vechn", "ircut"}
Audio == {"acodec", "aidev", "aichn", "aechn", "aodev", "aochn", "adchn"}
Known == Video \cup Audio

\* The first element of a video pipe: it has the sensor.
SensorKind == IF platform = "hi3516ev200" THEN "videv" ELSE "isp"

\* Kinds that need no element before them.
Rootless == {SensorKind, "ircut", "acodec"}

Exists(n) == n \in Range(elements)

\* The elements that run if those of h are held.
Up(h) ==
    LET Above[e \in Names \cup {None}] ==
            IF e = None THEN {} ELSE {e} \cup Above[source[e]]
    IN  UNION {Above[e] : e \in {n \in Names : h[n] > 0}}

Init ==
    /\ platform \in Platforms
    /\ phase = "args"
    /\ last = None /\ mentions = 0
    /\ elements = <<>>
    /\ source = [n \in Names |-> None]
    /\ flagged = {} /\ streams = {} /\ sinks = <<>> /\ todo = {}
    /\ sys = FALSE
    /\ holds = [n \in Names |-> 0]

\* An exception that nobody catches, or a NULL that is used.
Abort ==
    /\ phase' = "aborted"
    /\ UNCHANGED <<args, todo, sys, holds>>

-----------------------------------------------------------------------------
(* Arguments.                                                              *)

NextPipe ==
    /\ phase = "args" /\ mentions < MaxMentions
    /\ phase' = "pipe" /\ last' = None
    /\ UNCHANGED <<platform, mentions, tables, streams, sinks, todo, sys, holds>>

\* The end of the description, or an error in it: the rest is not looked at,
\* what was built before it stays.
EndPipe ==
    /\ phase = "pipe"
    /\ phase' = "args" /\ last' = None
    /\ UNCHANGED <<platform, mentions, tables, streams, sinks, todo, sys, holds>>

\* The audio codec has no source, and an element of the other kind of media is none.
Before(n) ==
    IF last = None \/ Kind[n] = "acodec" \/ (Kind[last] \in Video) # (Kind[n] \in Video)
    THEN None
    ELSE last

\* Seeded bug: an element that exists gets the new source.
AddElementMoves(n) ==
    /\ elements' = IF Exists(n) THEN elements ELSE Append(elements, n)
    /\ source' = [source EXCEPT ![n] = Before(n)]
    /\ last' = n

\* add_element: what exists is taken as it is.
AddElement(n) ==
    /\ IF Exists(n)
       THEN UNCHANGED <<elements, source>>
       ELSE /\ elements' = Append(elements, n)
            /\ source' = [source EXCEPT ![n] = Before(n)]
    /\ last' = n

Mentioned(n) ==
    /\ phase = "pipe" /\ mentions < MaxMentions
    /\ mentions' = mentions + 1

\* The element is added, and enabled from the start if the description says so.
Mention(n, enable) ==
    /\ Mentioned(n)
    /\ Kind[n] \in Known
    /\ Kind[n] \in Rootless \/ last # None \/ Exists(n)
    /\ AddElement(n)
    /\ flagged' = IF enable THEN flagged \cup {n} ELSE flagged
    /\ UNCHANGED <<platform, phase, streams, sinks, todo, sys, holds>>

\* A name that says nothing is passed over: "enable" is about the one before.
MentionUnknown(n, enable) ==
    /\ Mentioned(n)
    /\ Kind[n] \notin Known
    /\ enable => last # None
    /\ flagged' = IF enable THEN flagged \cup {last} ELSE flagged
    /\ UNCHANGED <<platform, phase, last, elements, source, streams, sinks, todo, sys, holds>>

\* No number where one is needed, a sensor that is not in the table, a setter
\* that refuses: the program ends, as it does if "enable" is about nothing.
MentionThrows ==
    /\ phase = "pipe" /\ mentions < MaxMentions
    /\ Abort

\* stream: the encoder is handed to the RTSP server, if there is one of that name
\* by now.  vsrc, venc, asrc and aenc do the same for D-Bus objects, which enable
\* nothing.
Offer(n) ==
    /\ phase = "args"
    /\ Exists(n) /\ Kind[n] \in {"vechn", "aechn"}
    /\ streams' = streams \cup {n}
    /\ UNCHANGED <<platform, phase, last, mentions, tables, sinks, todo, sys, holds>>

\* aout: the same sink may be named more than once.
AudioOut(n) ==
    /\ phase = "args" /\ Len(sinks) < MaxSinks
    /\ Exists(n) /\ Kind[n] = "adchn"
    /\ sinks' = Append(sinks, n)
    /\ UNCHANGED <<platform, phase, last, mentions, tables, streams, todo, sys, holds>>

-----------------------------------------------------------------------------
(* The rest of the constructor, the life and the destructor.               *)

Hold(e) == holds' = [holds EXCEPT ![e] = @ + 1]
Release(e) == holds' = [holds EXCEPT ![e] = @ - 1]
Places == {<<k, sinks[k]>> : k \in DOMAIN sinks}
In(p) == phase = p /\ UNCHANGED <<args, phase>>
Then(p, work) == phase' = p /\ todo' = work /\ UNCHANGED args

\* Enabling an element that has lost its source, being behind an element of the
\* other kind of media, uses a NULL.
Rooted(e) == \A a \in Up([n \in Names |-> IF n = e THEN 1 ELSE 0]) :
                 source[a] = None => Kind[a] \in Rootless

EnableSystem ==
    /\ phase = "args"
    /\ Then("enable", flagged)
    /\ sys' = TRUE /\ UNCHANGED holds

\* In the order of the hash table.
EnableInitial(e) ==
    /\ In("enable") /\ e \in todo /\ Rooted(e)
    /\ todo' = todo \ {e}
    /\ Hold(e) /\ UNCHANGED sys

Enabled ==
    /\ phase = "enable" /\ todo = {}
    /\ Then("play", Places)
    /\ UNCHANGED <<sys, holds>>

PlaySink(p) ==
    /\ In("play") /\ p \in todo /\ Rooted(p[2])
    /\ todo' = todo \ {p}
    /\ Hold(p[2]) /\ UNCHANGED sys

Constructed ==
    /\ phase = "play" /\ todo = {}
    /\ Then("run", {})
    /\ UNCHANGED <<sys, holds>>

\* The system or an element cannot be enabled: nobody catches that.
ConstructionFails == phase \in {"args", "enable", "play"} /\ Abort

ClientCrashes(e) == phase = "run" /\ e \in streams /\ ~Rooted(e) /\ Abort

ClientPlays(e) ==
    /\ In("run") /\ e \in streams /\ Rooted(e) /\ holds[e] < MaxClients
    /\ Hold(e) /\ UNCHANGED <<todo, sys>>

\* What it holds beyond the initial enable.
Clients(e) == holds[e] - Cardinality({e} \cap flagged)

ClientStops(e) ==
    /\ In("run") /\ e \in streams /\ Clients(e) > 0
    /\ Release(e) /\ UNCHANGED <<todo, sys>>

\* A signal ends the loop; the RTSP server is closed, and its clients with it,
\* before the destructor runs.
Terminate ==
    /\ phase = "run" /\ Then("stop", Places)
    /\ holds' = [e \in Names |-> IF e \in streams THEN holds[e] - Clients(e) ELSE holds[e]]
    /\ UNCHANGED sys

StopSink(p) ==
    /\ In("stop") /\ p \in todo
    /\ todo' = todo \ {p}
    /\ Release(p[2]) /\ UNCHANGED sys

Stopped ==
    /\ phase = "stop" /\ todo = {}
    /\ Then("disable", flagged)
    /\ UNCHANGED <<sys, holds>>

DisableInitial(e) ==
    /\ In("disable") /\ e \in todo
    /\ todo' = todo \ {e}
    /\ Release(e) /\ UNCHANGED sys

\* Seeded bug: the system goes down before the elements.
DisableSystemFirst ==
    /\ phase = "disable"
    /\ Then(IF todo = {} THEN "ended" ELSE "disable", todo)
    /\ sys' = FALSE /\ UNCHANGED holds

DisableSystem ==
    /\ phase = "disable" /\ todo = {}
    /\ Then("ended", {})
    /\ sys' = FALSE /\ UNCHANGED holds

Next ==
    \/ NextPipe \/ EndPipe \/ MentionThrows
    \/ \E n \in Names, enable \in BOOLEAN : Mention(n, enable) \/ MentionUnknown(n, enable)
    \/ \E n \in Names : Offer(n) \/ AudioOut(n)
    \/ EnableSystem \/ Enabled \/ Constructed \/ ConstructionFails
    \/ \E e \in Names : EnableInitial(e) \/ ClientPlays(e) \/ ClientStops(e) \/ ClientCrashes(e)
                         \/ DisableInitial(e)
    \/ \E p \in todo : PlaySink(p) \/ StopSink(p)
    \/ Terminate \/ Stopped \/ DisableSystem

Spec == Init /\ [][Next]_vars

-----------------------------------------------------------------------------
(* Properties.                                                             *)

\* However pipes share elements, in whatever order they mention them and
\* wherever a description breaks off, the sources form a forest in the order of
\* creation: what ElementTree assumes of them.
Forest ==
    /\ IsInjective(elements)
    /\ \A j \in DOMAIN elements :
          source[elements[j]] # None => \E i \in 1 .. j - 1 : elements[i] = source[elements[j]]

\* Elements are up only while the system is, and whatever was enabled at the
\* start, listed as an output more than once or played by clients, the
\* destructor gives back all of it and nothing twice.
AllGivenBack ==
    /\ Up(holds) # {} => sys
    /\ \A e \in Names : holds[e] >= 0
    /\ phase = "ended" => Up(holds) = {}
=============================================================================
