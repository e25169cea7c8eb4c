------------------------------ MODULE Imaging -------------------------------
(***************************************************************************)
(* The picture settings.  A client sets a property of the video source at  *)
(* the end of its pipe; the call goes from stage to stage, towards the     *)
(* sensor, to the first one that implements it.  While that stage is       *)
(* enabled the driver is told, otherwise the value waits for the start.    *)
(* Several pipes share stages.                                             *)
(***************************************************************************)
EXTENDS Settings, Sequences

CONSTANTS
    Pipes,      \* stages: their settings, from the top; offline: how the capture
                \* device runs; ends: the stages where a pipe ends; watched:
                \* the properties that clients use
    Words       \* what they write

Bus == INSTANCE DBusVideoSource
Base == INSTANCE VideoSource

ASSUME HandlersAssumption == Bus!Properties \subseteq Base!Properties

\* The colours of an ISP are in no list of its start.
Unlisted(n, setting) ==
    /\ n \in {"Imaging"} \X {"Brightness", "Contrast", "Chroma", "Saturation"}
    /\ setting.conv = "byte"

\* Every other setting that the driver has is in a list, and the curves, which
\* all are the driver's, are those that are read back.
ASSUME PipesAssumption ==
    \A p \in Pipes :
        /\ Len(p.stages) \in Nat /\ DOMAIN p.stages = 1..Len(p.stages)
        /\ p.ends \subseteq DOMAIN p.stages
        /\ \A i \in DOMAIN p.stages : \A n \in DOMAIN p.stages[i] :
              LET setting == p.stages[i][n]
              IN  /\ setting.attr = "none" \/ setting.start # "never" \/ Unlisted(n, setting)
                  /\ setting.conv = "curve" <=> setting.start = "read back"
                  /\ setting.conv = "curve" => setting.attr # "none"

VARIABLES
    pipe,
    level,      \* how many stages are up, the lowest ones
    field,      \* the member that a setter stores
    driver,     \* what is in effect
    \* history
    asked,      \* the last value whose setter returned
    lost        \* settings that the last start was refused, or does not write

imagingVars == <<pipe, level, field, driver, asked, lost>>

Depth == Len(pipe.stages)
Up(i) == i > Depth - level
Implements(i, n) == n \in DOMAIN pipe.stages[i]
Slots == {s \in (1..Depth) \X pipe.watched : Implements(s[1], s[2])}
Setting(s) == pipe.stages[s[1]][s[2]]
SlotsOf(i) == {s \in Slots : s[1] = i}
Given(s) == Setting(s).attr # "none"

ImagingInit ==
    /\ pipe \in Pipes
    /\ level = 0
    /\ field = [s \in Slots |-> 0]
    /\ driver = [s \in Slots |-> Factory]
    /\ asked = field
    /\ lost = {}

-----------------------------------------------------------------------------
\* The stages that answer a call made at the end e of a pipe: none, when the
\* property is in no table or nobody implements it.
Homes(e, n) ==
    {i \in e..Depth :
        /\ n \in Bus!Properties
        /\ Implements(i, n)
        /\ \A j \in e..(i - 1) : ~Implements(j, n) /\ n \in Base!DefaultProperties}

\* Seeded bug: the value is stored before the driver has taken it.
SetStoresFirst(e, n, v, ok) ==
    \E i \in Homes(e, n) :
        LET s == <<i, n>>
            told == Up(i) /\ Given(s)
            conv == Setting(s).conv
        IN  /\ ~Refused(conv, v)
            /\ field' = [field EXCEPT ![s] = v]
            /\ IF told => ok
               THEN /\ driver' = IF told /\ ~Stray(conv, v)
                                 THEN [driver EXCEPT ![s] = Convert(conv, v)] ELSE driver
                    /\ asked' = [asked EXCEPT ![s] = v]
                    /\ lost' = lost \ {s}
               ELSE UNCHANGED <<driver, asked, lost>>
            /\ UNCHANGED <<pipe, level>>

\* Seeded bug: the structure is not read before it is written.
SetFreshAttribute(e, n, v, ok) ==
    \E i \in Homes(e, n) :
        LET s == <<i, n>>
            told == Up(i) /\ Given(s)
            conv == Setting(s).conv
        IN  /\ ~Refused(conv, v)
            /\ told => ok
            /\ field' = [field EXCEPT ![s] = v]
            /\ driver' = [r \in Slots |->
                            IF ~told \/ r[1] # i \/ Setting(r).attr # Setting(s).attr
                            THEN driver[r]
                            ELSE IF r # s THEN Factory
                            ELSE IF Stray(conv, v) THEN driver[s] ELSE Convert(conv, v)]
            /\ asked' = [asked EXCEPT ![s] = v]
            /\ lost' = lost \ {s}
            /\ UNCHANGED <<pipe, level>>

\* A setter that returns; one that throws changes nothing.  The other members
\* of the structure are written back as they were read.
Set(e, n, v, ok) ==
    \E i \in Homes(e, n) :
        LET s == <<i, n>>
            told == Up(i) /\ Given(s)
            conv == Setting(s).conv
        IN  /\ ~Refused(conv, v)
            /\ told => ok
            /\ field' = [field EXCEPT ![s] = v]
            /\ driver' = IF told /\ ~Stray(conv, v)
                         THEN [driver EXCEPT ![s] = Convert(conv, v)] ELSE driver
            /\ asked' = [asked EXCEPT ![s] = v]
            /\ lost' = lost \ {s}
            /\ UNCHANGED <<pipe, level>>

\* A getter returns the member; that of the gamma curve has the driver
\* overwrite it first.
Get(e, n) ==
    \E i \in Homes(e, n) :
        LET s == <<i, n>>
        IN  /\ Up(i) /\ Setting(s).conv = "curve"
            /\ field' = [field EXCEPT ![s] = driver[s]]
            /\ UNCHANGED <<pipe, level, driver, asked, lost>>

-----------------------------------------------------------------------------
\* doEnableElement() of the next stage writes the structures, of which the
\* driver takes some; with the gamma curve it asks its own getter, that finds
\* the stage enabled, and so keeps the table of the driver.
Start(taken) ==
    LET i == Depth - level
        mine == SlotsOf(i)
        attempted(s) == \/ Setting(s).start \in {"always", "needed"}
                        \/ Setting(s).start = "offline" /\ pipe.offline
        written(s) == attempted(s) /\ Setting(s).attr \in taken
        back(s) == Setting(s).start = "read back"
    IN  /\ level < Depth
        /\ \A s \in mine : Setting(s).start = "needed" => Setting(s).attr \in taken
        /\ level' = level + 1
        /\ driver' = [s \in Slots |->
                        IF s \in mine /\ written(s) /\ ~Stray(Setting(s).conv, field[s])
                        THEN Convert(Setting(s).conv, field[s]) ELSE driver[s]]
        /\ field' = [s \in Slots |-> IF s \in mine /\ back(s) THEN driver[s] ELSE field[s]]
        /\ lost' = {s \in lost : s \notin mine}
                   \cup {s \in mine : /\ ~written(s)
                                     /\ \/ Setting(s).start # "never"
                                        \/ Unlisted(s[2], Setting(s))}
        /\ UNCHANGED <<pipe, asked>>

\* doDisableElement() of the highest stage that is up: the driver forgets.
Stop ==
    /\ level > 0
    /\ level' = level - 1
    /\ driver' = [s \in Slots |-> IF s[1] = Depth - level + 1 THEN Factory ELSE driver[s]]
    /\ UNCHANGED <<pipe, field, asked, lost>>

Attributes == {Setting(s).attr : s \in Slots}

ImagingNext ==
    \/ \E e \in pipe.ends, n \in pipe.watched :
         Get(e, n) \/ \E v \in Words, ok \in BOOLEAN : Set(e, n, v, ok)
    \/ \E taken \in SUBSET Attributes : Start(taken)
    \/ Stop

ImagingSpec == ImagingInit /\ [][ImagingNext]_imagingVars

-----------------------------------------------------------------------------
(* Properties.                                                             *)

ImagingTypeOK ==
    /\ pipe \in Pipes /\ level \in 0..Depth
    /\ DOMAIN field = Slots /\ DOMAIN driver = Slots /\ DOMAIN asked = Slots
    /\ lost \subseteq Slots

\* While a stage is up the driver does what the clients have asked for, also
\* before the start and through another pipe, and also after a neighbour in the
\* same structure was set; unless the driver refused the structure at the start,
\* which is only logged, or a mode is none that the code knows.  Only the
\* colours of the ISP and a lens correction of an online device have to be set
\* again after the start.
InEffect ==
    \A s \in Slots :
        Up(s[1]) /\ Given(s) /\ s \notin lost /\ ~Stray(Setting(s).conv, asked[s])
            => driver[s] = Convert(Setting(s).conv, asked[s])

\* What a client reads at the end of any pipe is what was asked for last,
\* whatever was refused in between; only the gamma curve is lost when the ISP
\* starts, and reads as the driver's table where the default was asked for.
Reported ==
    \A e \in pipe.ends, n \in pipe.watched : \A i \in Homes(e, n) :
        LET s == <<i, n>>
        IN  \/ field[s] = asked[s]
            \/ Setting(s).conv = "curve" /\ (s \in lost \/ asked[s] = 0)
=============================================================================
