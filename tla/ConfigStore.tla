----------------------------- MODULE ConfigStore -----------------------------
(***************************************************************************)
(* The configuration of the camera: the values the elements run with, the  *)
(* JSON document IpcamRuntime keeps of those that were set over D-Bus, and *)
(* the file.                                                               *)
(*                                                                         *)
(* A property that is set goes to its element, then into the document, and *)
(* (re)starts a timer of 20 s; when that expires, or at the end of the     *)
(* program, the document is written over the file.  The file is truncated  *)
(* first and written from the front; at the start the document is what can *)
(* be parsed of it, and its properties are set in its order.               *)
(*                                                                         *)
(* A property stands for an object path, an interface and a property name; *)
(* its number is its place in the document.  The objects are there all the *)
(* time, apart from the overlays of a video encoder: they are created and  *)
(* deleted over D-Bus, and at the start as many are created as the         *)
(* document has settings of.                                               *)
(*                                                                         *)
(* The program has been given a configuration file.  The file system,      *)
(* which keeps what a closed file was given, and the end of the process    *)
(* are external.                                                           *)
(***************************************************************************)
EXTENDS Naturals, FiniteSets

CONSTANTS
    PropCount,  \* the properties are 1..PropCount
    Values,     \* their values
    None,       \* a property that is not in the document; no overlay
    Odd,        \* a value that cannot be converted to the property's type
    Default,    \* Default[p]: the value of p that its element starts with
    Effects,    \* Effects[p][v]: what the element of p may run with after its
                \* setter has taken v: v, or less if it is capped, or as before
                \* if it is never read, as the frame rate of a capture device
    Disturbs,   \* Disturbs[p]: what else changes when p is set, as the GOP
                \* length does with the frame rate
    Slots,      \* the overlays LoadConfig() looks for
    Overlay,    \* Overlay[p]: the overlay of which p is a property, or None
    Ticks       \* bound of the model: the 20 s of the timer

Props == 1..PropCount
Indices == 0..Slots - 1

ASSUME ConfigStoreAssumption ==
    /\ PropCount \in Nat
    /\ None \notin Values /\ Odd \notin Values /\ Odd # None
    /\ Default \in [Props -> Values]
    /\ Effects \in [Props -> [Values -> SUBSET Values]]
    /\ Disturbs \in [Props -> SUBSET Props]
    /\ \A p \in Props : p \notin Disturbs[p]
    /\ Slots \in Nat /\ None \notin Indices
    /\ Overlay \in [Props -> Indices \cup {None}]
    /\ Ticks \in Nat \ {0}

VARIABLES
    diskFails,  \* on this disk the file may not open, and a write may be cut
                \* short
    phase,      \* the program is "up", in the event loop, or "saving", or
                \* "closing", both with the file open, or has "ended", or has
                \* "crashed"
    overlays,   \* _osds of the encoder
    live,       \* live[p]: the value p has in its element
    root,       \* _config_root
    ignored,    \* the properties of objects that do not have what the document
                \* says: the setter threw in LoadConfig(), or the overlay was
                \* created after it
    dirty,      \* _config_dirty
    timer,      \* what is left of _config_timer, 0 when it is stopped
    file,       \* the file
    spoilt      \* an access to the file failed since it last went well

vars == <<diskFails, phase, overlays, live, root, ignored, dirty, timer, file,
          spoilt>>

Running == phase \in {"up", "saving", "closing"}

Documents == [Props -> Values \cup {None, Odd}]

Empty == [p \in Props |-> None]

TypeOK ==
    /\ diskFails \in BOOLEAN
    /\ phase \in {"up", "saving", "closing", "ended", "crashed"}
    /\ overlays \subseteq Indices
    /\ live \in [Props -> Values]
    /\ root \in Documents
    /\ ignored \subseteq Props
    /\ dirty \in BOOLEAN
    /\ timer \in 0..Ticks
    /\ file \in Documents
    /\ spoilt \in BOOLEAN

\* The file is missing, or of an earlier run, or written by hand.
Init ==
    /\ diskFails \in BOOLEAN
    /\ phase = "ended"
    /\ overlays = {}
    /\ live = Default
    /\ root = Empty
    /\ ignored = {}
    /\ dirty = FALSE
    /\ timer = 0
    /\ file \in Documents
    /\ spoilt = FALSE

-----------------------------------------------------------------------------
(* The file.                                                               *)

\* What can be parsed of a file that was written up to property n: the last
\* value may be cut as well, and then parse as another one or as null.
Cut(doc) ==
    LET Last(n) == CASE doc[n] = None -> {None}
                     [] doc[n] = Odd -> Values \cup {None, Odd}
                     [] OTHER -> Values \cup {None}
        Upto(n, v) == [p \in Props |-> CASE p < n -> doc[p]
                                         [] p = n -> v
                                         [] p > n -> None]
    IN  {Empty} \cup UNION {{Upto(n, v) : v \in Last(n)} : n \in Props}

\* Seeded bug: the flag is cleared and nothing is written.
WriteForgotten == UNCHANGED <<file, spoilt>>

\* The document is written to the open file; nobody looks at the outcome.
WriteConfig ==
    \/ file' = root /\ spoilt' = FALSE
    \/ diskFails /\ file' \in Cut(root) /\ spoilt' = TRUE

-----------------------------------------------------------------------------
(* The start.                                                              *)

\* Each overlay of the document makes LoadConfig() call CreateOSD(), which takes
\* the lowest index that is free, and load the settings of that index: gaps are
\* closed, and an overlay above one loses its settings.
Restored(doc) ==
    LET stored == {Overlay[p] : p \in {q \in Props : doc[q] # None}} \ {None}
    IN  {i \in Indices : i < Cardinality(stored)}

\* The properties that LoadConfig() sets.
Reached(doc) ==
    {p \in Props : doc[p] # None /\ Overlay[p] \in Restored(doc) \cup {None}}

\* What the elements may have after LoadConfig() has set the properties of
\* doc, in its order, apart from those whose setters threw.
Loaded(doc, threw) ==
    LET took == Reached(doc) \ threw
        Disturbed(p) == \E a \in took : p \in Disturbs[a] /\ (p \in took => a > p)
    IN  {l \in [Props -> Values] :
            \A p \in Props :
                \/ Disturbed(p)
                \/ p \in took /\ l[p] \in Effects[p][doc[p]]
                \/ p \notin took /\ l[p] = Default[p]}

Boot ==
    /\ phase \in {"ended", "crashed"}
    /\ phase' = "up"
    /\ \/ root' = file /\ spoilt' = FALSE
       \/ diskFails /\ root' = Empty /\ spoilt' = TRUE
    /\ \A p \in Reached(root') : root'[p] # Odd
    /\ overlays' = Restored(root')
    /\ ignored' \in SUBSET Reached(root')
    /\ live' \in Loaded(root', ignored')
    /\ UNCHANGED <<diskFails, dirty, timer, file>>

\* LoadConfig() meets a value that jsoncpp refuses to convert: the exception is
\* not one of D-Bus, nobody catches it, and the program ends.
BootThrows ==
    /\ phase \in {"ended", "crashed"}
    /\ \E p \in Reached(file) : file[p] = Odd
    /\ phase' = "crashed"
    /\ UNCHANGED <<diskFails, overlays, live, root, ignored, dirty, timer, file,
                   spoilt>>

-----------------------------------------------------------------------------
(* The callbacks of the event loop.                                        *)

Exists(p) == Overlay[p] \in overlays \cup {None}

\* What the elements may have after the setter of p has taken v.
Applied(p, v) ==
    {l \in [Props -> Values] :
        /\ l[p] \in Effects[p][v]
        /\ \A q \in Props \ (Disturbs[p] \cup {p}) : l[q] = live[q]}

\* Seeded bug: the timer is not started.
SaveConfigNoTimer == dirty' = TRUE /\ timer' = timer

\* SaveConfig().
SaveConfig == dirty' = TRUE /\ timer' = Ticks

\* Seeded bug: the document is changed before the setter, which throws.
SetStoresFirst(p, v) ==
    /\ phase = "up"
    /\ Exists(p)
    /\ live' \in Applied(p, v) \cup {live}
    /\ root' = [root EXCEPT ![p] = v]
    /\ ignored' = ignored \ {p}
    /\ SaveConfig
    /\ UNCHANGED <<diskFails, phase, overlays, file, spoilt>>

\* on_set_property(); when the setter throws nothing happens.
Set(p, v) ==
    /\ phase = "up"
    /\ Exists(p)
    /\ live' \in Applied(p, v)
    /\ root' = [root EXCEPT ![p] = v]
    /\ ignored' = ignored \ {p}
    /\ SaveConfig
    /\ UNCHANGED <<diskFails, phase, overlays, file, spoilt>>

\* The new overlay has its defaults, whatever the document has under its index.
CreateOSD(o) ==
    /\ phase = "up"
    /\ o \notin overlays
    /\ \A i \in Indices : i < o => i \in overlays
    /\ overlays' = overlays \cup {o}
    /\ ignored' = ignored \cup {p \in Props : Overlay[p] = o /\ root[p] # None}
    /\ UNCHANGED <<diskFails, phase, live, root, dirty, timer, file, spoilt>>

\* The document keeps what it has.
DeleteOSD(o) ==
    /\ phase = "up"
    /\ o \in overlays
    /\ overlays' = overlays \ {o}
    /\ live' = [p \in Props |-> IF Overlay[p] = o THEN Default[p] ELSE live[p]]
    /\ ignored' = {p \in ignored : Overlay[p] # o}
    /\ UNCHANGED <<diskFails, phase, root, dirty, timer, file, spoilt>>

Tick ==
    /\ phase = "up"
    /\ timer > 1
    /\ timer' = timer - 1
    /\ UNCHANGED <<diskFails, phase, overlays, live, root, ignored, dirty, file,
                   spoilt>>

\* config_timer_handler(), up to where it has opened, and truncated, the file;
\* when that fails, all of it.
Expire ==
    /\ phase = "up"
    /\ timer = 1
    /\ timer' = 0
    /\ IF dirty
       THEN \/ /\ phase' = "saving"
               /\ file' = Empty
               /\ UNCHANGED <<dirty, spoilt>>
            \/ /\ diskFails
               /\ dirty' = FALSE
               /\ spoilt' = TRUE
               /\ UNCHANGED <<phase, file>>
       ELSE UNCHANGED <<phase, dirty, file, spoilt>>
    /\ UNCHANGED <<diskFails, overlays, live, root, ignored>>

\* The rest of it.
Saved ==
    /\ phase = "saving"
    /\ phase' = "up"
    /\ WriteConfig
    /\ dirty' = FALSE
    /\ UNCHANGED <<diskFails, overlays, live, root, ignored, timer>>

-----------------------------------------------------------------------------
(* The end.                                                                *)

Leave(how) ==
    /\ phase' = how
    /\ overlays' = {}
    /\ live' = Default
    /\ root' = Empty
    /\ ignored' = {}
    /\ dirty' = FALSE
    /\ timer' = 0
    /\ UNCHANGED diskFails

\* Seeded bug: the destructor leaves the writing to the timer.
ExitNoSave == phase = "up" /\ Leave("ended") /\ UNCHANGED <<file, spoilt>>

\* A signal ends the loop: ~IpcamRuntime(), up to where it has opened the file.
Exit ==
    /\ phase = "up"
    /\ IF dirty
       THEN \/ /\ phase' = "closing"
               /\ file' = Empty
               /\ UNCHANGED <<diskFails, overlays, live, root, ignored, dirty,
                              timer, spoilt>>
            \/ /\ diskFails
               /\ Leave("ended")
               /\ spoilt' = TRUE
               /\ UNCHANGED file
       ELSE Leave("ended") /\ UNCHANGED <<file, spoilt>>

\* The rest of it.
Closed == phase = "closing" /\ WriteConfig /\ Leave("ended")

\* The process ends at any time, with the file open or not.
Crash ==
    /\ Running
    /\ Leave("crashed")
    /\ file' \in IF phase = "up" THEN {file} ELSE Cut(root)
    /\ UNCHANGED spoilt

-----------------------------------------------------------------------------
Next ==
    \/ Boot \/ BootThrows
    \/ \E p \in Props, v \in Values : Set(p, v)
    \/ \E o \in Indices : CreateOSD(o) \/ DeleteOSD(o)
    \/ Tick \/ Expire \/ Saved
    \/ Exit \/ Closed \/ Crash

\* Time passes, libev calls the handler of a timer that has expired, and what
\* writes the file comes to its end.
Spec ==
    /\ Init /\ [][Next]_vars
    /\ WF_vars(Tick) /\ WF_vars(Expire) /\ WF_vars(Saved) /\ WF_vars(Closed)

-----------------------------------------------------------------------------
(* Properties.                                                             *)

\* The elements run with what their setters make of the document, as if it had
\* just been set over D-Bus, and with their defaults where it says nothing or
\* is ignored, through failing setters, overlays that come and go or are given
\* other indices, restarts, cut and unreadable files.  Excepted are the
\* properties that setting another one changes behind the document's back.
LiveAsStored ==
    Running =>
        \A p \in Props :
            \/ \E a \in Props : p \in Disturbs[a]
            \/ IF Exists(p) /\ root[p] # None /\ p \notin ignored
               THEN live[p] \in Effects[p][root[p]]
               ELSE live[p] = Default[p]

\* When there is nothing left to write the file is the document, unless an
\* access to it has failed: no change is dropped by the program itself.
CleanIsSaved ==
    phase = "up" /\ ~dirty /\ ~spoilt => file = root

\* On a disk that does not fail, the file is at any time a whole document that
\* was in use, the last one if the program ended by a signal, or, while it is
\* being written, a part of the one in use; this is what a restart goes back to,
\* wherever a crash comes.  Of a disk that fails nothing is promised: to the
\* snapshots it is a program never started.
Snapshots == INSTANCE ConfigSnapshots
             WITH Values <- Values \cup {Odd},
                  program <- CASE diskFails -> "ended"
                               [] ~diskFails /\ phase \in {"saving", "closing"}
                                    -> "saving"
                               [] OTHER -> phase,
                  current <- CASE diskFails -> Empty
                               [] ~diskFails /\ Running -> root
                               [] OTHER -> file,
                  stored <- IF diskFails THEN Empty ELSE file

ImplementsSnapshots == Snapshots!Spec

\* Unless somebody keeps setting properties for ever, each time before the 20 s
\* are over, a change does not stay unwritten.
SavedOnceQuiet == ([]<>(timer = Ticks)) \/ (dirty ~> ~dirty)
=============================================================================
