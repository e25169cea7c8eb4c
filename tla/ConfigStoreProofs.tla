-------------------------- MODULE ConfigStoreProofs --------------------------
(***************************************************************************)
(* For any properties, values, overlays and lengths of the timer, on any   *)
(* disk: the elements run with what their setters make of the document,    *)
(* and what is not to be written is in the file.  On a disk that does not  *)
(* fail the file is a sequence of snapshots, or, from the truncation to    *)
(* the end of a write, or to a crash in it, a part of one.                 *)
(*                                                                         *)
(* LiveAsStored and CleanIsSaved are inductive, each with the types; the   *)
(* snapshots rest on CleanIsSaved, for the end of a program that has       *)
(* nothing to write, and on what a cut file may be.                        *)
(***************************************************************************)
EXTENDS ConfigStore, TLAPS

\* The kind of the disk does not change.
LEMMA DiskStays == [Next]_vars => UNCHANGED diskFails
BY DEF Next, Boot, BootThrows, Set, CreateOSD, DeleteOSD, Tick, Expire, Saved,
       Exit, Closed, Crash, Leave, vars

\* The document of a cut file goes up to a property whose value may be cut too.
Upto(doc, n, v) == [p \in Props |-> CASE p < n -> doc[p]
                                      [] p = n -> v
                                      [] p > n -> None]

LEMMA CutIs ==
    ASSUME NEW doc, NEW f \in Cut(doc), f # Empty
    PROVE  \E n \in Props : \E v \in Values \cup {None, Odd} : f = Upto(doc, n, v)
<1> DEFINE Last(n) == CASE doc[n] = None -> {None}
                        [] doc[n] = Odd -> Values \cup {None, Odd}
                        [] OTHER -> Values \cup {None}
<1>1. PICK n \in Props : f \in {Upto(doc, n, v) : v \in Last(n)}
  BY DEF Cut, Upto
<1>2. Last(n) \subseteq Values \cup {None, Odd}
  OBVIOUS
<1> HIDE DEF Last
<1> QED
  BY <1>1, <1>2

\* What is written, whole or cut, is a document.
LEMMA CutIsDocument ==
    ASSUME NEW doc \in Documents
    PROVE  Cut(doc) \subseteq Documents
<1> SUFFICES ASSUME NEW f \in Cut(doc) PROVE f \in Documents
  OBVIOUS
<1>1. CASE f = Empty
  BY <1>1 DEF Empty, Documents
<1>2. ASSUME NEW n \in Props, NEW v \in Values \cup {None, Odd},
             f = Upto(doc, n, v)
      PROVE  f \in Documents
  <2> SUFFICES ASSUME NEW p \in Props
               PROVE  (CASE p < n -> doc[p] [] p = n -> v [] p > n -> None)
                        \in Values \cup {None, Odd}
    BY <1>2 DEF Documents, Upto
  <2>1. doc[p] \in Values \cup {None, Odd}
    BY DEF Documents
  <2>2. p < n \/ p = n \/ p > n
    BY ConfigStoreAssumption DEF Props
  <2> QED
    BY <2>1, <2>2
<1> QED
  BY <1>1, <1>2, CutIs

\* The state is well typed.
THEOREM TypeCorrect == Spec => []TypeOK
<1>t. 0 \in 0..Ticks /\ Ticks \in 0..Ticks /\ Empty \in Documents
  BY ConfigStoreAssumption DEF Empty, Documents
<1>1. Init => TypeOK
  BY <1>t, ConfigStoreAssumption, Zenon DEF Init, TypeOK
<1>2. TypeOK /\ [Next]_vars => TypeOK'
  <2> SUFFICES ASSUME TypeOK, [Next]_vars PROVE TypeOK'
    OBVIOUS
  <2>0. diskFails' \in BOOLEAN
    BY DiskStays DEF TypeOK
  <2> USE <2>0 DEF TypeOK
  <2>1. CASE Boot
    <3>1. root' \in Documents
      BY <1>t, <2>1 DEF Boot
    <3>2. ignored' \subseteq Props /\ live' \in [Props -> Values]
      BY <2>1 DEF Boot, Loaded, Reached
    <3>3. overlays' \subseteq Indices
      BY <2>1 DEF Boot, Restored
    <3>4. phase' = "up" /\ spoilt' \in BOOLEAN /\ UNCHANGED <<dirty, timer, file>>
      BY <2>1 DEF Boot
    <3> QED
      BY <3>1, <3>2, <3>3, <3>4
  <2>2. CASE BootThrows
    BY <2>2, Zenon DEF BootThrows
  <2>3. ASSUME NEW p \in Props, NEW v \in Values, Set(p, v) PROVE TypeOK'
    <3>1. root' \in Documents /\ live' \in [Props -> Values]
      BY <2>3 DEF Set, Applied, Documents
    <3> QED
      BY <1>t, <2>3, <3>1, Zenon DEF Set, SaveConfig
  <2>4. ASSUME NEW o \in Indices, CreateOSD(o) PROVE TypeOK'
    <3>1. overlays' \subseteq Indices /\ ignored' \subseteq Props
      BY <2>4 DEF CreateOSD
    <3> QED
      BY <2>4, <3>1, Zenon DEF CreateOSD
  <2>5. ASSUME NEW o \in Indices, DeleteOSD(o) PROVE TypeOK'
    <3>1. overlays' \subseteq Indices /\ ignored' \subseteq Props
      BY <2>5 DEF DeleteOSD
    <3>2. live' \in [Props -> Values]
      BY <2>5, ConfigStoreAssumption DEF DeleteOSD
    <3> QED
      BY <2>5, <3>1, <3>2, Zenon DEF DeleteOSD
  <2>6. CASE Tick
    <3>1. timer' \in 0..Ticks
      BY <2>6, ConfigStoreAssumption DEF Tick
    <3> QED
      BY <2>6, <3>1, Zenon DEF Tick
  <2>7. CASE Expire
    BY <1>t, <2>7, Zenon DEF Expire
  <2>8. Cut(root) \subseteq Documents
    BY CutIsDocument
  <2>9. WriteConfig => file' \in Documents /\ spoilt' \in BOOLEAN
    BY <2>8 DEF WriteConfig
  <2>10. CASE Saved
    BY <2>9, <2>10, Zenon DEF Saved
  <2>11. ASSUME NEW how \in {"ended", "crashed"}, Leave(how)
         PROVE  /\ phase' \in {"up", "saving", "closing", "ended", "crashed"}
                /\ overlays' \subseteq Indices
                /\ live' \in [Props -> Values] /\ root' \in Documents
                /\ ignored' \subseteq Props
                /\ dirty' \in BOOLEAN /\ timer' \in 0..Ticks
    BY <1>t, <2>11, ConfigStoreAssumption, Zenon DEF Leave
  <2>12. CASE Exit
    <3>1. file' \in Documents /\ spoilt' \in BOOLEAN
      BY <1>t, <2>12, Zenon DEF Exit
    <3>2. CASE Leave("ended")
      BY <2>11, <3>1, <3>2
    <3>3. CASE ~Leave("ended")
      BY <1>t, <2>12, <3>3, Zenon DEF Exit
    <3> QED
      BY <3>2, <3>3
  <2>13. CASE Closed
    BY <2>9, <2>11, <2>13 DEF Closed
  <2>14. CASE Crash
    <3>1. Leave("crashed") /\ UNCHANGED spoilt
      BY <2>14 DEF Crash
    <3>2. file' \in Documents
      BY <2>8, <2>14 DEF Crash
    <3> QED
      BY <2>11, <3>1, <3>2
  <2>15. CASE UNCHANGED vars
    BY <2>15 DEF vars
  <2> QED
    BY <2>1, <2>2, <2>3, <2>4, <2>5, <2>6, <2>7, <2>10, <2>12, <2>13, <2>14,
       <2>15 DEF Next
<1> QED
  BY <1>1, <1>2, PTL DEF Spec

-----------------------------------------------------------------------------
\* What LiveAsStored says of one property.
AsStored(p) ==
    IF Exists(p) /\ root[p] # None /\ p \notin ignored
    THEN live[p] \in Effects[p][root[p]]
    ELSE live[p] = Default[p]

\* A property that no other one disturbs comes out of LoadConfig() with what
\* its setter makes of the document, or with its default.
LEMMA LoadedIs ==
    ASSUME NEW doc \in Documents, NEW threw, NEW l \in Loaded(doc, threw),
           NEW p \in Props, \A a \in Props : p \notin Disturbs[a]
    PROVE  IF Overlay[p] \in Restored(doc) \cup {None} /\ doc[p] # None
                /\ p \notin threw
           THEN l[p] \in Effects[p][doc[p]]
           ELSE l[p] = Default[p]
BY DEF Loaded, Reached

LEMMA LiveAsStoredStep ==
    TypeOK /\ LiveAsStored /\ [Next]_vars => LiveAsStored'
<1> SUFFICES ASSUME TypeOK, LiveAsStored, [Next]_vars, Running',
                    NEW p \in Props, \A a \in Props : p \notin Disturbs[a]
             PROVE  AsStored(p)'
  BY DEF LiveAsStored, AsStored
<1>0. Running => AsStored(p)
  BY DEF LiveAsStored, AsStored
<1>1. CASE Boot
  <2>1. root' \in Documents
    BY <1>1 DEF Boot, TypeOK, Empty, Documents
  <2>2. live' \in Loaded(root', ignored') /\ overlays' = Restored(root')
    BY <1>1 DEF Boot
  <2> QED
    BY <2>1, <2>2, LoadedIs DEF AsStored, Exists
<1>2. ASSUME NEW q \in Props, NEW v \in Values, Set(q, v)
      PROVE  AsStored(p)'
  <2>1. /\ phase = "up"
        /\ live' \in Applied(q, v)
        /\ root' = [root EXCEPT ![q] = v]
        /\ ignored' = ignored \ {q}
        /\ UNCHANGED overlays
        /\ Exists(q)
    BY <1>2 DEF Set
  <2>2. root \in [Props -> Values \cup {None, Odd}] /\ None \notin Values
    BY ConfigStoreAssumption DEF TypeOK, Documents
  <2>3. CASE p = q
    BY <2>1, <2>2, <2>3 DEF Applied, AsStored, Exists
  <2>4. CASE p # q
    <3>1. live'[p] = live[p]
      BY <2>1, <2>4 DEF Applied
    <3>2. root'[p] = root[p] /\ (p \in ignored' <=> p \in ignored)
      BY <2>1, <2>2, <2>4
    <3>3. AsStored(p)
      BY <1>0, <2>1 DEF Running
    <3> QED
      BY <2>1, <3>1, <3>2, <3>3 DEF AsStored, Exists
  <2> QED
    BY <2>3, <2>4
<1>3. ASSUME NEW o \in Indices, CreateOSD(o) PROVE AsStored(p)'
  <2>1. /\ phase = "up"
        /\ overlays' = overlays \cup {o}
        /\ o \notin overlays
        /\ ignored' = ignored \cup {q \in Props : Overlay[q] = o /\ root[q] # None}
        /\ UNCHANGED <<live, root>>
    BY <1>3 DEF CreateOSD
  <2>2. AsStored(p)
    BY <1>0, <2>1 DEF Running
  <2>3. o # None
    BY ConfigStoreAssumption
  <2>4. CASE Overlay[p] = o
    <3>1. ~Exists(p) /\ live[p] = Default[p]
      BY <2>1, <2>2, <2>3, <2>4 DEF AsStored, Exists
    <3> QED
      BY <2>1, <2>4, <3>1 DEF AsStored
  <2>5. CASE Overlay[p] # o
    BY <2>1, <2>2, <2>5 DEF AsStored, Exists
  <2> QED
    BY <2>4, <2>5
<1>4. ASSUME NEW o \in Indices, DeleteOSD(o) PROVE AsStored(p)'
  <2>1. /\ phase = "up"
        /\ overlays' = overlays \ {o}
        /\ live' = [q \in Props |-> IF Overlay[q] = o THEN Default[q] ELSE live[q]]
        /\ ignored' = {q \in ignored : Overlay[q] # o}
        /\ UNCHANGED root
    BY <1>4 DEF DeleteOSD
  <2>2. AsStored(p)
    BY <1>0, <2>1 DEF Running
  <2>3. o # None
    BY ConfigStoreAssumption
  <2>4. CASE Overlay[p] = o
    BY <2>1, <2>3, <2>4 DEF AsStored, Exists
  <2>5. CASE Overlay[p] # o
    BY <2>1, <2>2, <2>5 DEF AsStored, Exists
  <2> QED
    BY <2>4, <2>5
<1>5. CASE Tick \/ Expire \/ Saved \/ UNCHANGED vars
  <2>1. Running /\ UNCHANGED <<overlays, live, root, ignored>>
    BY <1>5 DEF Tick, Expire, Saved, Running, vars
  <2> QED
    BY <1>0, <2>1 DEF AsStored, Exists
<1>6. CASE Exit
  <2>1. Running /\ UNCHANGED <<overlays, live, root, ignored>>
    BY <1>6 DEF Exit, Leave, Running
  <2> QED
    BY <1>0, <2>1 DEF AsStored, Exists
<1>7. CASE BootThrows \/ Closed \/ Crash
  BY <1>7 DEF BootThrows, Closed, Crash, Leave, Running
<1> QED
  BY <1>1, <1>2, <1>3, <1>4, <1>5, <1>6, <1>7 DEF Next

\* The elements run with what their setters make of the document, whatever was
\* ignored, cut or unreadable, whatever overlays came and went, and wherever
\* the program ended.
THEOREM LiveAlwaysAsStored == Spec => []LiveAsStored
<1>1. Init => LiveAsStored
  BY DEF Init, LiveAsStored, Running
<1> QED
  BY <1>1, TypeCorrect, LiveAsStoredStep, PTL DEF Spec

-----------------------------------------------------------------------------
\* What need not be written is in the file, unless an access to it failed.
THEOREM CleanAlwaysSaved == Spec => []CleanIsSaved
<1>1. Init => CleanIsSaved
  BY DEF Init, CleanIsSaved
<1>2. CleanIsSaved /\ [Next]_vars => CleanIsSaved'
  <2> SUFFICES ASSUME CleanIsSaved, [Next]_vars PROVE CleanIsSaved'
    OBVIOUS
  <2> USE DEF CleanIsSaved
  <2>1. CASE Boot \/ BootThrows
    BY <2>1 DEF Boot, BootThrows
  <2>2. ASSUME NEW p \in Props, NEW v \in Values, Set(p, v)
        PROVE  CleanIsSaved'
    BY <2>2 DEF Set, SaveConfig
  <2>3. ASSUME NEW o \in Indices, CreateOSD(o) \/ DeleteOSD(o)
        PROVE  CleanIsSaved'
    BY <2>3 DEF CreateOSD, DeleteOSD
  <2>4. CASE Tick
    BY <2>4 DEF Tick
  <2>5. CASE Expire
    BY <2>5 DEF Expire
  <2>6. CASE Saved
    BY <2>6 DEF Saved, WriteConfig
  <2>7. CASE Exit \/ Closed \/ Crash
    BY <2>7 DEF Exit, Closed, Crash, Leave
  <2>8. CASE UNCHANGED vars
    BY <2>8 DEF vars
  <2> QED
    BY <2>1, <2>2, <2>3, <2>4, <2>5, <2>6, <2>7, <2>8 DEF Next
<1> QED
  BY <1>1, <1>2, PTL DEF Spec

-----------------------------------------------------------------------------
Sound == ~diskFails => spoilt = FALSE

\* Nothing is spoilt on a disk that does not fail.
LEMMA NeverSpoilt == Spec => []Sound
<1>1. Init => Sound
  BY DEF Init, Sound
<1>2. Sound /\ [Next]_vars => Sound'
  BY DEF Sound, Next, Boot, BootThrows, Set, CreateOSD, DeleteOSD, Tick, Expire,
         Saved, Exit, Closed, Crash, Leave, WriteConfig, vars
<1> QED
  BY <1>1, <1>2, PTL DEF Spec

\* What may be left of a document that is being written is a part of it.
LEMMA CutIsPart ==
    ASSUME NEW doc \in Documents
    PROVE  Cut(doc) \subseteq Snapshots!Parts(doc)
<1> SUFFICES ASSUME NEW f \in Cut(doc) PROVE f \in Snapshots!Parts(doc)
  OBVIOUS
<1>0. f \in Snapshots!Documents
  BY CutIsDocument DEF Snapshots!Documents, Documents
<1>1. CASE f = Empty
  BY <1>0, <1>1 DEF Empty, Snapshots!Parts
<1>2. ASSUME NEW n \in Props, NEW v,
             f = Upto(doc, n, v)
      PROVE  f \in Snapshots!Parts(doc)
  <2>1. ASSUME NEW p \in Props, p # n PROVE f[p] \in {doc[p], None}
    <3>1. p < n \/ p > n
      BY <2>1, ConfigStoreAssumption DEF Props
    <3> QED
      BY <1>2, <3>1 DEF Upto
  <2> QED
    BY <1>0, <2>1 DEF Snapshots!Parts
<1> QED
  BY <1>1, <1>2, CutIs

\* On such a disk the file is a sequence of whole documents that were in use,
\* apart from what a write or a crash in a write leaves of one, and every start
\* goes back to the last of them, or fails.
THEOREM SnapshotsImplemented == Spec => ImplementsSnapshots
<1> USE DEF Snapshots!vars
<1>1. Init => Snapshots!Init
  BY DEF Init, Running, Snapshots!Init, Snapshots!Documents, Documents, Empty
<1>2. TypeOK /\ CleanIsSaved /\ Sound /\ [Next]_vars
        => [Snapshots!Next]_(Snapshots!vars)
  <2> SUFFICES ASSUME TypeOK, CleanIsSaved, Sound, [Next]_vars
               PROVE  Snapshots!Next \/ UNCHANGED Snapshots!vars
    OBVIOUS
  <2>d. UNCHANGED diskFails
    BY DiskStays
  <2>0. CASE diskFails
    BY <2>0, <2>d
  <2>s. SUFFICES ASSUME ~diskFails
                 PROVE  Snapshots!Next \/ UNCHANGED Snapshots!vars
    BY <2>0
  <2> USE <2>d, <2>s DEF Running
  <2>c. /\ root \in Documents
        /\ Empty \in Snapshots!Parts(root)
        /\ Cut(root) \subseteq Snapshots!Parts(root)
    BY CutIsPart DEF TypeOK, Cut
  <2>1. CASE Boot
    BY <2>1 DEF Boot, Snapshots!Next, Snapshots!Open
  <2>2. CASE BootThrows
    BY <2>2 DEF BootThrows, Snapshots!Next, Snapshots!OpenFails
  <2>3. ASSUME NEW p \in Props, NEW v \in Values, Set(p, v)
        PROVE  Snapshots!Next
    <3>1. Snapshots!Change(p, v)
      BY <2>3 DEF Set, Snapshots!Change
    <3> QED
      BY <3>1 DEF Snapshots!Next
  <2>4. ASSUME NEW o \in Indices, CreateOSD(o) \/ DeleteOSD(o)
        PROVE  UNCHANGED Snapshots!vars
    BY <2>4 DEF CreateOSD, DeleteOSD
  <2>5. CASE Tick
    BY <2>5 DEF Tick
  <2>6. CASE Expire
    BY <2>c, <2>6 DEF Expire, Snapshots!Next, Snapshots!BeginSave
  <2>7. WriteConfig => file' = root
    BY DEF WriteConfig
  <2>8. CASE Saved \/ Closed
    BY <2>7, <2>8 DEF Saved, Closed, Leave, Snapshots!Next, Snapshots!EndSave
  <2>9. CASE Exit
    <3>1. CASE dirty
      BY <2>c, <2>9, <3>1 DEF Exit, Snapshots!Next, Snapshots!BeginSave
    <3>2. CASE ~dirty
      BY <2>9, <3>2 DEF Exit, Leave, CleanIsSaved, Sound, Snapshots!Next, Snapshots!Close
    <3> QED
      BY <3>1, <3>2
  <2>10. CASE Crash
    <3>1. Snapshots!Crash
      BY <2>c, <2>10 DEF Crash, Leave, Snapshots!Crash
    <3> QED
      BY <3>1 DEF Snapshots!Next
  <2>11. CASE UNCHANGED vars
    BY <2>11 DEF vars
  <2> QED
    BY <2>1, <2>2, <2>3, <2>4, <2>5, <2>6, <2>8, <2>9, <2>10, <2>11 DEF Next
<1> QED
  BY <1>1, <1>2, TypeCorrect, NeverSpoilt, CleanAlwaysSaved, PTL
  DEF Spec, ImplementsSnapshots, Snapshots!Spec
=============================================================================
