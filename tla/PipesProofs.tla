---------------------------- MODULE PipesProofs -----------------------------
(***************************************************************************)
(* For every set of names and every command line: the elements form a      *)
(* forest in the order of their creation and give back what they were      *)
(* given.  For every sensor and every order of setters, starts and stops:  *)
(* the stages of a pipe agree on sizes and rates.                          *)
(***************************************************************************)
EXTENDS Pipes, CaptureWindow, Forests, FiniteSetTheorems, TLAPS

\* What a description can refer to has been created.
Typed ==
    /\ elements \in Seq(Names)
    /\ source \in [Names -> Names \cup {None}]
    /\ last \in Range(elements) \cup {None}

IInv == Typed /\ Forest

\* A new element goes behind all others, with the one before it, which exists,
\* as its source.
LEMMA NewElementLast ==
    ASSUME PipesAssumption, IInv, NEW n \in Names, n \notin Range(elements),
           elements' = Append(elements, n),
           NEW b \in Range(elements) \cup {None},
           source' = [source EXCEPT ![n] = b],
           last' = n
    PROVE  IInv'
<1> DEFINE k == Len(elements) + 1
<1>1. /\ elements \in Seq(Names) /\ source \in [Names -> Names \cup {None}]
      /\ elements' \in Seq(Names)
      /\ Len(elements') = k /\ k \in Nat /\ elements'[k] = n
      /\ DOMAIN elements' = 1..k /\ DOMAIN elements = 1..(k - 1)
      /\ \A i \in 1..(k - 1) : elements'[i] = elements[i]
  BY DEF IInv, Typed
<1>2. \A i \in 1..(k - 1) : elements[i] # n
  BY <1>1 DEF Range
<1>3. b = None \/ \E i \in 1..(k - 1) : elements'[i] = b
  BY <1>1 DEF Range
<1>4. b \in Names \cup {None}
  BY <1>1, <1>3
<1>5. Typed'
  <2>1. source' \in [Names -> Names \cup {None}]
    BY <1>1, <1>4
  <2>2. n \in Range(elements')
    BY <1>1 DEF Range
  <2> QED
    BY <1>1, <2>1, <2>2 DEF Typed
<1>6. IsInjective(elements)'
  <2>1. \A i, j \in 1..(k - 1) : elements[i] = elements[j] => i = j
    BY <1>1 DEF IInv, Forest, IsInjective
  <2> SUFFICES ASSUME NEW i \in 1..k, NEW j \in 1..k, elements'[i] = elements'[j]
               PROVE  i = j
    BY <1>1 DEF IsInjective
  <2> QED
    BY <1>1, <1>2, <2>1
<1>7. ASSUME NEW j \in 1..k, source'[elements'[j]] # None
      PROVE  \E i \in 1 .. j - 1 : elements'[i] = source'[elements'[j]]
  <2>1. CASE j = k
    BY <1>1, <1>3, <1>7, <2>1
  <2>2. CASE j \in 1..(k - 1)
    <3>1. source'[elements'[j]] = source[elements[j]]
      BY <1>1, <1>2, <2>2
    <3>2. PICK i \in 1 .. j - 1 : elements[i] = source[elements[j]]
      BY <1>1, <1>7, <2>2, <3>1 DEF IInv, Forest
    <3> QED
      BY <1>1, <2>2, <3>1, <3>2
  <2> QED
    BY <1>1, <2>1, <2>2
<1> QED
  BY <1>1, <1>5, <1>6, <1>7 DEF IInv, Forest

\* A step that adds nothing keeps the forest, whatever it goes on from.
LEMMA SameElements ==
    ASSUME IInv, UNCHANGED <<elements, source>>, last' \in Range(elements) \cup {None}
    PROVE  IInv'
BY DEF IInv, Typed, Forest, Range, IsInjective

\* Every step of the program keeps the invariant.
LEMMA StepKeeps ==
    ASSUME PipesAssumption, IInv, [Next]_vars
    PROVE  IInv'
<1> USE DEF args, tables
<1>1. last \in Range(elements) \cup {None}
  BY DEF IInv, Typed
<1>2. ASSUME NEW n \in Names, NEW enable \in BOOLEAN, Mention(n, enable)
      PROVE  IInv'
  <2>1. AddElement(n)
    BY <1>2 DEF Mention
  <2>2. CASE Exists(n)
    <3>1. UNCHANGED <<elements, source>> /\ last' = n /\ n \in Range(elements)
      BY <2>1, <2>2 DEF AddElement, Exists
    <3> QED
      BY <3>1, SameElements
  <2>3. CASE ~Exists(n)
    <3>1. Before(n) \in Range(elements) \cup {None}
      BY <1>1 DEF Before
    <3>2. /\ elements' = Append(elements, n) /\ last' = n
          /\ source' = [source EXCEPT ![n] = Before(n)] /\ n \notin Range(elements)
      BY <2>1, <2>3 DEF AddElement, Exists
    <3> QED
      BY <3>1, <3>2, NewElementLast
  <2> QED
    BY <2>2, <2>3
<1>3. CASE NextPipe \/ EndPipe
  BY <1>3, SameElements DEF NextPipe, EndPipe
<1>4. CASE MentionThrows \/ ConstructionFails \/ \E e \in Names : ClientCrashes(e)
  BY <1>1, <1>4, SameElements DEF MentionThrows, ConstructionFails, ClientCrashes, Abort
<1>5. ASSUME NEW n \in Names, NEW enable \in BOOLEAN,
             MentionUnknown(n, enable) \/ Offer(n) \/ AudioOut(n)
      PROVE  IInv'
  BY <1>1, <1>5, SameElements DEF MentionUnknown, Offer, AudioOut
<1>6. CASE EnableSystem \/ Enabled \/ Constructed \/ Terminate \/ Stopped \/ DisableSystem
  BY <1>1, <1>6, SameElements
  DEF EnableSystem, Enabled, Constructed, Terminate, Stopped, DisableSystem, Then
<1>7. ASSUME NEW e \in Names,
             EnableInitial(e) \/ ClientPlays(e) \/ ClientStops(e) \/ DisableInitial(e)
      PROVE  IInv'
  BY <1>1, <1>7, SameElements DEF EnableInitial, ClientPlays, ClientStops, DisableInitial, In
<1>8. ASSUME NEW p \in todo, PlaySink(p) \/ StopSink(p)
      PROVE  IInv'
  BY <1>1, <1>8, SameElements DEF PlaySink, StopSink, In
<1>9. CASE UNCHANGED vars
  BY <1>1, <1>9, SameElements DEF vars
<1> QED
  <2>1. CASE Next
    BY <1>2, <1>3, <1>4, <1>5, <1>6, <1>7, <1>8, <2>1 DEF Next
  <2> QED
    BY <1>9, <2>1

\* The inductive invariant: the forest, and that last_element exists.
THEOREM InductiveInvariant == Spec => []IInv
<1>1. Init => IInv
  BY PipesAssumption DEF Init, IInv, Typed, Forest, IsInjective, Range
<1>2. IInv /\ [Next]_vars => IInv'
  BY StepKeeps, PipesAssumption
<1> QED
  BY <1>1, <1>2, PTL DEF Spec

\* However pipes share elements, the sources form a forest in the order of
\* creation.
THEOREM AlwaysForest == Spec => []Forest
<1>1. IInv => Forest
  BY DEF IInv
<1> QED
  BY <1>1, InductiveInvariant, PTL

\* An element's place in the order of construction, and its source.
MadeAs == [e \in Range(elements) |-> CHOOSE i \in DOMAIN elements : elements[i] = e]
SourceOf == [e \in Range(elements) |-> source[e]]

\* Whatever command line buildElementPipe() reads, at every step the elements
\* that exist are what ElementTree assumes: the theorems about MediaElement
\* apply to them.
THEOREM AlwaysElementTree == Spec => []IsForest(Range(elements), None, SourceOf, MadeAs)
<1>1. ASSUME PipesAssumption, IInv
      PROVE  IsForest(Range(elements), None, SourceOf, MadeAs)
  <2>1. /\ elements \in Seq(Names) /\ source \in [Names -> Names \cup {None}]
        /\ DOMAIN elements = 1..Len(elements) /\ Len(elements) \in Nat
        /\ Range(elements) \subseteq Names
    BY <1>1 DEF IInv, Typed, Range
  <2>2. \A i, j \in DOMAIN elements : elements[i] = elements[j] => i = j
    BY <1>1 DEF IInv, Forest, IsInjective
  <2>3. \A i \in DOMAIN elements : elements[i] \in Range(elements) /\ MadeAs[elements[i]] = i
    <3> TAKE i \in DOMAIN elements
    <3>1. elements[i] \in Range(elements)
      BY DEF Range
    <3>2. \A j \in DOMAIN elements : elements[j] = elements[i] => j = i
      BY <2>2
    <3>3. (CHOOSE j \in DOMAIN elements : elements[j] = elements[i]) = i
      BY <3>2
    <3> QED
      BY <3>1, <3>3 DEF MadeAs
  <2>4. \A e \in Range(elements) : \E i \in DOMAIN elements : e = elements[i]
    BY DEF Range
  <2>5. IsFiniteSet(Range(elements))
    BY <1>1, <2>1, FS_Subset DEF PipesAssumption
  <2>6. None \notin Range(elements)
    BY <1>1, <2>1 DEF PipesAssumption
  <2>7. MadeAs \in [Range(elements) -> Nat]
    <3>1. \A e \in Range(elements) : MadeAs[e] \in Nat
      BY <2>1, <2>3, <2>4
    <3>2. \A e \in Range(elements) :
             MadeAs[e] = CHOOSE i \in DOMAIN elements : elements[i] = e
      BY DEF MadeAs
    <3> QED
      BY <3>1, <3>2 DEF MadeAs
  <2>8. ASSUME NEW e \in Range(elements), source[e] # None
        PROVE  source[e] \in Range(elements) /\ MadeAs[source[e]] < MadeAs[e]
    <3>1. PICK j \in DOMAIN elements : e = elements[j]
      BY <2>4
    <3>2. PICK i \in 1 .. j - 1 : elements[i] = source[elements[j]]
      BY <1>1, <2>8, <3>1 DEF IInv, Forest
    <3>3. i \in DOMAIN elements /\ i < j
      BY <2>1
    <3> QED
      BY <2>3, <3>1, <3>2, <3>3
  <2>9. SourceOf \in [Range(elements) -> Range(elements) \cup {None}]
    BY <2>8 DEF SourceOf
  <2>10. \A e \in Range(elements) :
            SourceOf[e] # None => MadeAs[SourceOf[e]] < MadeAs[e]
    BY <2>8 DEF SourceOf
  <2> QED
    BY <2>5, <2>6, <2>7, <2>9, <2>10 DEF IsForest
<1> QED
  BY <1>1, InductiveInvariant, PipesAssumption, PTL

-----------------------------------------------------------------------------
(* What is enabled and given back.                                         *)

Phases == {"args", "pipe", "enable", "play", "run", "stop", "disable", "ended", "aborted"}

\* RTSP clients play encoders, audio outputs are fed by decoders.
Offered ==
    /\ flagged \subseteq Names
    /\ streams \subseteq {n \in Names : Kind[n] \in {"vechn", "aechn"}}
    /\ sinks \in Seq({n \in Names : Kind[n] = "adchn"})

\* The loop over elements or sinks goes through those there are.
LoopsBounded ==
    /\ phase \in {"enable", "disable"} => todo \subseteq flagged
    /\ phase \in {"play", "stop"} => todo \subseteq Places

\* How often e is named in a set of places, and whether it is enabled from the
\* start.
Named(places, e) == Cardinality({p \in places : p[2] = e})
Initial(e) == IF e \in flagged THEN 1 ELSE 0

\* Who holds e, according to where the program is.
HoldsOwed ==
    \A e \in Names :
        /\ phase \in {"args", "pipe", "ended"} => holds[e] = 0
        /\ phase = "enable" => holds[e] = IF e \in flagged \ todo THEN 1 ELSE 0
        /\ phase = "play" => holds[e] = Initial(e) + Named(Places \ todo, e)
        /\ phase = "run" => IF e \in streams THEN holds[e] >= Initial(e)
                            ELSE holds[e] = Initial(e) + Named(Places, e)
        /\ phase = "stop" => holds[e] = Initial(e) + Named(todo, e)
        /\ phase = "disable" => holds[e] = IF e \in todo THEN 1 ELSE 0

\* Without the system nothing is held.
HeldBySystem == sys \/ \A e \in Names : holds[e] = 0
SystemUp == phase \in {"enable", "play", "run", "stop", "disable"} => sys

Balance ==
    /\ phase \in Phases
    /\ holds \in [Names -> Nat]
    /\ Offered
    /\ LoopsBounded
    /\ HoldsOwed
    /\ HeldBySystem
    /\ SystemUp

\* Nothing is up that nobody holds.
LEMMA NothingUp ==
    ASSUME \A e \in Names : holds[e] = 0
    PROVE  Up(holds) = {}
<1>1. {n \in Names : holds[n] > 0} = {}
  OBVIOUS
<1> QED
  BY <1>1, Zenon DEF Up

\* The places of the outputs are finitely many.
LEMMA PlacesFinite ==
    ASSUME Offered
    PROVE  IsFiniteSet(Places)
<1> DEFINE f == [k \in DOMAIN sinks |-> <<k, sinks[k]>>]
<1>1. Len(sinks) \in Nat /\ DOMAIN sinks = 1..Len(sinks)
  BY DEF Offered
<1>2. IsFiniteSet(DOMAIN sinks)
  BY <1>1, FS_Interval
<1>3. f \in Surjection(DOMAIN sinks, Places)
  BY DEF Surjection, Places
<1> QED
  BY <1>2, <1>3, FS_Surjection

\* Taking a place into account changes the count of its output alone.
LEMMA NamedCounts ==
    ASSUME NEW S, IsFiniteSet(S), NEW p, NEW e
    PROVE  /\ Named(S, e) \in Nat
           /\ Named({}, e) = 0
           /\ p \notin S => Named(S \cup {p}, e) = Named(S, e) + (IF p[2] = e THEN 1 ELSE 0)
<1> DEFINE T == {q \in S : q[2] = e}
<1>1. IsFiniteSet(T) /\ Cardinality(T) \in Nat
  BY FS_Subset, FS_CardinalityType
<1>2. Named(S, e) = Cardinality(T) /\ Named({}, e) = 0
  <2>1. {q \in {} : q[2] = e} = {}
    OBVIOUS
  <2> QED
    BY <2>1, FS_EmptySet DEF Named
<1>3. CASE p \notin S /\ p[2] = e
  <2>1. {q \in S \cup {p} : q[2] = e} = T \cup {p} /\ p \notin T
    BY <1>3
  <2>2. Named(S \cup {p}, e) = Cardinality(T) + 1
    BY <1>1, <2>1, FS_AddElement DEF Named
  <2> QED
    BY <1>1, <1>2, <1>3, <2>2
<1>4. CASE p \notin S /\ p[2] # e
  <2>1. {q \in S \cup {p} : q[2] = e} = T
    BY <1>4
  <2>2. Named(S \cup {p}, e) = Cardinality(T)
    BY <2>1 DEF Named
  <2> HIDE DEF T
  <2> QED
    BY <1>1, <1>2, <1>4, <2>2
<1> QED
  BY <1>1, <1>2, <1>3, <1>4

\* No output is an encoder: clients and outputs never hold the same element.
LEMMA OutputsNotStreams ==
    ASSUME Offered, NEW e \in streams
    PROVE  Named(Places, e) = 0
<1>1. \A p \in Places : p[2] \notin streams
  BY DEF Offered, Places
<1>2. {p \in Places : p[2] = e} = {}
  BY <1>1
<1> QED
  BY <1>2, FS_EmptySet DEF Named

\* What is not affected once the arguments have been read.
LEMMA SameArgs ==
    ASSUME Offered, UNCHANGED args
    PROVE  /\ Offered' /\ Places' = Places
           /\ flagged' = flagged /\ streams' = streams
           /\ \A e : Initial(e)' = Initial(e)
BY DEF args, tables, Offered, Places, Initial

\* Clients is what is counted beyond the initial enable.
LEMMA ClientsBeyondInitial ==
    ASSUME NEW e \in Names, holds \in [Names -> Nat]
    PROVE  Clients(e) = holds[e] - Initial(e)
<1>1. CASE e \in flagged
  <2>1. {e} \cap flagged = {e}
    BY <1>1
  <2> QED
    BY <1>1, <2>1, FS_Singleton DEF Clients, Initial
<1>2. CASE e \notin flagged
  <2>1. {e} \cap flagged = {}
    BY <1>2
  <2> QED
    BY <1>2, <2>1, FS_EmptySet DEF Clients, Initial
<1> QED
  BY <1>1, <1>2

LEMMA BalanceInitially == Init => Balance
BY DEF Init, Balance, Phases, Offered, LoopsBounded, HoldsOwed, HeldBySystem, SystemUp

\* Reading arguments holds nothing.
LEMMA ArgumentsBalance ==
    ASSUME Balance, phase \in {"args", "pipe"}, phase' \in {"args", "pipe"},
           UNCHANGED <<sys, holds>>, Offered'
    PROVE  Balance'
BY DEF Balance, Phases, LoopsBounded, HoldsOwed, HeldBySystem, SystemUp

\* An abort gives nothing back: it is not a regular end.
LEMMA AbortBalance ==
    ASSUME Balance, Abort
    PROVE  Balance'
BY SameArgs DEF Abort, Balance, Phases, LoopsBounded, HoldsOwed, HeldBySystem, SystemUp

LEMMA BuildBalance ==
    ASSUME IInv, Balance,
           \/ NextPipe \/ EndPipe
           \/ \E n \in Names, enable \in BOOLEAN : Mention(n, enable) \/ MentionUnknown(n, enable)
           \/ \E n \in Names : Offer(n) \/ AudioOut(n)
    PROVE  Balance'
<1> USE DEF args, tables
<1>1. Offered /\ last \in Names \cup {None}
  BY DEF Balance, IInv, Typed, Range
<1>2. CASE NextPipe \/ EndPipe
  BY <1>1, <1>2, ArgumentsBalance DEF NextPipe, EndPipe, Offered
<1>3. ASSUME NEW n \in Names, NEW enable \in BOOLEAN,
             Mention(n, enable) \/ MentionUnknown(n, enable)
      PROVE  Balance'
  <2>1. Offered'
    BY <1>1, <1>3 DEF Mention, MentionUnknown, Mentioned, Offered
  <2> QED
    BY <1>3, <2>1, ArgumentsBalance DEF Mention, MentionUnknown, Mentioned
<1>4. ASSUME NEW n \in Names, Offer(n) PROVE Balance'
  <2>1. Offered'
    BY <1>1, <1>4 DEF Offer, Offered
  <2> QED
    BY <1>4, <2>1, ArgumentsBalance DEF Offer
<1>5. ASSUME NEW n \in Names, AudioOut(n) PROVE Balance'
  <2>1. Offered'
    BY <1>1, <1>5 DEF AudioOut, Offered
  <2> QED
    BY <1>5, <2>1, ArgumentsBalance DEF AudioOut
<1> QED
  BY <1>2, <1>3, <1>4, <1>5

\* The elements that are enabled from the start, and the system.
LEMMA InitialBalance ==
    ASSUME Balance, EnableSystem \/ \E e \in Names : EnableInitial(e) \/ DisableInitial(e)
    PROVE  Balance'
<1>1. Offered /\ Offered' /\ flagged' = flagged /\ streams' = streams /\ Places' = Places
  BY SameArgs DEF Balance, EnableSystem, EnableInitial, DisableInitial, Then, In
<1>2. CASE EnableSystem
  BY <1>1, <1>2
  DEF EnableSystem, Then, Balance, Phases, LoopsBounded, HoldsOwed, HeldBySystem, SystemUp
<1>3. ASSUME NEW e \in Names, EnableInitial(e) PROVE Balance'
  <2>1. /\ phase = "enable" /\ phase' = phase /\ e \in todo /\ todo' = todo \ {e}
        /\ holds' = [holds EXCEPT ![e] = @ + 1] /\ sys' = sys /\ sys
        /\ todo \subseteq flagged
    BY <1>3 DEF EnableInitial, In, Hold, Balance, SystemUp, LoopsBounded
  <2>2. \A n \in Names : holds[n] = IF n \in flagged \ todo THEN 1 ELSE 0
    BY <2>1 DEF Balance, HoldsOwed
  <2>3. \A n \in Names : holds'[n] = IF n \in flagged \ todo' THEN 1 ELSE 0
    BY <2>1, <2>2 DEF Balance
  <2> QED
    BY <1>1, <2>1, <2>3
    DEF Balance, Phases, LoopsBounded, HoldsOwed, HeldBySystem, SystemUp
<1>4. ASSUME NEW e \in Names, DisableInitial(e) PROVE Balance'
  <2>1. /\ phase = "disable" /\ phase' = phase /\ e \in todo /\ todo' = todo \ {e}
        /\ holds' = [holds EXCEPT ![e] = @ - 1] /\ sys' = sys /\ sys
        /\ todo \subseteq flagged
    BY <1>4 DEF DisableInitial, In, Release, Balance, SystemUp, LoopsBounded
  <2>2. \A n \in Names : holds[n] = IF n \in todo THEN 1 ELSE 0
    BY <2>1 DEF Balance, HoldsOwed
  <2>3. \A n \in Names : holds'[n] = IF n \in todo' THEN 1 ELSE 0
    BY <2>1, <2>2 DEF Balance
  <2>4. holds' \in [Names -> Nat]
    BY <2>1, <2>3 DEF Balance
  <2> QED
    BY <1>1, <2>1, <2>3, <2>4
    DEF Balance, Phases, LoopsBounded, HoldsOwed, HeldBySystem, SystemUp
<1> QED
  BY <1>2, <1>3, <1>4

\* From one loop to the next.
LEMMA PhaseBalance ==
    ASSUME Balance, Enabled \/ Constructed \/ Stopped \/ DisableSystem
    PROVE  Balance'
<1>1. /\ Offered /\ Offered' /\ flagged' = flagged /\ streams' = streams /\ Places' = Places
      /\ holds' = holds /\ todo = {}
      /\ \A e : Initial(e)' = Initial(e)
  BY SameArgs DEF Balance, Enabled, Constructed, Stopped, DisableSystem, Then
<1>2. /\ \A e : Named({}, e) = 0
      /\ \A e : Named(Places, e) \in Nat
      /\ \A e \in streams : Named(Places, e) = 0
  BY <1>1, PlacesFinite, NamedCounts, OutputsNotStreams, FS_EmptySet
<1>3. CASE Enabled
  <2>1. phase = "enable" /\ phase' = "play" /\ todo' = Places /\ sys' = sys
    BY <1>3 DEF Enabled, Then
  <2>2. \A e \in Names : holds'[e] = Initial(e)' + Named(Places \ Places, e)
    <3>1. Places \ Places = {}
      OBVIOUS
    <3>2. \A e \in Names : holds[e] = Initial(e)
      BY <1>1, <2>1 DEF Balance, HoldsOwed, Initial
    <3> QED
      BY <1>1, <1>2, <3>1, <3>2 DEF Initial
  <2>3. \A e \in Names : holds'[e] = Initial(e)' + Named(Places' \ todo', e)
    BY <1>1, <2>1, <2>2
  <2> QED
    BY <1>1, <2>1, <2>3
    DEF Balance, Phases, LoopsBounded, HoldsOwed, HeldBySystem, SystemUp, Named
<1>4. CASE Constructed
  <2>1. phase = "play" /\ phase' = "run" /\ sys' = sys
    BY <1>4 DEF Constructed, Then
  <2>2. \A e \in Names : holds[e] = Initial(e) + Named(Places, e)
    <3>1. Places \ todo = Places
      BY <1>1
    <3> QED
      BY <2>1, <3>1 DEF Balance, HoldsOwed
  <2>3. \A e \in Names : holds'[e] = Initial(e)' + Named(Places', e)
    BY <1>1, <2>2
  <2>4. \A e \in Names : e \in streams' => holds'[e] >= Initial(e)'
    BY <1>1, <1>2, <2>2 DEF Initial
  <2> QED
    BY <1>1, <2>1, <2>3, <2>4
    DEF Balance, Phases, LoopsBounded, HoldsOwed, HeldBySystem, SystemUp, Named
<1>5. CASE Stopped
  <2>1. phase = "stop" /\ phase' = "disable" /\ todo' = flagged /\ sys' = sys
    BY <1>5 DEF Stopped, Then
  <2>2. \A e \in Names : holds'[e] = IF e \in todo' THEN 1 ELSE 0
    BY <1>1, <1>2, <2>1 DEF Balance, HoldsOwed, Initial
  <2> QED
    BY <1>1, <2>1, <2>2
    DEF Balance, Phases, LoopsBounded, HoldsOwed, HeldBySystem, SystemUp
<1>6. CASE DisableSystem
  <2>1. phase = "disable" /\ phase' = "ended"
    BY <1>6 DEF DisableSystem, Then
  <2>2. \A e \in Names : holds'[e] = 0
    BY <1>1, <2>1 DEF Balance, HoldsOwed
  <2> QED
    BY <1>1, <2>1, <2>2
    DEF Balance, Phases, LoopsBounded, HoldsOwed, HeldBySystem, SystemUp
<1> QED
  BY <1>3, <1>4, <1>5, <1>6

\* An output counts once for each place it is named in.
LEMMA SinkBalance ==
    ASSUME Balance, NEW p \in todo, PlaySink(p) \/ StopSink(p)
    PROVE  Balance'
<1> DEFINE one(e) == IF p[2] = e THEN 1 ELSE 0
<1>1. /\ Offered /\ Offered' /\ flagged' = flagged /\ streams' = streams /\ Places' = Places
      /\ phase' = phase /\ todo' = todo \ {p} /\ sys' = sys
      /\ \A e : Initial(e)' = Initial(e)
  BY SameArgs DEF Balance, PlaySink, StopSink, In
<1>2. todo \subseteq Places
  BY DEF Balance, LoopsBounded, PlaySink, StopSink, In
<1>3. p[2] \in Names
  BY <1>1, <1>2 DEF Places, Offered
<1>4. IsFiniteSet(todo') /\ IsFiniteSet(Places \ todo)
  BY <1>1, <1>2, PlacesFinite, FS_Subset
<1>5. CASE PlaySink(p)
  <2>1. phase = "play" /\ holds' = [holds EXCEPT ![p[2]] = @ + 1]
    BY <1>5 DEF PlaySink, In, Hold
  <2>2. Places \ todo' = (Places \ todo) \cup {p} /\ p \notin Places \ todo
    BY <1>1, <1>2
  <2>3. ASSUME NEW e \in Names
        PROVE  holds'[e] = Initial(e) + Named(Places \ todo', e)
    <3>1. /\ Named(Places \ todo', e) = Named(Places \ todo, e) + one(e)
          /\ Named(Places \ todo, e) \in Nat
      BY <1>4, <2>2, NamedCounts
    <3>2. holds'[e] = holds[e] + one(e)
      BY <1>3, <2>1 DEF Balance
    <3>3. holds[e] = Initial(e) + Named(Places \ todo, e) /\ Initial(e) \in Nat
      BY <2>1 DEF Balance, HoldsOwed, Initial
    <3> HIDE DEF one
    <3>4. one(e) \in Nat
      BY DEF one
    <3> QED
      BY <3>1, <3>2, <3>3, <3>4
  <2>4. \A e \in Names : holds'[e] = Initial(e)' + Named(Places' \ todo', e)
    BY <1>1, <2>3
  <2>5. holds' \in [Names -> Nat]
    BY <1>3, <2>1 DEF Balance
  <2> QED
    BY <1>1, <1>2, <2>1, <2>4, <2>5
    DEF Balance, Phases, LoopsBounded, HoldsOwed, HeldBySystem, SystemUp, Named
<1>6. CASE StopSink(p)
  <2>1. phase = "stop" /\ holds' = [holds EXCEPT ![p[2]] = @ - 1]
    BY <1>6 DEF StopSink, In, Release
  <2>2. todo = todo' \cup {p} /\ p \notin todo'
    BY <1>1
  <2>3. ASSUME NEW e \in Names
        PROVE  holds'[e] = Initial(e) + Named(todo', e) /\ holds'[e] \in Nat
    <3>1. Named(todo, e) = Named(todo', e) + one(e) /\ Named(todo', e) \in Nat
      BY <1>4, <2>2, NamedCounts
    <3>2. holds'[e] = holds[e] - one(e)
      BY <1>3, <2>1 DEF Balance
    <3>3. holds[e] = Initial(e) + Named(todo, e) /\ Initial(e) \in Nat
      BY <2>1 DEF Balance, HoldsOwed, Initial
    <3> HIDE DEF one
    <3>4. one(e) \in Nat
      BY DEF one
    <3> QED
      BY <3>1, <3>2, <3>3, <3>4
  <2>4. \A e \in Names : holds'[e] = Initial(e)' + Named(todo', e)
    BY <1>1, <2>3
  <2>5. holds' \in [Names -> Nat]
    BY <2>1, <2>3 DEF Balance
  <2> QED
    BY <1>1, <1>2, <2>1, <2>4, <2>5
    DEF Balance, Phases, LoopsBounded, HoldsOwed, HeldBySystem, SystemUp, Named
<1> QED
  BY <1>5, <1>6

\* Clients come and go above the initial enable, and leave it when the server
\* is closed.
LEMMA ClientBalance ==
    ASSUME Balance,
           Terminate \/ \E e \in Names : ClientPlays(e) \/ ClientStops(e)
    PROVE  Balance'
<1>1. /\ Offered /\ Offered' /\ flagged' = flagged /\ streams' = streams /\ Places' = Places
      /\ phase = "run" /\ sys' = sys /\ sys
      /\ holds \in [Names -> Nat]
      /\ \A e : Initial(e)' = Initial(e) /\ Initial(e) \in Nat
  BY SameArgs
  DEF Balance, SystemUp, Terminate, ClientPlays, ClientStops, In, Then, Initial
<1>2. \A e \in Names : IF e \in streams THEN holds[e] >= Initial(e)
                       ELSE holds[e] = Initial(e) + Named(Places, e)
  BY <1>1 DEF Balance, HoldsOwed
<1>3. ASSUME NEW e \in Names, ClientPlays(e) \/ ClientStops(e) PROVE Balance'
  <2>1. phase' = phase /\ e \in streams
    BY <1>3 DEF ClientPlays, ClientStops, In
  <2>2. /\ holds' \in [Names -> Nat] /\ holds'[e] >= Initial(e)
        /\ \A n \in Names \ {e} : holds'[n] = holds[n]
    <3>1. CASE ClientPlays(e)
      BY <1>1, <1>2, <2>1, <3>1 DEF ClientPlays, Hold
    <3>2. CASE ClientStops(e)
      <4>1. holds[e] - Initial(e) > 0 /\ holds' = [holds EXCEPT ![e] = @ - 1]
        BY <1>1, <3>2, ClientsBeyondInitial DEF ClientStops, Release
      <4> QED
        BY <1>1, <4>1
    <3> QED
      BY <1>3, <3>1, <3>2
  <2>3. \A n \in Names : IF n \in streams THEN holds'[n] >= Initial(n)
                         ELSE holds'[n] = Initial(n) + Named(Places, n)
    BY <1>2, <2>1, <2>2
  <2>4. \A n \in Names : IF n \in streams' THEN holds'[n] >= Initial(n)'
                         ELSE holds'[n] = Initial(n)' + Named(Places', n)
    BY <1>1, <2>3
  <2> QED
    BY <1>1, <2>1, <2>2, <2>4
    DEF Balance, Phases, LoopsBounded, HoldsOwed, HeldBySystem, SystemUp, Named
<1>4. CASE Terminate
  <2>1. /\ phase' = "stop" /\ todo' = Places
        /\ holds' = [e \in Names |-> IF e \in streams THEN holds[e] - Clients(e) ELSE holds[e]]
    BY <1>4 DEF Terminate, Then
  <2>2. ASSUME NEW e \in Names
        PROVE  holds'[e] = Initial(e) + Named(Places, e) /\ holds'[e] \in Nat
    <3>1. CASE e \in streams
      <4>1. Clients(e) = holds[e] - Initial(e) /\ Named(Places, e) = 0
        BY <1>1, <3>1, ClientsBeyondInitial, OutputsNotStreams
      <4> QED
        BY <1>1, <2>1, <3>1, <4>1
    <3>2. CASE e \notin streams
      BY <1>1, <1>2, <2>1, <3>2
    <3> QED
      BY <3>1, <3>2
  <2>3. \A e \in Names : holds'[e] = Initial(e)' + Named(todo', e)
    BY <1>1, <2>1, <2>2
  <2>4. holds' \in [Names -> Nat]
    BY <2>1, <2>2
  <2> QED
    BY <1>1, <2>1, <2>3, <2>4
    DEF Balance, Phases, LoopsBounded, HoldsOwed, HeldBySystem, SystemUp, Named
<1> QED
  BY <1>3, <1>4

\* Every step keeps the balance of what is enabled and given back.
LEMMA StepBalances ==
    ASSUME IInv, Balance, [Next]_vars
    PROVE  Balance'
<1>1. CASE UNCHANGED vars
  <2>1. /\ Offered' /\ Places' = Places /\ flagged' = flagged /\ streams' = streams
        /\ \A e : Initial(e)' = Initial(e)
        /\ UNCHANGED <<phase, todo, sys, holds>>
    BY <1>1, SameArgs DEF vars, Balance
  <2> QED
    BY <2>1 DEF Balance, Phases, LoopsBounded, HoldsOwed, HeldBySystem, SystemUp, Named
<1>2. CASE MentionThrows \/ ConstructionFails \/ \E e \in Names : ClientCrashes(e)
  BY <1>2, AbortBalance DEF MentionThrows, ConstructionFails, ClientCrashes
<1>3. CASE \E p \in todo : PlaySink(p) \/ StopSink(p)
  BY <1>3, SinkBalance
<1> QED
  <2>1. CASE Next
    BY <1>2, <1>3, <2>1, BuildBalance, InitialBalance, PhaseBalance, ClientBalance DEF Next
  <2> QED
    BY <1>1, <2>1

\* However pipes share elements, outputs are repeated and clients come and go:
\* the program owes exactly what it holds, wherever it is.
THEOREM AlwaysBalanced == Spec => []Balance
<1>1. IInv /\ Balance /\ [Next]_vars => Balance'
  BY StepBalances
<1> QED
  BY <1>1, BalanceInitially, InductiveInvariant, PTL DEF Spec

\* Elements are up only while the system is, and the destructor gives back all
\* that was enabled, and nothing twice.
THEOREM AlwaysAllGivenBack == Spec => []AllGivenBack
<1>1. ASSUME Balance PROVE AllGivenBack
  <2>1. Up(holds) # {} => sys
    BY <1>1, NothingUp DEF Balance, HeldBySystem
  <2>2. \A e \in Names : holds[e] >= 0
    BY <1>1 DEF Balance
  <2>3. phase = "ended" => Up(holds) = {}
    BY <1>1, NothingUp DEF Balance, HoldsOwed
  <2> QED
    BY <2>1, <2>2, <2>3 DEF AllGivenBack
<1> QED
  BY <1>1, AlwaysBalanced, PTL

-----------------------------------------------------------------------------
(* Resolutions and frame rates.                                            *)

Rectangles == [at : Int, extent : Nat]

CaptureTypeOK ==
    /\ sensor \in Sensors
    /\ watched \in Axes \cup {"rate"}
    /\ offset \in Int
    /\ own \in [Stages -> Nat]
    /\ up \in 0..5
    /\ table \in Rectangles
    /\ DOMAIN driver = Stages
    /\ late \subseteq 1 .. up
    /\ grown \in BOOLEAN

\* Setters that a platform does not have leave no value behind.
OwnKept ==
    /\ Ev200 \/ ~Sizes => own[2] = 0
    /\ ~Ev200 => own[3] = 0 /\ own[4] = 0

\* The rectangle in the table only ever shrinks, unless more was asked for.
TableShrinks == Sizes /\ ~Ev200 => grown \/ Inside(table, sensor.device[watched])

\* What was told of a stage that still is as it was started.
TakesReported ==
    \A k \in 1 .. up - 1 :
        \/ Late(k)
        \/ driver[k + 1].takes = Reported(own, k)
        \/ ~Sizes /\ driver[k + 1].takes = driver[k].gives

\* What it gives; nothing follows the last one.
GivesReported ==
    \A k \in 1 .. up :
        \/ k = 5
        \/ Sizes /\ k = 1
        \/ Late(k) \/ Unheeded(k)
        \/ driver[k].gives = Reported(own, k)

CaptureIInv == CaptureTypeOK /\ OwnKept /\ TableShrinks /\ TakesReported /\ GivesReported

\* A remainder of something smaller is the thing itself.
LEMMA ModSmall ==
    ASSUME NEW w \in Nat \ {0}, NEW n \in Nat, n < w
    PROVE  n % w = n
OBVIOUS

LEMMA HalfBounds ==
    ASSUME NEW n \in Nat
    PROVE  n \div 2 \in Nat /\ 2 * (n \div 2) <= n /\ n <= 2 * (n \div 2) + 1
OBVIOUS

\* Small numbers survive the conversions.
LEMMA SignedSmall ==
    ASSUME Word \in Nat, Word > 1, NEW n \in Nat, 4 * n < Word
    PROVE  Signed(n) = n
<1>1. n % Word = n
  BY ModSmall
<1>2. n < Word \div 2
  <2>1. Word \div 2 \in Nat /\ Word <= 2 * (Word \div 2) + 1
    BY HalfBounds
  <2> QED
    BY <2>1
<1> QED
  BY <1>1, <1>2 DEF Signed

LEMMA HalfSmall ==
    ASSUME Word \in Nat, Word > 1, NEW a \in Nat, NEW b \in Nat, b <= a, 4 * a < Word
    PROVE  /\ Half(a, b) \in Nat
           /\ 2 * Half(a, b) <= a - b
           /\ Half(a, b) = (a - b) \div 2
<1>1. (a - b) % Word = a - b
  BY ModSmall
<1> QED
  BY <1>1, HalfBounds DEF Half

\* An offset is limited to what the crop leaves on either side.
LEMMA Limited ==
    ASSUME NEW d \in Int, NEW slack \in Nat
    PROVE  Max({Min({d, slack}), -slack}) \in -slack .. slack
<1>1. \A a, b \in Int : Min({a, b}) \in {a, b} /\ Min({a, b}) <= a /\ Min({a, b}) <= b
  <2> SUFFICES ASSUME NEW a \in Int, NEW b \in Int
               PROVE  Min({a, b}) \in {a, b} /\ Min({a, b}) <= a /\ Min({a, b}) <= b
    OBVIOUS
  <2>1. \E x \in {a, b} : \A y \in {a, b} : x =< y
    OBVIOUS
  <2> QED
    BY <2>1 DEF Min
<1>2. \A a, b \in Int : Max({a, b}) \in {a, b} /\ Max({a, b}) >= a /\ Max({a, b}) >= b
  <2> SUFFICES ASSUME NEW a \in Int, NEW b \in Int
               PROVE  Max({a, b}) \in {a, b} /\ Max({a, b}) >= a /\ Max({a, b}) >= b
    OBVIOUS
  <2>1. \E x \in {a, b} : \A y \in {a, b} : x >= y
    OBVIOUS
  <2> QED
    BY <2>1 DEF Max
<1> DEFINE m == Min({d, slack})
<1>3. m \in Int /\ m <= slack
  BY <1>1
<1> HIDE DEF m
<1>4. Max({m, -slack}) \in {m, -slack} /\ Max({m, -slack}) >= -slack
  BY <1>2, <1>3
<1> QED
  BY <1>3, <1>4 DEF m

\* The nearest stage with a value of its own.
LEMMA ReportedNearest ==
    ASSUME NEW o \in [Stages -> Nat], NEW k \in Stages
    PROVE  /\ o[k] > 0 => Reported(o, k) = o[k]
           /\ o[k] = 0 /\ k > 1 => Reported(o, k) = Reported(o, k - 1)
           /\ o[k] = 0 /\ k = 1 => Reported(o, k) = IF V200 THEN 0 ELSE Default
<1> DEFINE with(j) == {i \in 1 .. j : o[i] > 0}
<1>1. k \in 1..5 /\ \A i \in 1..k : i \in Stages /\ o[i] \in Nat
  BY DEF Stages
<1>2. CASE o[k] > 0
  <2>1. k \in with(k) /\ \A y \in with(k) : k >= y
    BY <1>1, <1>2
  <2>2. \A x \in with(k) : (\A y \in with(k) : x >= y) => x = k
    BY <1>1, <2>1
  <2>3. Max(with(k)) = k
    <3> HIDE DEF with
    <3> QED
      BY <2>1, <2>2 DEF Max
  <2>4. with(k) # {}
    BY <2>1
  <2> QED
    BY <1>1, <1>2, <2>3, <2>4 DEF Reported
<1>3. CASE o[k] = 0 /\ k > 1
  <2>1. with(k) = with(k - 1)
    BY <1>1, <1>3
  <2> QED
    BY <1>3, <2>1 DEF Reported
<1>4. CASE o[k] = 0 /\ k = 1
  <2>1. with(k) = {}
    BY <1>4
  <2> QED
    BY <1>4, <2>1 DEF Reported
<1> QED
  BY <1>1, <1>2, <1>3, <1>4

\* What the tables of the sensors are worth.
LEMMA SensorFacts ==
    ASSUME CaptureTypeOK
    PROVE  /\ Default \in Nat
           /\ Sizes =>
                /\ sensor.image[watched].at \in Nat /\ sensor.image[watched].extent \in Nat
                /\ sensor.device[watched].at \in Nat /\ sensor.device[watched].extent \in Nat
                /\ Word \in Nat /\ Word > 1
                /\ 4 * sensor.image[watched].extent < Word
                /\ 4 * (sensor.device[watched].at + sensor.device[watched].extent) < Word
                /\ Ev200 => sensor.image[watched].at = 0
<1>1. sensor \in Sensors /\ WellFormed(sensor) /\ Word \in Nat
  BY SensorsAssumption DEF CaptureTypeOK
<1>2. CASE Sizes
  <2> DEFINE image == sensor.image[watched]
             device == sensor.device[watched]
             window == sensor.window[watched]
  <2>1. watched \in Axes
    BY <1>2 DEF Sizes
  <2>2. /\ image.at \in Nat /\ image.extent \in Nat \ {0}
        /\ device.at \in Nat /\ device.extent \in Nat \ {0}
        /\ window.extent \in Nat
        /\ Ev200 => image.at = 0
    BY <1>1, <2>1 DEF WellFormed, Ev200
  <2>3. 4 * (image.at + image.extent) < Word /\ 4 * (device.at + device.extent) < Word
    BY <1>1, <2>1, SensorsAssumption
  <2>4. Default = window.extent
    BY <1>2 DEF Default
  <2> HIDE DEF image, device, window
  <2>5. Word > 1 /\ 4 * image.extent < Word
    BY <1>1, <2>2, <2>3
  <2> QED
    BY <1>1, <2>2, <2>3, <2>4, <2>5 DEF image, device
<1>3. CASE ~Sizes
  BY <1>1, <1>3 DEF Default, WellFormed
<1> QED
  BY <1>2, <1>3

\* A stage reports a number.
LEMMA ReportedTyped ==
    ASSUME CaptureTypeOK, NEW k \in Stages
    PROVE  Reported(own, k) \in Nat
<1>1. own \in [Stages -> Nat] /\ Stages = 1..5 /\ Default \in Nat
  BY SensorFacts DEF CaptureTypeOK, Stages
<1>2. Reported(own, 1) \in Nat
  BY <1>1, ReportedNearest
<1>3. \A i \in 2..5 : Reported(own, i - 1) \in Nat => Reported(own, i) \in Nat
  BY <1>1, ReportedNearest
<1>4. Reported(own, 2) \in Nat
  BY <1>2, <1>3
<1>5. Reported(own, 3) \in Nat
  BY <1>3, <1>4
<1>6. Reported(own, 4) \in Nat
  BY <1>3, <1>5
<1>7. Reported(own, 5) \in Nat
  BY <1>3, <1>6
<1> QED
  BY <1>1, <1>2, <1>4, <1>5, <1>6, <1>7

\* hi3516ev200: a window that fits is centred and moved within the image.
LEMMA WindowFits ==
    ASSUME CaptureTypeOK, Sizes, Ev200, Fits
    PROVE  Inside(Window, sensor.image[watched])
<1> DEFINE image == sensor.image[watched].extent
           r == Reported(own, 1)
           rest == (image - r) \div 2
<1>1. /\ sensor.image[watched].at = 0 /\ image \in Nat /\ Word \in Nat /\ Word > 1
      /\ 4 * image < Word
  BY SensorFacts
<1>2. r \in Nat
  BY ReportedTyped DEF Stages
<1>3. r <= image /\ -rest <= offset /\ offset <= rest /\ offset \in Int
  BY DEF Fits, CaptureTypeOK
<1>4. Window = [at |-> Signed(Half(image, r) + offset), extent |-> r]
  BY DEF Window
<1> HIDE DEF image, r
<1>5. Half(image, r) = rest /\ rest \in Nat /\ 2 * rest <= image - r
  BY <1>1, <1>2, <1>3, HalfSmall
<1> HIDE DEF rest
<1>6. rest + offset \in Nat /\ rest + offset + r <= image /\ 4 * (rest + offset) < Word
  BY <1>1, <1>2, <1>3, <1>5
<1>7. Signed(rest + offset) = rest + offset
  BY <1>1, <1>6, SignedSmall
<1> QED
  BY <1>1, <1>4, <1>5, <1>6, <1>7 DEF Inside, image

\* The others: the next window is within what the table has left.
LEMMA WindowShrinks ==
    ASSUME CaptureTypeOK, Sizes, ~Ev200, own[2] <= table.extent,
           Inside(table, sensor.device[watched])
    PROVE  Inside(Window, sensor.device[watched])
<1> DEFINE device == sensor.device[watched]
           slack == Signed(Half(table.extent, own[2]))
           shift == Max({Min({offset, slack}), -slack})
<1>1. CASE own[2] = 0
  BY <1>1 DEF Window
<1>2. CASE own[2] # 0
  <2>1. /\ device.at \in Nat /\ device.extent \in Nat /\ Word \in Nat /\ Word > 1
        /\ 4 * (device.at + device.extent) < Word
    BY SensorFacts
  <2>2. /\ table.at \in Int /\ table.extent \in Nat /\ own[2] \in Nat /\ offset \in Int
        /\ device.at <= table.at /\ table.at + table.extent <= device.at + device.extent
    BY DEF CaptureTypeOK, Rectangles, Stages, Inside
  <2>3. Window = [at |-> Signed(table.at + slack + shift), extent |-> own[2]]
    BY <1>2 DEF Window
  <2> HIDE DEF device
  <2>4. 4 * table.extent < Word
    BY <2>1, <2>2
  <2>5. /\ Half(table.extent, own[2]) \in Nat
        /\ 2 * Half(table.extent, own[2]) <= table.extent - own[2]
    BY <2>1, <2>2, <2>4, HalfSmall
  <2>6. slack = Half(table.extent, own[2])
    BY <2>1, <2>2, <2>4, <2>5, SignedSmall
  <2>7. slack \in Nat /\ 2 * slack <= table.extent - own[2]
    BY <2>5, <2>6
  <2> HIDE DEF slack
  <2>8. shift \in -slack .. slack
    BY <2>2, <2>7, Limited
  <2> HIDE DEF shift
  <2>9. /\ table.at + slack + shift \in Nat
        /\ table.at <= table.at + slack + shift
        /\ table.at + slack + shift + own[2] <= table.at + table.extent
        /\ 4 * (table.at + slack + shift) < Word
    BY <2>1, <2>2, <2>7, <2>8
  <2>10. Signed(table.at + slack + shift) = table.at + slack + shift
    BY <2>1, <2>9, SignedSmall
  <2>11. Window.at = table.at + slack + shift /\ Window.extent = own[2]
    BY <2>3, <2>10
  <2> QED
    BY <2>1, <2>2, <2>9, <2>11 DEF Inside, device
<1> QED
  BY <1>1, <1>2

\* The next window is a rectangle, in whatever state the table is.
LEMMA WindowTyped ==
    ASSUME CaptureTypeOK, Sizes, ~Ev200
    PROVE  Window \in Rectangles
<1>1. /\ table.at \in Int /\ table.extent \in Nat /\ own[2] \in Nat /\ offset \in Int
      /\ Word \in Nat /\ Word > 1 /\ table \in Rectangles
  BY SensorFacts DEF CaptureTypeOK, Rectangles, Stages
<1>2. \A n \in Int : Signed(n) \in Int
  BY <1>1 DEF Signed
<1>3. \A n \in Nat : n \div 2 \in Nat
  BY HalfBounds
<1>4. Half(table.extent, own[2]) \in Int
  <2>1. (table.extent - own[2]) % Word \in Nat
    BY <1>1
  <2> QED
    BY <1>3, <2>1 DEF Half
<1> DEFINE slack == Signed(Half(table.extent, own[2]))
           shift == Max({Min({offset, slack}), -slack})
<1>5. slack \in Int
  BY <1>2, <1>4
<1> HIDE DEF slack
<1>6. shift \in Int
  <2>1. \A a, b \in Int : \E x \in {a, b} : \A y \in {a, b} : x =< y
    OBVIOUS
  <2>2. Min({offset, slack}) \in Int
    BY <1>1, <1>5, <2>1 DEF Min
  <2>3. \A a, b \in Int : \E x \in {a, b} : \A y \in {a, b} : x >= y
    OBVIOUS
  <2> DEFINE m == Min({offset, slack})
  <2> HIDE DEF m
  <2>4. m \in Int => Max({m, -slack}) \in Int
    BY <1>5, <2>3 DEF Max
  <2> QED
    BY <2>2, <2>4 DEF m
<1>7. Window = IF own[2] = 0 THEN table
               ELSE [at |-> Signed(table.at + slack + shift), extent |-> own[2]]
  BY DEF Window, slack
<1> HIDE DEF shift
<1>8. Signed(table.at + slack + shift) \in Int
  BY <1>1, <1>2, <1>5, <1>6
<1> QED
  BY <1>1, <1>7, <1>8 DEF Rectangles

-----------------------------------------------------------------------------
\* What the sensor and the platform decide stays as it is.
LEMMA SameSetup ==
    ASSUME UNCHANGED setup
    PROVE  /\ sensor' = sensor /\ watched' = watched /\ offset' = offset
           /\ offline' = offline
           /\ Sizes' <=> Sizes
           /\ Ev200' <=> Ev200
           /\ own' = own => \A k : Reported(own, k)' = Reported(own, k)
           /\ \A k : Reported(own, k)' = Reported(own', k)
BY DEF setup, Sizes, Ev200, V200, Reported, Default

\* A setter makes those late that were set or report something else.
LEMMA StoreKeeps ==
    ASSUME CaptureIInv, NEW o \in [Stages -> Nat], Store(o),
           Ev200 \/ ~Sizes => o[2] = 0,
           ~Ev200 => o[3] = 0 /\ o[4] = 0
    PROVE  CaptureIInv'
<1>1. /\ own' = o /\ UNCHANGED <<setup, up, table, driver, grown>>
      /\ late' = late \cup
            {k \in 1 .. up : o[k] # own[k] \/ Reported(o, k) # Reported(own, k)}
  BY DEF Store
<1>2. /\ sensor' = sensor /\ watched' = watched /\ offset' = offset
      /\ (Sizes' <=> Sizes) /\ (Ev200' <=> Ev200) /\ offline' = offline
      /\ \A k : Reported(own, k)' = Reported(o, k)
  BY <1>1, SameSetup
<1>3. up \in 0..5 /\ late \subseteq 1..up /\ Stages = 1..5
  BY DEF CaptureIInv, CaptureTypeOK, Stages
<1>4. CaptureTypeOK'
  <2>1. late' \subseteq 1..up' /\ up' \in 0..5
    <3>1. late' \subseteq late \cup 1..up
      BY <1>1
    <3>2. up' = up
      BY <1>1
    <3> QED
      BY <1>3, <3>1, <3>2
  <2>2. own' \in [Stages -> Nat] /\ DOMAIN driver' = Stages
    BY <1>1 DEF CaptureIInv, CaptureTypeOK
  <2> QED
    BY <1>1, <1>2, <2>1, <2>2 DEF CaptureIInv, CaptureTypeOK
<1>5. OwnKept' /\ TableShrinks'
  BY <1>1, <1>2 DEF CaptureIInv, OwnKept, TableShrinks
<1>6. ASSUME NEW k \in 1..up, ~Late(k)'
      PROVE  ~Late(k) /\ o[k] = own[k] /\ Reported(own, k)' = Reported(own, k)
  <2>1. k \notin late' /\ late \subseteq late'
    BY <1>1, <1>2, <1>3, <1>6 DEF Late
  <2> QED
    BY <1>1, <1>2, <1>3, <1>6, <2>1 DEF Late
<1>7. ASSUME NEW k \in 1..up, ~Late(k)', Unheeded(k)
      PROVE  Unheeded(k)'
  BY <1>1, <1>2, <1>6, <1>7 DEF Unheeded
<1>8. TakesReported'
  BY <1>1, <1>2, <1>3, <1>6 DEF CaptureIInv, TakesReported
<1>9. GivesReported'
  BY <1>1, <1>2, <1>3, <1>6, <1>7 DEF CaptureIInv, GivesReported
<1> QED
  BY <1>4, <1>5, <1>8, <1>9 DEF CaptureIInv

LEMMA SetterKeeps ==
    ASSUME CaptureIInv, NEW v \in Values, NEW k \in Stages,
           SetEv200(k, v) \/ SetV200(k, v) \/ SetCv300(v) \/ SetVpssChan(v)
    PROVE  CaptureIInv'
<1>1. own \in [Stages -> Nat] /\ OwnKept /\ v \in Nat /\ Stages = 1..5
  BY SensorsAssumption DEF CaptureIInv, CaptureTypeOK, Values, Stages
<1>2. \A j \in Stages :
        /\ [own EXCEPT ![j] = v] \in [Stages -> Nat]
        /\ [own EXCEPT ![j] = v][j] = v
        /\ \A i \in Stages \ {j} : [own EXCEPT ![j] = v][i] = own[i]
  BY <1>1
<1>3. CASE SetEv200(k, v)
  <2>1. Ev200 /\ k \in {1, 2, 3, 4}
    BY <1>3 DEF SetEv200
  <2>2. PICK j \in {1, 3, 4} : Store([own EXCEPT ![j] = v])
    BY <1>3 DEF SetEv200
  <2>3. /\ [own EXCEPT ![j] = v] \in [Stages -> Nat]
        /\ [own EXCEPT ![j] = v][2] = 0
    BY <1>1, <1>2, <2>1 DEF OwnKept
  <2> QED
    BY <2>1, <2>2, <2>3, StoreKeeps
<1>4. CASE SetV200(k, v)
  <2>1. ~Ev200
    BY <1>4 DEF SetV200, V200, Ev200
  <2>2. CASE Store([own EXCEPT ![1] = v])
    <3>1. /\ [own EXCEPT ![1] = v] \in [Stages -> Nat]
          /\ ~Sizes => [own EXCEPT ![1] = v][2] = 0
          /\ [own EXCEPT ![1] = v][3] = 0 /\ [own EXCEPT ![1] = v][4] = 0
      BY <1>1, <1>2, <2>1 DEF OwnKept
    <3> QED
      BY <2>1, <2>2, <3>1, StoreKeeps
  <2>3. CASE Sizes /\ Store([own EXCEPT ![1] = v, ![2] = v])
    <3> DEFINE o == [own EXCEPT ![1] = v, ![2] = v]
    <3>1. o \in [Stages -> Nat] /\ o[3] = 0 /\ o[4] = 0
      BY <1>1, <2>1 DEF OwnKept
    <3>2. Store(o)
      BY <2>3
    <3> HIDE DEF o
    <3> QED
      BY <2>1, <2>3, <3>1, <3>2, StoreKeeps
  <2> QED
    BY <1>4, <2>2, <2>3 DEF SetV200
<1>5. CASE SetCv300(v)
  <2>1. ~Ev200 /\ Sizes /\ Store([own EXCEPT ![2] = v])
    BY <1>5 DEF SetCv300, Cv300, Ev200
  <2>2. /\ [own EXCEPT ![2] = v] \in [Stages -> Nat]
        /\ [own EXCEPT ![2] = v][3] = 0 /\ [own EXCEPT ![2] = v][4] = 0
    BY <1>1, <1>2, <2>1 DEF OwnKept
  <2> QED
    BY <2>1, <2>2, StoreKeeps
<1>6. CASE SetVpssChan(v)
  <2>1. Store([own EXCEPT ![5] = v])
    BY <1>6 DEF SetVpssChan
  <2>2. /\ [own EXCEPT ![5] = v] \in [Stages -> Nat]
        /\ \A i \in {2, 3, 4} : [own EXCEPT ![5] = v][i] = own[i]
    BY <1>1, <1>2
  <2> QED
    BY <1>1, <2>1, <2>2, StoreKeeps DEF OwnKept
<1> QED
  BY <1>3, <1>4, <1>5, <1>6

\* A stage that is started takes what the one before reports and gives what it
\* reports itself; the others go on as they are.
LEMMA StartKeeps ==
    ASSUME CaptureIInv, NEW k \in Stages, up = k - 1, up' = k, UNCHANGED <<setup, own>>,
           NEW d, driver' = [driver EXCEPT ![k] = d],
           late' = late \ {k},
           k = 2 \/ table' = table,
           \/ k = 1
           \/ d.takes = Reported(own, k - 1)
           \/ ~Sizes /\ d.takes = driver[k - 1].gives,
           \/ k = 5
           \/ Sizes /\ k = 1
           \/ Late(k)' \/ Unheeded(k)'
           \/ d.gives = Reported(own, k)
    PROVE  TakesReported' /\ GivesReported' /\ OwnKept'
<1>1. /\ (Sizes' <=> Sizes) /\ (Ev200' <=> Ev200) /\ offline' = offline
      /\ \A j : Reported(own, j)' = Reported(own, j)
  BY SameSetup
<1>2. /\ DOMAIN driver = Stages /\ k \in 1..5
      /\ driver'[k] = d /\ \A j \in 1..(k - 1) : driver'[j] = driver[j]
  BY DEF CaptureIInv, CaptureTypeOK, Stages
<1>3. ASSUME NEW j \in 1..(k - 1)
      PROVE  (Late(j)' <=> Late(j)) /\ (Unheeded(j)' <=> Unheeded(j))
  <2>1. Late(j)' <=> Late(j)
    BY <1>1, <1>2 DEF Late
  <2>2. j = 2 => table' = table
    BY <1>2
  <2> QED
    BY <1>1, <1>2, <2>1, <2>2 DEF Unheeded
<1>4. ASSUME NEW j \in 1..(k - 1)
      PROVE  \/ Late(j)'
             \/ driver'[j + 1].takes = Reported(own, j)
             \/ ~Sizes /\ driver'[j + 1].takes = driver'[j].gives
  <2>1. CASE j = k - 1
    BY <1>2, <2>1
  <2>2. CASE j \in 1..(up - 1)
    BY <1>2, <1>3, <2>2 DEF CaptureIInv, TakesReported
  <2> QED
    BY <1>2, <2>1, <2>2
<1>5. TakesReported'
  BY <1>1, <1>4 DEF TakesReported
<1>6. ASSUME NEW j \in 1..k
      PROVE  \/ j = 5
             \/ Sizes /\ j = 1
             \/ Late(j)' \/ Unheeded(j)'
             \/ driver'[j].gives = Reported(own, j)
  <2>1. CASE j = k
    BY <1>2, <2>1
  <2>2. CASE j \in 1..up
    BY <1>2, <1>3, <2>2 DEF CaptureIInv, GivesReported
  <2> QED
    BY <1>2, <2>1, <2>2
<1>7. GivesReported'
  BY <1>1, <1>6 DEF GivesReported
<1> QED
  BY <1>1, <1>5, <1>7 DEF CaptureIInv, OwnKept

\* The types after a start.
LEMMA StartTyped ==
    ASSUME CaptureIInv, NEW k \in Stages, up = k - 1, up' = k, UNCHANGED <<setup, own>>,
           NEW d, driver' = [driver EXCEPT ![k] = d],
           late' = late \ {k},
           table' \in Rectangles, grown' \in BOOLEAN
    PROVE  CaptureTypeOK'
<1>1. sensor' = sensor /\ watched' = watched /\ offset' = offset
  BY SameSetup
<1>2. up' \in 0..5 /\ late' \subseteq 1 .. up'
  BY DEF Stages, CaptureIInv, CaptureTypeOK
<1>3. own' \in [Stages -> Nat] /\ DOMAIN driver' = Stages
  BY DEF CaptureIInv, CaptureTypeOK
<1> QED
  BY <1>1, <1>2, <1>3 DEF CaptureIInv, CaptureTypeOK

\* A stage that leaves the table alone.
LEMMA PlainStart ==
    ASSUME CaptureIInv, NEW k \in Stages, up = k - 1, up' = k, UNCHANGED <<setup, own>>,
           NEW d, driver' = [driver EXCEPT ![k] = d],
           late' = late \ {k},
           UNCHANGED <<table, grown>>,
           \/ k = 1
           \/ d.takes = Reported(own, k - 1)
           \/ ~Sizes /\ d.takes = driver[k - 1].gives,
           \/ k = 5
           \/ Sizes /\ k = 1
           \/ Late(k)' \/ Unheeded(k)'
           \/ d.gives = Reported(own, k)
    PROVE  CaptureIInv'
<1>1. TakesReported' /\ GivesReported' /\ OwnKept'
  BY StartKeeps
<1>2. table' \in Rectangles /\ grown' \in BOOLEAN
  BY DEF CaptureIInv, CaptureTypeOK
<1>3. CaptureTypeOK'
  BY <1>2, StartTyped
<1>4. TableShrinks'
  BY SameSetup DEF CaptureIInv, TableShrinks
<1> QED
  BY <1>1, <1>3, <1>4 DEF CaptureIInv

\* The window.
LEMMA StartWindowKeeps ==
    ASSUME CaptureIInv, StartWindow
    PROVE  CaptureIInv'
<1> DEFINE d == [takes |-> Reported(own, 1), gives |-> Window.extent]
<1>1. /\ Sizes /\ up = 1 /\ up' = 2 /\ UNCHANGED <<setup, own>>
      /\ driver' = [driver EXCEPT ![2] = d] /\ late' = late \ {2}
      /\ table' = IF Ev200 THEN table ELSE Window
      /\ grown' = (grown \/ (~Ev200 /\ own[2] > table.extent))
  BY DEF StartWindow, Start
<1>2. /\ sensor' = sensor /\ watched' = watched /\ (Sizes' <=> Sizes) /\ (Ev200' <=> Ev200)
      /\ \A j : Reported(own, j)' = Reported(own, j)
      /\ own' = own
  BY <1>1, SameSetup
<1>3. 2 \in Stages /\ own \in [Stages -> Nat] /\ own[2] \in Nat /\ table.extent \in Nat
  BY DEF CaptureIInv, CaptureTypeOK, Stages, Rectangles
<1>4. d.takes = Reported(own, 1) /\ d.gives = Window.extent
  OBVIOUS
<1> HIDE DEF d
<1>5. table' \in Rectangles /\ grown' \in BOOLEAN
  BY <1>1, WindowTyped DEF CaptureIInv, CaptureTypeOK
<1>6. CaptureTypeOK'
  <2>1. up = 2 - 1
    BY <1>1
  <2> QED
    BY <1>1, <1>3, <1>5, <2>1, StartTyped
<1>7. d.gives = Reported(own, 2) \/ Unheeded(2)'
  <2>1. CASE Ev200
    <3>1. d.gives = Reported(own, 1)
      BY <1>4, <2>1 DEF Window
    <3>2. Reported(own, 2) = Reported(own, 1)
      BY <1>3, <2>1, ReportedNearest DEF CaptureIInv, OwnKept
    <3> QED
      BY <3>1, <3>2
  <2>2. CASE ~Ev200 /\ own[2] = 0
    <3>1. Window = table /\ table' = table /\ d.gives = table.extent
      BY <1>1, <1>4, <2>2 DEF Window
    <3> QED
      BY <1>1, <1>2, <2>2, <3>1 DEF Unheeded
  <2>3. CASE ~Ev200 /\ own[2] # 0
    <3>1. Window.extent = own[2]
      BY <2>3 DEF Window
    <3>2. own[2] > 0 => Reported(own, 2) = own[2]
      BY <1>3, ReportedNearest
    <3>3. own[2] > 0
      BY <1>3, <2>3
    <3> QED
      BY <1>4, <3>1, <3>2, <3>3
  <2> QED
    BY <2>1, <2>2, <2>3
<1>8. TakesReported' /\ GivesReported' /\ OwnKept'
  <2>1. up = 2 - 1 /\ d.takes = Reported(own, 2 - 1)
    BY <1>1, <1>4
  <2> QED
    BY <1>1, <1>3, <1>7, <2>1, StartKeeps
<1>9. TableShrinks'
  <2>1. CASE Ev200 \/ grown'
    BY <1>2, <2>1 DEF TableShrinks
  <2>2. CASE ~Ev200 /\ ~grown'
    <3>1. ~grown /\ own[2] <= table.extent /\ table' = Window
      <4>1. ~(grown \/ (~Ev200 /\ own[2] > table.extent))
        BY <1>1, <2>2, Zenon
      <4> QED
        BY <1>1, <1>3, <2>2, <4>1
    <3>3. Inside(table, sensor.device[watched])
      BY <1>1, <2>2, <3>1 DEF CaptureIInv, TableShrinks
    <3>2. Inside(Window, sensor.device[watched])
      BY <1>1, <2>2, <3>1, <3>3, WindowShrinks DEF CaptureIInv
    <3> QED
      BY <1>2, <3>1, <3>2 DEF TableShrinks, Inside
  <2> QED
    BY <2>1, <2>2
<1> QED
  BY <1>6, <1>8, <1>9 DEF CaptureIInv

\* Crops of the channel and of the group.
LEMMA CroppingStarts ==
    ASSUME CaptureIInv, StartViChan \/ StartGroup \/ StartVpssChan
    PROVE  CaptureIInv'
<1>1. own \in [Stages -> Nat] /\ OwnKept /\ {3, 4, 5} \subseteq Stages
  BY DEF CaptureIInv, CaptureTypeOK, Stages
<1>2. CASE StartViChan
  <2> DEFINE in == Reported(own, 2)
             crops == Ev200 /\ offline /\ own[3] \notin {0, in}
             d == [takes |-> in, gives |-> IF crops THEN own[3] ELSE in]
  <2>1. /\ Sizes /\ up = 3 - 1 /\ up' = 3 /\ UNCHANGED <<setup, own>>
        /\ driver' = [driver EXCEPT ![3] = d] /\ late' = late \ {3}
        /\ UNCHANGED <<table, grown>>
    BY <1>2 DEF StartViChan, Start
  <2>2. d.takes = Reported(own, 3 - 1)
    OBVIOUS
  <2>3. d.gives = Reported(own, 3) \/ (Ev200 /\ ~offline)
    <3>1. /\ own[3] > 0 => Reported(own, 3) = own[3]
          /\ own[3] = 0 => Reported(own, 3) = in
      BY <1>1, ReportedNearest
    <3> QED
      BY <1>1, <3>1 DEF OwnKept
  <2>4. d.gives = Reported(own, 3) \/ Unheeded(3)'
    BY <2>1, <2>3, SameSetup DEF Unheeded
  <2> HIDE DEF d
  <2> QED
    <3>1. 3 \in Stages
      BY <1>1
    <3> QED
      BY <2>1, <2>2, <2>4, <3>1, PlainStart
<1>3. CASE StartGroup
  <2>1. PICK crops \in (IF Ev200 /\ own[4] > 0 /\ CropFits(4) THEN BOOLEAN ELSE {FALSE}) :
          Start(4, IF crops THEN own[4] ELSE Reported(own, 3))
    BY <1>3 DEF StartGroup
  <2> DEFINE d == [takes |-> Reported(own, 3),
                   gives |-> IF crops THEN own[4] ELSE Reported(own, 3)]
  <2>2. /\ Sizes /\ up = 4 - 1 /\ up' = 4 /\ UNCHANGED <<setup, own>>
        /\ driver' = [driver EXCEPT ![4] = d] /\ late' = late \ {4}
        /\ UNCHANGED <<table, grown>>
    <3>1. Sizes /\ UNCHANGED <<table, grown>>
      BY <1>3 DEF StartGroup
    <3>2. Start(4, d.gives)
      BY <2>1
    <3> HIDE DEF d
    <3>3. driver' = [driver EXCEPT ![4] = [takes |-> Reported(own, 4 - 1), gives |-> d.gives]]
      BY <3>2 DEF Start
    <3>4. d = [takes |-> Reported(own, 4 - 1), gives |-> d.gives]
      BY DEF d
    <3>5. up = 4 - 1 /\ up' = 4 /\ UNCHANGED <<setup, own>> /\ late' = late \ {4}
      BY <3>2 DEF Start
    <3> QED
      BY <3>1, <3>3, <3>4, <3>5
  <2>3. d.takes = Reported(own, 4 - 1)
    OBVIOUS
  <2>4. \/ d.gives = Reported(own, 4)
        \/ Ev200 /\ own[4] > 0 /\ d.gives = d.takes
    <3>1. /\ own[4] > 0 => Reported(own, 4) = own[4]
          /\ own[4] = 0 => Reported(own, 4) = Reported(own, 3)
      BY <1>1, ReportedNearest
    <3>2. crops => own[4] > 0
      OBVIOUS
    <3>3. own[4] \in Nat
      BY <1>1
    <3> QED
      BY <1>1, <3>1, <3>2, <3>3 DEF OwnKept
  <2>5. driver'[4] = d
    BY <2>2 DEF CaptureIInv, CaptureTypeOK, Stages
  <2> HIDE DEF d
  <2>6. d.gives = Reported(own, 4) \/ Unheeded(4)'
    BY <2>2, <2>4, <2>5, SameSetup DEF Unheeded
  <2> QED
    <3>1. 4 \in Stages
      BY <1>1
    <3> QED
      BY <2>2, <2>3, <2>6, <3>1, PlainStart
<1>4. CASE StartVpssChan
  <2> DEFINE d == [takes |-> Reported(own, 4), gives |-> Reported(own, 5)]
  <2>1. /\ Sizes /\ up = 5 - 1 /\ up' = 5 /\ UNCHANGED <<setup, own>>
        /\ driver' = [driver EXCEPT ![5] = d] /\ late' = late \ {5}
        /\ UNCHANGED <<table, grown>>
    BY <1>4 DEF StartVpssChan, Start
  <2>2. d.takes = Reported(own, 5 - 1)
    OBVIOUS
  <2> HIDE DEF d
  <2> QED
    <3>1. 5 \in Stages
      BY <1>1
    <3> QED
      BY <2>1, <2>2, <3>1, PlainStart
<1> QED
  BY <1>2, <1>3, <1>4

\* The first stage gives what it reports.
LEMMA StartFirstKeeps ==
    ASSUME CaptureIInv, StartFirst
    PROVE  CaptureIInv'
<1> DEFINE d == [takes |-> 0, gives |-> Reported(own, 1)]
<1>1. /\ up = 1 - 1 /\ up' = 1 /\ UNCHANGED <<setup, own, table, grown>>
      /\ driver' = [driver EXCEPT ![1] = d] /\ late' = late
  BY DEF StartFirst
<1>2. late' = late \ {1}
  BY <1>1 DEF CaptureIInv, CaptureTypeOK
<1>3. 1 \in Stages /\ d.gives = Reported(own, 1)
  BY DEF Stages
<1> HIDE DEF d
<1> QED
  BY <1>1, <1>2, <1>3, PlainStart

\* Rates: device and group pass on what they are given, channels without a rate
\* of their own too.
LEMMA StartRateKeeps ==
    ASSUME CaptureIInv, NEW k \in Stages, StartRate(k)
    PROVE  CaptureIInv'
<1> DEFINE given == driver[k - 1].gives
           tells == k \in {3, 5} /\ own[k] > 0
           d == [takes |-> IF tells THEN Reported(own, k - 1) ELSE given,
                 gives |-> IF tells THEN own[k] ELSE given]
<1>1. /\ watched = "rate" /\ k > 1 /\ up = k - 1 /\ up' = k /\ UNCHANGED <<setup, own>>
      /\ driver' = [driver EXCEPT ![k] = d] /\ late' = late \ {k}
      /\ UNCHANGED <<table, grown>>
  BY DEF StartRate
<1>2. ~Sizes
  BY <1>1 DEF Sizes, Axes
<1>3. /\ own \in [Stages -> Nat] /\ k \in 1..5 /\ k - 1 \in 1..up /\ own[k] \in Nat
      /\ own[2] = 0 /\ (~Ev200 => own[3] = 0 /\ own[4] = 0)
      /\ DOMAIN driver = Stages
  BY <1>1, <1>2 DEF CaptureIInv, CaptureTypeOK, OwnKept, Stages
<1>4. /\ own[k] > 0 => Reported(own, k) = own[k]
      /\ own[k] = 0 => Reported(own, k) = Reported(own, k - 1)
  BY <1>1, <1>3, ReportedNearest
<1>5. d.takes = Reported(own, k - 1) \/ (~Sizes /\ d.takes = driver[k - 1].gives)
  BY <1>2
<1>6. driver'[k] = d /\ (Ev200' <=> Ev200) /\ (Sizes' <=> Sizes) /\ own' = own
  BY <1>1, <1>3, SameSetup
<1>7. CASE tells
  <2>1. d.gives = Reported(own, k)
    BY <1>4, <1>7
  <2> HIDE DEF d
  <2> QED
    BY <1>1, <1>5, <2>1, PlainStart
<1>8. CASE ~tells
  <2>1. d.gives = given /\ d.takes = given
    BY <1>8
  <2> HIDE DEF d
  <2>2. CASE Late(k - 1)
    <3>1. late \cap 1 .. (k - 1) # {}
      BY <1>2, <2>2 DEF Late
    <3>2. late' \cap 1 .. k # {}
      BY <1>1, <1>3, <3>1
    <3>3. Late(k)'
      BY <1>2, <1>6, <3>2 DEF Late
    <3> QED
      BY <1>1, <1>5, <3>3, PlainStart
  <2>3. CASE Unheeded(k - 1)
    <3>1. k = 5
      BY <1>2, <1>3, <2>3 DEF Unheeded
    <3> QED
      BY <1>1, <1>5, <3>1, PlainStart
  <2>4. CASE given = Reported(own, k - 1)
    <3>1. CASE own[k] = 0
      BY <1>1, <1>4, <1>5, <2>1, <2>4, <3>1, PlainStart
    <3>2. CASE own[k] > 0 /\ k = 4
      <4>1. Unheeded(k)'
        BY <1>3, <1>6, <2>1, <3>2 DEF Unheeded
      <4> QED
        BY <1>1, <1>5, <4>1, PlainStart
    <3>3. own[k] = 0 \/ (own[k] > 0 /\ k = 4)
      BY <1>1, <1>3, <1>8
    <3> QED
      BY <3>1, <3>2, <3>3
  <2>5. Late(k - 1) \/ Unheeded(k - 1) \/ given = Reported(own, k - 1)
    BY <1>2, <1>3 DEF CaptureIInv, GivesReported
  <2> QED
    BY <2>2, <2>3, <2>4, <2>5
<1> QED
  BY <1>7, <1>8

\* What is stopped is the last one; those before it go on as they are.
LEMMA StopKeeps ==
    ASSUME CaptureIInv, Stop
    PROVE  CaptureIInv'
<1>1. /\ up \in 1..5 /\ up' = up - 1 /\ UNCHANGED <<setup, own, table, grown>>
      /\ driver' = [driver EXCEPT ![up] = Idle] /\ late' = late \ {up}
      /\ DOMAIN driver = Stages /\ late \subseteq 1..up
  BY DEF Stop, CaptureIInv, CaptureTypeOK
<1>2. /\ sensor' = sensor /\ watched' = watched /\ offset' = offset /\ offline' = offline
      /\ (Sizes' <=> Sizes) /\ (Ev200' <=> Ev200)
      /\ \A j : Reported(own, j)' = Reported(own, j)
  BY <1>1, SameSetup
<1>3. ASSUME NEW j \in 1..up'
      PROVE  /\ driver'[j] = driver[j]
             /\ (Late(j)' <=> Late(j)) /\ (Unheeded(j)' <=> Unheeded(j))
  <2>1. j \in 1..5 /\ j < up
    BY <1>1
  <2>2. driver'[j] = driver[j]
    BY <1>1, <2>1 DEF Stages
  <2>3. Late(j)' <=> Late(j)
    BY <1>1, <1>2, <2>1 DEF Late
  <2>4. Unheeded(j)' <=> Unheeded(j)
    BY <1>1, <1>2, <2>2 DEF Unheeded
  <2> QED
    BY <2>2, <2>3, <2>4
<1>4. CaptureTypeOK'
  <2>1. late' \subseteq 1..up' /\ up' \in 0..5
    BY <1>1
  <2>2. own' = own /\ table' = table /\ grown' = grown /\ DOMAIN driver' = Stages
    BY <1>1
  <2> QED
    BY <1>2, <2>1, <2>2 DEF CaptureIInv, CaptureTypeOK
<1>5. OwnKept' /\ TableShrinks'
  BY <1>1, <1>2 DEF CaptureIInv, OwnKept, TableShrinks
<1>6. TakesReported'
  <2> SUFFICES ASSUME NEW j \in 1..(up' - 1)
               PROVE  \/ Late(j)'
                      \/ driver'[j + 1].takes = Reported(own, j)
                      \/ ~Sizes /\ driver'[j + 1].takes = driver'[j].gives
    BY <1>2 DEF TakesReported
  <2>1. j \in 1..(up - 1) /\ j \in 1..up' /\ j + 1 \in 1..up'
    BY <1>1
  <2> QED
    BY <1>3, <2>1 DEF CaptureIInv, TakesReported
<1>7. GivesReported'
  <2> SUFFICES ASSUME NEW j \in 1..up'
               PROVE  \/ j = 5
                      \/ Sizes /\ j = 1
                      \/ Late(j)' \/ Unheeded(j)'
                      \/ driver'[j].gives = Reported(own, j)
    BY <1>2 DEF GivesReported
  <2>1. j \in 1..up
    BY <1>1
  <2> QED
    BY <1>3, <2>1 DEF CaptureIInv, GivesReported
<1> QED
  BY <1>4, <1>5, <1>6, <1>7 DEF CaptureIInv

\* At first nothing is up and the table is the sensor's.
LEMMA CaptureStarts ==
    ASSUME CaptureInit
    PROVE  CaptureIInv
<1>1. /\ sensor \in Sensors /\ WellFormed(sensor)
      /\ watched \in Axes \cup {"rate"} /\ up = 0 /\ late = {} /\ grown = FALSE
      /\ driver = [k \in Stages |-> Idle]
      /\ own = [k \in Stages |-> IF V200 /\ k = 1 THEN Default ELSE 0]
      /\ table = IF Sizes THEN sensor.device[watched] ELSE NoRect
  BY SensorsAssumption DEF CaptureInit
<1>2. offset \in Int
  <2>1. offset \in (IF Sizes THEN Offsets ELSE {0})
    BY DEF CaptureInit
  <2>2. Offsets \subseteq Int
    BY SensorsAssumption
  <2> QED
    BY <2>1, <2>2
<1>3. Default \in Nat
  BY <1>1 DEF Default, Sizes, WellFormed
<1>4. own \in [Stages -> Nat] /\ own[2] = 0 /\ own[3] = 0 /\ own[4] = 0
  BY <1>1, <1>3 DEF Stages
<1>5. table \in Rectangles
  <2>1. CASE Sizes
    <3>1. watched \in Axes
      BY <2>1 DEF Sizes
    <3>2. sensor.device[watched] \in [at : Nat, extent : Nat \ {0}]
      BY <1>1, <3>1 DEF WellFormed
    <3> QED
      BY <1>1, <2>1, <3>2 DEF Rectangles
  <2>2. CASE ~Sizes
    BY <1>1, <2>2 DEF Rectangles, NoRect
  <2> QED
    BY <2>1, <2>2
<1>6. CaptureTypeOK
  <2>1. DOMAIN driver = Stages /\ up \in 0..5
    BY <1>1
  <2>2. late \subseteq 1..up /\ grown \in BOOLEAN
    BY <1>1
  <2> QED
    BY <1>1, <1>2, <1>4, <1>5, <2>1, <2>2 DEF CaptureTypeOK
<1>7. TableShrinks
  <2>1. Sizes => table = sensor.device[watched]
    BY <1>1
  <2>2. Sizes => sensor.device[watched].at \in Nat /\ sensor.device[watched].extent \in Nat
    BY <1>6, SensorFacts
  <2> QED
    BY <2>1, <2>2 DEF TableShrinks, Inside
<1> QED
  BY <1>1, <1>4, <1>6, <1>7 DEF CaptureIInv, OwnKept, TakesReported, GivesReported

\* Resolutions and rates (setResolution(), setFrameRate(), doEnableElement() of
\* the stages): what an enabled stage was told of the one before it is what that
\* one reported, and the window in the sensor's table only ever shrinks.
THEOREM CaptureInvariant == CaptureSpec => []CaptureIInv
<1>1. CaptureInit => CaptureIInv
  BY CaptureStarts
<1>2. CaptureIInv /\ [CaptureNext]_captureVars => CaptureIInv'
  <2> SUFFICES ASSUME CaptureIInv, [CaptureNext]_captureVars PROVE CaptureIInv'
    OBVIOUS
  <2>1. ASSUME NEW v \in Values, NEW k \in Stages, SetEv200(k, v) \/ SetV200(k, v)
        PROVE  CaptureIInv'
    BY <2>1, SetterKeeps
  <2>2. ASSUME NEW v \in Values, SetCv300(v) \/ SetVpssChan(v) PROVE CaptureIInv'
    <3>1. 1 \in Stages
      BY DEF Stages
    <3> QED
      BY <2>2, <3>1, SetterKeeps
  <2>3. CASE StartFirst
    BY <2>3, StartFirstKeeps
  <2>4. CASE StartWindow
    BY <2>4, StartWindowKeeps
  <2>5. CASE StartViChan \/ StartGroup \/ StartVpssChan
    BY <2>5, CroppingStarts
  <2>6. ASSUME NEW k \in Stages, StartRate(k) PROVE CaptureIInv'
    BY <2>6, StartRateKeeps
  <2>7. CASE Stop
    BY <2>7, StopKeeps
  <2>8. CASE UNCHANGED captureVars
    <3>1. UNCHANGED <<setup, own, up, table, driver, late, grown>>
      BY <2>8 DEF captureVars
    <3>2. /\ sensor' = sensor /\ watched' = watched /\ offset' = offset /\ offline' = offline
          /\ (Sizes' <=> Sizes) /\ (Ev200' <=> Ev200)
          /\ \A k : Reported(own, k)' = Reported(own, k)
      BY <3>1, SameSetup
    <3>3. CaptureTypeOK' /\ OwnKept' /\ TableShrinks'
      BY <3>1, <3>2 DEF CaptureIInv, CaptureTypeOK, OwnKept, TableShrinks
    <3>4. \A k : (Late(k)' <=> Late(k)) /\ (Unheeded(k)' <=> Unheeded(k))
      BY <3>1, <3>2 DEF Late, Unheeded
    <3>5. TakesReported' /\ GivesReported'
      BY <3>1, <3>2, <3>4 DEF CaptureIInv, TakesReported, GivesReported
    <3> QED
      BY <3>3, <3>5 DEF CaptureIInv
  <2> QED
    BY <2>1, <2>2, <2>3, <2>4, <2>5, <2>6, <2>7, <2>8 DEF CaptureNext
<1> QED
  BY <1>1, <1>2, PTL DEF CaptureSpec

\* The window of the next start lies on the sensor, whatever was asked for
\* before: what is asked for fits (hi3516ev200), or nothing more than the table
\* had left was ever asked for (the others).
THEOREM AlwaysWindowOnSensor == CaptureSpec => []WindowOnSensor
<1>1. CaptureIInv => WindowOnSensor
  <2> SUFFICES ASSUME CaptureIInv, Sizes
               PROVE  IF Ev200 THEN Fits => Inside(Window, sensor.image[watched])
                      ELSE \/ grown \/ own[2] > table.extent
                           \/ Inside(Window, sensor.device[watched])
    BY DEF WindowOnSensor
  <2>1. CASE Ev200
    BY <2>1, WindowFits DEF CaptureIInv
  <2>2. CASE ~Ev200 /\ ~grown /\ own[2] <= table.extent
    BY <2>2, WindowShrinks DEF CaptureIInv, TableShrinks
  <2>3. own[2] > table.extent \/ own[2] <= table.extent
    BY DEF CaptureIInv, CaptureTypeOK, Rectangles, Stages
  <2> QED
    BY <2>1, <2>2, <2>3
<1> QED
  BY <1>1, CaptureInvariant, PTL

\* A stage that is up takes what the one before it gives: both are what that one
\* reports, as long as it was not set again.
THEOREM AlwaysChainAgrees == CaptureSpec => []ChainAgrees
<1>1. CaptureIInv => ChainAgrees
  <2> SUFFICES ASSUME CaptureIInv, NEW k \in 2 .. up - 1
               PROVE  driver[k + 1].takes = driver[k].gives \/ Late(k) \/ Unheeded(k)
    BY DEF ChainAgrees
  <2>1. k \in 1..(up - 1) /\ k \in 1..up /\ k # 5 /\ k # 1
    BY DEF CaptureIInv, CaptureTypeOK
  <2>2. Late(k) \/ driver[k + 1].takes = Reported(own, k) \/ driver[k + 1].takes = driver[k].gives
    BY <2>1 DEF CaptureIInv, TakesReported
  <2>3. Late(k) \/ Unheeded(k) \/ driver[k].gives = Reported(own, k)
    BY <2>1 DEF CaptureIInv, GivesReported
  <2> QED
    BY <2>2, <2>3
<1> QED
  BY <1>1, CaptureInvariant, PTL
=============================================================================
