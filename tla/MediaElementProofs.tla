------------------------- MODULE MediaElementProofs -------------------------
(***************************************************************************)
(* The safety of MediaElement for every forest of elements.                *)
(***************************************************************************)
EXTENDS MediaElement, FiniteSetTheorems, WellFoundedInduction, TLAPS

-----------------------------------------------------------------------------
(* Counting the readers of an element.                                     *)

Users(L, e) == Cardinality({r \in L : Source[r] = e})

\* A source is constructed before the elements that read it.
LEMMA SourcesFirst ==
    /\ IsFiniteSet(Elements)
    /\ NoElement \notin Elements
    /\ Source \in [Elements -> Elements \cup {NoElement}]
    /\ Created \in [Elements -> Nat]
    /\ \A e \in Elements : Source[e] # NoElement => Created[Source[e]] < Created[e]
BY ElementTreeAssumption DEF IsForest

LEMMA UsersType ==
    ASSUME NEW L \in SUBSET Elements, NEW e
    PROVE  /\ IsFiniteSet({r \in L : Source[r] = e})
           /\ Users(L, e) \in Nat
<1>1. {r \in L : Source[r] = e} \in SUBSET Elements
    OBVIOUS
<1>2. IsFiniteSet({r \in L : Source[r] = e})
    BY <1>1, FS_Subset, SourcesFirst
<1>3. QED
    BY <1>2, FS_CardinalityType DEF Users

\* One more linked reader counts once, in its source and nowhere else.
LEMMA UsersAdd ==
    ASSUME NEW L \in SUBSET Elements, NEW r \in Elements, r \notin L, NEW e
    PROVE  Users(L \cup {r}, e) = Users(L, e) + (IF Source[r] = e THEN 1 ELSE 0)
<1> DEFINE S == {x \in L : Source[x] = e}
<1>1. IsFiniteSet(S) /\ Cardinality(S) \in Nat
    BY UsersType DEF Users
<1>2. CASE Source[r] = e
    <2>1. {x \in L \cup {r} : Source[x] = e} = S \cup {r}
        BY <1>2
    <2>2. r \notin S
        OBVIOUS
    <2>3. Cardinality(S \cup {r}) = Cardinality(S) + 1
        BY <1>1, <2>2, FS_AddElement
    <2> QED
        BY <2>1, <2>3, <1>2 DEF Users
<1>3. CASE Source[r] # e
    <2>1. {x \in L \cup {r} : Source[x] = e} = S
        BY <1>3
    <2> QED
        BY <1>1, <2>1, <1>3 DEF Users
<1> QED
    BY <1>2, <1>3

LEMMA UsersRemove ==
    ASSUME NEW L \in SUBSET Elements, NEW r \in L, NEW e
    PROVE  Users(L \ {r}, e) = Users(L, e) - (IF Source[r] = e THEN 1 ELSE 0)
<1>1. /\ L \ {r} \in SUBSET Elements
      /\ r \in Elements
      /\ r \notin L \ {r}
      /\ (L \ {r}) \cup {r} = L
    OBVIOUS
<1>2. Users(L, e) = Users(L \ {r}, e) + (IF Source[r] = e THEN 1 ELSE 0)
    BY <1>1, UsersAdd
<1>3. Users(L \ {r}, e) \in Nat
    BY <1>1, UsersType
<1> QED
    BY <1>2, <1>3

LEMMA UsersPositive ==
    ASSUME NEW L \in SUBSET Elements, NEW r \in L
    PROVE  Users(L, Source[r]) > 0
<1>1. L \ {r} \in SUBSET Elements
    OBVIOUS
<1>2. Users(L \ {r}, Source[r]) = Users(L, Source[r]) - 1
    BY UsersRemove
<1>3. Users(L \ {r}, Source[r]) \in Nat /\ Users(L, Source[r]) \in Nat
    BY <1>1, UsersType
<1> QED
    BY <1>2, <1>3
-----------------------------------------------------------------------------
(* What the invariant says in the terms used below.                        *)

Accounted == \A e \in Elements : count[e] = holds[e] + Users(Linked, e) + InProgress(e)

LEMMA AccountedEquiv == EveryCountAccounted <=> Accounted
    BY DEF EveryCountAccounted, Accounted, Users

LEMMA AccountedEquivPrime == EveryCountAccounted' <=> Accounted'
    BY DEF EveryCountAccounted, Accounted, Users

LEMMA TermsType ==
    ASSUME TypeOK
    PROVE  /\ Linked \in SUBSET Elements
           /\ \A x \in Elements : Users(Linked, x) \in Nat
           /\ \A x \in Elements : InProgress(x) \in Nat
           /\ \A x \in Elements : holds[x] \in Nat /\ count[x] \in Nat
<1>1. Linked \in SUBSET Elements
    BY DEF Linked
<1>2. \A x \in Elements : Users(Linked, x) \in Nat
    BY <1>1, UsersType
<1>3. \A x \in Elements : InProgress(x) \in Nat
    BY DEF InProgress
<1>4. \A x \in Elements : holds[x] \in Nat /\ count[x] \in Nat
    BY DEF TypeOK
<1> QED
    BY <1>1, <1>2, <1>3, <1>4

\* A linked reader keeps its source enabled.
LEMMA LinkedSourceCounted ==
    ASSUME TypeOK, Accounted, NEW r \in Linked
    PROVE  Source[r] \in Elements /\ count[Source[r]] > 0
<1>1. /\ r \in Elements
      /\ Source[r] \in Elements
      /\ Linked \in SUBSET Elements
    BY SourcesFirst DEF Linked, HasSource
<1>2. Users(Linked, Source[r]) \in Nat /\ Users(Linked, Source[r]) > 0
    BY <1>1, UsersPositive, UsersType
<1>3. InProgress(Source[r]) \in Nat
    BY DEF InProgress
<1>4. count[Source[r]] = holds[Source[r]] + Users(Linked, Source[r]) + InProgress(Source[r])
    BY <1>1 DEF Accounted
<1>5. holds[Source[r]] \in Nat
    BY <1>1 DEF TypeOK
<1> QED
    BY <1>1, <1>2, <1>3, <1>4, <1>5

\* The last user of an element is the only one: no reader is linked to it.
LEMMA LastUserHasNoReaders ==
    ASSUME TypeOK, Accounted, cursor \in Elements, count[cursor] = 1
    PROVE  \A r \in Linked : Source[r] # cursor
<1> SUFFICES ASSUME NEW r \in Linked, Source[r] = cursor
             PROVE  FALSE
    OBVIOUS
<1>1. Linked \in SUBSET Elements
    BY DEF Linked
<1>2. Users(Linked, cursor) \in Nat /\ Users(Linked, cursor) > 0
    BY <1>1, UsersPositive, UsersType
<1>3. InProgress(cursor) \in Nat /\ InProgress(cursor) >= 1
    BY DEF InProgress
<1>4. count[cursor] = holds[cursor] + Users(Linked, cursor) + InProgress(cursor)
    BY DEF Accounted
<1>5. holds[cursor] \in Nat
    BY DEF TypeOK
<1> QED
    BY <1>2, <1>3, <1>4, <1>5

\* In the chain of calls, the reader that called the innermost enable() is
\* unique, and there is none when it is the caller's own.
LEMMA CallerOfCurrent ==
    ASSUME TypeOK, CallsAreAChain, current # NoElement
    PROVE  /\ current \in Elements /\ target \in Elements
           /\ current \notin waiting
           /\ \A e \in Elements : e # NoElement
           /\ current = target => waiting = {}
           /\ current # target =>
                \E r \in waiting : {w \in waiting : Source[w] = current} = {r}
<1>1. /\ current \in Elements /\ target \in Elements
      /\ \A e \in Elements : e # NoElement
      /\ \A e \in Elements : Created[e] \in Nat
    BY SourcesFirst DEF TypeOK, CallsAreAChain
<1>2. current \notin waiting
    BY <1>1 DEF CallsAreAChain
<1>3. current = target => waiting = {}
    BY <1>1 DEF CallsAreAChain, TypeOK
<1>4. ASSUME NEW v \in waiting, NEW w \in waiting, Source[v] = current, Source[w] = current
      PROVE  v = w
    BY <1>1, <1>4 DEF CallsAreAChain, TypeOK
<1>5. ASSUME current # target
      PROVE  \E r \in waiting : {w \in waiting : Source[w] = current} = {r}
    BY <1>4, <1>5 DEF CallsAreAChain
<1> QED
    BY <1>1, <1>2, <1>3, <1>5

-----------------------------------------------------------------------------
(* The callers.                                                            *)

LEMMA CallEnableStep ==
    ASSUME IInv, NEW e \in Elements, CallEnable(e)
    PROVE  IInv'
<1> USE DEF IInv, CallEnable
<1>0. /\ current = NoElement /\ target = NoElement /\ waiting = {} /\ cursor = NoElement
      /\ e # NoElement
    BY SourcesFirst DEF ModeFits, CallsAreAChain
<1>1. TypeOK' /\ CallsAreAChain' /\ ModeFits' /\ SourceUp'
    BY <1>0 DEF TypeOK, Modes, CallsAreAChain, ModeFits, SourceUp
<1>2. Busy = {} /\ Busy' = {}
    BY <1>0 DEF Busy
<1>3. BusyCountedOnce' /\ UpIffCounted'
    BY <1>2 DEF BusyCountedOnce, UpIffCounted
<1>4. Linked' = Linked
    BY <1>0 DEF Linked, Pending
<1>5. \A x \in Elements : InProgress(x)' = InProgress(x)
    BY <1>0, SourcesFirst DEF InProgress
<1>6. Accounted'
    BY <1>4, <1>5, AccountedEquiv DEF Accounted
<1> QED
    BY <1>1, <1>3, <1>6, AccountedEquivPrime

LEMMA CallDisableStep ==
    ASSUME IInv, NEW e \in Elements, CallDisable(e)
    PROVE  IInv'
<1> USE DEF IInv, CallDisable
<1>0. /\ current = NoElement /\ target = NoElement /\ waiting = {} /\ cursor = NoElement
      /\ e # NoElement
    BY SourcesFirst DEF ModeFits, CallsAreAChain
<1>1. TypeOK' /\ CallsAreAChain' /\ ModeFits' /\ SourceUp'
    BY <1>0 DEF TypeOK, Modes, CallsAreAChain, ModeFits, SourceUp
<1>2. Busy = {} /\ Busy' = {}
    BY <1>0 DEF Busy
<1>3. BusyCountedOnce' /\ UpIffCounted'
    BY <1>2 DEF BusyCountedOnce, UpIffCounted
<1>4. Linked' = Linked
    BY <1>0, SourcesFirst DEF Linked, Pending
<1>5. \A x \in Elements : InProgress(x)' = InProgress(x) + (IF x = e THEN 1 ELSE 0)
    BY <1>0, SourcesFirst DEF InProgress
<1>6. \A x \in Elements : holds'[x] = holds[x] - (IF x = e THEN 1 ELSE 0)
    BY DEF TypeOK
<1>7. Accounted'
    BY <1>4, <1>5, <1>6, TermsType, AccountedEquiv DEF Accounted
<1> QED
    BY <1>1, <1>3, <1>7, AccountedEquivPrime

-----------------------------------------------------------------------------
(* The chain of calls grows towards the sensor and shrinks back.           *)

LEMMA ChainShrinks ==
    ASSUME TypeOK, CallsAreAChain, current # NoElement, current # target,
           BackToReader, target' = target
    PROVE  /\ CallsAreAChain'
           /\ \E r \in waiting :
                /\ {w \in waiting : Source[w] = current} = {r}
                /\ Source[r] = current
                /\ current' = r
                /\ waiting' = waiting \ {r}
                /\ r \in Elements
<1>1. PICK r \in waiting : Source[r] = current /\ current' = r /\ waiting' = waiting \ {r}
    BY DEF BackToReader
<1>2. {w \in waiting : Source[w] = current} = {r}
    BY <1>1, CallerOfCurrent
<1>3. /\ r \in Elements /\ current \in Elements /\ target \in Elements
      /\ waiting \subseteq Elements
      /\ r # NoElement /\ current \notin waiting
      /\ \A e \in Elements : Created[e] \in Nat /\ e # NoElement
      /\ \A e \in Elements : HasSource(e) =>
            Source[e] \in Elements /\ Created[Source[e]] < Created[e]
    BY CallerOfCurrent, SourcesFirst DEF TypeOK, HasSource
<1>4. target \in waiting
    BY DEF CallsAreAChain
<1>5. ASSUME NEW w \in waiting \ {r}
      PROVE  /\ HasSource(w)
             /\ Source[w] \in (waiting \ {r}) \cup {r}
             /\ Created[r] < Created[w]
             /\ Created[w] <= Created[target]
             /\ \A v \in (waiting \ {r}) \ {w} :
                  \/ Created[v] <= Created[Source[w]]
                  \/ Created[w] <= Created[Source[v]]
    <2>1. /\ HasSource(w) /\ Source[w] \in waiting \cup {current}
          /\ Created[w] <= Created[target]
          /\ Created[current] < Created[w]
          /\ \A v \in waiting \ {w} :
                  \/ Created[v] <= Created[Source[w]]
                  \/ Created[w] <= Created[Source[v]]
        BY DEF CallsAreAChain
    <2>2. Source[w] # current
        BY <1>2
    <2>3. Created[r] <= Created[Source[w]] \/ Created[w] <= Created[current]
        BY <1>1, <2>1
    <2>4. Created[r] < Created[w]
        BY <1>3, <2>1, <2>3
    <2> QED
        BY <2>1, <2>2, <2>4
<1>6. ASSUME NEW e \in (waiting \ {r}) \cup {r}, e # target
      PROVE  \E w \in waiting \ {r} : Source[w] = e
    <2>1. PICK w \in waiting : Source[w] = e
        BY <1>6, <1>1 DEF CallsAreAChain
    <2>2. w # r
        BY <1>1, <1>3, <2>1
    <2> QED
        BY <2>1, <2>2
<1>7. CallsAreAChain'
    BY <1>1, <1>3, <1>4, <1>5, <1>6 DEF CallsAreAChain
<1> QED
    BY <1>1, <1>2, <1>3, <1>7

LEMMA ChainGrows ==
    ASSUME TypeOK, CallsAreAChain, current # NoElement, HasSource(current),
           waiting' = waiting \cup {current}, current' = Source[current],
           target' = target
    PROVE  CallsAreAChain'
<1> DEFINE s == Source[current]
<1>1. /\ current \in Elements /\ target \in Elements
      /\ waiting \subseteq Elements
      /\ current \notin waiting
      /\ \A e \in Elements : Created[e] \in Nat /\ e # NoElement
      /\ \A e \in Elements : HasSource(e) =>
            Source[e] \in Elements /\ Created[Source[e]] < Created[e]
      /\ s \in Elements /\ Created[s] < Created[current]
    BY CallerOfCurrent, SourcesFirst DEF TypeOK, HasSource
<1>2. target \in (waiting \cup {current}) \cup {s}
    BY <1>1 DEF CallsAreAChain
<1>3. Created[current] <= Created[target]
    BY <1>1 DEF CallsAreAChain
<1>4. ASSUME NEW v \in waiting
      PROVE  /\ HasSource(v) /\ Source[v] \in waiting \cup {current}
             /\ Created[current] < Created[v] /\ Created[v] <= Created[target]
             /\ Created[current] <= Created[Source[v]]
    <2>1. /\ HasSource(v) /\ Source[v] \in waiting \cup {current}
          /\ Created[current] < Created[v] /\ Created[v] <= Created[target]
        BY DEF CallsAreAChain
    <2>2. Created[current] <= Created[Source[v]]
        BY <1>1, <2>1 DEF CallsAreAChain
    <2> QED
        BY <2>1, <2>2
<1>5. ASSUME NEW w \in waiting \cup {current}
      PROVE  /\ HasSource(w)
             /\ Source[w] \in (waiting \cup {current}) \cup {s}
             /\ Created[s] < Created[w]
             /\ Created[w] <= Created[target]
    BY <1>1, <1>3, <1>4
<1>6. ASSUME NEW w \in waiting \cup {current},
             NEW v \in (waiting \cup {current}) \ {w}
      PROVE  \/ Created[v] <= Created[Source[w]]
             \/ Created[w] <= Created[Source[v]]
    <2>1. CASE w \in waiting /\ v \in waiting
        BY <2>1 DEF CallsAreAChain
    <2>2. CASE w = current
        BY <1>4, <2>2
    <2>3. CASE v = current
        BY <1>4, <2>3
    <2> QED
        BY <2>1, <2>2, <2>3
<1>7. ASSUME NEW e \in (waiting \cup {current}) \cup {s}, e # target
      PROVE  \E w \in waiting \cup {current} : Source[w] = e
    BY <1>7 DEF CallsAreAChain
<1> QED
    BY <1>1, <1>2, <1>5, <1>6, <1>7 DEF CallsAreAChain

-----------------------------------------------------------------------------
(* enable().                                                               *)

\* What holds of the elements while some enable() is in progress.
LEMMA InEnable ==
    ASSUME IInv, current # NoElement
    PROVE  /\ current \in Elements /\ target \in Elements
           /\ waiting \subseteq Elements /\ current \notin waiting
           /\ \A e \in Elements : e # NoElement /\ count[e] \in Nat
           /\ \A e \in Elements : HasSource(e) =>
                /\ Source[e] \in Elements
                /\ Created[Source[e]] < Created[e]
           /\ \A e \in Elements : Created[e] \in Nat
           /\ \A w \in waiting :
                /\ HasSource(w) /\ count[w] = 1
                /\ Created[current] < Created[w]
                /\ Source[w] \in waiting \cup {current}
           /\ Created[current] <= Created[target]
<1>1. TypeOK /\ CallsAreAChain /\ BusyCountedOnce
    BY DEF IInv
<1>2. \A w \in waiting : count[w] = 1
    BY <1>1 DEF BusyCountedOnce, Busy
<1>3. Created[current] <= Created[target]
    BY <1>1, CallerOfCurrent, SourcesFirst DEF CallsAreAChain
<1> QED
    BY <1>1, <1>2, <1>3, CallerOfCurrent, SourcesFirst
    DEF TypeOK, CallsAreAChain, HasSource

LEMMA FirstUserStep ==
    ASSUME IInv, FirstUser
    PROVE  IInv'
<1>0. /\ TypeOK /\ CallsAreAChain /\ ModeFits /\ BusyCountedOnce
      /\ EveryCountAccounted /\ UpIffCounted /\ SourceUp
      /\ mode = "enter" /\ count[current] = 0
      /\ count' = [count EXCEPT ![current] = @ + 1]
      /\ IF HasSource(current)
         THEN /\ waiting' = waiting \cup {current}
              /\ current' = Source[current]
              /\ mode' = mode
         ELSE mode' = "start" /\ waiting' = waiting /\ current' = current
      /\ up' = up /\ holds' = holds /\ target' = target /\ cursor' = cursor
    BY DEF IInv, FirstUser
<1>1. current # NoElement /\ cursor = NoElement
    BY <1>0 DEF ModeFits
<1>2. /\ current \in Elements /\ target \in Elements
      /\ waiting \subseteq Elements /\ current \notin waiting
      /\ \A e \in Elements : e # NoElement /\ count[e] \in Nat
      /\ \A e \in Elements : HasSource(e) =>
            Source[e] \in Elements /\ Created[Source[e]] < Created[e]
      /\ \A e \in Elements : Created[e] \in Nat
      /\ \A w \in waiting :
            /\ HasSource(w) /\ count[w] = 1
            /\ Created[current] < Created[w]
            /\ Source[w] \in waiting \cup {current}
      /\ Created[current] <= Created[target]
    BY <1>1, InEnable
<1>3. TypeOK'
    BY <1>0, <1>2 DEF TypeOK, Modes
<1>4. CallsAreAChain'
    <2>1. CASE HasSource(current)
        BY <1>0, <1>1, <2>1, ChainGrows
    <2>2. CASE ~HasSource(current)
        BY <1>0, <2>2 DEF CallsAreAChain
    <2> QED
        BY <2>1, <2>2
<1>5. ModeFits'
    BY <1>0, <1>1, <1>2 DEF ModeFits
<1>6. Busy = waiting /\ Busy' = waiting \cup {current}
    BY <1>0, <1>1 DEF Busy
<1>7. current \notin up
    BY <1>0, <1>2 DEF UpIffCounted
<1>8. \A e \in Elements : count'[e] = count[e] + (IF e = current THEN 1 ELSE 0)
    BY <1>0, <1>2 DEF TypeOK
<1>9. BusyCountedOnce' /\ UpIffCounted' /\ SourceUp'
    BY <1>0, <1>2, <1>6, <1>7, <1>8 DEF BusyCountedOnce, UpIffCounted, SourceUp
<1>10. Pending' \cap Linked = {} /\ Pending' \subseteq {current}
       /\ (HasSource(current) => current \in Pending')
    BY <1>0, <1>2 DEF Pending, Linked
<1>11. Linked' = {x \in Elements : HasSource(x) /\ count[x] > 0}
    BY <1>0, <1>2, <1>8, <1>10 DEF Linked
<1>12. CASE current = target
    <2>1. waiting = {}
        BY <1>0, <1>1, <1>12, CallerOfCurrent
    <2>2. Linked' = Linked
        BY <1>0, <1>11, <2>1 DEF Linked, Pending
    <2>3. \A x \in Elements : InProgress(x)' = InProgress(x) + (IF x = current THEN 1 ELSE 0)
        BY <1>0, <1>1, <1>2, <1>12 DEF InProgress
    <2>4. Accounted'
        BY <1>0, <1>8, <2>2, <2>3, TermsType, AccountedEquiv DEF Accounted
    <2> QED
        BY <2>4, <1>3, <1>4, <1>5, <1>9, AccountedEquivPrime DEF IInv
<1>13. CASE current # target
    <2>1. PICK r \in waiting : {w \in waiting : Source[w] = current} = {r}
        BY <1>0, <1>1, <1>13, CallerOfCurrent
    <2>2. r \in Elements /\ Source[r] = current /\ r \notin Linked
        BY <1>0, <1>2, <2>1 DEF Linked, Pending
    <2>3. Linked' = Linked \cup {r}
        BY <1>0, <1>2, <1>11, <2>1 DEF Linked, Pending
    <2>4. \A x \in Elements : InProgress(x)' = InProgress(x)
        BY <1>0, <1>1, <1>2, <1>13 DEF InProgress
    <2>5. \A x \in Elements :
             Users(Linked, x)' = Users(Linked, x) + (IF current = x THEN 1 ELSE 0)
        BY <1>0, <2>2, <2>3, TermsType, UsersAdd
    <2>6. Accounted'
        BY <1>0, <1>8, <2>4, <2>5, TermsType, AccountedEquiv DEF Accounted
    <2> QED
        BY <2>6, <1>3, <1>4, <1>5, <1>9, AccountedEquivPrime DEF IInv
<1> QED
    BY <1>12, <1>13

LEMMA FurtherUserStep ==
    ASSUME IInv, FurtherUser
    PROVE  IInv'
<1>0. /\ TypeOK /\ CallsAreAChain /\ ModeFits /\ BusyCountedOnce
      /\ EveryCountAccounted /\ UpIffCounted /\ SourceUp
      /\ mode = "enter" /\ count[current] > 0
      /\ count' = [count EXCEPT ![current] = @ + 1]
      /\ ReturnFromCurrent
      /\ up' = up /\ holds' = holds /\ target' = target /\ cursor' = cursor
    BY DEF IInv, FurtherUser
<1>1. current # NoElement /\ cursor = NoElement
    BY <1>0 DEF ModeFits
<1>2. /\ current \in Elements /\ target \in Elements
      /\ waiting \subseteq Elements /\ current \notin waiting
      /\ \A e \in Elements : e # NoElement /\ count[e] \in Nat
      /\ \A w \in waiting : HasSource(w) /\ count[w] = 1
    BY <1>1, InEnable
<1>8. \A e \in Elements : count'[e] = count[e] + (IF e = current THEN 1 ELSE 0)
    BY <1>0, <1>2 DEF TypeOK
<1>9. Busy = waiting
    BY <1>0, <1>1 DEF Busy
<1>12. CASE current = target
    <2>1. waiting = {} /\ waiting' = waiting /\ current' = current /\ mode' = "return"
        BY <1>0, <1>1, <1>12, CallerOfCurrent DEF ReturnFromCurrent
    <2>2. TypeOK' /\ CallsAreAChain' /\ ModeFits'
        BY <1>0, <1>1, <1>2, <1>12, <2>1 DEF TypeOK, Modes, CallsAreAChain, ModeFits
    <2>3. Busy' = {}
        BY <2>1 DEF Busy
    <2>4. BusyCountedOnce' /\ UpIffCounted' /\ SourceUp'
        BY <1>0, <1>2, <1>8, <1>9, <2>1, <2>3 DEF BusyCountedOnce, UpIffCounted, SourceUp
    <2>5. Linked' = Linked
        BY <1>0, <1>2, <1>8, <2>1 DEF Linked, Pending
    <2>6. \A x \in Elements : InProgress(x)' = InProgress(x) + (IF x = current THEN 1 ELSE 0)
        BY <1>0, <1>1, <1>2, <1>12, <2>1 DEF InProgress
    <2>7. Accounted'
        BY <1>0, <1>8, <2>5, <2>6, TermsType, AccountedEquiv DEF Accounted
    <2> QED
        BY <2>2, <2>4, <2>7, AccountedEquivPrime DEF IInv
<1>13. CASE current # target
    <2>0. BackToReader /\ mode' = "start"
        BY <1>0, <1>13 DEF ReturnFromCurrent
    <2>1. PICK r \in waiting :
             /\ CallsAreAChain'
             /\ {w \in waiting : Source[w] = current} = {r}
             /\ Source[r] = current
             /\ current' = r
             /\ waiting' = waiting \ {r}
             /\ r \in Elements
        BY <1>0, <1>1, <1>13, <2>0, ChainShrinks
    <2>2. TypeOK' /\ ModeFits'
        BY <1>0, <1>1, <1>2, <2>0, <2>1 DEF TypeOK, Modes, ModeFits
    <2>3. Busy' = waiting
        BY <1>2, <2>0, <2>1 DEF Busy
    <2>4. BusyCountedOnce' /\ UpIffCounted' /\ SourceUp'
        BY <1>0, <1>2, <1>8, <1>9, <2>3 DEF BusyCountedOnce, UpIffCounted, SourceUp
    <2>5. r \notin Linked /\ Linked' = Linked \cup {r}
        BY <1>0, <1>2, <1>8, <2>0, <2>1 DEF Linked, Pending
    <2>6. \A x \in Elements : InProgress(x)' = InProgress(x)
        BY <1>0, <1>1, <1>2, <1>13, <2>0, <2>1 DEF InProgress
    <2>7. \A x \in Elements :
             Users(Linked, x)' = Users(Linked, x) + (IF current = x THEN 1 ELSE 0)
        BY <1>0, <2>1, <2>5, TermsType, UsersAdd
    <2>8. Accounted'
        BY <1>0, <1>8, <2>6, <2>7, TermsType, AccountedEquiv DEF Accounted
    <2> QED
        BY <2>1, <2>2, <2>4, <2>8, AccountedEquivPrime DEF IInv
<1> QED
    BY <1>12, <1>13

\* An element whose doEnableElement() runs has a running source.
LEMMA StartsOnRunningSource ==
    ASSUME IInv, mode = "start", HasSource(current)
    PROVE  Source[current] \in up
<1>1. current # NoElement
    BY DEF IInv, ModeFits
<1>2. current \in Busy /\ Busy = waiting \cup {current}
    BY <1>1 DEF Busy
<1>3. /\ current \in Elements /\ count[current] = 1
      /\ waiting \subseteq Elements
      /\ Source[current] \in Elements
      /\ Created[Source[current]] < Created[current]
      /\ \A w \in waiting : Created[current] < Created[w]
      /\ \A e \in Elements : Created[e] \in Nat
    BY <1>1, <1>2, InEnable DEF IInv, BusyCountedOnce
<1>4. current \in Linked
    BY <1>3 DEF Linked, Pending
<1>5. count[Source[current]] > 0
    BY <1>4, LinkedSourceCounted, AccountedEquiv DEF IInv
<1>6. Source[current] \notin Busy
    BY <1>2, <1>3
<1> QED
    BY <1>3, <1>5, <1>6 DEF IInv, UpIffCounted

LEMMA DoEnableOKStep ==
    ASSUME IInv, DoEnableOK
    PROVE  IInv'
<1>0. /\ TypeOK /\ CallsAreAChain /\ ModeFits /\ BusyCountedOnce
      /\ EveryCountAccounted /\ UpIffCounted /\ SourceUp
      /\ mode = "start"
      /\ up' = up \cup {current}
      /\ ReturnFromCurrent
      /\ count' = count /\ holds' = holds /\ target' = target /\ cursor' = cursor
    BY DEF IInv, DoEnableOK
<1>1. current # NoElement /\ cursor = NoElement
    BY <1>0 DEF ModeFits
<1>2. /\ current \in Elements /\ target \in Elements
      /\ waiting \subseteq Elements /\ current \notin waiting
      /\ \A e \in Elements : e # NoElement /\ count[e] \in Nat
    BY <1>1, InEnable
<1>3. SourceUp'
    BY <1>0, StartsOnRunningSource DEF SourceUp
<1>4. Busy = waiting \cup {current}
    BY <1>0, <1>1 DEF Busy
<1>5. count[current] = 1
    BY <1>0, <1>4 DEF BusyCountedOnce
<1>6. CASE current = target
    <2>1. waiting = {} /\ waiting' = waiting /\ current' = current /\ mode' = "return"
        BY <1>0, <1>1, <1>6, CallerOfCurrent DEF ReturnFromCurrent
    <2>2. TypeOK' /\ CallsAreAChain' /\ ModeFits'
        BY <1>0, <1>1, <1>2, <1>6, <2>1 DEF TypeOK, Modes, CallsAreAChain, ModeFits
    <2>3. Busy' = {}
        BY <2>1 DEF Busy
    <2>4. BusyCountedOnce' /\ UpIffCounted'
        BY <1>0, <1>2, <1>4, <1>5, <2>1, <2>3 DEF BusyCountedOnce, UpIffCounted
    <2>5. Linked' = Linked
        BY <1>0, <2>1 DEF Linked, Pending
    <2>6. \A x \in Elements : InProgress(x)' = InProgress(x)
        BY <1>0, <2>1 DEF InProgress
    <2>7. Accounted'
        BY <1>0, <2>5, <2>6, AccountedEquiv DEF Accounted
    <2> QED
        BY <1>3, <2>2, <2>4, <2>7, AccountedEquivPrime DEF IInv
<1>7. CASE current # target
    <2>0. BackToReader /\ mode' = "start"
        BY <1>0, <1>7 DEF ReturnFromCurrent
    <2>1. PICK r \in waiting :
             /\ CallsAreAChain'
             /\ {w \in waiting : Source[w] = current} = {r}
             /\ Source[r] = current
             /\ current' = r
             /\ waiting' = waiting \ {r}
             /\ r \in Elements
        BY <1>0, <1>1, <1>7, <2>0, ChainShrinks
    <2>2. TypeOK' /\ ModeFits'
        BY <1>0, <1>1, <1>2, <2>0, <2>1 DEF TypeOK, Modes, ModeFits
    <2>3. Busy' = waiting
        BY <1>2, <2>0, <2>1 DEF Busy
    <2>4. BusyCountedOnce' /\ UpIffCounted'
        BY <1>0, <1>2, <1>4, <1>5, <2>3 DEF BusyCountedOnce, UpIffCounted
    <2>5. Linked' = Linked
        BY <1>0, <2>0 DEF Linked, Pending
    <2>6. \A x \in Elements : InProgress(x)' = InProgress(x)
        BY <1>0, <2>0 DEF InProgress
    <2>7. Accounted'
        BY <1>0, <2>5, <2>6, AccountedEquiv DEF Accounted
    <2> QED
        BY <1>3, <2>1, <2>2, <2>4, <2>7, AccountedEquivPrime DEF IInv
<1> QED
    BY <1>6, <1>7

LEMMA DoEnableFailsStep ==
    ASSUME IInv, DoEnableFails
    PROVE  IInv'
<1>0. /\ TypeOK /\ CallsAreAChain /\ ModeFits /\ BusyCountedOnce
      /\ EveryCountAccounted /\ UpIffCounted /\ SourceUp
      /\ mode = "start"
      /\ IF HasSource(current)
         THEN mode' = "release" /\ cursor' = Source[current]
         ELSE mode' = "throw" /\ cursor' = cursor
      /\ count' = count /\ up' = up /\ holds' = holds
      /\ target' = target /\ current' = current /\ waiting' = waiting
    BY DEF IInv, DoEnableFails
<1>1. current # NoElement /\ cursor = NoElement
    BY <1>0 DEF ModeFits
<1>2. /\ current \in Elements /\ target \in Elements
      /\ \A e \in Elements : e # NoElement
      /\ \A e \in Elements : HasSource(e) =>
            Source[e] \in Elements /\ Created[Source[e]] < Created[e]
    BY <1>1, InEnable
<1>3. TypeOK' /\ CallsAreAChain' /\ ModeFits' /\ SourceUp'
    BY <1>0, <1>1, <1>2 DEF TypeOK, Modes, CallsAreAChain, ModeFits, SourceUp
<1>4. Busy' = Busy /\ current \in Busy
    BY <1>0, <1>1 DEF Busy
<1>5. BusyCountedOnce' /\ UpIffCounted'
    BY <1>0, <1>4 DEF BusyCountedOnce, UpIffCounted
<1>6. count[current] = 1
    BY <1>0, <1>4 DEF BusyCountedOnce
<1>7. Pending = {} /\ Pending' = {current}
    BY <1>0 DEF Pending
<1>8. CASE HasSource(current)
    <2>1. current \in Linked /\ Linked' = Linked \ {current}
        BY <1>0, <1>2, <1>6, <1>7, <1>8 DEF Linked
    <2>2. \A x \in Elements :
             InProgress(x)' = InProgress(x) + (IF Source[current] = x THEN 1 ELSE 0)
        BY <1>0, <1>1, <1>2, <1>8 DEF InProgress
    <2>3. \A x \in Elements :
             Users(Linked, x)' = Users(Linked, x) - (IF Source[current] = x THEN 1 ELSE 0)
        BY <1>0, <2>1, TermsType, UsersRemove
    <2>4. Accounted'
        BY <1>0, <2>2, <2>3, TermsType, AccountedEquiv DEF Accounted
    <2> QED
        BY <1>3, <1>5, <2>4, AccountedEquivPrime DEF IInv
<1>9. CASE ~HasSource(current)
    <2>1. Linked' = Linked
        BY <1>0, <1>7, <1>9 DEF Linked
    <2>2. \A x \in Elements : InProgress(x)' = InProgress(x)
        BY <1>0, <1>9 DEF InProgress
    <2>3. Accounted'
        BY <1>0, <2>1, <2>2, AccountedEquiv DEF Accounted
    <2> QED
        BY <1>3, <1>5, <2>3, AccountedEquivPrime DEF IInv
<1> QED
    BY <1>8, <1>9

LEMMA RethrowStep ==
    ASSUME IInv, Rethrow
    PROVE  IInv'
<1>0. /\ TypeOK /\ CallsAreAChain /\ ModeFits /\ BusyCountedOnce
      /\ EveryCountAccounted /\ UpIffCounted /\ SourceUp
      /\ mode = "throw"
      /\ count' = [count EXCEPT ![current] = @ - 1]
      /\ IF current = target
         THEN /\ mode' = "idle" /\ target' = NoElement /\ current' = NoElement
              /\ waiting' = waiting
         ELSE BackToReader /\ mode' = mode /\ target' = target
      /\ up' = up /\ holds' = holds /\ cursor' = cursor
    BY DEF IInv, Rethrow, RethrowFromCurrent
<1>1. current # NoElement /\ cursor = NoElement
    BY <1>0 DEF ModeFits
<1>2. /\ current \in Elements /\ target \in Elements
      /\ waiting \subseteq Elements /\ current \notin waiting
      /\ \A e \in Elements : e # NoElement /\ count[e] \in Nat
      /\ \A w \in waiting : HasSource(w) /\ count[w] = 1
    BY <1>1, InEnable
<1>3. Busy = waiting \cup {current}
    BY <1>0, <1>1 DEF Busy
<1>4. count[current] = 1 /\ current \notin up
    BY <1>0, <1>3 DEF BusyCountedOnce
<1>5. \A e \in Elements : count'[e] = count[e] - (IF e = current THEN 1 ELSE 0)
    BY <1>0, <1>2 DEF TypeOK
<1>6. SourceUp'
    BY <1>0 DEF SourceUp
<1>7. CASE current = target
    <2>1. waiting = {}
        BY <1>0, <1>1, <1>7, CallerOfCurrent
    <2>2. TypeOK' /\ CallsAreAChain' /\ ModeFits'
        BY <1>0, <1>1, <1>2, <1>4, <1>7, <2>1 DEF TypeOK, Modes, CallsAreAChain, ModeFits
    <2>3. Busy' = {}
        BY <1>0, <1>7, <2>1 DEF Busy
    <2>4. BusyCountedOnce' /\ UpIffCounted'
        BY <1>0, <1>2, <1>3, <1>4, <1>5, <2>1, <2>3 DEF BusyCountedOnce, UpIffCounted
    <2>5. Linked' = Linked
        BY <1>0, <1>2, <1>4, <1>5, <1>7 DEF Linked, Pending
    <2>6. \A x \in Elements : InProgress(x)' = InProgress(x) - (IF x = current THEN 1 ELSE 0)
        BY <1>0, <1>1, <1>2, <1>7 DEF InProgress
    <2>7. Accounted'
        BY <1>0, <1>5, <2>5, <2>6, TermsType, AccountedEquiv DEF Accounted
    <2> QED
        BY <1>6, <2>2, <2>4, <2>7, AccountedEquivPrime DEF IInv
<1>8. CASE current # target
    <2>0. BackToReader /\ mode' = "throw" /\ target' = target
        BY <1>0, <1>8
    <2>1. PICK r \in waiting :
             /\ CallsAreAChain'
             /\ {w \in waiting : Source[w] = current} = {r}
             /\ Source[r] = current
             /\ current' = r
             /\ waiting' = waiting \ {r}
             /\ r \in Elements
        BY <1>0, <1>1, <1>8, <2>0, ChainShrinks
    <2>2. TypeOK' /\ ModeFits'
        BY <1>0, <1>1, <1>2, <1>4, <2>0, <2>1 DEF TypeOK, Modes, ModeFits
    <2>3. Busy' = waiting
        BY <1>2, <2>0, <2>1 DEF Busy
    <2>4. BusyCountedOnce' /\ UpIffCounted'
        BY <1>0, <1>2, <1>3, <1>4, <1>5, <2>3 DEF BusyCountedOnce, UpIffCounted
    <2>5. r \in Linked /\ Linked' = Linked \ {r}
        BY <1>0, <1>2, <1>4, <1>5, <2>0, <2>1 DEF Linked, Pending
    <2>6. \A x \in Elements : InProgress(x)' = InProgress(x)
        BY <1>0, <1>1, <1>2, <2>0 DEF InProgress
    <2>7. \A x \in Elements :
             Users(Linked, x)' = Users(Linked, x) - (IF current = x THEN 1 ELSE 0)
        BY <1>0, <2>1, <2>5, TermsType, UsersRemove
    <2>8. Accounted'
        BY <1>0, <1>5, <2>6, <2>7, TermsType, AccountedEquiv DEF Accounted
    <2> QED
        BY <1>6, <2>1, <2>2, <2>4, <2>8, AccountedEquivPrime DEF IInv
<1> QED
    BY <1>7, <1>8

LEMMA ReturnStep ==
    ASSUME IInv, Return
    PROVE  IInv'
<1>0. /\ TypeOK /\ CallsAreAChain /\ ModeFits /\ BusyCountedOnce
      /\ EveryCountAccounted /\ UpIffCounted /\ SourceUp
      /\ mode = "return"
      /\ holds' = [holds EXCEPT ![target] = @ + 1]
      /\ mode' = "idle" /\ target' = NoElement /\ current' = NoElement
      /\ count' = count /\ up' = up /\ waiting' = waiting /\ cursor' = cursor
    BY DEF IInv, Return
<1>1. current # NoElement /\ cursor = NoElement /\ current = target
    BY <1>0 DEF ModeFits
<1>2. /\ target \in Elements /\ waiting = {}
      /\ \A e \in Elements : e # NoElement
    BY <1>0, <1>1, CallerOfCurrent
<1>3. TypeOK' /\ CallsAreAChain' /\ ModeFits' /\ SourceUp'
    BY <1>0, <1>1, <1>2 DEF TypeOK, Modes, CallsAreAChain, ModeFits, SourceUp
<1>4. Busy = {} /\ Busy' = {}
    BY <1>0, <1>2 DEF Busy
<1>5. BusyCountedOnce' /\ UpIffCounted'
    BY <1>0, <1>4 DEF BusyCountedOnce, UpIffCounted
<1>6. Linked' = Linked
    BY <1>0 DEF Linked, Pending
<1>7. \A x \in Elements : InProgress(x)' = InProgress(x) - (IF x = target THEN 1 ELSE 0)
    BY <1>0, <1>1, <1>2 DEF InProgress
<1>8. \A x \in Elements : holds'[x] = holds[x] + (IF x = target THEN 1 ELSE 0)
    BY <1>0, <1>2 DEF TypeOK
<1>9. Accounted'
    BY <1>0, <1>6, <1>7, <1>8, TermsType, AccountedEquiv DEF Accounted
<1> QED
    BY <1>3, <1>5, <1>9, AccountedEquivPrime DEF IInv

-----------------------------------------------------------------------------
(* disable().                                                              *)

LEMMA InDisable ==
    ASSUME IInv, mode = "release"
    PROVE  /\ cursor \in Elements /\ cursor # current /\ cursor \notin Busy
           /\ \A e \in Elements : e # NoElement /\ count[e] \in Nat
           /\ \A e \in Elements : HasSource(e) =>
                /\ Source[e] \in Elements
                /\ Created[Source[e]] < Created[e]
           /\ \A e \in Elements : Created[e] \in Nat
           /\ current # NoElement =>
                current \in Elements /\ Created[cursor] < Created[current]
           /\ current = NoElement => waiting = {}
<1>1. /\ TypeOK /\ CallsAreAChain /\ ModeFits
      /\ \A e \in Elements : e # NoElement /\ Created[e] \in Nat
      /\ \A e \in Elements : HasSource(e) =>
            Source[e] \in Elements /\ Created[Source[e]] < Created[e]
    BY SourcesFirst DEF IInv, HasSource
<1>2. cursor \in Elements /\ (current = NoElement => waiting = {})
    BY <1>1 DEF TypeOK, ModeFits, CallsAreAChain
<1>3. current # NoElement =>
        current \in Elements /\ Created[cursor] < Created[current]
    BY <1>1 DEF TypeOK, ModeFits
<1>4. cursor # current
    BY <1>1, <1>2, <1>3
<1>5. cursor \notin waiting
    <2>1. CASE current = NoElement
        BY <1>2, <2>1
    <2>2. CASE current # NoElement
        BY <1>1, <1>2, <1>3, <2>2 DEF CallsAreAChain, TypeOK
    <2> QED
        BY <2>1, <2>2
<1> QED
    BY <1>1, <1>2, <1>3, <1>4, <1>5 DEF Busy, TypeOK

LEMMA LastUserStep ==
    ASSUME IInv, LastUser
    PROVE  IInv'
<1>0. /\ TypeOK /\ CallsAreAChain /\ ModeFits /\ BusyCountedOnce
      /\ EveryCountAccounted /\ UpIffCounted /\ SourceUp
      /\ mode = "release" /\ count[cursor] = 1
      /\ count' = [count EXCEPT ![cursor] = @ - 1]
      /\ up' = up \ {cursor}
      /\ IF HasSource(cursor)
         THEN cursor' = Source[cursor] /\ mode' = mode
         ELSE /\ cursor' = NoElement
              /\ mode' = IF current # NoElement THEN "throw" ELSE "idle"
      /\ holds' = holds /\ target' = target /\ current' = current
      /\ waiting' = waiting
    BY DEF IInv, LastUser, Released
<1>1. /\ cursor \in Elements /\ cursor # current /\ cursor \notin Busy
      /\ \A e \in Elements : e # NoElement /\ count[e] \in Nat
      /\ \A e \in Elements : HasSource(e) =>
            Source[e] \in Elements /\ Created[Source[e]] < Created[e]
      /\ \A e \in Elements : Created[e] \in Nat
      /\ current # NoElement =>
            current \in Elements /\ Created[cursor] < Created[current]
      /\ current = NoElement => waiting = {}
    BY <1>0, InDisable
<1>2. TypeOK'
    BY <1>0, <1>1 DEF TypeOK, Modes
<1>3. CallsAreAChain' /\ ModeFits'
    BY <1>0, <1>1 DEF CallsAreAChain, ModeFits
<1>4. \A e \in Elements : count'[e] = count[e] - (IF e = cursor THEN 1 ELSE 0)
    BY <1>0, <1>1 DEF TypeOK
<1>5. Busy' = Busy
    BY <1>0, <1>1 DEF Busy
<1>6. BusyCountedOnce' /\ UpIffCounted'
    BY <1>0, <1>1, <1>4, <1>5 DEF BusyCountedOnce, UpIffCounted, TypeOK
<1>7. SourceUp'
    <2> SUFFICES ASSUME NEW e \in up', HasSource(e)
                 PROVE  Source[e] \in up'
        BY DEF SourceUp
    <2>1. e \in up /\ e # cursor /\ e \in Elements /\ Source[e] \in up
        BY <1>0 DEF SourceUp, TypeOK
    <2>2. count[e] > 0 /\ e \notin Busy
        BY <1>0, <2>1 DEF UpIffCounted
    <2>3. e # current
        BY <1>0, <1>1, <2>1, <2>2 DEF Busy
    <2>4. e \in Linked
        BY <1>0, <2>1, <2>2, <2>3 DEF Linked, Pending
    <2>5. Source[e] # cursor
        BY <1>0, <1>1, <2>4, LastUserHasNoReaders, AccountedEquiv
    <2> QED
        BY <1>0, <2>1, <2>5
<1>8. CASE HasSource(cursor)
    <2>1. cursor \in Linked /\ Linked' = Linked \ {cursor}
        BY <1>0, <1>1, <1>4, <1>8 DEF Linked, Pending
    <2>2. \A x \in Elements :
             InProgress(x)' = InProgress(x) - (IF x = cursor THEN 1 ELSE 0)
                                + (IF Source[cursor] = x THEN 1 ELSE 0)
        BY <1>0, <1>1, <1>8 DEF InProgress
    <2>3. \A x \in Elements :
             Users(Linked, x)' = Users(Linked, x) - (IF Source[cursor] = x THEN 1 ELSE 0)
        BY <1>0, <2>1, TermsType, UsersRemove
    <2>4. Accounted'
        BY <1>0, <1>4, <2>2, <2>3, TermsType, AccountedEquiv DEF Accounted
    <2> QED
        BY <1>2, <1>3, <1>6, <1>7, <2>4, AccountedEquivPrime DEF IInv
<1>9. CASE ~HasSource(cursor)
    <2>1. Linked' = Linked
        BY <1>0, <1>1, <1>4, <1>9 DEF Linked, Pending
    <2>2. \A x \in Elements :
             InProgress(x)' = InProgress(x) - (IF x = cursor THEN 1 ELSE 0)
        BY <1>0, <1>1, <1>9 DEF InProgress
    <2>3. Accounted'
        BY <1>0, <1>4, <2>1, <2>2, TermsType, AccountedEquiv DEF Accounted
    <2> QED
        BY <1>2, <1>3, <1>6, <1>7, <2>3, AccountedEquivPrime DEF IInv
<1> QED
    BY <1>8, <1>9

LEMMA OtherUsersRemainStep ==
    ASSUME IInv, OtherUsersRemain
    PROVE  IInv'
<1>0. /\ TypeOK /\ CallsAreAChain /\ ModeFits /\ BusyCountedOnce
      /\ EveryCountAccounted /\ UpIffCounted /\ SourceUp
      /\ mode = "release" /\ count[cursor] > 1
      /\ count' = [count EXCEPT ![cursor] = @ - 1]
      /\ cursor' = NoElement
      /\ mode' = IF current # NoElement THEN "throw" ELSE "idle"
      /\ up' = up /\ holds' = holds /\ target' = target /\ current' = current
      /\ waiting' = waiting
    BY DEF IInv, OtherUsersRemain, Released
<1>1. /\ cursor \in Elements /\ cursor # current /\ cursor \notin Busy
      /\ \A e \in Elements : e # NoElement /\ count[e] \in Nat
      /\ current = NoElement => waiting = {}
    BY <1>0, InDisable
<1>2. TypeOK'
    BY <1>0, <1>1 DEF TypeOK, Modes
<1>3. CallsAreAChain' /\ ModeFits' /\ SourceUp'
    BY <1>0, <1>1 DEF CallsAreAChain, ModeFits, SourceUp
<1>4. \A e \in Elements : count'[e] = count[e] - (IF e = cursor THEN 1 ELSE 0)
    BY <1>0, <1>1 DEF TypeOK
<1>5. Busy' = Busy
    BY <1>0, <1>1 DEF Busy
<1>6. BusyCountedOnce' /\ UpIffCounted'
    BY <1>0, <1>1, <1>4, <1>5 DEF BusyCountedOnce, UpIffCounted
<1>7. Linked' = Linked
    BY <1>0, <1>1, <1>4 DEF Linked, Pending
<1>8. \A x \in Elements :
         InProgress(x)' = InProgress(x) - (IF x = cursor THEN 1 ELSE 0)
    BY <1>0, <1>1 DEF InProgress
<1>9. Accounted'
    BY <1>0, <1>4, <1>7, <1>8, TermsType, AccountedEquiv DEF Accounted
<1> QED
    BY <1>2, <1>3, <1>6, <1>9, AccountedEquivPrime DEF IInv

-----------------------------------------------------------------------------
LEMMA InitIInv == Init => IInv
<1> SUFFICES ASSUME Init PROVE IInv
    OBVIOUS
<1>1. TypeOK /\ CallsAreAChain /\ ModeFits /\ SourceUp
    BY DEF Init, TypeOK, Modes, CallsAreAChain, ModeFits, SourceUp
<1>2. Busy = {} /\ Linked = {}
    BY DEF Init, Busy, Linked, Pending
<1>3. BusyCountedOnce /\ UpIffCounted
    BY <1>2 DEF BusyCountedOnce, UpIffCounted, Init
<1>4. \A x \in Elements : InProgress(x) = 0
    BY SourcesFirst DEF Init, InProgress
<1>5. \A x \in Elements : Users(Linked, x) = 0
    <2>1. \A x : {r \in {} : Source[r] = x} = {}
        OBVIOUS
    <2> QED
        BY <1>2, <2>1, FS_EmptySet DEF Users
<1>6. Accounted
    BY <1>4, <1>5 DEF Accounted, Init
<1> QED
    BY <1>1, <1>3, <1>6, AccountedEquiv DEF IInv

LEMMA NextIInv == IInv /\ [Next]_vars => IInv'
<1> SUFFICES ASSUME IInv, [Next]_vars PROVE IInv'
    OBVIOUS
<1>1. ASSUME NEW e \in Elements, CallEnable(e) PROVE IInv'
    BY <1>1, CallEnableStep
<1>2. ASSUME NEW e \in Elements, CallDisable(e) PROVE IInv'
    BY <1>2, CallDisableStep
<1>3. CASE FirstUser
    BY <1>3, FirstUserStep
<1>4. CASE FurtherUser
    BY <1>4, FurtherUserStep
<1>5. CASE DoEnableOK
    BY <1>5, DoEnableOKStep
<1>6. CASE DoEnableFails
    BY <1>6, DoEnableFailsStep
<1>7. CASE Rethrow
    BY <1>7, RethrowStep
<1>8. CASE Return
    BY <1>8, ReturnStep
<1>9. CASE LastUser
    BY <1>9, LastUserStep
<1>10. CASE OtherUsersRemain
    BY <1>10, OtherUsersRemainStep
<1>11. CASE UNCHANGED vars
    <2> USE <1>11 DEF vars
    <2>1. TypeOK' /\ CallsAreAChain' /\ ModeFits' /\ SourceUp'
        BY DEF IInv, TypeOK, CallsAreAChain, ModeFits, SourceUp
    <2>2. Busy' = Busy /\ Linked' = Linked
        BY DEF Busy, Linked, Pending
    <2>3. BusyCountedOnce' /\ UpIffCounted'
        BY <2>2 DEF IInv, BusyCountedOnce, UpIffCounted
    <2>4. \A x \in Elements : InProgress(x)' = InProgress(x)
        BY DEF InProgress
    <2>5. Accounted'
        BY <2>2, <2>4, AccountedEquiv DEF IInv, Accounted
    <2> QED
        BY <2>1, <2>3, <2>5, AccountedEquivPrime DEF IInv
<1> QED
    BY <1>1, <1>2, <1>3, <1>4, <1>5, <1>6, <1>7, <1>8, <1>9, <1>10, <1>11
    DEF Next, Caller, Call

\* The invariant holds of every forest of elements and every interleaving of
\* MediaElement::enable and disable calls and failures.
THEOREM Invariant == Spec => []IInv
    BY InitIInv, NextIInv, PTL DEF Spec

\* MediaElement's state is well typed in every reachable state: in
\* particular no _enable_count is ever negative.
THEOREM TypeCorrect == Spec => []TypeOK
<1>1. IInv => TypeOK
    BY DEF IInv
<1> QED
    BY <1>1, Invariant, PTL

\* The assertions of enable() and disable() never fail, whatever fails
\* elsewhere: an element is only given back by somebody who took it.
THEOREM AssertsAlwaysHold == Spec => []AssertsHold
<1>1. IInv => AssertsHold
    <2> SUFFICES ASSUME IInv, mode = "release" PROVE count[cursor] > 0
        BY DEF AssertsHold
    <2>1. cursor \in Elements /\ TypeOK /\ Accounted
        BY InDisable, AccountedEquiv DEF IInv
    <2>2. InProgress(cursor) \in Nat /\ InProgress(cursor) >= 1
        BY DEF InProgress
    <2> QED
        BY <2>1, <2>2, TermsType DEF Accounted
<1> QED
    BY <1>1, Invariant, PTL

\* No stage is ever left reading a stage that MediaElement has torn down.
THEOREM SourceAlwaysUp == Spec => []SourceUp
<1>1. IInv => SourceUp
    BY DEF IInv
<1> QED
    BY <1>1, Invariant, PTL

\* Between two calls nothing is pending and nobody is busy.
LEMMA IdleCounts ==
    ASSUME IInv
    PROVE  CountsAccounted /\ EnabledIffUp
<1>1. ASSUME mode = "idle", NEW e \in Elements
      PROVE  count[e] = holds[e] + Cardinality({r \in Readers(e) : count[r] > 0})
    <2>1. current = NoElement /\ target = NoElement /\ cursor = NoElement
        BY <1>1 DEF IInv, ModeFits, CallsAreAChain
    <2>2. InProgress(e) = 0
        BY <2>1, <1>1, SourcesFirst DEF InProgress
    <2>3. {r \in Linked : Source[r] = e} = {r \in Readers(e) : count[r] > 0}
        BY <1>1, SourcesFirst DEF Linked, Pending, Readers, HasSource
    <2>4. holds[e] \in Nat /\ Users(Linked, e) \in Nat
        BY TermsType, <1>1 DEF IInv
    <2>5. count[e] = holds[e] + Users(Linked, e)
        BY <1>1, <2>2, <2>4, AccountedEquiv DEF IInv, Accounted
    <2> QED
        BY <2>3, <2>5 DEF Users
<1>2. ASSUME mode = "idle", NEW e \in Elements
      PROVE  count[e] > 0 <=> e \in up
    <2>1. Busy = {}
        BY <1>2 DEF IInv, ModeFits, CallsAreAChain, Busy
    <2> QED
        BY <2>1, <1>2 DEF IInv, UpIffCounted
<1> QED
    BY <1>1, <1>2 DEF CountsAccounted, EnabledIffUp

\* enable() and its undo paths neither leak nor lose a reference.
THEOREM CountsAlwaysAccounted == Spec => []CountsAccounted
<1>1. IInv => CountsAccounted
    BY IdleCounts
<1> QED
    BY <1>1, Invariant, PTL

\* Between calls is_enabled() is true of exactly the running elements.
THEOREM EnabledAlwaysIffUp == Spec => []EnabledIffUp
<1>1. IInv => EnabledIffUp
    BY IdleCounts
<1> QED
    BY <1>1, Invariant, PTL

-----------------------------------------------------------------------------
(* Refinement.                                                             *)

\* An enable() in progress was allowed to begin, and no other caller's has
\* ended since.
RoomForTarget == target # NoElement => holds[target] < MaxHolds

LEMMA RoomForTargetInvariant == Spec => []RoomForTarget
<1>1. Init => RoomForTarget
    BY DEF Init, RoomForTarget
<1>2. IInv /\ RoomForTarget /\ [Next]_vars => RoomForTarget'
    <2> SUFFICES ASSUME IInv, RoomForTarget, [Next]_vars PROVE RoomForTarget'
        OBVIOUS
    <2>1. ASSUME NEW e \in Elements, CallEnable(e) PROVE RoomForTarget'
        BY <2>1 DEF CallEnable, RoomForTarget
    <2>2. ASSUME NEW e \in Elements, CallDisable(e) PROVE RoomForTarget'
        BY <2>2 DEF CallDisable, RoomForTarget, IInv, ModeFits, CallsAreAChain
    <2>3. CASE FirstUser \/ FurtherUser \/ DoEnableOK \/ DoEnableFails
        BY <2>3 DEF FirstUser, FurtherUser, DoEnableOK, DoEnableFails, RoomForTarget
    <2>4. CASE Rethrow \/ Return
        BY <2>4 DEF Rethrow, RethrowFromCurrent, Return, RoomForTarget
    <2>5. CASE LastUser \/ OtherUsersRemain \/ UNCHANGED vars
        BY <2>5 DEF LastUser, OtherUsersRemain, vars, RoomForTarget
    <2> QED
        BY <2>1, <2>2, <2>3, <2>4, <2>5 DEF Next, Caller, Call
<1> QED
    BY <1>1, <1>2, Invariant, PTL DEF Spec

\* Nothing runs on top of an element that is given back for the last time,
\* and nobody holds it.
LEMMA LastUserStops ==
    ASSUME IInv, LastUser
    PROVE  Abstract!Stop(cursor)
<1>1. mode = "release" /\ count[cursor] = 1 /\ up' = up \ {cursor} /\ holds' = holds
    BY DEF LastUser
<1>2. cursor \in Elements /\ cursor \notin Busy
    BY <1>1, InDisable
<1>3. cursor \in up
    BY <1>1, <1>2 DEF IInv, UpIffCounted
<1>4. holds[cursor] = 0
    <2>1. InProgress(cursor) \in Nat /\ InProgress(cursor) >= 1
        BY DEF InProgress
    <2>2. holds[cursor] \in Nat /\ Users(Linked, cursor) \in Nat
        BY <1>2, TermsType DEF IInv
    <2>3. 1 = holds[cursor] + Users(Linked, cursor) + InProgress(cursor)
        BY <1>1, <1>2, AccountedEquiv DEF IInv, Accounted
    <2> QED
        BY <2>1, <2>2, <2>3
<1>5. ASSUME NEW r \in Elements, Source[r] = cursor, r \in up
      PROVE  FALSE
    <2>1. HasSource(r)
        BY <1>2, <1>5, SourcesFirst DEF HasSource
    <2>2. count[r] > 0 /\ r \notin Busy
        BY <1>5 DEF IInv, UpIffCounted
    <2>3. r # current
        BY <1>1, <2>2, <1>5, SourcesFirst DEF Busy
    <2>4. r \in Linked
        BY <1>1, <2>1, <2>2, <2>3 DEF Linked, Pending
    <2> QED
        BY <1>1, <1>2, <1>5, <2>4, LastUserHasNoReaders, AccountedEquiv DEF IInv
<1>6. Readers(cursor) \cap up = {}
    BY <1>5 DEF Readers
<1> QED
    BY <1>1, <1>3, <1>4, <1>6 DEF Abstract!Stop, Readers, Abstract!Readers

LEMMA ReturnAcquires ==
    ASSUME IInv, RoomForTarget, Return
    PROVE  target \in Elements /\ Abstract!Acquire(target)
<1>1. /\ mode = "return" /\ holds' = [holds EXCEPT ![target] = @ + 1]
      /\ up' = up
    BY DEF Return
<1>2. current = target /\ current # NoElement
    BY <1>1 DEF IInv, ModeFits
<1>3. target \in Elements /\ waiting = {} /\ target # NoElement
    BY <1>2, CallerOfCurrent DEF IInv
<1>4. count[target] > 0
    <2>1. InProgress(target) \in Nat /\ InProgress(target) >= 1
        BY <1>1 DEF InProgress
    <2> QED
        BY <2>1, <1>3, TermsType, AccountedEquiv DEF IInv, Accounted
<1>5. target \in up
    BY <1>1, <1>3, <1>4 DEF IInv, UpIffCounted, Busy
<1> QED
    BY <1>1, <1>3, <1>5 DEF Abstract!Acquire, RoomForTarget

LEMMA DoEnableOKStarts ==
    ASSUME IInv, DoEnableOK
    PROVE  current \in Elements /\ Abstract!Start(current)
<1>1. mode = "start" /\ up' = up \cup {current} /\ holds' = holds
    BY DEF DoEnableOK
<1>2. current # NoElement /\ current \in Elements
    BY <1>1, InEnable DEF IInv, ModeFits
<1>3. current \notin up
    BY <1>1, <1>2 DEF IInv, BusyCountedOnce, Busy
<1>4. HasSource(current) => Source[current] \in up
    BY <1>1, StartsOnRunningSource
<1> QED
    BY <1>1, <1>2, <1>3, <1>4 DEF Abstract!Start, HasSource, Abstract!HasSource

\* Every step of enable() and disable(), failures included, is a step that
\* RunningTree allows, or changes nothing it speaks of.
THEOREM ImplementsSafely == Spec => Abstract!SafeSpec
<1>1. Init => Abstract!Init
    BY DEF Init, Abstract!Init
<1>2. IInv /\ RoomForTarget /\ [Next]_vars => [Abstract!Next]_(Abstract!vars)
    <2> SUFFICES ASSUME IInv, RoomForTarget, [Next]_vars
                 PROVE  Abstract!Next \/ UNCHANGED Abstract!vars
        OBVIOUS
    <2>1. ASSUME NEW e \in Elements, CallDisable(e) PROVE Abstract!Release(e)
        BY <2>1 DEF CallDisable, Abstract!Release
    <2>2. ASSUME \/ \E e \in Elements : CallEnable(e)
                 \/ FirstUser \/ FurtherUser \/ DoEnableFails \/ Rethrow
                 \/ OtherUsersRemain \/ UNCHANGED vars
          PROVE  UNCHANGED Abstract!vars
        BY <2>2 DEF CallEnable, FirstUser, FurtherUser, DoEnableFails, Rethrow,
                    RethrowFromCurrent, OtherUsersRemain, vars, Abstract!vars
    <2>3. CASE DoEnableOK
        BY <2>3, DoEnableOKStarts DEF Abstract!Next
    <2>4. CASE Return
        BY <2>4, ReturnAcquires DEF Abstract!Next
    <2>5. CASE LastUser
        <3>1. cursor \in Elements
            BY <2>5, InDisable DEF LastUser
        <3> QED
            BY <2>5, <3>1, LastUserStops DEF Abstract!Next
    <2> QED
        BY <2>1, <2>2, <2>3, <2>4, <2>5 DEF Next, Caller, Call, Abstract!Next
<1> QED
    BY <1>1, <1>2, Invariant, RoomForTargetInvariant, PTL DEF Spec, Abstract!SafeSpec
-----------------------------------------------------------------------------
(* What is up, told by what the callers hold alone.                        *)

\* Of a set of finite sets some member contains no other one: induction over
\* finite sets, in the form the provers can use.
LEMMA MinimalSet ==
    ASSUME NEW S, NEW F, F \subseteq FiniteSubsetsOf(S), F # {}
    PROVE  \E m \in F : \A n \in F : n \subseteq m => n = m
<1>1. IsWellFoundedOn(StrictSubsetOrdering(S), FiniteSubsetsOf(S))
    BY FS_StrictSubsetOrderingWellFounded
<1>2. PICK m \in F : \A n \in F : ~ (<<n, m>> \in StrictSubsetOrdering(S))
    BY <1>1, WFMin
<1> QED
    BY <1>2 DEF StrictSubsetOrdering, FiniteSubsetsOf

\* Of the elements of a set one was created last: none of them reads it.
LEMMA LastCreated ==
    ASSUME NEW T \in SUBSET Elements, T # {}
    PROVE  \E e \in T : \A x \in T : Created[x] <= Created[e]
<1> DEFINE After(e) == {x \in Elements : Created[x] > Created[e]}
           F == {After(e) : e \in T}
<1>1. F \subseteq FiniteSubsetsOf(Elements) /\ F # {}
    <2>1. ASSUME NEW e \in T
          PROVE  After(e) \in FiniteSubsetsOf(Elements)
        <3>1. After(e) \in SUBSET Elements
            OBVIOUS
        <3>2. IsFiniteSet(After(e))
            BY <3>1, FS_Subset, SourcesFirst
        <3> QED
            BY <3>1, <3>2 DEF FiniteSubsetsOf
    <2> QED
        BY <2>1
<1>2. PICK m \in F : \A n \in F : n \subseteq m => n = m
    <2> HIDE DEF F
    <2> QED BY <1>1, MinimalSet
<1>3. PICK e \in T : m = After(e)
    BY <1>2
<1>4. ASSUME NEW x \in T, ~(Created[x] <= Created[e])
      PROVE  FALSE
    <2>1. Created[x] \in Nat /\ Created[e] \in Nat /\ x \in After(e) /\ x \notin After(x)
        BY <1>4, SourcesFirst
    <2>2. After(x) \subseteq After(e)
        BY <1>4, <2>1, SourcesFirst
    <2>3. After(x) = After(e)
        BY <1>2, <1>3, <2>2
    <2> QED
        BY <2>1, <2>3
<1> QED
    BY <1>4

\* The sets that have, with its holders' elements, the sources of all members.
Closed(S) ==
    \A e \in Elements : (holds[e] > 0 \/ \E r \in Readers(e) : r \in S) => e \in S

Least == {e \in Elements : \A S \in SUBSET Elements : Closed(S) => e \in S}

\* The equation that defines Needed has a solution: the least closed set.
LEMMA LeastSolves ==
    ASSUME NEW e \in Elements
    PROVE  e \in Least <=> holds[e] > 0 \/ \E r \in Readers(e) : r \in Least
<1> DEFINE Solved == {x \in Elements : holds[x] > 0 \/ \E r \in Readers(x) : r \in Least}
<1>1. Solved \subseteq Least
    BY DEF Least, Closed
<1>2. Closed(Solved)
    BY <1>1 DEF Closed
<1>3. Least \subseteq Solved
    BY <1>2 DEF Least
<1> QED
    BY <1>1, <1>3

LEMMA NeededSolves ==
    ASSUME NEW e \in Elements
    PROVE  Needed[e] <=> holds[e] > 0 \/ \E r \in Readers(e) : Needed[r]
<1> DEFINE Body(N) == [x \in Elements |-> \/ holds[x] > 0
                                          \/ \E r \in Readers(x) : N[r]]
           L == [x \in Elements |-> x \in Least]
<1>1. L = Body(L)
    <2>1. ASSUME NEW x \in Elements
          PROVE  L[x] = Body(L)[x]
        <3>1. \A r \in Readers(x) : r \in Elements
            BY DEF Readers
        <3>2. (\E r \in Readers(x) : L[r]) <=> \E r \in Readers(x) : r \in Least
            BY <3>1
        <3>3. x \in Least <=> holds[x] > 0 \/ \E r \in Readers(x) : r \in Least
            BY LeastSolves
        <3>4. L[x] = (x \in Least)
            OBVIOUS
        <3>5. Body(L)[x] = (holds[x] > 0 \/ \E r \in Readers(x) : L[r])
            BY Zenon
        <3> HIDE DEF L, Body
        <3> QED
            BY <3>2, <3>3, <3>4, <3>5
    <2> QED
        BY <2>1
<1>2. \E N : N = Body(N)
    BY <1>1
<1>3. Needed = Body(Needed)
    BY <1>2, Zenon DEF Needed
<1> QED
    BY <1>3, Zenon

\* Between two calls an element is up for its holders and its readers only.
LEMMA UpForSomebody ==
    ASSUME IInv, mode = "idle", NEW e \in Elements
    PROVE  e \in up <=> holds[e] > 0 \/ \E r \in Readers(e) : r \in up
<1> DEFINE R == {r \in Readers(e) : count[r] > 0}
<1>1. count[e] = holds[e] + Cardinality(R)
    BY IdleCounts DEF CountsAccounted
<1>2. \A x \in Elements : count[x] > 0 <=> x \in up
    BY IdleCounts DEF EnabledIffUp
<1>3. R \in SUBSET Elements /\ IsFiniteSet(R)
    BY FS_Subset, SourcesFirst DEF Readers
<1>4. Cardinality(R) \in Nat /\ (Cardinality(R) = 0 <=> R = {})
    BY <1>3, FS_CardinalityType, FS_EmptySet
<1>5. R # {} <=> \E r \in Readers(e) : r \in up
    BY <1>2 DEF Readers
<1>6. holds[e] \in Nat
    BY DEF IInv, TypeOK
<1> HIDE DEF R
<1> QED
    BY <1>1, <1>2, <1>4, <1>5, <1>6

\* Between two calls exactly the elements that somebody needs, directly or at
\* any distance, are up: both solve the same equation, and of the elements on
\* which they differed the one created last would have a reader on which they
\* differ as well.
THEOREM AlwaysUpIffNeeded == Spec => []UpIffNeeded
<1>1. IInv => UpIffNeeded
    <2> SUFFICES ASSUME IInv, mode = "idle"
                 PROVE  \A e \in Elements : e \in up <=> Needed[e]
        BY DEF UpIffNeeded
    <2> DEFINE T == {e \in Elements : ~(e \in up <=> Needed[e])}
    <2>1. CASE T # {}
        <3>1. PICK e \in T : \A x \in T : Created[x] <= Created[e]
            BY <2>1, LastCreated
        <3>2. ASSUME NEW r \in Readers(e)
              PROVE  r \in up <=> Needed[r]
            <4>1. r \in Elements /\ Created[e] < Created[r] /\ Created[e] \in Nat /\ Created[r] \in Nat
                BY SourcesFirst DEF Readers
            <4> QED
                BY <3>1, <4>1
        <3>3. e \in up <=> Needed[e]
            BY <3>2, UpForSomebody, NeededSolves
        <3> QED
            BY <3>1, <3>3
    <2> QED
        BY <2>1
<1> QED
    BY <1>1, Invariant, PTL
=============================================================================
