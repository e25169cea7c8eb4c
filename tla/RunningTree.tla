---------------------------- MODULE RunningTree ----------------------------
(***************************************************************************)
(* What MediaElement::enable and disable promise to their callers, without *)
(* counters and calls: a stage of the pipeline runs only on top of a       *)
(* running source, the stages somebody holds run, and the stages nobody    *)
(* needs are stopped in the end.                                           *)
(***************************************************************************)
EXTENDS ElementTree

CONSTANT MaxHolds   \* bound: how many times one element is held at once

VARIABLES
    running,    \* the elements whose driver object exists
    holds       \* holds[e]: enables of e by callers, not yet given back

vars == <<running, holds>>

Init ==
    /\ running = {}
    /\ holds = [e \in Elements |-> 0]

Start(e) ==
    /\ e \notin running
    /\ HasSource(e) => Source[e] \in running
    /\ running' = running \cup {e}
    /\ UNCHANGED holds

Stop(e) ==
    /\ e \in running
    /\ holds[e] = 0
    /\ Readers(e) \cap running = {}
    /\ running' = running \ {e}
    /\ UNCHANGED holds

Acquire(e) ==
    /\ e \in running
    /\ holds[e] < MaxHolds
    /\ holds' = [holds EXCEPT ![e] = @ + 1]
    /\ UNCHANGED running

Release(e) ==
    /\ holds[e] > 0
    /\ holds' = [holds EXCEPT ![e] = @ - 1]
    /\ UNCHANGED running

Next ==
    \E e \in Elements : Start(e) \/ Stop(e) \/ Acquire(e) \/ Release(e)

SafeSpec == Init /\ [][Next]_vars

Spec == SafeSpec /\ \A e \in Elements : WF_vars(Stop(e))
=============================================================================
