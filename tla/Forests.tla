------------------------------ MODULE Forests -------------------------------
(***************************************************************************)
(* How HimppMedia::buildElementPipe chains what it constructs: what Pipes  *)
(* brings about and MediaElement relies on.                                *)
(***************************************************************************)
EXTENDS Naturals, FiniteSets

\* Each element of E has a source in E that was constructed before it, or none.
IsForest(E, none, source, created) ==
    /\ IsFiniteSet(E)
    /\ none \notin E
    /\ source \in [E -> E \cup {none}]
    /\ created \in [E -> Nat]
    /\ \A e \in E : source[e] # none => created[source[e]] < created[e]
=============================================================================
