---------------------------- MODULE ElementTree ----------------------------
(***************************************************************************)
(* The media elements of one HimppMedia and how they are chained.          *)
(*                                                                         *)
(* HimppMedia::buildElementPipe constructs every element with a pointer to *)
(* the element before it in the pipe description, its source, or with NULL *)
(* for the first one.  Elements are found again by name, so that pipes     *)
(* share their common prefix: the result is a forest.  A source exists     *)
(* before the elements that read it; Created is that construction order.   *)
(***************************************************************************)
EXTENDS Forests

CONSTANTS
    Elements,   \* the elements of the camera
    NoElement,  \* a NULL _source
    Source,     \* Source[e] is e's _source
    Created     \* Created[e] is e's place in the construction order

ASSUME ElementTreeAssumption == IsForest(Elements, NoElement, Source, Created)

HasSource(e) == Source[e] # NoElement

\* The elements that read e directly.
Readers(e) == {r \in Elements : Source[r] = e}
=============================================================================
