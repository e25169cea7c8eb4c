-------------------------- MODULE MCNoiseReduction --------------------------
(***************************************************************************)
(* Tables of one and of two items, levels within and beyond them, and      *)
(* lights below, between and above.                                        *)
(***************************************************************************)
EXTENDS NoiseReduction

Item(i, s) == [iso |-> i, strength |-> s]
MCTables == {<<Item(1, "weak")>>, <<Item(1, "weak"), Item(2, "strong")>>}
=============================================================================
