--------------------------- MODULE ConfigSnapshots ---------------------------
(***************************************************************************)
(* What a configuration store promises: changes are made to a current      *)
(* document.  The stored one is at any time a whole document that has been *)
(* current, and the current one when the program has ended in order; only  *)
(* while it is being saved it may be a part.  After a crash the program    *)
(* goes on from what is stored, so that a crash costs the changes since    *)
(* the last save, unless it comes in the middle of one.                    *)
(***************************************************************************)
CONSTANTS Props, Values, None

VARIABLES
    program,    \* it is "up", or "saving", or has "ended", or has "crashed"
    current,    \* the document that is in use, or will be when it is up
    stored      \* the document that survives the program

vars == <<program, current, stored>>

Documents == [Props -> Values \cup {None}]

\* The documents that have nothing but what doc has, apart from one place at
\* which they may have anything.
Parts(doc) ==
    {d \in Documents :
        \A p, q \in Props :
            p = q \/ d[p] \in {doc[p], None} \/ d[q] \in {doc[q], None}}

Init ==
    /\ program = "ended"
    /\ stored \in Documents
    /\ current = stored

Open ==
    /\ program \in {"ended", "crashed"}
    /\ program' = "up"
    /\ UNCHANGED <<current, stored>>

OpenFails ==
    /\ program \in {"ended", "crashed"}
    /\ program' = "crashed"
    /\ UNCHANGED <<current, stored>>

Change(p, v) ==
    /\ program = "up"
    /\ current' = [current EXCEPT ![p] = v]
    /\ UNCHANGED <<program, stored>>

BeginSave ==
    /\ program = "up"
    /\ program' = "saving"
    /\ stored' \in Parts(current)
    /\ UNCHANGED current

EndSave ==
    /\ program = "saving"
    /\ program' \in {"up", "ended"}
    /\ stored' = current
    /\ UNCHANGED current

\* There is nothing to save.
Close ==
    /\ program = "up"
    /\ program' = "ended"
    /\ stored = current
    /\ UNCHANGED <<current, stored>>

Crash ==
    /\ program \in {"up", "saving"}
    /\ program' = "crashed"
    /\ \/ program = "up" /\ UNCHANGED stored
       \/ program = "saving" /\ stored' \in Parts(current)
    /\ current' = stored'

Next ==
    \/ Open \/ OpenFails
    \/ \E p \in Props, v \in Values : Change(p, v)
    \/ BeginSave \/ EndSave
    \/ Close
    \/ Crash

Spec == Init /\ [][Next]_vars
=============================================================================
