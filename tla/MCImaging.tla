----------------------------- MODULE MCImaging ------------------------------
(***************************************************************************)
(* The pipes of the three platforms, with one property used, or two that   *)
(* share a structure.  A second pipe ends at the stage below the top: the  *)
(* group of the VPSS.                                                      *)
(***************************************************************************)
EXTENDS Imaging

Ev200 == INSTANCE ImagingEv200
Cv300 == INSTANCE ImagingCv300
V200 == INSTANCE ImagingV200

Used(stages) ==
    {<<"Imaging", "Sharpness">>} \cup UNION {DOMAIN stages[i] : i \in DOMAIN stages}

Share(stages, m, n) ==
    \E i \in DOMAIN stages : {m, n} \subseteq DOMAIN stages[i] /\ stages[i][m].attr = stages[i][n].attr

MCPipes ==
    UNION {{[stages |-> stages, offline |-> offline, ends |-> {1, 2}, watched |-> {m, n}] :
              offline \in BOOLEAN,
              <<m, n>> \in {p \in Used(stages) \X Used(stages) :
                              p[1] = p[2] \/ Share(stages, p[1], p[2])}} :
           stages \in {Ev200!Pipe, Cv300!Pipe, V200!Pipe}}

\* Of the last a byte keeps 2 and a half word 258.
MCWords == {0, 1, 65794}
=============================================================================
