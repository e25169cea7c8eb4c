------------------------------ MODULE Scripts -------------------------------
(***************************************************************************)
(* The driver calls of doEnableElement() and doDisableElement() as data: a *)
(* script is a sequence of steps, a step one call that may fail.           *)
(*                                                                         *)
(* What a call obtains from the driver, the library or the kernel has a    *)
(* name.  Calls that obtain nothing and whose failure is only logged are   *)
(* left out.                                                               *)
(***************************************************************************)
EXTENDS Naturals, Sequences

\* gets, frees: what the call obtains and gives back.  When it fails, the
\* releases in undo are done one after the other and doEnableElement() throws,
\* unless the failure is only logged.
Step(gets, frees, throws, undo) ==
    [gets |-> gets, frees |-> frees, throws |-> throws, undo |-> undo]

Steps == [gets : SUBSET STRING, frees : SUBSET STRING, throws : BOOLEAN,
          undo : Seq(SUBSET STRING)]

\* A call that obtains r, and one that obtains nothing.
Get(r, undo) == Step({r}, {}, TRUE, undo)
Check(undo) == Step({}, {}, TRUE, undo)

\* One whose failure is only logged.
Try(r) == Step({r}, {}, FALSE, <<>>)

\* One that gives back what the call, or an earlier process, has obtained.
Free(rs) == Step({}, rs, FALSE, <<>>)

\* A stage: what doEnableElement() and doDisableElement() do, and whether a
\* setter restarts it under its readers.
Stage(start, stop) == [start |-> start, stop |-> stop, restarts |-> FALSE]
Restarted(start, stop) == [start |-> start, stop |-> stop, restarts |-> TRUE]

StageScripts == [start : Seq(Steps), stop : Seq(SUBSET STRING),
                 restarts : BOOLEAN]

-----------------------------------------------------------------------------
\* What the releases of the sequence s from the i-th on give back.
ReleasedFrom(s, i) == UNION {s[j] : j \in i..Len(s)}

\* What the first n steps of the stage may obtain, and what all of them do.
Got(stage, n) == UNION {stage.start[j].gets : j \in 1..n}
Gets(stage) == Got(stage, Len(stage.start))

\* What a throw at the i-th step leaves behind.
Left(stage, i) == Got(stage, i - 1) \ ReleasedFrom(stage.start[i].undo, 1)

\* Of a pair <<user, used>> the used one is released last, or with the user.
UsedLast(n, s) ==
    \A p, q \in 1..Len(s) : n[2] \in s[p] /\ n[1] \in s[q] => q <= p

\* What the first n steps, when they are done, have obtained for certain: by calls
\* whose failure is not only logged, and not given back since.
Sure(stage, n) ==
    UNION {{r \in stage.start[i].gets : \A j \in (i + 1)..n : r \notin stage.start[j].frees} :
              i \in {m \in 1..n : stage.start[m].throws}}

\* What an enabled stage holds.
Required(stage) == Sure(stage, Len(stage.start))

\* Everything that a script of the stage may give back.
Touches(stage) ==
    (UNION {stage.start[j].frees \cup ReleasedFrom(stage.start[j].undo, 1) :
              j \in 1..Len(stage.start)})
      \cup ReleasedFrom(stage.stop, 1)
=============================================================================
