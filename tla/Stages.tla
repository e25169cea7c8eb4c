------------------------------- MODULE Stages -------------------------------
(***************************************************************************)
(* A chain of media elements is started and stopped: the interpreter of    *)
(* the scripts of driver calls in doEnableElement() and                    *)
(* doDisableElement(), in the order in which MediaElement (abstracted here *)
(* to the number of stages that are up) runs them.                         *)
(*                                                                         *)
(* Every driver call may fail; the calls that undo something are assumed   *)
(* to succeed.  The stages below the one a caller enables may be in use by *)
(* other readers: a failing enable() then stops only what it has started.  *)
(***************************************************************************)
EXTENDS Scripts

CONSTANTS
    Chains,     \* the chains of the platforms, from the source on
    Created     \* what the driver refuses to create when it exists

\* A stop gives back everything the start may have obtained.
ASSUME ChainsAssumption ==
    \A c \in Chains :
        /\ c \in Seq(StageScripts)
        /\ Len(c) > 0
        /\ \A k \in 1..Len(c) : Gets(c[k]) \subseteq ReleasedFrom(c[k].stop, 1)

\* No stage gives back what another one obtains, and the start of a stage that
\* is restarted under its readers gives back all of it when it fails.
ASSUME SeparateAssumption ==
    \A c \in Chains : \A k \in 1..Len(c) :
        /\ \A j \in 1..Len(c) \ {k} : Gets(c[j]) \cap Touches(c[k]) = {}
        /\ c[k].restarts =>
             \A i \in 1..Len(c[k].start) :
                 c[k].start[i].throws =>
                     Got(c[k], i - 1) \subseteq ReleasedFrom(c[k].start[i].undo, 1)

VARIABLES
    chain,      \* the chain of this instance
    up,         \* its stages 1..up are enabled
    base,       \* the stages 1..base are held by somebody else than the caller
    call,       \* the call in progress
    at,         \* the stage it is at
    doing,      \* which script of it runs
    pc,         \* the next step or release
    undoing,    \* the releases of a failed step
    again,      \* a restart runs for the second time, with the old setting
    held,       \* what is obtained from the driver
    lost        \* history: what throws have left behind without a release

vars == <<chain, up, base, call, at, doing, pc, undoing, again, held, lost>>

Init ==
    /\ chain \in Chains
    /\ up = 0
    /\ base = 0
    /\ call = "none"
    /\ at = 1
    /\ doing = "start"
    /\ pc = 1
    /\ undoing = <<>>
    /\ again = FALSE
    /\ held = {}
    /\ lost = {}

Run(k, script) == at' = k /\ doing' = script /\ pc' = 1

Stay == UNCHANGED <<at, doing, pc, undoing>>

-----------------------------------------------------------------------------
(* The callers.                                                            *)

\* enable() of the whole chain, of which stages may be up.
Enable ==
    /\ call = "none"
    /\ up < Len(chain)
    /\ call' = "enable"
    /\ base' = up
    /\ Run(up + 1, "start")
    /\ UNCHANGED <<chain, up, undoing, again, held, lost>>

\* disable() by everybody but the holders of the stages 1..n.
Disable(n) ==
    /\ call = "none"
    /\ n < up
    /\ call' = "disable"
    /\ base' = n
    /\ Run(up, "stop")
    /\ UNCHANGED <<chain, up, undoing, again, held, lost>>

\* setRotateAngle() and its like on an enabled stage.
Restart(k) ==
    /\ call = "none"
    /\ k <= up
    /\ chain[k].restarts
    /\ call' = "restart"
    /\ again' = FALSE
    /\ Run(k, "stop")
    /\ UNCHANGED <<chain, up, base, undoing, held, lost>>

-----------------------------------------------------------------------------
(* doEnableElement()                                                       *)

Starting == call # "none" /\ doing = "start" /\ pc <= Len(chain[at].start)

step == chain[at].start[pc]

Succeeds ==
    /\ Starting
    /\ step.gets \cap held \cap Created = {}
    /\ held' = (held \ step.frees) \cup step.gets
    /\ lost' = lost \ step.gets
    /\ pc' = pc + 1
    /\ UNCHANGED <<chain, up, base, call, at, doing, undoing, again>>

\* Seeded bug: the failure of a call that matters is only logged.
FailsUnnoticed ==
    /\ Starting
    /\ pc' = pc + 1
    /\ UNCHANGED <<chain, up, base, call, at, doing, undoing, again, held, lost>>

FailsLogged ==
    /\ Starting
    /\ ~step.throws
    /\ pc' = pc + 1
    /\ UNCHANGED <<chain, up, base, call, at, doing, undoing, again, held, lost>>

\* Seeded bug: the goto jumps over the first of the releases.
ThrowsSkipsOne ==
    /\ Starting
    /\ step.throws
    /\ undoing' = step.undo
    /\ lost' = lost \cup ((held \cap Got(chain[at], pc - 1)) \ ReleasedFrom(step.undo, 1))
    /\ at' = at /\ doing' = "undo" /\ pc' = 2
    /\ UNCHANGED <<chain, up, base, call, again, held>>

\* Seeded bug: a throw where the code has a goto.
ThrowsPastLabels ==
    /\ Starting
    /\ step.throws
    /\ undoing' = <<>>
    /\ lost' = lost \cup (held \cap Got(chain[at], pc - 1))
    /\ Run(at, "undo")
    /\ UNCHANGED <<chain, up, base, call, again, held>>

\* A goto into the undo labels, or a throw: what no label releases is lost.
Throws ==
    /\ Starting
    /\ step.throws
    /\ undoing' = step.undo
    /\ lost' = lost \cup ((held \cap Got(chain[at], pc - 1)) \ ReleasedFrom(step.undo, 1))
    /\ Run(at, "undo")
    /\ UNCHANGED <<chain, up, base, call, again, held>>

\* It returns: MediaElement goes on with the reader, or a setter returns.
Started ==
    /\ call # "none" /\ doing = "start" /\ pc > Len(chain[at].start)
    /\ up' = IF call = "enable" THEN at ELSE up
    /\ IF call = "enable" /\ at < Len(chain)
       THEN Run(at + 1, "start") /\ UNCHANGED <<call, undoing>>
       ELSE call' = "none" /\ Stay
    /\ UNCHANGED <<chain, base, again, held, lost>>

-----------------------------------------------------------------------------
(* Releases.                                                               *)

releases == IF doing = "undo" THEN undoing ELSE chain[at].stop

Releasing == call # "none" /\ doing # "start"

\* Seeded bug: the labels stand in the order in which the start created.
ReleaseInOrder ==
    /\ Releasing
    /\ pc <= Len(releases)
    /\ LET next == releases[Len(releases) + 1 - pc]
       IN  /\ "thread" \in next => "run" \notin held
           /\ held' = held \ next
           /\ lost' = lost \ next
    /\ pc' = pc + 1
    /\ UNCHANGED <<chain, up, base, call, at, doing, undoing, again>>

\* pthread_join() of the ISP thread waits for HI_MPI_ISP_Run() to return.
Release ==
    /\ Releasing
    /\ pc <= Len(releases)
    /\ "thread" \in releases[pc] => "run" \notin held
    /\ held' = held \ releases[pc]
    /\ lost' = lost \ releases[pc]
    /\ pc' = pc + 1
    /\ UNCHANGED <<chain, up, base, call, at, doing, undoing, again>>

\* The failed enable() stops the stages it has started, the reader's first.
StopBelow(k) ==
    IF k > base
    THEN Run(k, "stop") /\ UNCHANGED <<call, undoing>>
    ELSE call' = "none" /\ Stay

\* Seeded bug: the catch of a failed stage does not disable its source.
UndoneKeepsSources ==
    /\ Releasing /\ doing = "undo" /\ pc > Len(releases)
    /\ call = "enable"
    /\ up' = base
    /\ call' = "none"
    /\ Stay
    /\ UNCHANGED <<chain, base, again, held, lost>>

\* The exception leaves doEnableElement().
Undone ==
    /\ Releasing /\ doing = "undo" /\ pc > Len(releases)
    /\ IF call = "enable"
       THEN StopBelow(at - 1) /\ UNCHANGED again
       ELSE IF ~again
            THEN again' = TRUE /\ Run(at, "start") /\ UNCHANGED <<call, undoing>>
            ELSE call' = "none" /\ Stay /\ UNCHANGED again
    /\ UNCHANGED <<chain, up, base, held, lost>>

\* doDisableElement() returns.
Stopped ==
    /\ Releasing /\ doing = "stop" /\ pc > Len(releases)
    /\ up' = IF call = "restart" THEN up ELSE at - 1
    /\ IF call = "restart"
       THEN Run(at, "start") /\ UNCHANGED <<call, undoing>>
       ELSE StopBelow(at - 1)
    /\ UNCHANGED <<chain, base, again, held, lost>>

\* The ISP thread: HI_MPI_ISP_Run() returns, after HI_MPI_ISP_Exit() or by
\* itself.
ThreadReturns ==
    /\ "run" \in held
    /\ held' = held \ {"run"}
    /\ lost' = lost \ {"run"}
    /\ UNCHANGED <<chain, up, base, call, at, doing, pc, undoing, again>>

-----------------------------------------------------------------------------
Next ==
    \/ Enable
    \/ \E n \in 0..(Len(chain) - 1) : Disable(n)
    \/ \E k \in 1..Len(chain) : Restart(k)
    \/ Succeeds \/ FailsLogged \/ Throws \/ Started
    \/ Release \/ Undone \/ Stopped
    \/ ThreadReturns

Spec == Init /\ [][Next]_vars

-----------------------------------------------------------------------------
(* Properties.                                                             *)

\* What the stages 1..n may hold.
Owned(n) == UNION {Gets(chain[k]) : k \in 1..n}

\* Between two calls everything that is obtained belongs to an enabled stage,
\* except what a throw left behind where doEnableElement() has no label for
\* it: stops, restarts and the undoing of failed starts lose nothing.
NothingElseLeft == call = "none" => held \subseteq Owned(up) \cup lost

\* What needs what, for what the platform has of them: <<user, used>>.
CaptureNeeds ==
    {<<"sys", "vb">>, <<"mipi", "mipi clock">>, <<"sensor", "sensor clock">>,
     <<"pipe", "dev">>, <<"pipe started", "pipe">>, <<"vichn", "dev">>,
     <<"group started", "group">>, <<"group bound", "group">>,
     <<"vpchn", "group">>, <<"vpchn", "group bound">>}

ISPNeeds ==
    {<<"callbacks", "library">>, <<"isp", "callbacks">>, <<"isp", "ae">>,
     <<"isp", "awb">>, <<"isp", "af">>, <<"isp", "isp memory">>,
     <<"isp", "pipe">>, <<"run", "library">>}

AudioNeeds ==
    {<<"aichn", "aidev">>, <<"vqe", "aichn">>,
     <<"aenc bound", "aenc">>, <<"aenc bound", "aichn">>,
     <<"aochn", "aodev">>, <<"adec bound", "adec">>, <<"adec bound", "aochn">>}

Needs == CaptureNeeds \cup ISPNeeds \cup AudioNeeds

\* The stop of the stage joins the ISP thread after dlclose(), with a device
\* among its readers.
JoinsLate(c, k) ==
    /\ ~c[k].restarts
    /\ \A p \in 1..Len(c[k].stop) :
          "library" \in c[k].stop[p] => "thread" \in ReleasedFrom(c[k].stop, p + 1)
    /\ "dev" \notin ReleasedFrom(c[k].stop, 1)
    /\ \A j \in 1..k : "dev" \notin Gets(c[j])

\* The scripts obtain what is used before its users, from the stage itself or
\* from one below that is never restarted, and release it after them.  Nothing
\* uses the ISP thread, which ends by itself.
ASSUME OrderAssumption ==
    /\ \A n \in Needs : n[2] # "run"
    /\ \A c \in Chains : \A k \in 1..Len(c), n \in Needs :
           /\ \A i \in 1..Len(c[k].start) :
                /\ n[1] \in c[k].start[i].gets =>
                     \/ n[2] \in Sure(c[k], i)
                     \/ \E j \in 1..(k - 1) : n[2] \in Required(c[j]) /\ ~c[j].restarts
                     \/ \A j \in 1..Len(c) : n[2] \notin Gets(c[j])
                /\ n[2] \in c[k].start[i].frees => n[1] \in c[k].start[i].frees
                /\ UsedLast(n, c[k].start[i].undo)
           /\ UsedLast(n, c[k].stop) \/ (n = <<"run", "library">> /\ JoinsLate(c, k))

\* No throw leaves behind what the driver refuses to create again, but the
\* pipe, nor the device.
ASSUME LeftAssumption ==
    \A c \in Chains : \A k \in 1..Len(c) : \A i \in 1..Len(c[k].start) :
        c[k].start[i].throws =>
            Left(c[k], i) \cap (Created \cup {"dev"}) \subseteq {"pipe"}

\* hi3516cv300 and hi3518v200, where the device is down by then, join the ISP
\* thread after dlclose(): between the two HI_MPI_ISP_Run() may still be running
\* sensor code that is gone.
LateJoin ==
    Releasing /\ "dev" \notin held /\ "thread" \in ReleasedFrom(releases, pc)

\* Nothing that exists uses something that is gone, at any step of a start, a
\* failing start, a stop or a restart.
UsedIsThere ==
    \A n \in Needs :
        n[1] \in held \ lost /\ n[2] \in Owned(Len(chain)) =>
            \/ n[2] \in held
            \/ n = <<"run", "library">> /\ LateJoin

\* Between two calls a stage that counts as enabled has everything it needs,
\* whatever failed before; only the stage that setRotateAngle() has restarted,
\* with the new and with the old value in vain, is down under its readers.
UpIsComplete ==
    call = "none" =>
        \A k \in 1..up :
            \/ Required(chain[k]) \ {"run"} \subseteq held
            \/ chain[k].restarts /\ Gets(chain[k]) \cap held = {}

\* A failing start leaves nothing behind that makes the driver refuse every
\* later one, except the pipe of hi3516ev200, which a failing StartPipe leaves.
RetryBlockedOnlyByPipe == call = "none" => lost \cap Created \subseteq {"pipe"}

-----------------------------------------------------------------------------
(* The inductive invariant.                                                *)

TypeOK ==
    /\ chain \in Chains
    /\ up \in 0..Len(chain)
    /\ base \in 0..up
    /\ call \in {"none", "enable", "disable", "restart"}
    /\ at \in 1..Len(chain)
    /\ doing \in {"start", "undo", "stop"}
    /\ pc \in Nat \ {0}
    /\ undoing \in Seq(SUBSET STRING)
    /\ again \in BOOLEAN
    /\ held \subseteq STRING
    /\ lost \subseteq STRING

\* Where a call can be: an enable() works on the first stage that is down, a
\* stop on the last that is up.
CallFits ==
    /\ call = "enable" /\ doing # "stop" => at = up + 1
    /\ call \in {"enable", "disable"} /\ doing = "stop" => at = up /\ base < up
    /\ call = "disable" => doing = "stop"
    /\ call = "restart" => at <= up
    /\ call # "none" /\ doing = "start" => pc <= Len(chain[at].start) + 1

\* What the script that runs still has to give back.
Pending ==
    IF call \in {"none", "restart"} THEN {}
    ELSE IF doing = "start" THEN Got(chain[at], pc - 1)
    ELSE ReleasedFrom(releases, pc)

\* The stages whose scripts have run to the end.
Settled == IF call \in {"enable", "disable"} /\ doing = "stop" THEN at - 1 ELSE up

HeldAccounted == held \subseteq Owned(Settled) \cup Pending \cup lost

IInv == TypeOK /\ CallFits /\ HeldAccounted

\* A stage has what it needs, or setRotateAngle() has left it down.
Whole(k) == Required(chain[k]) \ {"run"} \subseteq held
Down(k) == chain[k].restarts /\ Gets(chain[k]) \cap held = {}

\* The enabled stage that is being stopped or restarted.
Busy(k) == call # "none" /\ k = at /\ (doing = "stop" \/ call = "restart")

OthersIntact == \A k \in 1..up : Busy(k) \/ Whole(k) \/ Down(k)

\* A start has what its steps so far obtained.
StartSure ==
    call # "none" /\ doing = "start" => Sure(chain[at], pc - 1) \ {"run"} \subseteq held

\* The labels it goes to when it fails are those of one of its steps.
UndoOwn ==
    call # "none" /\ doing = "undo" =>
        \E i \in 1..Len(chain[at].start) : undoing = chain[at].start[i].undo

\* What a restarted stage may hold yet, or again.
RestartHolds ==
    call = "restart" =>
        /\ chain[at].restarts
        /\ Gets(chain[at]) \cap held \subseteq
             (IF doing = "start" THEN Got(chain[at], pc - 1) ELSE ReleasedFrom(releases, pc))

\* What has been lost belongs to the pipe, or does no harm.
LostHarmless == lost \cap (Created \cup {"dev"}) \subseteq {"pipe"}

IntactInv == IInv /\ OthersIntact /\ StartSure /\ UndoOwn /\ RestartHolds
=============================================================================
