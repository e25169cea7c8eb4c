--------------------------- MODULE NoiseReduction ---------------------------
(***************************************************************************)
(* Noise reduction of the VPSS group (HimppVpssGroup): off, with the       *)
(* strength of a level of the table, or automatic.  In the automatic mode  *)
(* a timer asks the ISP for the sensitivity it has reached and takes the   *)
(* strength from the table.                                                *)
(*                                                                         *)
(* The driver may refuse any call.  An exception that no handler expects   *)
(* ends the program: std::out_of_range, and anything the timer throws.     *)
(***************************************************************************)
EXTENDS Naturals, Sequences

CONSTANTS
    Tables,         \* the tables a client writes: sequences of [iso, strength]
    Levels,         \* the levels a client writes
    Sensitivities   \* what the ISP reports

ASSUME TablesAssumption ==
    /\ \A t \in Tables : t # <<>> /\ \A i \in DOMAIN t : t[i].iso \in Nat
    /\ Levels \subseteq Nat /\ Sensitivities \subseteq Nat

Modes == {"off", "manual", "auto"}
Written == Modes \cup {"stray"}     \* D-Bus casts any number to a VNRMode

VARIABLES
    drives,     \* the group has noise reduction at all: not on hi3516ev200
    hasIsp,     \* an ISP is upstream: _isp once the group has been up
    up,         \* is_enabled()
    mode, level, table,
    timer,      \* _timer is active
    nr,         \* bNrEn of the group in the driver
    strength,   \* in the driver, "default" after the group was created
    iso,        \* what the ISP has reached
    ended,      \* the program has
    \* history
    refused,    \* the last start met a refusal, or a change from AUTO did
    skipped,    \* MANUAL was set with a level that the table does not have
    orphan      \* a mode that is none of the three was stored over AUTO

settings == <<mode, level, table>>
driver == <<nr, strength>>
history == <<refused, skipped, orphan>>
vars == <<drives, hasIsp, up, settings, timer, driver, iso, ended, history>>

Init ==
    /\ drives \in BOOLEAN /\ hasIsp \in BOOLEAN
    /\ up = FALSE
    /\ mode = "off" /\ level = 0 /\ table = <<>>
    /\ timer = FALSE
    /\ nr = FALSE /\ strength = "default"
    /\ iso \in Sensitivities
    /\ ended = FALSE
    /\ refused = FALSE /\ skipped = FALSE /\ orphan = FALSE

\* The level of a table that is used for l, as setLevel() clamps it.
At(t, l) == t[IF l < Len(t) THEN l + 1 ELSE Len(t)].strength

\* Seeded bug: the last item is used for everything.
ForIsoLast(t, x) == t[Len(t)].strength

\* The first item above the sensitivity, or the last one.
ForIso(t, x) ==
    LET above == {i \in DOMAIN t : x < t[i].iso}
    IN  IF above = {} THEN t[Len(t)].strength
        ELSE t[CHOOSE i \in above : \A j \in above : i <= j].strength

\* The calls of one operation the driver answers before it refuses, if ever:
\* enableNR() and setNRStrength().
Answers == {"none", "enable", "both"}
Enables(a) == a # "none"

-----------------------------------------------------------------------------
\* A start: enableNR(), and then by the mode.  An IpcamError is logged and the
\* group is up all the same; at() of a level that the table does not have is
\* no IpcamError.  A group without the ISP cannot have the automatic mode.
StartedNR(a) ==
    \/ /\ ~drives
       /\ nr' = TRUE /\ UNCHANGED <<strength, timer, ended, refused>>
    \/ /\ drives /\ mode \in {"off", "stray"}
       /\ nr' = FALSE /\ refused' = FALSE
       /\ UNCHANGED <<strength, timer, ended>>
    \/ /\ drives /\ mode = "manual"
       /\ nr' = Enables(a)
       /\ ended' = (Enables(a) /\ level >= Len(table))
       /\ strength' = IF a = "both" /\ ~ended' THEN At(table, level) ELSE strength
       /\ refused' = (a # "both")
       /\ UNCHANGED timer
    \/ /\ drives /\ mode = "auto"
       /\ nr' = Enables(a)
       /\ timer' = (timer \/ (Enables(a) /\ hasIsp))
       /\ refused' = (~Enables(a) \/ ~hasIsp)
       /\ UNCHANGED <<strength, ended>>

\* doEnableElement(), once the group runs and is bound.
Enable(a) ==
    /\ ~ended /\ ~up
    /\ StartedNR(a)
    /\ up' = ~ended'
    /\ skipped' = FALSE
    /\ orphan' = (orphan /\ mode # "auto")
    /\ UNCHANGED <<drives, hasIsp, settings, iso>>

\* Seeded bug: the timer is left to the next start.
DisableLeavesTimer ==
    /\ ~ended /\ up
    /\ up' = FALSE
    /\ nr' = FALSE /\ strength' = "default"
    /\ UNCHANGED <<drives, hasIsp, settings, timer, iso, ended, history>>

\* doDisableElement(): the timer is stopped if the mode is AUTO.
Disable ==
    /\ ~ended /\ up
    /\ up' = FALSE
    /\ timer' = (timer /\ ~(hasIsp /\ mode = "auto"))
    /\ nr' = FALSE /\ strength' = "default"
    /\ UNCHANGED <<drives, hasIsp, settings, iso, ended, history>>

-----------------------------------------------------------------------------
(* The setters of a group that is up.                                      *)

Stored(m) == mode' = m /\ UNCHANGED <<level, table>>

\* Without the driver's help: a group that is down, and hi3516ev200 always.
SetModeStored(m) ==
    /\ ~ended /\ m # mode
    /\ ~(up /\ drives)
    /\ Stored(m)
    /\ orphan' = timer
    /\ UNCHANGED <<drives, hasIsp, up, timer, driver, iso, ended, refused, skipped>>

\* enableAutoNR(FALSE) if the mode was AUTO; it precedes all that may fail.
\* A group whose start could not find the ISP throws already here.
Stops == mode = "auto" /\ hasIsp
Stuck == mode = "auto" /\ ~hasIsp

\* setMode(VNR_OFF)
SetOff(a) ==
    /\ ~ended /\ up /\ drives /\ mode # "off"
    /\ timer' = (timer /\ ~Stops)
    /\ IF Enables(a) /\ ~Stuck
       THEN nr' = FALSE /\ Stored("off") /\ refused' = FALSE
       ELSE refused' = (refused \/ mode = "auto") /\ UNCHANGED <<nr, settings>>
    /\ UNCHANGED <<drives, hasIsp, up, strength, iso, ended, skipped, orphan>>

\* setMode(VNR_MANUAL): a level beyond the table leaves the strength alone.
SetManual(a) ==
    /\ ~ended /\ up /\ drives /\ mode # "manual"
    /\ timer' = (timer /\ ~Stops)
    /\ nr' = (nr \/ (Enables(a) /\ ~Stuck))
    /\ IF ~Stuck /\ Enables(a) /\ (a = "both" \/ level >= Len(table))
       THEN /\ Stored("manual") /\ refused' = FALSE
            /\ skipped' = (level >= Len(table))
            /\ strength' = IF skipped' THEN strength ELSE At(table, level)
       ELSE refused' = (refused \/ mode = "auto") /\ UNCHANGED <<strength, skipped, settings>>
    /\ UNCHANGED <<drives, hasIsp, up, iso, ended, orphan>>

\* setMode(VNR_AUTO)
SetAuto(a) ==
    /\ ~ended /\ up /\ drives /\ mode # "auto"
    /\ nr' = (nr \/ Enables(a))
    /\ IF Enables(a) /\ hasIsp
       THEN timer' = TRUE /\ Stored("auto") /\ refused' = FALSE /\ orphan' = FALSE
       ELSE refused' = (refused \/ mode = "auto") /\ UNCHANGED <<timer, settings, orphan>>
    /\ UNCHANGED <<drives, hasIsp, up, strength, iso, ended, skipped>>

\* setMode() of a value that is none of the three: no case, but it is stored.
SetStray ==
    /\ ~ended /\ up /\ drives /\ mode # "stray"
    /\ Stored("stray")
    /\ orphan' = timer
    /\ UNCHANGED <<drives, hasIsp, up, timer, driver, iso, ended, refused, skipped>>

\* setNRStrength() with the strength s if the mode is MANUAL; hi3516ev200
\* refuses always.
Strengthens(s, used, ok) ==
    IF up /\ mode = "manual" /\ used
    THEN ok /\ drives /\ strength' = s /\ skipped' = FALSE
    ELSE UNCHANGED <<strength, skipped>>

\* Seeded bug: a level is only stored.
SetLevelStores(l, ok) ==
    /\ ~ended
    /\ level' = l
    /\ UNCHANGED <<drives, hasIsp, up, mode, table, timer, driver, iso, ended, history>>

\* setLevel(), which changes nothing when the driver refuses.
SetLevel(l, ok) ==
    /\ ~ended
    /\ Strengthens(IF table = <<>> THEN strength ELSE At(table, l), table # <<>>, ok)
    /\ level' = l
    /\ UNCHANGED <<drives, hasIsp, up, mode, table, timer, nr, iso, ended, refused, orphan>>

\* setParamTable(), the same; an empty table is refused.
SetParamTable(t, ok) ==
    /\ ~ended
    /\ Strengthens(At(t, level), TRUE, ok)
    /\ table' = t
    /\ UNCHANGED <<drives, hasIsp, up, mode, level, timer, nr, iso, ended, refused, orphan>>

-----------------------------------------------------------------------------
\* timeout_handler(): nothing without a table or without an answer of the ISP;
\* the driver knows no parameters of a group that is down.
TimeoutHandler(ok) ==
    /\ ~ended /\ timer /\ table # <<>>
    /\ IF up /\ ok
       THEN strength' = ForIso(table, iso) /\ UNCHANGED ended
       ELSE ended' = TRUE /\ UNCHANGED strength
    /\ UNCHANGED <<drives, hasIsp, up, settings, timer, nr, iso, history>>

\* The light changes.
IsoChanges ==
    /\ ~ended
    /\ iso' \in Sensitivities \ {iso}
    /\ UNCHANGED <<drives, hasIsp, up, settings, timer, driver, ended, history>>

Next ==
    \/ \E a \in Answers : Enable(a) \/ SetOff(a) \/ SetManual(a) \/ SetAuto(a)
    \/ Disable \/ SetStray \/ IsoChanges
    \/ \E m \in Written : SetModeStored(m)
    \/ \E l \in Levels, ok \in BOOLEAN : SetLevel(l, ok)
    \/ \E t \in Tables, ok \in BOOLEAN : SetParamTable(t, ok)
    \/ \E ok \in BOOLEAN : TimeoutHandler(ok)

Spec == Init /\ [][Next]_vars

\* An active timer expires, and the ISP and the driver answer in the end.
FairSpec == Spec /\ WF_vars(TimeoutHandler(TRUE))

-----------------------------------------------------------------------------
(* Properties.                                                             *)

TypeOK ==
    /\ drives \in BOOLEAN /\ hasIsp \in BOOLEAN /\ up \in BOOLEAN
    /\ mode \in Written /\ level \in Levels \cup {0} /\ table \in Tables \cup {<<>>}
    /\ timer \in BOOLEAN /\ nr \in BOOLEAN /\ ended \in BOOLEAN
    /\ iso \in Sensitivities
    /\ refused \in BOOLEAN /\ skipped \in BOOLEAN /\ orphan \in BOOLEAN

\* The timer runs while the group is up in the automatic mode and at no other
\* time: it may be missing after a refusal, and it may outlive the mode only
\* if a number that is no mode was stored over AUTO, which no later mode but
\* AUTO can mend.
TimerMatches ==
    ~ended =>
        /\ timer => (up /\ mode = "auto" /\ hasIsp) \/ orphan
        /\ up /\ drives /\ mode = "auto" => timer \/ refused

\* A group that is up in MANUAL runs with the strength of its level, the last
\* one for a level beyond the table, however mode, level and table were set
\* and started; the exceptions are refusals, a change of mode that skipped the
\* strength, and a timer that should not run.
LevelHolds ==
    up /\ drives /\ mode = "manual" /\ ~refused =>
        /\ nr
        /\ table # <<>> /\ ~skipped /\ ~orphan => strength = At(table, level)

\* The inductive invariant: groups that have no noise reduction never start the
\* timer, and it never starts without the ISP.
IInv ==
    /\ TimerMatches /\ LevelHolds
    /\ timer => drives /\ hasIsp
    /\ orphan => timer /\ ~(up /\ mode = "auto")

\* In the automatic mode the strength ends where the light is, whatever was
\* set before: for a light and a table that stay.
Automatic == ~ended /\ up /\ mode = "auto" /\ timer /\ table # <<>>
Calls == UNCHANGED <<iso, table, mode, up>>
IsFor(s, t, x) ==
    \E i \in DOMAIN t :
        /\ s = t[i].strength
        /\ \A j \in 1 .. i - 1 : t[j].iso <= x
        /\ i = Len(t) \/ x < t[i].iso
StrengthFollows ==
    (<>[]Automatic /\ <>[][Calls]_vars) =>
        <>[](IsFor(strength, table, iso))
=============================================================================
