------------------------ MODULE NoiseReductionProofs ------------------------
(***************************************************************************)
(* When the timer of the automatic noise reduction runs, and the strength  *)
(* of the manual one, for any tables, levels and sensitivities.            *)
(***************************************************************************)
EXTENDS NoiseReduction, TLAPS

LEMMA InitIInv == Init => IInv
BY DEF Init, IInv, TimerMatches, LevelHolds

LEMMA EnableIInv ==
    ASSUME IInv, NEW a \in Answers, Enable(a)
    PROVE  IInv'
<1>1. /\ ~up /\ StartedNR(a) /\ (up' <=> ~ended') /\ ~skipped'
      /\ (orphan' <=> orphan /\ mode # "auto")
      /\ (drives' <=> drives) /\ (hasIsp' <=> hasIsp)
  BY Zenon DEF Enable
<1>2. mode' = mode /\ level' = level /\ table' = table
  BY DEF Enable, settings
<1>3. (timer => drives /\ hasIsp) /\ (orphan => timer)
  BY Zenon DEF IInv
<1>4. ~ended
  BY DEF Enable
<1>5. timer => orphan
  BY <1>1, <1>4 DEF IInv, TimerMatches
<1>6. CASE ~drives
  <2>1. <<strength, timer, ended, refused>>' = <<strength, timer, ended, refused>>
    BY <1>6, <1>1, Zenon DEF StartedNR
  <2>2. timer' = timer
    BY <2>1
  <2>3. (timer' <=> timer) /\ ~timer /\ ~orphan
    BY <1>3, <1>6, <2>2, Zenon
  <2> QED
    BY <1>1, <1>6, <2>3, Zenon DEF IInv, TimerMatches, LevelHolds
<1>7. CASE drives /\ mode \in {"off", "stray"}
  <2>1. mode # "auto" /\ mode # "manual"
    BY <1>7
  <2>3. <<strength, timer, ended>>' = <<strength, timer, ended>>
    BY <1>1, <1>7, <2>1, Zenon DEF StartedNR
  <2>2. timer' = timer
    BY <2>3
  <2> QED
    BY <1>1, <1>2, <1>3, <1>5, <2>1, <2>2, Zenon DEF IInv, TimerMatches, LevelHolds
<1>8. CASE drives /\ mode = "manual"
  <2>1. mode # "auto" /\ mode \notin {"off", "stray"}
    BY <1>8
  <2>2. /\ (nr' <=> Enables(a)) /\ (refused' <=> a # "both") /\ timer' = timer
        /\ strength' = IF a = "both" /\ ~ended' THEN At(table, level) ELSE strength
    BY <1>1, <1>8, <2>1, Zenon DEF StartedNR
  <2>3. a = "both" => Enables(a)
    BY DEF Enables
  <2>4. TimerMatches'
    BY <1>1, <1>2, <1>3, <1>5, <2>1, <2>2, Zenon DEF TimerMatches
  <2>5. At(table, level)' = At(table, level)
    BY <1>2 DEF At
  <2>6. LevelHolds'
    BY <1>1, <2>2, <2>3, <2>5, Zenon DEF LevelHolds
  <2> QED
    BY <1>1, <1>2, <1>3, <2>1, <2>2, <2>4, <2>6, Zenon DEF IInv
<1>9. CASE drives /\ mode = "auto"
  <2>1. mode \notin {"off", "stray"} /\ mode # "manual"
    BY <1>9
  <2>2. /\ timer' <=> timer \/ (Enables(a) /\ hasIsp)
        /\ refused' <=> ~Enables(a) \/ ~hasIsp
    BY <1>1, <1>9, <2>1, Zenon DEF StartedNR
  <2> QED
    BY <1>1, <1>2, <1>3, <1>5, <1>9, <2>1, <2>2, Zenon DEF IInv, TimerMatches, LevelHolds
<1> QED
  BY <1>1, <1>6, <1>7, <1>8, <1>9 DEF StartedNR

LEMMA SetOffIInv ==
    ASSUME IInv, NEW a \in Answers, SetOff(a)
    PROVE  IInv'
<1>1. /\ (drives' <=> drives) /\ (hasIsp' <=> hasIsp) /\ (up' <=> up) /\ drives /\ up /\ ~ended
      /\ (orphan' <=> orphan) /\ (timer' <=> timer /\ ~Stops) /\ (skipped' <=> skipped)
      /\ strength' = strength /\ (ended' <=> ended)
  BY Zenon DEF SetOff
<1>2. Stops <=> mode = "auto" /\ hasIsp
  BY DEF Stops
<1>3. CASE Enables(a) /\ ~Stuck
  <2>1. mode' = "off"
    BY <1>3 DEF SetOff, Stored
  <2>2. mode' # "auto" /\ mode' # "manual"
    BY <2>1
  <2> QED
    BY <1>1, <1>2, <2>2, Zenon DEF IInv, TimerMatches, LevelHolds
<1>4. CASE ~(Enables(a) /\ ~Stuck)
  <2>1. (refused' <=> refused \/ mode = "auto") /\ (nr' <=> nr) /\ settings' = settings
    BY <1>4, Zenon DEF SetOff
  <2>2. mode' = mode /\ level' = level /\ table' = table
    BY <2>1 DEF settings
  <2>3. At(table, level)' = At(table, level)
    BY <2>2 DEF At
  <2> QED
    BY <1>1, <1>2, <2>1, <2>2, <2>3, Zenon DEF IInv, TimerMatches, LevelHolds
<1> QED
  BY <1>3, <1>4

LEMMA SetManualIInv ==
    ASSUME IInv, NEW a \in Answers, SetManual(a)
    PROVE  IInv'
<1> DEFINE Done == ~Stuck /\ Enables(a) /\ (a = "both" \/ level >= Len(table))
<1>1. /\ (drives' <=> drives) /\ (hasIsp' <=> hasIsp) /\ (up' <=> up) /\ drives /\ up /\ ~ended
      /\ (orphan' <=> orphan) /\ (timer' <=> timer /\ ~Stops)
      /\ (nr' <=> nr \/ (Enables(a) /\ ~Stuck)) /\ (ended' <=> ended) /\ mode # "manual"
  BY Zenon DEF SetManual
<1>2. Stops <=> mode = "auto" /\ hasIsp
  BY DEF Stops
<1>3. CASE Done
  <2>1. /\ Stored("manual")
        /\ strength' = IF skipped' THEN strength ELSE At(table, level)
    BY <1>3, Zenon DEF SetManual
  <2>2. mode' # "auto" /\ mode' = "manual" /\ level' = level /\ table' = table
    BY <2>1 DEF Stored
  <2>3. At(table, level)' = At(table, level)
    BY <2>2 DEF At
  <2> QED
    BY <1>1, <1>2, <1>3, <2>1, <2>2, <2>3, Zenon DEF IInv, TimerMatches, LevelHolds
<1>4. CASE ~Done
  <2>1. (refused' <=> refused \/ mode = "auto") /\ settings' = settings
    BY <1>4, Zenon DEF SetManual
  <2>2. mode' = mode
    BY <2>1 DEF settings
  <2> QED
    BY <1>1, <1>2, <2>1, <2>2, Zenon DEF IInv, TimerMatches, LevelHolds
<1> QED
  BY <1>3, <1>4

LEMMA SetAutoIInv ==
    ASSUME IInv, NEW a \in Answers, SetAuto(a)
    PROVE  IInv'
<1>1. /\ (drives' <=> drives) /\ (hasIsp' <=> hasIsp) /\ (up' <=> up) /\ drives /\ up
      /\ strength' = strength /\ (skipped' <=> skipped) /\ (nr' <=> nr \/ Enables(a))
      /\ mode # "auto"
  BY Zenon DEF SetAuto
<1>2. CASE Enables(a) /\ hasIsp
  <2>1. timer' /\ ~orphan' /\ Stored("auto")
    BY <1>2, Zenon DEF SetAuto
  <2>2. mode' = "auto" /\ mode' # "manual"
    BY <2>1 DEF Stored
  <2> QED
    BY <1>1, <1>2, <2>1, <2>2, Zenon DEF IInv, TimerMatches, LevelHolds
<1>3. CASE ~(Enables(a) /\ hasIsp)
  <2>1. /\ refused' <=> refused \/ mode = "auto"
        /\ <<timer, settings, orphan>>' = <<timer, settings, orphan>>
        /\ ended' = ended
    BY <1>3, Zenon DEF SetAuto
  <2>2. /\ timer' = timer /\ orphan' = orphan
        /\ mode' = mode /\ level' = level /\ table' = table
    BY <2>1 DEF settings
  <2>3. At(table, level)' = At(table, level)
    BY <2>2 DEF At
  <2>4. (timer' <=> timer) /\ (orphan' <=> orphan)
    BY <2>2
  <2> QED
    BY <1>1, <2>1, <2>2, <2>3, <2>4, Zenon DEF IInv, TimerMatches, LevelHolds
<1> QED
  BY <1>2, <1>3

LEMMA NextIInv == IInv /\ [Next]_vars => IInv'
<1> SUFFICES ASSUME IInv, [Next]_vars PROVE IInv'
  OBVIOUS
<1>1. CASE \E a \in Answers : Enable(a) \/ SetOff(a) \/ SetManual(a) \/ SetAuto(a)
  BY <1>1, EnableIInv, SetOffIInv, SetManualIInv, SetAutoIInv
<1> USE DEF IInv, TimerMatches, LevelHolds
<1>5. CASE Disable
  BY <1>5 DEF Disable, settings, history
<1>6. CASE SetStray
  BY <1>6 DEF SetStray, Stored, driver
<1>7. CASE IsoChanges
  BY <1>7 DEF IsoChanges, settings, driver, history
<1>8. CASE \E m \in Written : SetModeStored(m)
  BY <1>8 DEF SetModeStored, Stored, driver
<1>9. CASE \E l \in Levels, ok \in BOOLEAN : SetLevel(l, ok)
  BY <1>9 DEF SetLevel, Strengthens
<1>10. CASE \E t \in Tables, ok \in BOOLEAN : SetParamTable(t, ok)
  BY <1>10 DEF SetParamTable, Strengthens
<1>11. CASE \E ok \in BOOLEAN : TimeoutHandler(ok)
  BY <1>11 DEF TimeoutHandler, settings, history
<1>12. CASE UNCHANGED vars
  BY <1>12 DEF vars, settings, driver, history, At
<1> QED
  BY <1>1, <1>5, <1>6, <1>7, <1>8, <1>9, <1>10, <1>11, <1>12 DEF Next

\* The inductive invariant holds.
THEOREM InductiveInvariant == Spec => []IInv
BY InitIInv, NextIInv, PTL DEF Spec

\* The timer runs in the automatic mode only, unless a number that is no mode
\* was stored over it, and always there unless the driver refused.
THEOREM TimerAlwaysMatches == Spec => []TimerMatches
<1>1. IInv => TimerMatches
  BY DEF IInv
<1> QED
  BY <1>1, InductiveInvariant, PTL

\* The strength of a level is in the driver, whatever order it was set in.
THEOREM LevelAlwaysHolds == Spec => []LevelHolds
<1>1. IInv => LevelHolds
  BY DEF IInv
<1> QED
  BY <1>1, InductiveInvariant, PTL
=============================================================================
