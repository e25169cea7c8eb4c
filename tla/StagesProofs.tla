---------------------------- MODULE StagesProofs ----------------------------
(***************************************************************************)
(* For every set of chains whose scripts meet the assumptions of Stages:   *)
(* nothing is left behind that no throw has lost, enabled stages are       *)
(* complete, and nothing is used that is gone.                             *)
(***************************************************************************)
EXTENDS Stages, TLAPS

\* Every script of a chain is a sequence of typed steps.
LEMMA ScriptsTyped ==
    ASSUME TypeOK, NEW k \in 1..Len(chain)
    PROVE  /\ chain[k] \in StageScripts
           /\ chain[k].start \in Seq(Steps)
           /\ chain[k].stop \in Seq(SUBSET STRING)
           /\ Gets(chain[k]) \subseteq ReleasedFrom(chain[k].stop, 1)
           /\ Len(chain) \in Nat \ {0}
<1>1. chain \in Seq(StageScripts) /\ Len(chain) > 0
  BY ChainsAssumption DEF TypeOK
<1>2. chain[k] \in StageScripts
  BY <1>1
<1>3. Gets(chain[k]) \subseteq ReleasedFrom(chain[k].stop, 1)
  BY ChainsAssumption DEF TypeOK
<1> QED
  BY <1>1, <1>2, <1>3 DEF StageScripts

\* A further step may obtain what that step gets.
LEMMA GotGrows ==
    ASSUME NEW s, NEW n \in Nat
    PROVE  Got(s, n + 1) = Got(s, n) \cup s.start[n + 1].gets
<1>1. 1..(n + 1) = (1..n) \cup {n + 1}
  OBVIOUS
<1> QED
  BY <1>1 DEF Got

\* No more steps than the script has obtain nothing else.
LEMMA GotBounded ==
    ASSUME NEW s, s.start \in Seq(Steps), NEW n \in Nat, n <= Len(s.start)
    PROVE  Got(s, n) \subseteq Gets(s)
<1>1. 1..n \subseteq 1..Len(s.start)
  OBVIOUS
<1> QED
  BY <1>1 DEF Got, Gets

\* One release, and the remaining ones.
LEMMA ReleasedStep ==
    ASSUME NEW s, NEW i \in Nat \ {0}, Len(s) \in Nat, i <= Len(s)
    PROVE  ReleasedFrom(s, i) = s[i] \cup ReleasedFrom(s, i + 1)
<1>1. i..Len(s) = {i} \cup ((i + 1)..Len(s))
  OBVIOUS
<1> QED
  BY <1>1 DEF ReleasedFrom

\* After the last one there are none.
LEMMA ReleasedAll ==
    ASSUME NEW s, NEW i \in Nat, Len(s) \in Nat, i > Len(s)
    PROVE  ReleasedFrom(s, i) = {}
<1>1. i..Len(s) = {}
  OBVIOUS
<1> QED
  BY <1>1 DEF ReleasedFrom

\* The stages 1..n own what those below the last, and the last, own.
LEMMA OwnedStep ==
    ASSUME NEW n \in Nat \ {0}
    PROVE  Owned(n) = Owned(n - 1) \cup Gets(chain[n])
<1>1. 1..n = (1..(n - 1)) \cup {n}
  OBVIOUS
<1> QED
  BY <1>1 DEF Owned

\* What an enabled stage gets is owned.
LEMMA OwnedHas ==
    ASSUME NEW n \in Nat, NEW k \in 1..n
    PROVE  Gets(chain[k]) \subseteq Owned(n)
BY DEF Owned

\* Initially nothing is held.
LEMMA InitIInv == Init => IInv
<1> SUFFICES ASSUME Init PROVE IInv
  OBVIOUS
<1>1. chain \in Seq(StageScripts) /\ Len(chain) > 0
  BY ChainsAssumption DEF Init
<1>2. Len(chain) \in Nat \ {0}
  BY <1>1
<1>3. undoing \in Seq(SUBSET STRING)
  BY DEF Init
<1>4. /\ up \in 0..Len(chain) /\ base \in 0..up /\ at \in 1..Len(chain)
      /\ pc \in Nat \ {0}
  BY <1>2 DEF Init
<1>5. again \in BOOLEAN /\ held \subseteq STRING /\ lost \subseteq STRING
  BY Zenon DEF Init
<1>6. TypeOK
  BY <1>3, <1>4, <1>5 DEF Init, TypeOK
<1> QED
  BY <1>6 DEF Init, IInv, CallFits, HeldAccounted

-----------------------------------------------------------------------------
\* A stop that begins at the stage k, everything above it being settled.
LEMMA StopBegins ==
    ASSUME TypeOK, NEW k \in 1..Len(chain), held \subseteq Owned(k) \cup lost
    PROVE  held \subseteq Owned(k - 1) \cup ReleasedFrom(chain[k].stop, 1) \cup lost
<1>1. Owned(k) = Owned(k - 1) \cup Gets(chain[k])
  BY OwnedStep
<1> QED
  BY <1>1, ScriptsTyped

\* The step of a start in progress.
LEMMA StepTyped ==
    ASSUME TypeOK, Starting
    PROVE  /\ step \in Steps
           /\ pc \in 1..Len(chain[at].start)
           /\ Got(chain[at], pc) = Got(chain[at], pc - 1) \cup step.gets
           /\ Got(chain[at], pc) \subseteq Gets(chain[at])
           /\ step.gets \subseteq STRING
           /\ step.undo \in Seq(SUBSET STRING)
<1>1. chain[at].start \in Seq(Steps)
  BY ScriptsTyped DEF TypeOK
<1>2. pc \in 1..Len(chain[at].start) /\ Len(chain[at].start) \in Nat
  BY <1>1 DEF TypeOK, Starting
<1>3. step \in Steps
  BY <1>1, <1>2 DEF step
<1>4. Got(chain[at], (pc - 1) + 1) = Got(chain[at], pc - 1) \cup chain[at].start[(pc - 1) + 1].gets
  <2>1. pc - 1 \in Nat
    BY <1>2
  <2> QED
    BY <2>1, GotGrows
<1>5. (pc - 1) + 1 = pc
  BY <1>2
<1>6. Got(chain[at], pc) \subseteq Gets(chain[at])
  BY <1>1, <1>2, GotBounded
<1> QED
  BY <1>2, <1>3, <1>4, <1>5, <1>6 DEF step, Steps

\* The releases in progress.
LEMMA ReleasesTyped ==
    ASSUME TypeOK
    PROVE  releases \in Seq(SUBSET STRING) /\ Len(releases) \in Nat
BY ScriptsTyped DEF TypeOK, releases

-----------------------------------------------------------------------------
\* The steps that begin a call.
LEMMA EnableIInv == ASSUME IInv, Enable PROVE IInv'
<1>1. TypeOK /\ HeldAccounted /\ CallFits
  BY DEF IInv
<1>2. up + 1 \in 1..Len(chain) /\ Len(chain) \in Nat
  BY <1>1, ScriptsTyped DEF TypeOK, Enable
<1>3. TypeOK'
  BY <1>1, <1>2 DEF TypeOK, Enable, Run
<1>4. Len(chain[up + 1].start) \in Nat
  BY <1>1, <1>2, ScriptsTyped
<1>5. CallFits'
  BY <1>2, <1>4 DEF CallFits, Enable, Run
<1>6. held \subseteq Owned(up) \cup lost
  BY <1>1 DEF HeldAccounted, Settled, Pending, Enable
<1>7. (Owned(Settled))' = Owned(up)
  BY DEF Settled, Enable, Run, Owned
<1>8. HeldAccounted'
  BY <1>6, <1>7 DEF HeldAccounted, Enable
<1> QED
  BY <1>3, <1>5, <1>8 DEF IInv

LEMMA DisableIInv ==
    ASSUME IInv, NEW n \in 0..(Len(chain) - 1), Disable(n) PROVE IInv'
<1>1. TypeOK /\ HeldAccounted /\ CallFits
  BY DEF IInv
<1>2. up \in 1..Len(chain) /\ Len(chain) \in Nat /\ n \in Nat /\ n < up
  BY <1>1, ScriptsTyped DEF TypeOK, Disable
<1>3. TypeOK'
  BY <1>1, <1>2 DEF TypeOK, Disable, Run
<1>5. CallFits'
  BY <1>2 DEF CallFits, Disable, Run
<1>6. held \subseteq Owned(up) \cup lost
  BY <1>1 DEF HeldAccounted, Settled, Pending, Disable
<1>7. held \subseteq Owned(up - 1) \cup ReleasedFrom(chain[up].stop, 1) \cup lost
  BY <1>1, <1>2, <1>6, StopBegins
<1>8. (Owned(Settled))' = Owned(up - 1)
  BY DEF Settled, Disable, Run, Owned
<1>9. Pending' = ReleasedFrom(chain[up].stop, 1)
  BY DEF Pending, Disable, Run, releases, ReleasedFrom
<1>10. HeldAccounted'
  BY <1>7, <1>8, <1>9 DEF HeldAccounted, Disable
<1> QED
  BY <1>3, <1>5, <1>10 DEF IInv

LEMMA RestartIInv ==
    ASSUME IInv, NEW k \in 1..Len(chain), Restart(k) PROVE IInv'
<1>1. TypeOK /\ HeldAccounted /\ CallFits
  BY DEF IInv
<1>2. Len(chain) \in Nat
  BY <1>1, ScriptsTyped
<1>3. TypeOK'
  <2>1. again' \in BOOLEAN /\ undoing' = undoing /\ call' = "restart"
    BY Zenon DEF Restart
  <2>2. held' \subseteq STRING /\ lost' \subseteq STRING
    BY <1>1 DEF TypeOK, Restart
  <2>3. at' = k /\ doing' = "stop" /\ pc' = 1 /\ UNCHANGED <<chain, up, base>>
    BY DEF Restart, Run
  <2> QED
    BY <1>1, <2>1, <2>2, <2>3 DEF TypeOK
<1>5. CallFits'
  BY <1>2 DEF CallFits, Restart, Run
<1>6. held \subseteq Owned(up) \cup lost
  BY <1>1 DEF HeldAccounted, Settled, Pending, Restart
<1>7. (Owned(Settled))' = Owned(up)
  BY DEF Settled, Restart, Run, Owned
<1>8. HeldAccounted'
  BY <1>6, <1>7 DEF HeldAccounted, Restart
<1> QED
  BY <1>3, <1>5, <1>8 DEF IInv

-----------------------------------------------------------------------------
\* The steps of a start.
LEMMA SucceedsIInv == ASSUME IInv, Succeeds PROVE IInv'
<1>1. TypeOK /\ HeldAccounted /\ CallFits
  BY DEF IInv
<1>2. Starting
  BY DEF Succeeds
<1>3. /\ pc \in 1..Len(chain[at].start)
      /\ Got(chain[at], pc) = Got(chain[at], pc - 1) \cup step.gets
      /\ Got(chain[at], pc) \subseteq Gets(chain[at])
      /\ step.gets \subseteq STRING
  BY <1>1, <1>2, StepTyped
<1>4. TypeOK'
  <2>1. held' \subseteq STRING /\ lost' \subseteq STRING
    BY <1>1, <1>3 DEF TypeOK, Succeeds
  <2>2. pc' \in Nat \ {0} /\ UNCHANGED <<chain, up, base, call, at, doing, undoing, again>>
    BY <1>3 DEF Succeeds
  <2> QED
    BY <1>1, <2>1, <2>2 DEF TypeOK
<1>5. CallFits'
  BY <1>1, <1>3 DEF CallFits, Succeeds, Starting
<1>6. (Owned(Settled))' = Owned(Settled)
  BY DEF Settled, Succeeds, Owned
<1>7. CASE call = "restart"
  <2>1. at \in 1..up /\ up \in Nat
    BY <1>1, <1>7, ScriptsTyped DEF CallFits, TypeOK
  <2>2. Gets(chain[at]) \subseteq Owned(up)
    BY <2>1, OwnedHas
  <2>3. Pending = {} /\ Settled = up
    BY <1>7 DEF Pending, Settled
  <2>4. HeldAccounted'
    BY <1>1, <1>3, <1>6, <2>2, <2>3 DEF HeldAccounted, Succeeds
  <2> QED
    BY <1>4, <1>5, <2>4 DEF IInv
<1>8. CASE call # "restart"
  <2>1. Pending = Got(chain[at], pc - 1)
    BY <1>2, <1>8 DEF Pending, Starting
  <2>2. Pending' = Got(chain[at], (pc + 1) - 1)
    BY <1>2, <1>8 DEF Pending, Starting, Succeeds, Got
  <2>3. (pc + 1) - 1 = pc
    BY <1>3
  <2>4. HeldAccounted'
    BY <1>1, <1>3, <1>6, <2>1, <2>2, <2>3 DEF HeldAccounted, Succeeds
  <2> QED
    BY <1>4, <1>5, <2>4 DEF IInv
<1> QED
  BY <1>7, <1>8

LEMMA FailsLoggedIInv == ASSUME IInv, FailsLogged PROVE IInv'
<1>1. TypeOK /\ HeldAccounted /\ CallFits
  BY DEF IInv
<1>2. Starting
  BY DEF FailsLogged
<1>3. /\ pc \in 1..Len(chain[at].start)
      /\ Got(chain[at], pc) = Got(chain[at], pc - 1) \cup step.gets
  BY <1>1, <1>2, StepTyped
<1>4. TypeOK'
  BY <1>1, <1>3 DEF TypeOK, FailsLogged
<1>5. CallFits'
  BY <1>1, <1>3 DEF CallFits, FailsLogged, Starting
<1>6. (Owned(Settled))' = Owned(Settled)
  BY DEF Settled, FailsLogged, Owned
<1>7. Pending \subseteq Pending'
  <2>1. CASE call = "restart"
    BY <2>1 DEF Pending, FailsLogged
  <2>2. CASE call # "restart"
    <3>1. Pending = Got(chain[at], pc - 1)
      BY <1>2, <2>2 DEF Pending, Starting
    <3>2. Pending' = Got(chain[at], (pc + 1) - 1)
      BY <1>2, <2>2 DEF Pending, Starting, FailsLogged, Got
    <3>3. (pc + 1) - 1 = pc
      BY <1>3
    <3> QED
      BY <1>3, <3>1, <3>2, <3>3
  <2> QED
    BY <2>1, <2>2
<1>8. HeldAccounted'
  BY <1>1, <1>6, <1>7 DEF HeldAccounted, FailsLogged
<1> QED
  BY <1>4, <1>5, <1>8 DEF IInv

LEMMA ThrowsIInv == ASSUME IInv, Throws PROVE IInv'
<1>1. TypeOK /\ HeldAccounted /\ CallFits
  BY DEF IInv
<1>2. Starting
  BY DEF Throws
<1>3. step.undo \in Seq(SUBSET STRING)
  BY <1>1, <1>2, StepTyped
<1>4. TypeOK'
  <2>1. held' \subseteq STRING /\ lost' \subseteq STRING
    BY <1>1 DEF TypeOK, Throws
  <2>2. /\ at' = at /\ doing' = "undo" /\ pc' = 1 /\ undoing' = step.undo
        /\ UNCHANGED <<chain, up, base, call, again>>
    BY DEF Throws, Run
  <2> QED
    BY <1>1, <1>3, <2>1, <2>2 DEF TypeOK
<1>5. CallFits'
  BY <1>1, <1>2 DEF CallFits, Throws, Starting, Run
<1>6. (Owned(Settled))' = Owned(Settled)
  BY <1>2 DEF Settled, Throws, Owned, Starting, Run
<1>7. CASE call = "restart"
  <2>1. Pending = {} /\ Pending' = {}
    BY <1>7 DEF Pending, Throws
  <2>2. HeldAccounted'
    BY <1>1, <1>6, <2>1 DEF HeldAccounted, Throws
  <2> QED
    BY <1>4, <1>5, <2>2 DEF IInv
<1>8. CASE call # "restart"
  <2>1. Pending = Got(chain[at], pc - 1)
    BY <1>2, <1>8 DEF Pending, Starting
  <2>2. Pending' = ReleasedFrom(step.undo, 1)
    BY <1>2, <1>8 DEF Pending, Throws, Run, releases, ReleasedFrom, Starting
  <2>3. HeldAccounted'
    BY <1>1, <1>6, <2>1, <2>2 DEF HeldAccounted, Throws
  <2> QED
    BY <1>4, <1>5, <2>3 DEF IInv
<1> QED
  BY <1>7, <1>8

LEMMA StartedIInv == ASSUME IInv, Started PROVE IInv'
<1>1. TypeOK /\ HeldAccounted /\ CallFits
  BY DEF IInv
<1>2. /\ Len(chain[at].start) \in Nat /\ chain[at].start \in Seq(Steps)
      /\ Len(chain) \in Nat /\ at \in 1..Len(chain)
      /\ doing = "start" /\ call # "none"
  BY <1>1, ScriptsTyped DEF TypeOK, Started
<1>3. pc - 1 = Len(chain[at].start)
  BY <1>1, <1>2 DEF TypeOK, Started, CallFits
<1>4. call = "enable" \/ call = "restart"
  BY <1>1, <1>2 DEF CallFits, TypeOK
<1>5. CASE call = "restart"
  <2>1. call' = "none" /\ UNCHANGED <<chain, up, base, at, doing, pc, undoing, again, held, lost>>
    BY <1>5 DEF Started, Stay
  <2>2. TypeOK'
    BY <1>1, <2>1 DEF TypeOK
  <2>3. CallFits'
    BY <2>1 DEF CallFits
  <2>4. (Owned(Settled))' = Owned(Settled) /\ Pending = {} /\ Pending' = {}
    BY <1>5, <2>1 DEF Settled, Pending, Owned
  <2>5. HeldAccounted'
    BY <1>1, <2>1, <2>4 DEF HeldAccounted
  <2> QED
    BY <2>2, <2>3, <2>5 DEF IInv
<1>6. CASE call = "enable"
  <2>1. at = up + 1 /\ up' = at /\ up \in Nat
    BY <1>1, <1>2, <1>6 DEF CallFits, Started, TypeOK
  <2>2. held \subseteq Owned(up) \cup Gets(chain[at]) \cup lost
    BY <1>1, <1>2, <1>3, <1>6 DEF HeldAccounted, Settled, Pending, Gets
  <2>3. Owned(at) = Owned(at - 1) \cup Gets(chain[at])
    BY <2>1, OwnedStep
  <2>4. held \subseteq Owned(at) \cup lost
    <3>1. at - 1 = up
      BY <2>1
    <3> QED
      BY <2>2, <2>3, <3>1
  <2>5. CASE at < Len(chain)
    <3>1. /\ call' = "enable" /\ at' = at + 1 /\ doing' = "start" /\ pc' = 1
          /\ UNCHANGED <<chain, base, undoing, again, held, lost>>
      BY <1>6, <2>5 DEF Started, Run
    <3>2. TypeOK'
      BY <1>1, <1>2, <2>1, <2>5, <3>1 DEF TypeOK
    <3>3. Len(chain[at + 1].start) \in Nat
      BY <1>1, <1>2, <2>5, ScriptsTyped
    <3>4. CallFits'
      BY <2>1, <3>1, <3>3 DEF CallFits
    <3>5. (Owned(Settled))' = Owned(at)
      BY <2>1, <3>1 DEF Settled, Owned
    <3>6. HeldAccounted'
      BY <2>4, <3>1, <3>5 DEF HeldAccounted
    <3> QED
      BY <3>2, <3>4, <3>6 DEF IInv
  <2>6. CASE ~(at < Len(chain))
    <3>1. /\ call' = "none" /\ UNCHANGED <<chain, at, doing, pc, base, undoing, again, held, lost>>
      BY <1>6, <2>6 DEF Started, Stay
    <3>2. TypeOK'
      BY <1>1, <1>2, <2>1, <3>1 DEF TypeOK
    <3>4. CallFits'
      BY <3>1 DEF CallFits
    <3>5. (Owned(Settled))' = Owned(at)
      BY <2>1, <3>1 DEF Settled, Owned
    <3>6. HeldAccounted'
      BY <2>4, <3>1, <3>5 DEF HeldAccounted
    <3> QED
      BY <3>2, <3>4, <3>6 DEF IInv
  <2> QED
    BY <2>5, <2>6
<1> QED
  BY <1>4, <1>5, <1>6

-----------------------------------------------------------------------------
\* The releases.
LEMMA ReleaseIInv == ASSUME IInv, Release PROVE IInv'
<1>1. TypeOK /\ HeldAccounted /\ CallFits
  BY DEF IInv
<1>2. /\ call # "none" /\ doing # "start" /\ pc <= Len(releases)
      /\ pc \in Nat \ {0} /\ Len(releases) \in Nat
  BY <1>1, ReleasesTyped DEF Release, Releasing, TypeOK
<1>3. ReleasedFrom(releases, pc) = releases[pc] \cup ReleasedFrom(releases, pc + 1)
  BY <1>2, ReleasedStep
<1>4. TypeOK'
  <2>1. held' \subseteq STRING /\ lost' \subseteq STRING
    BY <1>1 DEF TypeOK, Release
  <2>2. pc' \in Nat \ {0} /\ UNCHANGED <<chain, up, base, call, at, doing, undoing, again>>
    BY <1>2 DEF Release
  <2> QED
    BY <1>1, <2>1, <2>2 DEF TypeOK
<1>5. CallFits'
  BY <1>1, <1>2 DEF CallFits, Release
<1>6. (Owned(Settled))' = Owned(Settled)
  BY DEF Settled, Release, Owned
<1>7. CASE call = "restart"
  <2>1. Pending = {} /\ Pending' = {}
    BY <1>7 DEF Pending, Release
  <2>2. HeldAccounted'
    BY <1>1, <1>6, <2>1 DEF HeldAccounted, Release
  <2> QED
    BY <1>4, <1>5, <2>2 DEF IInv
<1>8. CASE call # "restart"
  <2>1. Pending = ReleasedFrom(releases, pc)
    BY <1>2, <1>8 DEF Pending
  <2>2. releases' = releases
    BY DEF releases, Release
  <2>3. Pending' = ReleasedFrom(releases, pc + 1)
    BY <1>2, <1>8, <2>2 DEF Pending, Release, ReleasedFrom
  <2>4. HeldAccounted'
    BY <1>1, <1>3, <1>6, <2>1, <2>3 DEF HeldAccounted, Release
  <2> QED
    BY <1>4, <1>5, <2>4 DEF IInv
<1> QED
  BY <1>7, <1>8

\* Stopping goes on at the stage k, or ends.
LEMMA StopGoesOn ==
    ASSUME TypeOK, NEW k \in Nat, k <= Len(chain), StopBelow(k),
           up' = k, base <= k, call \in {"enable", "disable"},
           held \subseteq Owned(k) \cup lost,
           UNCHANGED <<chain, base, again, held, lost>>
    PROVE  IInv'
<1>1. Len(chain) \in Nat
  BY ScriptsTyped DEF TypeOK
<1>2. base \in Nat
  BY DEF TypeOK
<1>3. CASE k > base
  <2>1. /\ at' = k /\ doing' = "stop" /\ pc' = 1
        /\ UNCHANGED <<call, undoing, chain, base, again, held, lost>>
    BY <1>3 DEF StopBelow, Run
  <2>2. k \in 1..Len(chain)
    BY <1>2, <1>3
  <2>3. TypeOK'
    BY <1>1, <1>2, <2>1, <2>2 DEF TypeOK
  <2>4. CallFits'
    BY <1>3, <2>1 DEF CallFits
  <2>5. held \subseteq Owned(k - 1) \cup ReleasedFrom(chain[k].stop, 1) \cup lost
    BY <2>2, StopBegins
  <2>6. (Owned(Settled))' = Owned(k - 1)
    BY <2>1 DEF Settled, Owned
  <2>7. Pending' = ReleasedFrom(chain[k].stop, 1)
    BY <2>1 DEF Pending, releases, ReleasedFrom
  <2>8. HeldAccounted'
    BY <2>1, <2>5, <2>6, <2>7 DEF HeldAccounted
  <2> QED
    BY <2>3, <2>4, <2>8 DEF IInv
<1>4. CASE ~(k > base)
  <2>1. /\ call' = "none"
        /\ UNCHANGED <<at, doing, pc, undoing, chain, base, again, held, lost>>
    BY <1>4 DEF StopBelow, Stay
  <2>3. TypeOK'
    BY <1>1, <1>2, <2>1 DEF TypeOK
  <2>4. CallFits'
    BY <2>1 DEF CallFits
  <2>5. (Owned(Settled))' = Owned(k)
    BY <2>1 DEF Settled, Owned
  <2>6. HeldAccounted'
    BY <2>1, <2>5 DEF HeldAccounted
  <2> QED
    BY <2>3, <2>4, <2>6 DEF IInv
<1> QED
  BY <1>3, <1>4

LEMMA UndoneIInv == ASSUME IInv, Undone PROVE IInv'
<1>1. TypeOK /\ HeldAccounted /\ CallFits
  BY DEF IInv
<1>2. /\ doing = "undo" /\ call # "none" /\ Len(releases) \in Nat /\ pc \in Nat
      /\ pc > Len(releases) /\ Len(chain) \in Nat
  BY <1>1, ReleasesTyped, ScriptsTyped DEF Undone, Releasing, TypeOK
<1>3. ReleasedFrom(releases, pc) = {}
  BY <1>2, ReleasedAll
<1>4. Pending = {}
  BY <1>2, <1>3 DEF Pending
<1>5. held \subseteq Owned(up) \cup lost
  BY <1>1, <1>2, <1>4 DEF HeldAccounted, Settled
<1>6. CASE call = "enable"
  <2>1. at = up + 1 /\ up \in Nat /\ up <= Len(chain) /\ base <= up
    BY <1>1, <1>2, <1>6 DEF CallFits, TypeOK
  <2>2. at - 1 = up
    BY <2>1
  <2>3. StopBelow(up) /\ UNCHANGED <<chain, up, base, again, held, lost>>
    BY <1>6, <2>2 DEF Undone
  <2> QED
    BY <1>1, <1>5, <1>6, <2>1, <2>3, StopGoesOn
<1>7. CASE call # "enable"
  <2>1. call = "restart"
    BY <1>1, <1>2, <1>7 DEF CallFits, TypeOK
  <2>2. CASE ~again
    <3>1. /\ again' = TRUE /\ at' = at /\ doing' = "start" /\ pc' = 1
          /\ UNCHANGED <<chain, up, base, call, undoing, held, lost>>
      BY <1>7, <2>2 DEF Undone, Run
    <3>2. TypeOK'
      BY <1>1, <3>1 DEF TypeOK
    <3>3. Len(chain[at].start) \in Nat
      BY <1>1, ScriptsTyped DEF TypeOK
    <3>4. CallFits'
      BY <1>1, <2>1, <3>1, <3>3 DEF CallFits
    <3>5. (Owned(Settled))' = Owned(up) /\ Pending' = {}
      BY <2>1, <3>1 DEF Settled, Pending, Owned
    <3>6. HeldAccounted'
      BY <1>5, <3>1, <3>5 DEF HeldAccounted
    <3> QED
      BY <3>2, <3>4, <3>6 DEF IInv
  <2>3. CASE again
    <3>1. call' = "none" /\ UNCHANGED <<chain, up, base, at, doing, pc, undoing, again, held, lost>>
      BY <1>7, <2>3 DEF Undone, Stay
    <3>2. TypeOK'
      BY <1>1, <3>1 DEF TypeOK
    <3>4. CallFits'
      BY <3>1 DEF CallFits
    <3>5. (Owned(Settled))' = Owned(up) /\ Pending' = {}
      BY <3>1 DEF Settled, Pending, Owned
    <3>6. HeldAccounted'
      BY <1>5, <3>1, <3>5 DEF HeldAccounted
    <3> QED
      BY <3>2, <3>4, <3>6 DEF IInv
  <2> QED
    BY <1>1, <2>2, <2>3 DEF TypeOK
<1> QED
  BY <1>6, <1>7

LEMMA StoppedIInv == ASSUME IInv, Stopped PROVE IInv'
<1>1. TypeOK /\ HeldAccounted /\ CallFits
  BY DEF IInv
<1>2. /\ doing = "stop" /\ call # "none" /\ Len(releases) \in Nat /\ pc \in Nat
      /\ pc > Len(releases) /\ Len(chain) \in Nat
  BY <1>1, ReleasesTyped, ScriptsTyped DEF Stopped, Releasing, TypeOK
<1>3. ReleasedFrom(releases, pc) = {}
  BY <1>2, ReleasedAll
<1>4. Pending = {}
  BY <1>2, <1>3 DEF Pending
<1>5. CASE call = "restart"
  <2>1. /\ at' = at /\ doing' = "start" /\ pc' = 1
        /\ UNCHANGED <<chain, up, base, call, undoing, again, held, lost>>
    BY <1>5 DEF Stopped, Run
  <2>2. TypeOK'
    BY <1>1, <2>1 DEF TypeOK
  <2>3. Len(chain[at].start) \in Nat
    BY <1>1, ScriptsTyped DEF TypeOK
  <2>4. CallFits'
    BY <1>1, <1>5, <2>1, <2>3 DEF CallFits
  <2>5. (Owned(Settled))' = Owned(Settled) /\ Pending' = {}
    BY <1>5, <2>1 DEF Settled, Pending, Owned
  <2>6. HeldAccounted'
    BY <1>1, <1>4, <2>1, <2>5 DEF HeldAccounted
  <2> QED
    BY <2>2, <2>4, <2>6 DEF IInv
<1>6. CASE call # "restart"
  <2>1. call \in {"enable", "disable"}
    BY <1>1, <1>2, <1>6 DEF TypeOK
  <2>2. at = up /\ base < up /\ base \in Nat /\ up \in 1..Len(chain)
    BY <1>1, <1>2, <2>1 DEF CallFits, TypeOK
  <2>3. held \subseteq Owned(at - 1) \cup lost
    BY <1>1, <1>2, <1>4, <2>1 DEF HeldAccounted, Settled
  <2>4. /\ up' = at - 1 /\ StopBelow(at - 1)
        /\ UNCHANGED <<chain, base, again, held, lost>>
    BY <1>6 DEF Stopped
  <2>5. at - 1 \in Nat /\ at - 1 <= Len(chain) /\ base <= at - 1
    BY <1>2, <2>2
  <2> QED
    BY <1>1, <2>1, <2>3, <2>4, <2>5, StopGoesOn
<1> QED
  BY <1>5, <1>6

LEMMA ThreadReturnsIInv == ASSUME IInv, ThreadReturns PROVE IInv'
<1>1. TypeOK /\ HeldAccounted /\ CallFits
  BY DEF IInv
<1>2. TypeOK'
  BY <1>1 DEF TypeOK, ThreadReturns
<1>3. CallFits'
  BY <1>1 DEF CallFits, ThreadReturns
<1>4. (Owned(Settled))' = Owned(Settled) /\ Pending' = Pending
  BY DEF Settled, ThreadReturns, Owned, Pending, Got, releases, ReleasedFrom
<1>5. HeldAccounted'
  BY <1>1, <1>4 DEF HeldAccounted, ThreadReturns
<1> QED
  BY <1>2, <1>3, <1>5 DEF IInv

-----------------------------------------------------------------------------
\* Every step preserves it.
LEMMA NextIInv == IInv /\ [Next]_vars => IInv'
<1> SUFFICES ASSUME IInv, [Next]_vars PROVE IInv'
  OBVIOUS
<1>1. CASE Enable BY <1>1, EnableIInv
<1>2. CASE \E n \in 0..(Len(chain) - 1) : Disable(n) BY <1>2, DisableIInv
<1>3. CASE \E k \in 1..Len(chain) : Restart(k) BY <1>3, RestartIInv
<1>4. CASE Succeeds BY <1>4, SucceedsIInv
<1>5. CASE FailsLogged BY <1>5, FailsLoggedIInv
<1>6. CASE Throws BY <1>6, ThrowsIInv
<1>7. CASE Started BY <1>7, StartedIInv
<1>8. CASE Release BY <1>8, ReleaseIInv
<1>9. CASE Undone BY <1>9, UndoneIInv
<1>10. CASE Stopped BY <1>10, StoppedIInv
<1>11. CASE ThreadReturns BY <1>11, ThreadReturnsIInv
<1>12. CASE UNCHANGED vars
  <2>1. TypeOK' /\ CallFits'
    BY <1>12 DEF IInv, TypeOK, CallFits, vars
  <2>2. (Owned(Settled))' = Owned(Settled) /\ Pending' = Pending
    BY <1>12 DEF vars, Settled, Owned, Pending, Got, releases, ReleasedFrom
  <2>3. HeldAccounted'
    BY <1>12, <2>2 DEF IInv, HeldAccounted, vars
  <2> QED
    BY <2>1, <2>3 DEF IInv
<1> QED
  BY <1>1, <1>2, <1>3, <1>4, <1>5, <1>6, <1>7, <1>8, <1>9, <1>10, <1>11, <1>12
  DEF Next

\* The inductive invariant holds.
THEOREM InductiveInvariant == Spec => []IInv
BY InitIInv, NextIInv, PTL DEF Spec

\* Stage scripts of any platform: starts, stops, restarts and failing starts
\* leave nothing behind that a throw has not lost.
THEOREM LeavesNothingElse == Spec => []NothingElseLeft
<1>1. IInv => NothingElseLeft
  BY DEF IInv, HeldAccounted, Settled, Pending, NothingElseLeft
<1> QED
  BY <1>1, InductiveInvariant, PTL

-----------------------------------------------------------------------------
(* Enabled stages have what they need.                                     *)

\* A further step adds what it gets, if it throws, and takes what it frees.
LEMMA SureGrows ==
    ASSUME NEW s, NEW n \in Nat
    PROVE  Sure(s, n + 1) \subseteq
             (Sure(s, n) \ s.start[n + 1].frees)
               \cup (IF s.start[n + 1].throws THEN s.start[n + 1].gets ELSE {})
<1> SUFFICES ASSUME NEW r \in Sure(s, n + 1),
                    r \notin (IF s.start[n + 1].throws THEN s.start[n + 1].gets ELSE {})
             PROVE  r \in Sure(s, n) /\ r \notin s.start[n + 1].frees
  OBVIOUS
<1>1. PICK i \in 1..(n + 1) : /\ s.start[i].throws /\ r \in s.start[i].gets
                              /\ \A j \in (i + 1)..(n + 1) : r \notin s.start[j].frees
  BY DEF Sure
<1>2. i # n + 1
  BY <1>1
<1>3. i \in 1..n /\ n + 1 \in (i + 1)..(n + 1) /\ (i + 1)..n \subseteq (i + 1)..(n + 1)
  BY <1>2
<1> QED
  BY <1>1, <1>3 DEF Sure

\* Nothing is certain before the first step.
LEMMA SureStarts == \A s : Sure(s, 0) = {}
BY DEF Sure

\* The parts of what a stage may give back.
LEMMA TouchesParts ==
    ASSUME NEW s
    PROVE  /\ ReleasedFrom(s.stop, 1) \subseteq Touches(s)
           /\ \A i \in 1..Len(s.start) :
                /\ s.start[i].frees \subseteq Touches(s)
                /\ ReleasedFrom(s.start[i].undo, 1) \subseteq Touches(s)
<1> DEFINE steps == {s.start[j].frees \cup ReleasedFrom(s.start[j].undo, 1) :
                        j \in 1..Len(s.start)}
<1>1. Touches(s) = (UNION steps) \cup ReleasedFrom(s.stop, 1)
  BY DEF Touches
<1>2. \A i \in 1..Len(s.start) :
        s.start[i].frees \cup ReleasedFrom(s.start[i].undo, 1) \in steps
  OBVIOUS
<1> HIDE DEF steps
<1>3. ASSUME NEW i \in 1..Len(s.start)
      PROVE  /\ s.start[i].frees \subseteq Touches(s)
             /\ ReleasedFrom(s.start[i].undo, 1) \subseteq Touches(s)
  <2>1. s.start[i].frees \cup ReleasedFrom(s.start[i].undo, 1) \subseteq UNION steps
    BY <1>2, Zenon
  <2> QED
    BY <1>1, <2>1
<1>4. ReleasedFrom(s.stop, 1) \subseteq Touches(s)
  BY <1>1
<1> QED
  BY <1>3, <1>4, Zenon

\* What a stage holds for certain is what it gets.
LEMMA RequiredGets == \A s : Required(s) \subseteq Gets(s)
BY DEF Required, Sure, Gets, Got

\* Stages do not touch what the others get.
LEMMA Separate ==
    ASSUME TypeOK, NEW j \in 1..Len(chain), NEW k \in 1..Len(chain), j # k
    PROVE  /\ Gets(chain[j]) \cap Touches(chain[k]) = {}
           /\ Gets(chain[j]) \cap Gets(chain[k]) = {}
<1>1. chain \in Chains
  BY DEF TypeOK
<1>2. Gets(chain[j]) \cap Touches(chain[k]) = {}
  BY <1>1, SeparateAssumption
<1>3. Gets(chain[k]) \subseteq ReleasedFrom(chain[k].stop, 1)
  BY ScriptsTyped
<1>4. ReleasedFrom(chain[k].stop, 1) \subseteq Touches(chain[k])
  BY TouchesParts
<1> QED
  BY <1>2, <1>3, <1>4

\* A stage is as it was when another one, or nobody, obtains and gives back.
LEMMA OtherIntact ==
    ASSUME TypeOK, NEW j \in 1..Len(chain), NEW k \in 1..Len(chain), j # k,
           chain' = chain,
           held \ Touches(chain[k]) \subseteq held', held' \subseteq held \cup Gets(chain[k])
    PROVE  /\ Whole(j) => Whole(j)'
           /\ Down(j) => Down(j)'
BY Separate, RequiredGets DEF Whole, Down

\* The steps that begin a call, or a script, hold what was held before.
LEMMA SameIntact ==
    ASSUME chain' = chain, held' = held, NEW k
    PROVE  (Whole(k)' <=> Whole(k)) /\ (Down(k)' <=> Down(k))
BY DEF Whole, Down

LEMMA EnableIntact == ASSUME IntactInv, Enable PROVE IntactInv'
<1>1. /\ call = "none" /\ call' = "enable" /\ at' = up + 1 /\ doing' = "start" /\ pc' = 1
      /\ UNCHANGED <<chain, up, held>>
  BY DEF Enable, Run
<1>2. OthersIntact'
  BY <1>1, SameIntact DEF IntactInv, OthersIntact, Busy
<1>3. StartSure'
  BY <1>1, SureStarts DEF StartSure
<1> QED
  BY <1>1, <1>2, <1>3, EnableIInv DEF IntactInv, UndoOwn, RestartHolds

LEMMA DisableIntact ==
    ASSUME IntactInv, NEW n \in 0..(Len(chain) - 1), Disable(n) PROVE IntactInv'
<1>1. /\ call = "none" /\ call' = "disable" /\ at' = up /\ doing' = "stop" /\ pc' = 1
      /\ UNCHANGED <<chain, up, held>>
  BY DEF Disable, Run
<1>2. OthersIntact'
  BY <1>1, SameIntact DEF IntactInv, OthersIntact, Busy
<1> QED
  BY <1>1, <1>2, DisableIInv DEF IntactInv, StartSure, UndoOwn, RestartHolds

LEMMA RestartIntact ==
    ASSUME IntactInv, NEW k \in 1..Len(chain), Restart(k) PROVE IntactInv'
<1>1. /\ call = "none" /\ call' = "restart" /\ at' = k /\ doing' = "stop" /\ pc' = 1
      /\ chain[k].restarts /\ UNCHANGED <<chain, up, held>>
  BY DEF Restart, Run
<1>2. OthersIntact'
  BY <1>1, SameIntact DEF IntactInv, OthersIntact, Busy
<1>3. Gets(chain[k]) \subseteq ReleasedFrom(chain[k].stop, 1)
  BY ScriptsTyped DEF IntactInv, IInv
<1>4. releases' = chain[k].stop
  BY <1>1 DEF releases
<1>5. RestartHolds'
  <2>1. ReleasedFrom(releases, pc)' = ReleasedFrom(chain[k].stop, 1)
    BY <1>1, <1>4 DEF ReleasedFrom
  <2> QED
    BY <1>1, <1>3, <2>1 DEF RestartHolds
<1> QED
  BY <1>1, <1>2, <1>5, RestartIInv DEF IntactInv, StartSure, UndoOwn

\* Steps of a start: those of enable() are at the stage behind the last.
LEMMA WhoStarts ==
    ASSUME IInv, call # "none", doing # "stop"
    PROVE  /\ (call = "enable" /\ at = up + 1) \/ call = "restart"
           /\ at \in 1..Len(chain) /\ up \in Nat /\ up <= Len(chain) /\ Len(chain) \in Nat
           /\ \A k \in 1..up : k \in 1..Len(chain) /\ (k = at => call = "restart")
<1>1. TypeOK /\ CallFits /\ Len(chain) \in Nat
  BY ScriptsTyped DEF IInv, TypeOK
<1> QED
  BY <1>1 DEF TypeOK, CallFits

\* The others are intact after a step of the stage that is at work.
LEMMA OthersStay ==
    ASSUME IntactInv, call # "none",
           UNCHANGED <<chain, up, call, at>>, doing' = doing,
           held \ Touches(chain[at]) \subseteq held', held' \subseteq held \cup Gets(chain[at])
    PROVE  OthersIntact'
<1>1. TypeOK /\ CallFits /\ Len(chain) \in Nat /\ at \in 1..Len(chain) /\ up \in 0..Len(chain)
  BY ScriptsTyped DEF IntactInv, IInv, TypeOK
<1> SUFFICES ASSUME NEW k \in 1..up, ~Busy(k)
             PROVE  Whole(k)' \/ Down(k)'
  BY DEF OthersIntact, Busy
<1>2. Whole(k) \/ Down(k)
  BY DEF IntactInv, OthersIntact
<1>3. k # at
  BY <1>1 DEF Busy, CallFits, TypeOK
<1>4. k \in 1..Len(chain)
  BY <1>1
<1> QED
  BY <1>1, <1>2, <1>3, <1>4, OtherIntact

LEMMA SucceedsIntact == ASSUME IntactInv, Succeeds PROVE IntactInv'
<1>1. /\ Starting /\ call # "none" /\ doing = "start"
      /\ held' = (held \ step.frees) \cup step.gets /\ pc' = pc + 1
      /\ UNCHANGED <<chain, up, call, at, doing, undoing>>
  BY DEF Succeeds, Starting
<1>2. TypeOK /\ IInv
  BY DEF IntactInv, IInv
<1>3. /\ step \in Steps /\ pc \in 1..Len(chain[at].start)
      /\ Got(chain[at], pc) = Got(chain[at], pc - 1) \cup step.gets
      /\ Got(chain[at], pc) \subseteq Gets(chain[at])
  BY <1>1, <1>2, StepTyped
<1>4. step.frees \subseteq Touches(chain[at])
  BY <1>3, TouchesParts DEF step
<1>5. OthersIntact'
  BY <1>1, <1>3, <1>4, OthersStay
<1>6. (pc + 1) - 1 = pc /\ (pc - 1) + 1 = pc /\ pc - 1 \in Nat /\ pc \in Nat
  BY <1>3
<1>7. StartSure'
  <2>1. Sure(chain[at], (pc - 1) + 1) \subseteq
          (Sure(chain[at], pc - 1) \ chain[at].start[(pc - 1) + 1].frees)
            \cup (IF chain[at].start[(pc - 1) + 1].throws THEN chain[at].start[(pc - 1) + 1].gets ELSE {})
    BY <1>6, SureGrows
  <2>2. Sure(chain[at], pc) \subseteq (Sure(chain[at], pc - 1) \ step.frees) \cup step.gets
    BY <1>6, <2>1 DEF step
  <2>4. Sure(chain[at], pc - 1) \ {"run"} \subseteq held
    BY <1>1 DEF IntactInv, StartSure
  <2>5. Sure(chain[at], pc) \ {"run"} \subseteq held'
    BY <1>1, <2>2, <2>4
  <2>6. Sure(chain[at], pc - 1)' = Sure(chain[at], pc)
    <3>1. Sure(chain[at], pc - 1)' = Sure(chain'[at'], pc' - 1)
      BY DEF Sure
    <3> QED
      BY <1>1, <1>6, <3>1
  <2> QED
    BY <2>5, <2>6 DEF StartSure
<1>8. RestartHolds'
  <2>1. Got(chain[at], pc - 1)' = Got(chain[at], pc)
    BY <1>1, <1>6 DEF Got
  <2> QED
    BY <1>1, <1>3, <2>1 DEF IntactInv, RestartHolds
<1>9. UndoOwn'
  BY <1>1 DEF UndoOwn
<1> QED
  BY <1>2, <1>5, <1>7, <1>8, <1>9, SucceedsIInv DEF IntactInv

LEMMA FailsLoggedIntact == ASSUME IntactInv, FailsLogged PROVE IntactInv'
<1>1. /\ Starting /\ call # "none" /\ doing = "start" /\ ~step.throws
      /\ held' = held /\ pc' = pc + 1
      /\ UNCHANGED <<chain, up, call, at, doing, undoing>>
  BY DEF FailsLogged, Starting
<1>2. TypeOK /\ IInv
  BY DEF IntactInv, IInv
<1>3. /\ pc \in 1..Len(chain[at].start)
      /\ Got(chain[at], pc) = Got(chain[at], pc - 1) \cup step.gets
  BY <1>1, <1>2, StepTyped
<1>5. OthersIntact'
  BY <1>1, OthersStay
<1>6. (pc + 1) - 1 = pc /\ (pc - 1) + 1 = pc /\ pc - 1 \in Nat
  BY <1>3
<1>7. StartSure'
  <2>1. Sure(chain[at], (pc - 1) + 1) \subseteq
          (Sure(chain[at], pc - 1) \ chain[at].start[(pc - 1) + 1].frees)
            \cup (IF chain[at].start[(pc - 1) + 1].throws THEN chain[at].start[(pc - 1) + 1].gets ELSE {})
    BY <1>6, SureGrows
  <2>2. Sure(chain[at], pc) \subseteq Sure(chain[at], pc - 1)
    BY <1>1, <1>6, <2>1 DEF step
  <2>4. Sure(chain[at], pc - 1) \ {"run"} \subseteq held
    BY <1>1 DEF IntactInv, StartSure
  <2>6. Sure(chain[at], pc - 1)' = Sure(chain[at], pc)
    <3>1. Sure(chain[at], pc - 1)' = Sure(chain'[at'], pc' - 1)
      BY DEF Sure
    <3> QED
      BY <1>1, <1>6, <3>1
  <2> QED
    BY <1>1, <2>2, <2>4, <2>6 DEF StartSure
<1>8. RestartHolds'
  <2>1. Got(chain[at], pc - 1)' = Got(chain[at], pc)
    BY <1>1, <1>6 DEF Got
  <2> QED
    BY <1>1, <1>3, <2>1 DEF IntactInv, RestartHolds
<1>9. UndoOwn'
  BY <1>1 DEF UndoOwn
<1> QED
  BY <1>2, <1>5, <1>7, <1>8, <1>9, FailsLoggedIInv DEF IntactInv

\* What a restarted stage has obtained when a step throws is released.
LEMMA ThrowsIntact == ASSUME IntactInv, Throws PROVE IntactInv'
<1>1. /\ Starting /\ call # "none" /\ doing = "start" /\ step.throws
      /\ doing' = "undo" /\ undoing' = step.undo /\ pc' = 1
      /\ UNCHANGED <<chain, up, call, at, held>>
  BY DEF Throws, Run, Starting
<1>2. TypeOK /\ IInv /\ chain \in Chains /\ at \in 1..Len(chain)
  BY DEF IntactInv, IInv, TypeOK
<1>3. pc \in 1..Len(chain[at].start)
  BY <1>1, <1>2, StepTyped
<1>4. OthersIntact'
  <2> SUFFICES ASSUME NEW k \in 1..up
               PROVE  Busy(k)' \/ Whole(k)' \/ Down(k)'
    BY <1>1 DEF OthersIntact
  <2>1. Busy(k) => Busy(k)'
    BY <1>1 DEF Busy
  <2> QED
    BY <1>1, <2>1, SameIntact DEF IntactInv, OthersIntact
<1>5. UndoOwn'
  BY <1>1, <1>3 DEF UndoOwn, step
<1>6. RestartHolds'
  <2> SUFFICES ASSUME call = "restart"
               PROVE  /\ chain[at].restarts
                      /\ Gets(chain[at]) \cap held \subseteq ReleasedFrom(step.undo, 1)
    BY <1>1 DEF RestartHolds, releases, ReleasedFrom
  <2>1. chain[at].restarts /\ Gets(chain[at]) \cap held \subseteq Got(chain[at], pc - 1)
    BY <1>1 DEF IntactInv, RestartHolds
  <2>2. Got(chain[at], pc - 1) \subseteq ReleasedFrom(chain[at].start[pc].undo, 1)
    BY <1>1, <1>2, <1>3, <2>1, SeparateAssumption DEF step
  <2> QED
    BY <2>1, <2>2 DEF step
<1> QED
  BY <1>1, <1>2, <1>4, <1>5, <1>6, ThrowsIInv DEF IntactInv, StartSure

\* The stage that is started has all of what it needs.
LEMMA StartedIntact == ASSUME IntactInv, Started PROVE IntactInv'
<1>1. call # "none" /\ doing = "start" /\ UNCHANGED <<chain, held>>
  BY DEF Started
<1>2. TypeOK /\ CallFits /\ IInv
  BY DEF IntactInv, IInv
<1>3. pc - 1 = Len(chain[at].start)
  BY <1>1, <1>2, ScriptsTyped DEF TypeOK, Started, CallFits
<1>4. Whole(at)
  BY <1>1, <1>3 DEF IntactInv, StartSure, Whole, Required
<1>5. /\ (call = "enable" /\ at = up + 1) \/ call = "restart"
      /\ \A k \in 1..up : k = at => call = "restart"
      /\ up \in Nat /\ at \in Nat
  BY <1>1, <1>2, WhoStarts
<1>6. \A k \in 1..up : k = at \/ Whole(k) \/ Down(k)
  BY <1>1 DEF IntactInv, OthersIntact, Busy
<1>7. \A k \in 1..up' : Whole(k)' \/ Down(k)'
  <2> SUFFICES ASSUME NEW k \in 1..up' PROVE Whole(k) \/ Down(k)
    BY <1>1, SameIntact
  <2>1. k = at \/ k \in 1..up
    BY <1>5 DEF Started
  <2> QED
    BY <1>4, <1>6, <2>1
<1>8. CASE call' = "none"
  BY <1>2, <1>7, <1>8, StartedIInv
  DEF IntactInv, OthersIntact, StartSure, UndoOwn, RestartHolds
<1>9. CASE call = "enable" /\ at < Len(chain)
  <2>1. call' = "enable" /\ doing' = "start" /\ pc' = 1
    BY <1>9 DEF Started, Run
  <2>2. StartSure'
    BY <2>1, SureStarts DEF StartSure
  <2> QED
    BY <1>2, <1>7, <2>1, <2>2, StartedIInv
    DEF IntactInv, OthersIntact, UndoOwn, RestartHolds
<1> QED
  BY <1>8, <1>9 DEF Started

\* A release is one of the stage at work.
LEMMA ReleaseOwn ==
    ASSUME IntactInv, Releasing, pc <= Len(releases)
    PROVE  releases[pc] \subseteq Touches(chain[at])
<1>1. pc \in 1..Len(releases)
  BY ReleasesTyped DEF IntactInv, IInv, TypeOK
<1>2. releases[pc] \subseteq ReleasedFrom(releases, 1)
  BY <1>1 DEF ReleasedFrom
<1>3. CASE doing = "undo"
  <2>1. PICK i \in 1..Len(chain[at].start) : undoing = chain[at].start[i].undo
    BY <1>3 DEF IntactInv, UndoOwn, Releasing
  <2>2. releases = chain[at].start[i].undo
    BY <1>3, <2>1 DEF releases
  <2>3. ReleasedFrom(chain[at].start[i].undo, 1) \subseteq Touches(chain[at])
    BY TouchesParts
  <2> QED
    BY <1>2, <2>2, <2>3
<1>4. CASE doing = "stop"
  <2>1. releases = chain[at].stop
    BY <1>4 DEF releases
  <2> QED
    BY <1>2, <2>1, TouchesParts
<1> QED
  BY <1>3, <1>4 DEF IntactInv, IInv, TypeOK, Releasing

\* What it holds is as it was, but for that.
LEMMA ReleaseIntact == ASSUME IntactInv, Release PROVE IntactInv'
<1>1. /\ call # "none" /\ doing # "start" /\ pc <= Len(releases)
      /\ held' = held \ releases[pc] /\ pc' = pc + 1
      /\ UNCHANGED <<chain, up, call, at, doing, undoing>>
  BY DEF Release, Releasing
<1>2. TypeOK /\ IInv /\ pc \in Nat \ {0} /\ Len(releases) \in Nat
  BY ReleasesTyped DEF IntactInv, IInv, TypeOK
<1>3. ReleasedFrom(releases, pc) = releases[pc] \cup ReleasedFrom(releases, pc + 1)
  BY <1>1, <1>2, ReleasedStep
<1>4. releases[pc] \subseteq Touches(chain[at])
  BY <1>1, ReleaseOwn DEF Releasing
<1>5. OthersIntact'
  BY <1>1, <1>4, OthersStay
<1>6. RestartHolds'
  <2>1. releases' = releases
    BY <1>1 DEF releases
  <2>2. ReleasedFrom(releases, pc)' = ReleasedFrom(releases, pc + 1)
    BY <1>1, <2>1 DEF ReleasedFrom
  <2> QED
    BY <1>1, <1>3, <2>2 DEF IntactInv, RestartHolds
<1> QED
  BY <1>1, <1>2, <1>5, <1>6, ReleaseIInv DEF IntactInv, StartSure, UndoOwn

\* The releases have run to the end: a restarted stage holds nothing.
LEMMA NothingHeld ==
    ASSUME IntactInv, call = "restart", doing # "start", pc > Len(releases)
    PROVE  chain[at].restarts /\ Gets(chain[at]) \cap held = {}
<1>1. ReleasedFrom(releases, pc) = {}
  BY ReleasesTyped, ReleasedAll DEF IntactInv, IInv, TypeOK
<1> QED
  BY <1>1 DEF IntactInv, RestartHolds

LEMMA UndoneIntact == ASSUME IntactInv, Undone PROVE IntactInv'
<1>1. call # "none" /\ doing = "undo" /\ pc > Len(releases) /\ UNCHANGED <<chain, up, held>>
  BY DEF Undone, Releasing
<1>2. IInv
  BY DEF IntactInv
<1>3. /\ (call = "enable" /\ at = up + 1) \/ call = "restart"
      /\ \A k \in 1..up : k = at => call = "restart"
      /\ up \in Nat
  BY <1>1, <1>2, WhoStarts
<1>4. \A k \in 1..up : (k = at /\ call = "restart") \/ Whole(k)' \/ Down(k)'
  BY <1>1, <1>3, SameIntact DEF IntactInv, OthersIntact, Busy
<1>5. CASE call = "enable"
  <2>1. \/ call' = "none"
        \/ call' = "enable" /\ doing' = "stop"
    BY <1>5 DEF Undone, StopBelow, Run
  <2> QED
    BY <1>1, <1>2, <1>4, <1>5, <2>1, UndoneIInv
    DEF IntactInv, OthersIntact, StartSure, UndoOwn, RestartHolds
<1>6. CASE call = "restart"
  <2>1. chain[at].restarts /\ Gets(chain[at]) \cap held = {}
    BY <1>1, <1>6, NothingHeld
  <2>2. CASE ~again
    <3>1. call' = "restart" /\ at' = at /\ doing' = "start" /\ pc' = 1
      BY <1>6, <2>2 DEF Undone, Run
    <3>2. OthersIntact'
      BY <1>1, <1>4, <3>1 DEF OthersIntact, Busy
    <3>3. StartSure'
      BY <3>1, SureStarts DEF StartSure
    <3>4. RestartHolds'
      BY <1>1, <2>1, <3>1 DEF RestartHolds
    <3> QED
      BY <1>2, <3>1, <3>2, <3>3, <3>4, UndoneIInv DEF IntactInv, UndoOwn
  <2>3. CASE again
    <3>1. call' = "none"
      BY <1>6, <2>3 DEF Undone
    <3>2. Down(at)
      BY <2>1 DEF Down
    <3>3. \A k \in 1..up : Whole(k)' \/ Down(k)'
      BY <1>1, <1>4, <3>2, SameIntact
    <3> QED
      BY <1>1, <1>2, <3>1, <3>3, UndoneIInv
      DEF IntactInv, OthersIntact, StartSure, UndoOwn, RestartHolds
  <2> QED
    BY <1>2, <2>2, <2>3 DEF IInv, TypeOK
<1> QED
  BY <1>3, <1>5, <1>6

LEMMA StoppedIntact == ASSUME IntactInv, Stopped PROVE IntactInv'
<1>1. call # "none" /\ doing = "stop" /\ pc > Len(releases) /\ UNCHANGED <<chain, held>>
  BY DEF Stopped, Releasing
<1>2. IInv /\ TypeOK /\ CallFits
  BY DEF IntactInv, IInv
<1>3. \A k \in 1..up : k = at \/ Whole(k)' \/ Down(k)'
  BY <1>1, SameIntact DEF IntactInv, OthersIntact, Busy
<1>4. CASE call = "restart"
  <2>1. Gets(chain[at]) \cap held = {} /\ chain[at].restarts
    BY <1>1, <1>4, NothingHeld
  <2>2. call' = "restart" /\ at' = at /\ doing' = "start" /\ pc' = 1 /\ up' = up
    BY <1>4 DEF Stopped, Run
  <2>3. OthersIntact'
    BY <1>3, <2>2 DEF OthersIntact, Busy
  <2>4. StartSure'
    BY <2>2, SureStarts DEF StartSure
  <2>5. RestartHolds'
    BY <1>1, <2>1, <2>2 DEF RestartHolds
  <2> QED
    BY <1>2, <2>2, <2>3, <2>4, <2>5, StoppedIInv DEF IntactInv, UndoOwn
<1>5. CASE call # "restart"
  <2>1. at = up /\ up \in Nat
    BY <1>1, <1>2, <1>5, ScriptsTyped DEF CallFits, TypeOK
  <2>2. up' = at - 1 /\ (call' = "none" \/ (call' = call /\ doing' = "stop"))
    BY <1>1, <1>5 DEF Stopped, StopBelow, Run
  <2>3. \A k \in 1..up' : k \in 1..up /\ k # at
    BY <2>1, <2>2
  <2>4. OthersIntact'
    BY <1>3, <2>3 DEF OthersIntact
  <2> QED
    BY <1>2, <1>5, <2>2, <2>4, StoppedIInv DEF IntactInv, StartSure, UndoOwn, RestartHolds
<1> QED
  BY <1>4, <1>5

\* HI_MPI_ISP_Run() is the thread's own.
LEMMA ThreadReturnsIntact == ASSUME IntactInv, ThreadReturns PROVE IntactInv'
<1>1. held' = held \ {"run"} /\ UNCHANGED <<chain, up, call, at, doing, pc, undoing>>
  BY DEF ThreadReturns
<1>2. \A k : /\ Whole(k) => Whole(k)'
             /\ Down(k) => Down(k)'
             /\ Busy(k) => Busy(k)'
  BY <1>1 DEF Whole, Down, Busy
<1>3. OthersIntact'
  BY <1>1, <1>2 DEF IntactInv, OthersIntact
<1>4. StartSure'
  <2>1. Sure(chain[at], pc - 1)' = Sure(chain[at], pc - 1)
    BY <1>1 DEF Sure
  <2> QED
    BY <1>1, <2>1 DEF IntactInv, StartSure
<1>5. RestartHolds'
  <2>1. releases' = releases
    BY <1>1 DEF releases
  <2>2. /\ ReleasedFrom(releases, pc)' = ReleasedFrom(releases, pc)
        /\ Got(chain[at], pc - 1)' = Got(chain[at], pc - 1)
    BY <1>1, <2>1 DEF ReleasedFrom, Got
  <2> QED
    BY <1>1, <2>2 DEF IntactInv, RestartHolds
<1>6. UndoOwn'
  BY <1>1 DEF IntactInv, UndoOwn
<1> QED
  BY <1>3, <1>4, <1>5, <1>6, ThreadReturnsIInv DEF IntactInv

\* Initially no stage is enabled.
LEMMA IntactInitially == Init => IntactInv
<1> SUFFICES ASSUME Init PROVE IntactInv
  OBVIOUS
<1>1. up = 0 /\ call = "none"
  BY DEF Init
<1> QED
  BY <1>1, InitIInv DEF IntactInv, OthersIntact, StartSure, UndoOwn, RestartHolds

\* Every step keeps the enabled stages intact.
LEMMA IntactNext == IntactInv /\ [Next]_vars => IntactInv'
<1> SUFFICES ASSUME IntactInv, [Next]_vars PROVE IntactInv'
  OBVIOUS
<1>1. CASE Enable BY <1>1, EnableIntact
<1>2. CASE \E n \in 0..(Len(chain) - 1) : Disable(n) BY <1>2, DisableIntact
<1>3. CASE \E k \in 1..Len(chain) : Restart(k) BY <1>3, RestartIntact
<1>4. CASE Succeeds BY <1>4, SucceedsIntact
<1>5. CASE FailsLogged BY <1>5, FailsLoggedIntact
<1>6. CASE Throws BY <1>6, ThrowsIntact
<1>7. CASE Started BY <1>7, StartedIntact
<1>8. CASE Release BY <1>8, ReleaseIntact
<1>9. CASE Undone BY <1>9, UndoneIntact
<1>10. CASE Stopped BY <1>10, StoppedIntact
<1>11. CASE ThreadReturns BY <1>11, ThreadReturnsIntact
<1>12. CASE UNCHANGED vars
  <2>1. UNCHANGED <<chain, up, call, at, doing, pc, undoing, held>>
    BY <1>12 DEF vars
  <2>2. OthersIntact'
    BY <2>1, SameIntact DEF IntactInv, OthersIntact, Busy
  <2>3. /\ Sure(chain[at], pc - 1)' = Sure(chain[at], pc - 1)
        /\ Got(chain[at], pc - 1)' = Got(chain[at], pc - 1)
        /\ ReleasedFrom(releases, pc)' = ReleasedFrom(releases, pc)
    BY <2>1 DEF Sure, Got, releases, ReleasedFrom
  <2>4. StartSure' /\ RestartHolds'
    BY <2>1, <2>3 DEF IntactInv, StartSure, RestartHolds
  <2>5. UndoOwn'
    BY <2>1 DEF IntactInv, UndoOwn
  <2>6. IInv'
    BY <1>12, NextIInv DEF IntactInv
  <2> QED
    BY <2>2, <2>4, <2>5, <2>6 DEF IntactInv
<1> QED
  BY <1>1, <1>2, <1>3, <1>4, <1>5, <1>6, <1>7, <1>8, <1>9, <1>10, <1>11, <1>12
  DEF Next

\* The inductive invariant of the enabled stages.
THEOREM IntactInvariant == Spec => []IntactInv
BY IntactInitially, IntactNext, PTL DEF Spec

\* Stage scripts of any platform, whatever fails in whatever call: a stage that
\* counts as enabled has all that it needs, or is down after two failed restarts.
THEOREM AlwaysUpIsComplete == Spec => []UpIsComplete
<1>1. IntactInv => UpIsComplete
  BY DEF IntactInv, OthersIntact, Busy, Whole, Down, UpIsComplete
<1> QED
  BY <1>1, IntactInvariant, PTL

-----------------------------------------------------------------------------
(* Nothing in use disappears.                                              *)

NeedsInv == IntactInv /\ LostHarmless /\ UsedIsThere

\* The parts of the invariant that the steps below start from.
LEMMA NeedsParts ==
    ASSUME NeedsInv
    PROVE  /\ IntactInv /\ IInv /\ TypeOK /\ CallFits /\ HeldAccounted
           /\ chain \in Chains /\ at \in 1..Len(chain) /\ Len(chain) \in Nat
           /\ up \in 0..Len(chain) /\ pc \in Nat \ {0}
           /\ "dev" \notin lost
<1>1. IntactInv /\ IInv /\ TypeOK /\ CallFits /\ HeldAccounted
  BY DEF NeedsInv, IntactInv, IInv
<1>2. chain \in Chains /\ at \in 1..Len(chain) /\ up \in 0..Len(chain) /\ pc \in Nat \ {0}
  BY <1>1 DEF TypeOK
<1>3. Len(chain) \in Nat
  BY <1>1, <1>2, ScriptsTyped
<1>4. "dev" \notin lost
  BY DEF NeedsInv, LostHarmless
<1> QED
  BY <1>1, <1>2, <1>3, <1>4

\* The owned things are those of the stages.
LEMMA OwnedBySome ==
    ASSUME NEW n, NEW r \in Owned(n)
    PROVE  \E k \in 1..n : r \in Gets(chain[k])
BY DEF Owned

\* What is certain is obtained.
LEMMA SureGets ==
    ASSUME NEW s, NEW i \in 1..Len(s.start)
    PROVE  Sure(s, i) \subseteq Gets(s)
BY DEF Sure, Gets, Got

\* Where no releases are left, nothing is joined late.
LEMMA NotLate ==
    ASSUME TypeOK, ~Releasing \/ pc > Len(releases)
    PROVE  ~LateJoin
<1>1. pc > Len(releases) => ReleasedFrom(releases, pc) = {}
  BY ReleasesTyped, ReleasedAll DEF TypeOK
<1> QED
  BY <1>1 DEF LateJoin

\* Steps that hold the same and lose no less, from where nothing is joined late.
LEMMA SameNeeds ==
    ASSUME UsedIsThere, ~LateJoin, chain' = chain, held' = held, lost \subseteq lost'
    PROVE  UsedIsThere'
<1>1. Owned(Len(chain))' = Owned(Len(chain))
  BY DEF Owned
<1> QED
  BY <1>1 DEF UsedIsThere

\* What a step obtains finds what it uses: the script, or a stage below, has it.
LEMMA SucceedsNeeds ==
    ASSUME NeedsInv, Succeeds
    PROVE  LostHarmless' /\ UsedIsThere'
<1>1. /\ Starting /\ call # "none" /\ doing = "start"
      /\ held' = (held \ step.frees) \cup step.gets /\ lost' = lost \ step.gets
      /\ pc' = pc + 1
      /\ UNCHANGED <<chain, up, call, at, doing>>
  BY DEF Succeeds, Starting
<1>2. /\ IntactInv /\ IInv /\ TypeOK /\ CallFits /\ chain \in Chains /\ at \in 1..Len(chain)
      /\ Len(chain) \in Nat /\ up \in 0..Len(chain)
  BY NeedsParts
<1>3. pc \in 1..Len(chain[at].start) /\ step = chain[at].start[pc]
  BY <1>1, <1>2, StepTyped DEF step
<1>4. ~LateJoin
  BY <1>1, <1>2, NotLate DEF Releasing
<1>5. OthersIntact' /\ StartSure'
  BY <1>2, SucceedsIntact DEF IntactInv
<1>6. Sure(chain[at], pc) \ {"run"} \subseteq held'
  <2>1. Sure(chain[at], pc - 1)' = Sure(chain'[at'], pc' - 1)
    BY DEF Sure
  <2>2. pc' - 1 = pc
    BY <1>1, <1>3
  <2> QED
    BY <1>1, <1>5, <2>1, <2>2 DEF StartSure
<1>7. ASSUME NEW j \in 1..(at - 1), ~chain[j].restarts
      PROVE  Required(chain[j]) \ {"run"} \subseteq held'
  <2>1. j \in 1..up /\ j # at
    <3>1. at = up + 1 \/ (call = "restart" /\ at <= up)
      BY <1>1, <1>2, WhoStarts DEF CallFits
    <3>2. at \in Nat /\ up \in Nat
      BY <1>2
    <3> QED
      BY <3>1, <3>2
  <2>2. Whole(j)'
    BY <1>1, <1>5, <1>7, <2>1 DEF OthersIntact, Busy, Down
  <2> QED
    BY <1>1, <2>2 DEF Whole
<1>8. ASSUME NEW n \in Needs, n[1] \in held' \ lost', n[2] \in Owned(Len(chain))
      PROVE  n[2] \in held'
  <2>1. /\ n[1] \in step.gets =>
             \/ n[2] \in Sure(chain[at], pc)
             \/ \E j \in 1..(at - 1) : n[2] \in Required(chain[j]) /\ ~chain[j].restarts
             \/ \A j \in 1..Len(chain) : n[2] \notin Gets(chain[j])
        /\ n[2] \in step.frees => n[1] \in step.frees
    BY <1>2, <1>3, OrderAssumption
  <2>2. CASE n[1] \in step.gets
    <3>1. \E j \in 1..Len(chain) : n[2] \in Gets(chain[j])
      BY <1>8, OwnedBySome
    <3> QED
      BY <1>6, <1>7, <2>1, <2>2, <3>1, OrderAssumption
  <2>3. CASE n[1] \notin step.gets
    <3>1. n[1] \in held \ lost /\ n[1] \notin step.frees
      BY <1>1, <1>8, <2>3
    <3>2. n[2] \in held
      BY <1>4, <1>8, <3>1 DEF NeedsInv, UsedIsThere
    <3> QED
      BY <1>1, <2>1, <3>1, <3>2
  <2> QED
    BY <2>2, <2>3
<1>9. UsedIsThere'
  <2>1. Owned(Len(chain))' = Owned(Len(chain))
    BY <1>1 DEF Owned
  <2> QED
    BY <1>8, <2>1 DEF UsedIsThere
<1> QED
  BY <1>1, <1>9 DEF NeedsInv, LostHarmless

\* What is held and not lost, and neither below the stage that gives back nor
\* obtained by it, is at a stage above one that is restarted.
LEMMA UserWhere ==
    ASSUME NeedsInv, Releasing, NEW u \in held \ lost
    PROVE  \/ u \in ReleasedFrom(releases, pc)
           \/ \E m \in 1..Len(chain) :
                u \in Gets(chain[m]) /\ m # at /\ (m < at \/ call = "restart")
<1>1. /\ IntactInv /\ TypeOK /\ CallFits /\ HeldAccounted /\ at \in 1..Len(chain)
      /\ Len(chain) \in Nat /\ up \in 0..Len(chain)
  BY NeedsParts
<1>2. call # "none" /\ doing # "start"
  BY DEF Releasing
<1>3. CASE call = "restart"
  <2>1. u \in Owned(up)
    BY <1>1, <1>3 DEF HeldAccounted, Settled, Pending
  <2>2. PICK m \in 1..up : u \in Gets(chain[m])
    BY <2>1, OwnedBySome
  <2>3. CASE m = at
    BY <1>2, <1>3, <2>2, <2>3 DEF IntactInv, RestartHolds, NeedsInv
  <2>4. CASE m # at
    BY <1>1, <1>3, <2>2, <2>4
  <2> QED
    BY <2>3, <2>4
<1>4. CASE call # "restart"
  <2>1. u \in Owned(Settled) \/ u \in ReleasedFrom(releases, pc)
    BY <1>1, <1>2, <1>4 DEF HeldAccounted, Pending
  <2>2. Settled = at - 1
    BY <1>1, <1>2, <1>4 DEF Settled, CallFits, TypeOK
  <2>3. CASE u \in Owned(at - 1)
    <3>1. PICK m \in 1..(at - 1) : u \in Gets(chain[m])
      BY <2>3, OwnedBySome
    <3>2. m \in 1..Len(chain) /\ m # at /\ m < at
      BY <1>1
    <3> QED
      BY <3>1, <3>2
  <2> QED
    BY <2>1, <2>2, <2>3
<1> QED
  BY <1>3, <1>4

\* What is given back is not used any more: its users are of the same stage, for
\* those above are down, and have been given back before.
LEMMA ReleaseNeeds ==
    ASSUME NeedsInv, Release
    PROVE  LostHarmless' /\ UsedIsThere'
<1>1. /\ Releasing /\ pc <= Len(releases)
      /\ held' = held \ releases[pc] /\ lost' = lost \ releases[pc]
      /\ "thread" \in releases[pc] => "run" \notin held
      /\ pc' = pc + 1
      /\ UNCHANGED <<chain, call, at, doing, undoing>>
  BY DEF Release
<1>2. /\ IntactInv /\ TypeOK /\ chain \in Chains /\ at \in 1..Len(chain)
      /\ Len(chain) \in Nat /\ pc \in Nat \ {0} /\ Len(releases) \in Nat
      /\ "dev" \notin lost
  BY NeedsParts, ReleasesTyped
<1>3. pc \in 1..Len(releases)
  BY <1>1, <1>2
<1>4. releases' = releases /\ (Releasing' <=> Releasing)
  BY <1>1 DEF releases, Releasing
<1>5. ReleasedFrom(releases, pc)' = ReleasedFrom(releases, pc + 1)
  BY <1>1, <1>4 DEF ReleasedFrom
<1>6. ReleasedFrom(releases, pc) = releases[pc] \cup ReleasedFrom(releases, pc + 1)
  BY <1>1, <1>2, ReleasedStep
<1>7. ASSUME NEW n \in Needs, n[1] \in held' \ lost', n[2] \in Owned(Len(chain)),
             n[2] \notin held'
      PROVE  n = <<"run", "library">> /\ LateJoin'
  <2>1. n[1] \in held \ lost /\ n[1] \notin releases[pc]
    BY <1>1, <1>7
  <2>2. CASE n[2] \notin held
    <3>1. n = <<"run", "library">> /\ LateJoin
      BY <1>7, <2>1, <2>2 DEF NeedsInv, UsedIsThere
    <3>2. n[1] = "run"
      BY <3>1
    <3>3. "thread" \in ReleasedFrom(releases, pc + 1)
      BY <1>1, <1>6, <2>1, <3>1, <3>2 DEF LateJoin
    <3> QED
      BY <1>1, <1>4, <1>5, <3>1, <3>3 DEF LateJoin
  <2>3. CASE n[2] \in held
    <3>1. n[2] \in releases[pc]
      BY <1>1, <1>7, <2>3
    <3>2. n[2] \in Gets(chain[at])
      <4>1. PICK j \in 1..Len(chain) : n[2] \in Gets(chain[j])
        BY <1>7, OwnedBySome
      <4>2. n[2] \in Touches(chain[at])
        BY <1>1, <1>2, <3>1, ReleaseOwn
      <4> QED
        BY <1>2, <4>1, <4>2, Separate
    <3>3. ASSUME NEW m \in 1..Len(chain), n[1] \in Gets(chain[m]), m # at,
                 m < at \/ call = "restart"
          PROVE  FALSE
      <4>1. PICK i \in 1..Len(chain[m].start) : n[1] \in chain[m].start[i].gets
        BY <3>3 DEF Gets, Got
      <4>2. \/ n[2] \in Sure(chain[m], i)
            \/ \E j \in 1..(m - 1) : n[2] \in Required(chain[j]) /\ ~chain[j].restarts
        BY <1>2, <3>2, <4>1, OrderAssumption
      <4>3. \A j \in 1..Len(chain) : n[2] \in Gets(chain[j]) => j = at
        BY <1>2, <3>2, Separate
      <4>4. n[2] \notin Sure(chain[m], i)
        BY <3>3, <4>3, SureGets
      <4>5. PICK j \in 1..(m - 1) : n[2] \in Required(chain[j]) /\ ~chain[j].restarts
        BY <4>2, <4>4
      <4>6. j = at /\ j < m
        BY <1>2, <4>3, <4>5, RequiredGets
      <4>7. call = "restart" => chain[at].restarts
        BY <1>2 DEF IntactInv, RestartHolds
      <4> QED
        BY <1>2, <3>3, <4>5, <4>6, <4>7
    <3>4. n[1] \in ReleasedFrom(releases, pc)
      BY <1>1, <2>1, <3>3, UserWhere
    <3>5. PICK q \in pc..Len(releases) : n[1] \in releases[q]
      BY <3>4 DEF ReleasedFrom
    <3>6. ~UsedLast(n, releases)
      <4>1. q \in 1..Len(releases) /\ ~(q <= pc)
        BY <1>3, <2>1, <3>5
      <4> QED
        BY <1>3, <3>1, <3>5, <4>1 DEF UsedLast
    <3>7. doing = "stop"
      <4>1. doing # "undo"
        <5> SUFFICES ASSUME doing = "undo" PROVE FALSE
          OBVIOUS
        <5>1. PICK i \in 1..Len(chain[at].start) : undoing = chain[at].start[i].undo
          BY <1>1, <1>2 DEF IntactInv, UndoOwn, Releasing
        <5>2. UsedLast(n, chain[at].start[i].undo)
          BY <1>2, OrderAssumption
        <5>3. releases = chain[at].start[i].undo
          BY <5>1 DEF releases
        <5> QED
          BY <3>6, <5>2, <5>3
      <4> QED
        BY <1>1, <1>2, <4>1 DEF Releasing, TypeOK
    <3>8. releases = chain[at].stop
      BY <3>7 DEF releases
    <3>9. n = <<"run", "library">> /\ JoinsLate(chain, at)
      <4>1. UsedLast(n, chain[at].stop) \/ (n = <<"run", "library">> /\ JoinsLate(chain, at))
        BY <1>2, OrderAssumption
      <4> QED
        BY <3>6, <3>8, <4>1
    <3>10. "thread" \in ReleasedFrom(releases, pc + 1)
      <4>1. n[2] = "library"
        BY <3>9
      <4> QED
        BY <1>3, <3>1, <3>8, <3>9, <4>1 DEF JoinsLate
    <3>11. "dev" \notin held
      <4> SUFFICES ASSUME "dev" \in held PROVE FALSE
        OBVIOUS
      <4>1. "dev" \in held \ lost
        BY <1>2
      <4>2. call # "restart"
        BY <1>2, <3>9 DEF IntactInv, RestartHolds, JoinsLate
      <4>3. "dev" \notin ReleasedFrom(releases, pc)
        <5>1. ReleasedFrom(releases, pc) \subseteq ReleasedFrom(releases, 1)
          BY <1>2 DEF ReleasedFrom
        <5> QED
          BY <3>8, <3>9, <5>1 DEF JoinsLate
      <4>4. PICK m \in 1..Len(chain) : "dev" \in Gets(chain[m]) /\ m < at
        BY <1>1, <4>1, <4>2, <4>3, UserWhere
      <4> QED
        BY <1>2, <3>9, <4>4 DEF JoinsLate
    <3> QED
      BY <1>1, <1>4, <1>5, <3>9, <3>10, <3>11 DEF LateJoin
  <2> QED
    BY <2>2, <2>3
<1>8. UsedIsThere'
  <2>1. Owned(Len(chain))' = Owned(Len(chain))
    BY <1>1 DEF Owned
  <2> QED
    BY <1>7, <2>1 DEF UsedIsThere
<1> QED
  BY <1>1, <1>8 DEF NeedsInv, LostHarmless

\* A throw loses what it leaves behind.
LEMMA ThrowsNeeds ==
    ASSUME NeedsInv, Throws
    PROVE  LostHarmless' /\ UsedIsThere'
<1>1. /\ Starting /\ doing = "start" /\ step.throws
      /\ lost' = lost \cup ((held \cap Got(chain[at], pc - 1)) \ ReleasedFrom(step.undo, 1))
      /\ UNCHANGED <<chain, held>>
  BY DEF Throws, Starting
<1>2. TypeOK /\ chain \in Chains /\ at \in 1..Len(chain)
  BY NeedsParts
<1>3. pc \in 1..Len(chain[at].start) /\ step = chain[at].start[pc]
  BY <1>1, <1>2, StepTyped DEF step
<1>4. Left(chain[at], pc) \cap (Created \cup {"dev"}) \subseteq {"pipe"}
  BY <1>1, <1>2, <1>3, LeftAssumption
<1>5. lost' \subseteq lost \cup Left(chain[at], pc)
  BY <1>1, <1>3 DEF Left
<1>6. LostHarmless'
  BY <1>4, <1>5 DEF NeedsInv, LostHarmless
<1>7. ~LateJoin
  BY <1>1, <1>2, NotLate DEF Releasing
<1> QED
  BY <1>1, <1>6, <1>7, SameNeeds DEF NeedsInv

\* HI_MPI_ISP_Run() returns: the thread uses nothing any more.
LEMMA ThreadReturnsNeeds ==
    ASSUME NeedsInv, ThreadReturns
    PROVE  LostHarmless' /\ UsedIsThere'
<1>1. /\ held' = held \ {"run"} /\ lost' = lost \ {"run"}
      /\ UNCHANGED <<chain, call, at, doing, pc, undoing>>
  BY DEF ThreadReturns
<1>2. releases' = releases /\ (Releasing' <=> Releasing)
  BY <1>1 DEF releases, Releasing
<1>3. LateJoin => LateJoin'
  BY <1>1, <1>2 DEF LateJoin, ReleasedFrom
<1>4. Owned(Len(chain))' = Owned(Len(chain))
  BY <1>1 DEF Owned
<1>5. UsedIsThere'
  BY <1>1, <1>3, <1>4, OrderAssumption DEF NeedsInv, UsedIsThere
<1> QED
  BY <1>1, <1>5 DEF NeedsInv, LostHarmless

\* The inductive invariant of what is used.
THEOREM NeedsInvariant == Spec => []NeedsInv
<1>1. Init => NeedsInv
  <2> SUFFICES ASSUME Init PROVE NeedsInv
    OBVIOUS
  <2>1. held = {} /\ lost = {}
    BY DEF Init
  <2>2. LostHarmless /\ UsedIsThere
    BY <2>1 DEF LostHarmless, UsedIsThere
  <2> QED
    BY <2>2, IntactInitially DEF NeedsInv
<1>2. NeedsInv /\ [Next]_vars => NeedsInv'
  <2> SUFFICES ASSUME NeedsInv, [Next]_vars PROVE NeedsInv'
    OBVIOUS
  <2>1. IntactInv'
    BY IntactNext DEF NeedsInv
  <2>2. CASE Succeeds BY <2>1, <2>2, SucceedsNeeds DEF NeedsInv
  <2>3. CASE Throws BY <2>1, <2>3, ThrowsNeeds DEF NeedsInv
  <2>4. CASE Release BY <2>1, <2>4, ReleaseNeeds DEF NeedsInv
  <2>5. CASE ThreadReturns BY <2>1, <2>5, ThreadReturnsNeeds DEF NeedsInv
  <2>6. ASSUME ~LateJoin, UNCHANGED <<chain, held, lost>> PROVE NeedsInv'
    BY <2>1, <2>6, SameNeeds DEF NeedsInv, LostHarmless
  <2>7. TypeOK
    BY NeedsParts
  <2>8. CASE Enable BY <2>6, <2>7, <2>8, NotLate DEF Enable, Releasing
  <2>9. CASE \E n \in 0..(Len(chain) - 1) : Disable(n)
    BY <2>6, <2>7, <2>9, NotLate DEF Disable, Releasing
  <2>10. CASE \E k \in 1..Len(chain) : Restart(k)
    BY <2>6, <2>7, <2>10, NotLate DEF Restart, Releasing
  <2>11. CASE FailsLogged BY <2>6, <2>7, <2>11, NotLate DEF FailsLogged, Starting, Releasing
  <2>12. CASE Started BY <2>6, <2>7, <2>12, NotLate DEF Started, Releasing
  <2>13. CASE Undone BY <2>6, <2>7, <2>13, NotLate DEF Undone
  <2>14. CASE Stopped BY <2>6, <2>7, <2>14, NotLate DEF Stopped
  <2>15. CASE UNCHANGED vars
    <3>1. UNCHANGED <<chain, held, lost, call, doing, at, pc, undoing>>
      BY <2>15 DEF vars
    <3>2. (LateJoin' <=> LateJoin) /\ Owned(Len(chain))' = Owned(Len(chain))
      BY <3>1 DEF LateJoin, Releasing, releases, ReleasedFrom, Owned
    <3>3. UsedIsThere' /\ LostHarmless'
      BY <3>1, <3>2 DEF NeedsInv, UsedIsThere, LostHarmless
    <3> QED
      BY <2>1, <3>3 DEF NeedsInv
  <2> QED
    BY <2>2, <2>3, <2>4, <2>5, <2>8, <2>9, <2>10, <2>11, <2>12, <2>13, <2>14, <2>15
    DEF Next
<1> QED
  BY <1>1, <1>2, PTL DEF Spec

\* Stage scripts of any platform: at no step of a start, a failing start, a stop
\* or a restart is something gone that is in use, but for the ISP thread that is
\* joined late.
THEOREM AlwaysUsedIsThere == Spec => []UsedIsThere
<1>1. NeedsInv => UsedIsThere
  BY DEF NeedsInv
<1> QED
  BY <1>1, NeedsInvariant, PTL

\* What throws have left behind, over any number of failing starts, lets the
\* next start go ahead, unless it is the pipe.
THEOREM RetryAlwaysPossible == Spec => []RetryBlockedOnlyByPipe
<1>1. NeedsInv => RetryBlockedOnlyByPipe
  BY DEF NeedsInv, LostHarmless, RetryBlockedOnlyByPipe
<1> QED
  BY <1>1, NeedsInvariant, PTL
=============================================================================
