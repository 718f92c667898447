------------------------- MODULE CombatStateProofs -------------------------
(***************************************************************************)
(* Theorems about CombatState, for every set of hit types and statuses and  *)
(* every rule a configuration can hold.                                     *)
(***************************************************************************)
EXTENDS CombatState, TLAPS

TimerTypeOK ==
    /\ statuses \subseteq Statuses
    /\ expires_at \in [Statuses -> Nat]
    /\ next_tick_at \in [Statuses -> Nat]
    /\ since \in [Statuses -> Nat]
    /\ ticked \in [Statuses -> Nat]

(* What s has dealt was due, its next tick lies a full interval after the   *)
(* last one, and all of it happened before the expiry.                      *)
PacedTimer(s) ==
    /\ since[s] <= now
    /\ since[s] + ticked[s] <= now
    /\ TickSeconds[s] > 0 => since[s] + ticked[s] + TickSeconds[s] <= next_tick_at[s]
    /\ ticked[s] > 0 => since[s] + ticked[s] < expires_at[s]

Paced ==
    /\ \A s \in statuses : PacedTimer(s)
    /\ \A s \in Statuses \ statuses : ticked[s] = 0

(* The last damaging hit of the session still protects. *)
Shielded ==
    last_hit # Never => last_hit <= now /\ last_hit + Invulnerability <= invulnerable_until

SwitchedOffClean == ClearWhenDisabled /\ ~combat_enabled => statuses = {}
----------------------------------------------------------------------------
(* Dropping timers keeps the types of the rest. *)
LEMMA DropTimersType ==
    ASSUME TimerTypeOK, NEW S, DropTimers(S)
    PROVE  TimerTypeOK'
BY DEF TimerTypeOK, DropTimers, Without

(* Python's round() is a natural number on natural arguments, within one of *)
(* the quotient.                                                            *)
LEMMA RoundedNat ==
    ASSUME NEW n \in Nat, NEW d \in Nat \ {0}
    PROVE  Rounded(n, d) \in Nat
<1> DEFINE q == n \div d
<1>1. q \in Nat
  BY SMT
<1>2. Rounded(n, d) = q \/ Rounded(n, d) = q + 1
  BY DEF Rounded
<1> QED
  BY <1>1, <1>2

(* Rescaling to the same maximum changes nothing. *)
LEMMA RoundedSame ==
    ASSUME NEW h \in Nat, NEW m \in Nat \ {0}
    PROVE  Rounded(h * m, m) = h
<1>1. (h * m) \div m = h /\ (h * m) % m = 0
  BY SMT
<1> QED
  BY <1>1 DEF Rounded

(* A revive restores at most the maximum. *)
LEMMA RoundedPercent ==
    ASSUME NEW m \in Nat \ {0}, NEW p \in 1..100
    PROVE  Rounded(m * p, 100) \in 0..m
<1> DEFINE n == m * p
           q == n \div 100
           r == n % 100
<1>1. n \in Nat /\ n <= m * 100
  BY SMT
<1>2. q \in Nat /\ r \in 0..99 /\ n = q * 100 + r
  BY <1>1, SMT
<1>3. q < m \/ (q = m /\ r = 0)
  BY <1>1, <1>2, SMT
<1>4. Rounded(n, 100) = q \/ (Rounded(n, 100) = q + 1 /\ r # 0)
  BY <1>2 DEF Rounded
<1> QED
  BY <1>2, <1>3, <1>4

(* A timer that is ticking owes at least one tick, and the last tick it     *)
(* owes is not in the future.                                               *)
LEMMA DueTicksBound ==
    ASSUME CombatAssumption, TypeOK, NEW s \in Ticking
    PROVE  /\ DueTicks(s) \in Nat \ {0}
           /\ \A n \in 1..DueTicks(s) : next_tick_at[s] + n * TickSeconds[s] - TickSeconds[s] <= now
<1> DEFINE t == TickSeconds[s]
           x == next_tick_at[s]
           last == AtMost(now, expires_at[s] - 1)
           q == (last - x) \div t
<1>1. s \in Statuses /\ t \in Nat \ {0} /\ x \in Nat /\ x <= now /\ now \in Nat
  BY DEF Ticking, Expired, TypeOK, CombatAssumption
<1>2. last = now
  BY DEF Ticking, Expired, TypeOK, AtMost
<1>3. q \in Nat /\ q * t <= now - x
  BY <1>1, <1>2, SMT
<1>4. DueTicks(s) = q + 1
  BY DEF DueTicks
<1>5. ASSUME NEW n \in 1..(q + 1)
      PROVE  x + n * t - t <= now
  <2>1. n - 1 \in Nat /\ n - 1 <= q
    BY <1>3
  <2>2. (n - 1) * t <= q * t
    BY <2>1, <1>1, <1>3, SMT
  <2>3. (n - 1) * t = n * t - t
    BY <2>1, <1>1, SMT
  <2> HIDE DEF q
  <2> QED
    BY <2>2, <2>3, <1>1, <1>3, SMT
<1> HIDE DEF q
<1> QED
  BY <1>1, <1>3, <1>4, <1>5
----------------------------------------------------------------------------
(* What one call of tick() makes of the timers, whichever ran dry. *)
LEMMA TakeTicksTimers ==
    ASSUME CombatAssumption, TypeOK,
           NEW taken, DOMAIN taken \subseteq Ticking,
           \A s \in DOMAIN taken : taken[s] \in 1..DueTicks(s),
           TakeTicks(taken)
    PROVE  /\ TimerTypeOK'
           /\ Paced => Paced'
<1>1. \A s \in DOMAIN taken :
          /\ s \in Statuses \ Expired
          /\ taken[s] \in Nat
          /\ TickSeconds[s] \in Nat
          /\ taken[s] * TickSeconds[s] \in Nat
          /\ next_tick_at[s] + taken[s] * TickSeconds[s] - TickSeconds[s] <= now
  <2> SUFFICES ASSUME NEW s \in DOMAIN taken
               PROVE  /\ s \in Statuses \ Expired
                      /\ taken[s] \in Nat
                      /\ TickSeconds[s] \in Nat
                      /\ taken[s] * TickSeconds[s] \in Nat
                      /\ next_tick_at[s] + taken[s] * TickSeconds[s] - TickSeconds[s] <= now
    OBVIOUS
  <2>1. s \in Ticking /\ s \in Statuses \ Expired /\ TickSeconds[s] \in Nat
    BY DEF Ticking, TypeOK, CombatAssumption
  <2>2. taken[s] \in 1..DueTicks(s) /\ DueTicks(s) \in Nat
    BY <2>1, DueTicksBound
  <2>3. next_tick_at[s] + taken[s] * TickSeconds[s] - TickSeconds[s] <= now
    BY <2>1, <2>2, DueTicksBound
  <2>4. taken[s] * TickSeconds[s] \in Nat
    BY <2>1, <2>2, SMT
  <2> QED
    BY <2>1, <2>2, <2>3, <2>4
<1>2. ASSUME NEW timer \in [Statuses -> Nat]
      PROVE  Advanced(timer, taken) \in [Statuses -> Nat]
  BY <1>1 DEF Advanced
<1>3. TimerTypeOK'
  BY <1>2 DEF TimerTypeOK, TakeTicks, TypeOK, Without
<1>4. ASSUME Paced, NEW s \in statuses'
      PROVE  PacedTimer(s)'
  <2>1. s \in statuses /\ s \in Statuses /\ s \notin Expired
    BY DEF TakeTicks, TypeOK
  <2>2. now' = now /\ since'[s] = since[s] /\ expires_at'[s] = expires_at[s]
    BY <2>1 DEF TakeTicks, Without, clockVars
  <2>3. PacedTimer(s)
    BY <1>4, <2>1 DEF Paced
  <2>4. CASE s \notin DOMAIN taken
    <3>1. ticked'[s] = ticked[s] /\ next_tick_at'[s] = next_tick_at[s]
      BY <2>1, <2>4 DEF TakeTicks, Advanced
    <3> QED
      BY <3>1, <2>2, <2>3 DEF PacedTimer
  <2>5. CASE s \in DOMAIN taken
    <3> DEFINE d == taken[s] * TickSeconds[s]
    <3>1. ticked'[s] = ticked[s] + d /\ next_tick_at'[s] = next_tick_at[s] + d
      BY <2>1, <2>5 DEF TakeTicks, Advanced
    <3>2. d \in Nat /\ next_tick_at[s] + d - TickSeconds[s] <= now
      BY <1>1, <2>5
    <3>3. TickSeconds[s] \in Nat \ {0} /\ now < expires_at[s]
      BY <2>1, <2>5 DEF Ticking, Expired, CombatAssumption, TypeOK
    <3>4. /\ since[s] \in Nat /\ ticked[s] \in Nat /\ next_tick_at[s] \in Nat
          /\ now \in Nat /\ expires_at[s] \in Nat
      BY <2>1 DEF TypeOK
    <3> HIDE DEF d
    <3> QED
      BY <3>1, <3>2, <3>3, <3>4, <2>2, <2>3 DEF PacedTimer
  <2> QED
    BY <2>4, <2>5
<1>5. ASSUME Paced, NEW s \in Statuses \ statuses'
      PROVE  ticked'[s] = 0
  BY <1>5 DEF Paced, TakeTicks, Advanced, Ticking
<1> QED
  BY <1>3, <1>4, <1>5 DEF Paced, TakeTicks, clockVars
----------------------------------------------------------------------------
(* One call of tick() is a choice of how many ticks the due timers took. *)
LEMMA TickTakes ==
    ASSUME CombatAssumption, TypeOK, Tick
    PROVE  \E taken : /\ DOMAIN taken \subseteq Ticking
                      /\ \A s \in DOMAIN taken : taken[s] \in 1..DueTicks(s)
                      /\ TakeTicks(taken)
<1>1. CASE TickUnconscious
  BY <1>1 DEF TickUnconscious
<1>2. CASE TickSurvived
  <2>1. \A s \in Ticking : DueTicks(s) \in 1..DueTicks(s)
    BY DueTicksBound
  <2> DEFINE taken == [s \in Ticking |-> DueTicks(s)]
  <2>2. TakeTicks(taken)
    BY <1>2 DEF TickSurvived
  <2>3. DOMAIN taken = Ticking /\ \A s \in DOMAIN taken : taken[s] = DueTicks(s)
    OBVIOUS
  <2> HIDE DEF taken
  <2> QED
    BY <2>1, <2>2, <2>3
<1>3. ASSUME NEW done \in SUBSET Ticking, NEW last \in Ticking \ done, TickKilled(done, last)
      PROVE  \E taken : /\ DOMAIN taken \subseteq Ticking
                        /\ \A s \in DOMAIN taken : taken[s] \in 1..DueTicks(s)
                        /\ TakeTicks(taken)
  <2>1. PICK n \in 1..DueTicks(last) :
           TakeTicks([s \in done \cup {last} |-> IF s = last THEN n ELSE DueTicks(s)])
    BY <1>3 DEF TickKilled
  <2> DEFINE taken == [s \in done \cup {last} |-> IF s = last THEN n ELSE DueTicks(s)]
  <2>2. \A s \in done : DueTicks(s) \in 1..DueTicks(s)
    BY DueTicksBound
  <2>3. DOMAIN taken \subseteq Ticking /\ \A s \in DOMAIN taken : taken[s] \in 1..DueTicks(s)
    BY <2>2
  <2>4. TakeTicks(taken)
    BY <2>1
  <2> HIDE DEF taken
  <2> QED
    BY <2>3, <2>4
<1> QED
  BY <1>1, <1>2, <1>3 DEF Tick

LEMMA TickHealth ==
    ASSUME TypeOK, Tick
    PROVE  current_hp' \in 0..current_hp
<1>1. current_hp \in Nat
  BY DEF TypeOK
<1>2. CASE TickUnconscious
  BY <1>1, <1>2 DEF TickUnconscious
<1>3. CASE TickSurvived
  <2>1. PICK hp \in 1..current_hp : current_hp' = hp
    BY <1>3 DEF TickSurvived
  <2> QED
    BY <1>1, <2>1
<1>4. ASSUME NEW done, NEW last, TickKilled(done, last)
      PROVE  current_hp' \in 0..current_hp
  <2>1. current_hp' = 0
    BY <1>4 DEF TickKilled
  <2> QED
    BY <1>1, <2>1
<1> QED
  BY <1>2, <1>3, <1>4 DEF Tick
----------------------------------------------------------------------------
LEMMA TypeStep ==
    ASSUME CombatAssumption, TypeOK, [Next]_combatVars
    PROVE  TypeOK'
<1> USE DEF TypeOK, clockVars, healthVars, windowVars, timerVars, mirrorVars
<1>0. TimerTypeOK
  BY DEF TimerTypeOK
<1>1. CASE UNCHANGED combatVars
  BY <1>1 DEF combatVars
<1>2. ASSUME NEW s \in Statuses, NEW active \in BOOLEAN, SetExternalStatus(s, active)
      PROVE  TypeOK'
  <2>1. TimerTypeOK'
    BY <1>0, <1>2, DropTimersType DEF SetExternalStatus, SuspendTimer
  <2> QED
    BY <1>2, <2>1 DEF SetExternalStatus, TimerTypeOK
<1>3. ASSUME NEW names \in SUBSET Tracked, ReplaceAuthoritativeStatuses(names)
      PROVE  TypeOK'
  <2>1. TimerTypeOK'
    BY <1>0, <1>3, DropTimersType DEF ReplaceAuthoritativeStatuses
  <2> QED
    BY <1>3, <2>1 DEF ReplaceAuthoritativeStatuses, TimerTypeOK, CombatAssumption
<1>4. ASSUME NEW enabled \in BOOLEAN, SetCombatEnabled(enabled)
      PROVE  TypeOK'
  <2>1. TimerTypeOK'
    BY <1>0, <1>4, DropTimersType DEF SetCombatEnabled, TimerTypeOK
  <2> QED
    BY <1>4, <2>1 DEF SetCombatEnabled, TimerTypeOK
<1>5. CASE RecordBlock
  BY <1>5 DEF RecordBlock, AtLeast, CombatAssumption
<1>6. ASSUME NEW h \in HitTypes, ManualHit(h)
      PROVE  TypeOK'
  BY <1>6 DEF ManualHit, ApplyHit, HpAfter, AtLeast, CombatAssumption
<1>7. ASSUME NEW s \in Statuses, ApplyStatus(s)
      PROVE  TypeOK'
  BY <1>7 DEF ApplyStatus, FirstTick, CombatAssumption
<1>8. ASSUME NEW S \in SUBSET Statuses, ClearStatuses(S)
      PROVE  TypeOK'
  <2>1. TimerTypeOK'
    BY <1>0, <1>8, DropTimersType DEF ClearStatuses
  <2> QED
    BY <1>8, <2>1 DEF ClearStatuses, TimerTypeOK
<1>9. ASSUME NEW amount \in Heals, Heal(amount)
      PROVE  TypeOK'
  BY <1>9 DEF Heal, Recover, AtMost, CombatAssumption
<1>10. CASE FullHeal
  BY <1>10 DEF FullHeal, Recover
<1>11. ASSUME NEW percent \in Percents, Revive(percent)
       PROVE  TypeOK'
  <2>1. TimerTypeOK'
    BY <1>0, <1>11, DropTimersType DEF Revive
  <2>2. current_hp' \in 0..maximum_hp
    <3>1. percent \in 1..100
      BY DEF CombatAssumption
    <3>2. Rounded(maximum_hp * percent, 100) \in 0..maximum_hp
      BY <3>1, RoundedPercent
    <3> QED
      BY <1>11, <3>2 DEF Revive, AtLeast
  <2> QED
    BY <1>11, <2>1, <2>2 DEF Revive, TimerTypeOK, CombatAssumption
<1>12. ASSUME NEW hp \in 0..maximum_hp, SetHp(hp)
       PROVE  TypeOK'
  BY <1>12 DEF SetHp, Clamped, AtMost, AtLeast
<1>13. ASSUME NEW maximum \in Maxima, NEW preserve_ratio \in BOOLEAN,
              Reconfigure(maximum, preserve_ratio)
       PROVE  TypeOK'
  <2>1. current_hp * maximum \in Nat
    BY DEF CombatAssumption
  <2>2. Rounded(current_hp * maximum, maximum_hp) \in Nat
    BY <2>1, RoundedNat
  <2> QED
    BY <1>13, <2>2 DEF Reconfigure, Rescaled, AtMost, CombatAssumption
<1>14. CASE Tick
  <2>1. PICK taken : /\ DOMAIN taken \subseteq Ticking
                     /\ \A s \in DOMAIN taken : taken[s] \in 1..DueTicks(s)
                     /\ TakeTicks(taken)
    BY <1>14, TickTakes
  <2>2. TimerTypeOK'
    BY <2>1, TakeTicksTimers
  <2>3. current_hp' \in 0..current_hp
    BY <1>14, TickHealth
  <2> QED
    BY <2>1, <2>2, <2>3 DEF TakeTicks, TimerTypeOK
<1>15. CASE Advance
  BY <1>15 DEF Advance
<1> QED
  BY <1>1, <1>2, <1>3, <1>4, <1>5, <1>6, <1>7, <1>8, <1>9, <1>10, <1>11, <1>12, <1>13, <1>14, <1>15
     DEF Next, Mirroring, Fighting, Recovering
----------------------------------------------------------------------------
(* Dropping timers and starting or refreshing one keep the rest paced. *)
LEMMA DropTimersPaced ==
    ASSUME TypeOK, Paced, NEW S, DropTimers(S), now' = now
    PROVE  Paced'
BY DEF Paced, PacedTimer, DropTimers, Without, TypeOK

LEMMA ApplyStatusPaced ==
    ASSUME CombatAssumption, TypeOK, Paced, NEW s \in Statuses, ApplyStatus(s)
    PROVE  Paced'
<1>1. /\ statuses' = statuses \cup {s} /\ now' = now /\ ticked' = ticked
      /\ \A r \in Statuses \ {s} : /\ since'[r] = since[r]
                                    /\ next_tick_at'[r] = next_tick_at[r]
                                    /\ expires_at'[r] = expires_at[r]
      /\ expires_at'[s] = now + Duration[s]
      /\ since'[s] = IF s \in statuses THEN since[s] ELSE now
      /\ next_tick_at'[s] = IF KeepsCadence(s) THEN next_tick_at[s] ELSE now + TickSeconds[s]
  BY DEF ApplyStatus, FirstTick, clockVars, TypeOK
<1>2. TickSeconds[s] \in Nat /\ Duration[s] \in Nat \ {0}
  BY DEF CombatAssumption
<1>3. /\ since[s] \in Nat /\ ticked[s] \in Nat /\ next_tick_at[s] \in Nat /\ now \in Nat
  BY DEF TypeOK
<1>4. PacedTimer(s)'
  <2>1. CASE s \in statuses
    <3>1. PacedTimer(s)
      BY <2>1 DEF Paced
    <3> QED
      BY <3>1, <2>1, <1>1, <1>2, <1>3 DEF PacedTimer
  <2>2. CASE s \notin statuses
    <3>1. ticked[s] = 0 /\ ~KeepsCadence(s)
      BY <2>2 DEF Paced, KeepsCadence
    <3> QED
      BY <3>1, <2>2, <1>1, <1>2, <1>3 DEF PacedTimer
  <2> QED
    BY <2>1, <2>2
<1>5. ASSUME NEW r \in statuses \ {s}
      PROVE  PacedTimer(r)'
  BY <1>1 DEF Paced, PacedTimer, TypeOK
<1> QED
  BY <1>1, <1>4, <1>5 DEF Paced

(* Every action treats the timers in one of five ways. *)
LEMMA TimerActions ==
    ASSUME CombatAssumption, TypeOK, [Next]_combatVars
    PROVE  \/ UNCHANGED timerVars /\ now' \in {now, now + 1} /\ disowned' = disowned
           \/ /\ now' = now
              /\ \E S \in SUBSET Statuses : DropTimers(S) /\ disowned' \subseteq disowned \cup S
           \/ \E s \in Statuses : ApplyStatus(s)
           \/ /\ disowned' = disowned
              /\ \E taken : /\ DOMAIN taken \subseteq Ticking
                            /\ \A s \in DOMAIN taken : taken[s] \in 1..DueTicks(s)
                            /\ TakeTicks(taken)
<1> USE DEF mirrorVars, clockVars
<1>1. CASE UNCHANGED combatVars
  BY <1>1 DEF combatVars
<1>2. ASSUME NEW s \in Statuses, NEW active \in BOOLEAN, SetExternalStatus(s, active)
      PROVE  /\ now' = now
             /\ \E S \in SUBSET Statuses : DropTimers(S) /\ disowned' \subseteq disowned \cup S
  BY <1>2 DEF SetExternalStatus, SuspendTimer
<1>3. ASSUME NEW names \in SUBSET Tracked, ReplaceAuthoritativeStatuses(names)
      PROVE  /\ now' = now
             /\ \E S \in SUBSET Statuses : DropTimers(S) /\ disowned' \subseteq disowned \cup S
  BY <1>3 DEF ReplaceAuthoritativeStatuses, CombatAssumption
<1>4. ASSUME NEW enabled \in BOOLEAN, SetCombatEnabled(enabled)
      PROVE  /\ now' = now /\ disowned' = disowned
             /\ UNCHANGED timerVars \/ DropTimers(Statuses)
  BY <1>4 DEF SetCombatEnabled
<1>5. ASSUME NEW S \in SUBSET Statuses, ClearStatuses(S)
      PROVE  now' = now /\ disowned' = disowned /\ DropTimers(S)
  BY <1>5 DEF ClearStatuses
<1>6. ASSUME NEW percent \in Percents, Revive(percent)
      PROVE  now' = now /\ disowned' = disowned /\ DropTimers(Statuses)
  BY <1>6 DEF Revive
<1>7. CASE RecordBlock \/ (\E h \in HitTypes : ManualHit(h))
           \/ (\E amount \in Heals : Heal(amount)) \/ FullHeal
           \/ (\E hp \in 0..maximum_hp : SetHp(hp))
           \/ (\E maximum \in Maxima, preserve_ratio \in BOOLEAN : Reconfigure(maximum, preserve_ratio))
  BY <1>7 DEF RecordBlock, ManualHit, ApplyHit, Heal, FullHeal, Recover, SetHp, Reconfigure
<1>8. CASE Tick
  BY <1>8, TickTakes DEF TakeTicks
<1>9. CASE Advance
  BY <1>9 DEF Advance
<1> QED
  BY <1>1, <1>2, <1>3, <1>4, <1>5, <1>6, <1>7, <1>8, <1>9 DEF Next, Mirroring, Fighting, Recovering

LEMMA TimersStep ==
    ASSUME CombatAssumption, TypeOK, Paced, TimerOwnership, [Next]_combatVars
    PROVE  Paced' /\ TimerOwnership'
<1>1. CASE UNCHANGED timerVars /\ now' \in {now, now + 1} /\ disowned' = disowned
  BY <1>1 DEF Paced, PacedTimer, TimerOwnership, timerVars, TypeOK
<1>2. ASSUME NEW S \in SUBSET Statuses, now' = now, DropTimers(S), disowned' \subseteq disowned \cup S
      PROVE  Paced' /\ TimerOwnership'
  BY <1>2, DropTimersPaced DEF TimerOwnership, DropTimers
<1>3. ASSUME NEW s \in Statuses, ApplyStatus(s)
      PROVE  Paced' /\ TimerOwnership'
  BY <1>3, ApplyStatusPaced DEF TimerOwnership, ApplyStatus
<1>4. ASSUME NEW taken, DOMAIN taken \subseteq Ticking,
             \A s \in DOMAIN taken : taken[s] \in 1..DueTicks(s),
             TakeTicks(taken), disowned' = disowned
      PROVE  Paced' /\ TimerOwnership'
  BY <1>4, TakeTicksTimers DEF TimerOwnership, TakeTicks
<1> QED
  BY <1>1, <1>2, <1>3, <1>4, TimerActions
----------------------------------------------------------------------------
(* The actions that move the hit points. *)
LEMMA HealthActions ==
    ASSUME [Next]_combatVars, current_hp' # current_hp
    PROVE  \/ \E h \in HitTypes : ManualHit(h)
           \/ \E amount \in Heals : Heal(amount)
           \/ FullHeal
           \/ \E percent \in Percents : Revive(percent)
           \/ \E hp \in 0..maximum_hp : SetHp(hp)
           \/ \E maximum \in Maxima, preserve_ratio \in BOOLEAN : Reconfigure(maximum, preserve_ratio)
           \/ Tick
<1>1. Next
  BY DEF combatVars, healthVars
<1>2. ~Mirroring
  BY DEF Mirroring, SetExternalStatus, ReplaceAuthoritativeStatuses, healthVars
<1>3. Fighting => \E h \in HitTypes : ManualHit(h)
  BY DEF Fighting, SetCombatEnabled, RecordBlock, ApplyStatus, ClearStatuses, healthVars
<1>4. ~Advance
  BY DEF Advance, healthVars
<1> QED
  BY <1>1, <1>2, <1>3, <1>4 DEF Next, Recovering

(* A tick on a switched-off, clean character costs nothing, and the windows *)
(* move only with hits, blocks, revives and the switch itself.              *)
LEMMA TickIdle ==
    ASSUME TypeOK, statuses = {}, Tick
    PROVE  current_hp' = current_hp
<1>1. Ticking = {}
  BY DEF Ticking
<1>2. Loss({}) = 0
  BY DEF Loss, MapThenSumSet, MapThenFoldSet
<1>3. CASE TickUnconscious
  BY <1>3 DEF TickUnconscious
<1>4. CASE TickSurvived
  BY <1>1, <1>2, <1>4 DEF TickSurvived, TypeOK
<1> QED
  BY <1>1, <1>3, <1>4 DEF Tick

(* The switch as the timers see it: whatever removes a timer keeps the set  *)
(* empty, and starting one needs RP combat to be on.                        *)
LEMMA SwitchStep ==
    ASSUME CombatAssumption, TypeOK, SwitchedOffClean, [Next]_combatVars
    PROVE  SwitchedOffClean'
<1> USE DEF SwitchedOffClean
<1>1. CASE combat_enabled' = combat_enabled
  <2>1. statuses' \subseteq statuses \/ combat_enabled
    <3>1. statuses' \subseteq statuses \/ (\E s \in Statuses : ApplyStatus(s))
      BY TimerActions DEF timerVars, DropTimers, TakeTicks
    <3> QED
      BY <3>1 DEF ApplyStatus, AcceptsStatus
  <2> SUFFICES ASSUME ClearWhenDisabled, ~combat_enabled
               PROVE  statuses' = {}
    BY <1>1
  <2>2. statuses = {} /\ statuses' \subseteq statuses
    BY <2>1
  <2> QED
    BY <2>2
<1>2. CASE combat_enabled' # combat_enabled
  <2>1. PICK enabled \in BOOLEAN : SetCombatEnabled(enabled)
    <3>1. combatVars' # combatVars
      BY <1>2 DEF combatVars, windowVars
    <3>2. Next
      BY <3>1
    <3>3. Tick => combat_enabled' = combat_enabled
      BY TickTakes DEF TakeTicks, windowVars
    <3> QED
      BY <1>2, <3>2, <3>3
         DEF Next, Mirroring, Fighting, Recovering, SetExternalStatus, ReplaceAuthoritativeStatuses,
             RecordBlock, ManualHit, ApplyHit, ApplyStatus, ClearStatuses, Heal, FullHeal, Recover,
             Revive, SetHp, Reconfigure, Rescaled, Advance, windowVars
  <2> QED
    BY <2>1 DEF SetCombatEnabled, DropTimers, TypeOK
<1> QED
  BY <1>1, <1>2

(* The protection of the last damaging hit is only ever extended, or        *)
(* dropped together with the hit.                                           *)
LEMMA ShieldStep ==
    ASSUME CombatAssumption, TypeOK, Shielded, [Next]_combatVars
    PROVE  Shielded'
<1> USE DEF Shielded, TypeOK
<1>1. ASSUME NEW enabled \in BOOLEAN, SetCombatEnabled(enabled)
      PROVE  Shielded'
  BY <1>1 DEF SetCombatEnabled, clockVars
<1>2. ASSUME NEW h \in HitTypes, ManualHit(h)
      PROVE  Shielded'
  BY <1>2 DEF ManualHit, ApplyHit, clockVars
<1>3. ASSUME NEW percent \in Percents, Revive(percent)
      PROVE  Shielded'
  <2>1. last_hit' = last_hit /\ invulnerable_until' = now + Invulnerability
    BY <1>3 DEF Revive
  <2> QED
    BY <1>3, <2>1 DEF Revive, clockVars, CombatAssumption, Never
<1>4. CASE UNCHANGED <<last_hit, invulnerable_until>> /\ now' \in {now, now + 1}
  BY <1>4 DEF Never
<1>5. Tick => UNCHANGED <<last_hit, invulnerable_until>> /\ now' = now
  BY TickTakes DEF TakeTicks, windowVars, clockVars
<1> QED
  BY <1>1, <1>2, <1>3, <1>4, <1>5
     DEF Next, Mirroring, Fighting, Recovering, SetExternalStatus, ReplaceAuthoritativeStatuses,
         RecordBlock, ApplyStatus, ClearStatuses, Heal, FullHeal, Recover, SetHp, Reconfigure, Rescaled, Advance,
         windowVars, clockVars, combatVars
----------------------------------------------------------------------------
(* The inductive invariant.  TypeOK alone does not bound the timers: that   *)
(* ticks fit into elapsed time needs the distance to the next tick (Paced), *)
(* that no damage falls inside the invulnerability needs the shield to      *)
(* outlast the hit it belongs to (Shielded), and that a disabled character  *)
(* is safe needs the absence of timers (SwitchedOffClean).                  *)
Inductive == TypeOK /\ Paced /\ TimerOwnership /\ Shielded /\ SwitchedOffClean

LEMMA InductiveInit ==
    ASSUME CombatAssumption, Init
    PROVE  Inductive
BY DEF Inductive, Init, TypeOK, NoTimer, Never, Paced, TimerOwnership, Shielded, SwitchedOffClean,
       CombatAssumption

LEMMA InductiveStep ==
    ASSUME CombatAssumption, Inductive, [Next]_combatVars
    PROVE  Inductive'
BY TypeStep, TimersStep, ShieldStep, SwitchStep DEF Inductive

LEMMA Invariance == Spec => []Inductive
<1>1. Init => Inductive
  BY CombatAssumption, InductiveInit
<1>2. Inductive /\ [Next]_combatVars => Inductive'
  BY CombatAssumption, InductiveStep
<1> QED
  BY <1>1, <1>2, PTL DEF Spec

(* In every reachable state each variable has its type and the hit points   *)
(* lie between zero and the maximum.                                        *)
THEOREM TypeCorrect == Spec => []TypeOK
<1>1. Inductive => TypeOK
  BY DEF Inductive
<1> QED
  BY <1>1, Invariance, PTL

(* Refreshing a status, or a late call of tick(), never makes damage over   *)
(* time run ahead of the clock.                                             *)
THEOREM DotIsPaced == Spec => []DotWithinTime
<1>1. Inductive => DotWithinTime
  BY DEF Inductive, Paced, PacedTimer, DotWithinTime
<1> QED
  BY <1>1, Invariance, PTL

(* No damage tick falls at or after the expiry of its timer. *)
THEOREM DotEndsInTime == Spec => []DotBeforeExpiry
<1>1. Inductive => DotBeforeExpiry
  BY DEF Inductive, Paced, PacedTimer, DotBeforeExpiry
<1> QED
  BY <1>1, Invariance, PTL

(* A status an outside owner has spoken about has no local timer. *)
THEOREM TimersAreOwned == Spec => []TimerOwnership
<1>1. Inductive => TimerOwnership
  BY DEF Inductive
<1> QED
  BY <1>1, Invariance, PTL
----------------------------------------------------------------------------
(* Two damaging hits of one session are an invulnerability time apart. *)
THEOREM HitsAreSpaced == Spec => IFrameSpacing
<1>1. Inductive /\ [Next]_combatVars
      => [ last_hit # Never /\ (\E h \in HitTypes : ManualHit(h) /\ current_hp' < current_hp)
           => now >= last_hit + Invulnerability ]_combatVars
  BY CombatAssumption
     DEF Inductive, Shielded, TypeOK, ManualHit, ApplyHit, HitOutcome, is_invulnerable, CombatAssumption, Never
<1> QED
  BY <1>1, Invariance, PTL DEF Spec, IFrameSpacing

(* With clear_statuses_when_disabled a character whose RP combat is off     *)
(* loses hit points only to a set value or an edited sheet.                 *)
THEOREM DisabledIsSafe == Spec => DisabledLosesNoHp
<1>1. ASSUME Inductive, [Next]_combatVars, ClearWhenDisabled, ~combat_enabled, current_hp' < current_hp
      PROVE  maximum_hp' # maximum_hp \/ \E hp \in 0..maximum_hp : SetHp(hp)
  <2>1. TypeOK /\ statuses = {}
    BY <1>1 DEF Inductive, SwitchedOffClean
  <2>2. ~Tick
    BY <1>1, <2>1, TickIdle DEF TypeOK
  <2>3. ASSUME NEW maximum \in Maxima, NEW preserve_ratio \in BOOLEAN,
               Reconfigure(maximum, preserve_ratio)
        PROVE  maximum_hp' # maximum_hp
    <3> SUFFICES ASSUME maximum = maximum_hp
                 PROVE  FALSE
      BY <2>3 DEF Reconfigure, Rescaled
    <3>1. Rounded(current_hp * maximum_hp, maximum_hp) = current_hp
      BY <2>1, RoundedSame DEF TypeOK
    <3> QED
      BY <1>1, <2>1, <2>3, <3>1 DEF Reconfigure, Rescaled, AtMost, TypeOK
  <2>4. ASSUME NEW hp \in Nat, Recover(hp), hp >= current_hp
        PROVE  FALSE
    BY <1>1, <2>1, <2>4 DEF Recover, TypeOK
  <2>5. (\A amount \in Heals : ~Heal(amount)) /\ ~FullHeal
    BY <2>1, <2>4, CombatAssumption DEF Heal, FullHeal, AtMost, TypeOK, CombatAssumption
  <2>6. \A percent \in Percents : ~Revive(percent)
    <3> SUFFICES ASSUME NEW percent \in Percents, Revive(percent)
                 PROVE  FALSE
      OBVIOUS
    <3>1. percent \in 1..100
      BY CombatAssumption DEF CombatAssumption
    <3>2. Rounded(maximum_hp * percent, 100) \in 0..maximum_hp
      BY <2>1, <3>1, RoundedPercent DEF TypeOK
    <3> QED
      BY <1>1, <2>1, <3>2 DEF Revive, AtLeast, TypeOK, is_ko
  <2>7. \A h \in HitTypes : ~ManualHit(h)
    BY <1>1 DEF ManualHit, ApplyHit, HitOutcome
  <2>8. current_hp' # current_hp
    BY <1>1, <2>1 DEF TypeOK
  <2> QED
    BY <1>1, <2>2, <2>3, <2>5, <2>6, <2>7, <2>8, HealthActions
<1>2. Inductive /\ [Next]_combatVars
      => [ ClearWhenDisabled /\ ~combat_enabled /\ current_hp' < current_hp
           => maximum_hp' # maximum_hp \/ \E hp \in 0..maximum_hp : SetHp(hp) ]_combatVars
  BY <1>1
<1> QED
  BY <1>2, Invariance, PTL DEF Spec, DisabledLosesNoHp

(* Only a revive or a set value brings a character back from zero. *)
THEOREM KoHolds == Spec => KoIsAbsorbing
<1>1. ASSUME Inductive, [Next]_combatVars, current_hp = 0, current_hp' > 0
      PROVE  \/ \E percent \in Percents : Revive(percent)
             \/ \E hp \in 0..maximum_hp : SetHp(hp)
  <2>1. TypeOK
    BY <1>1 DEF Inductive
  <2>2. ~Tick
    BY <1>1, <2>1, TickHealth
  <2>3. ASSUME NEW maximum \in Maxima, NEW preserve_ratio \in BOOLEAN,
               Reconfigure(maximum, preserve_ratio)
        PROVE  FALSE
    <3>1. maximum \in Nat /\ 0 * maximum = 0
      BY CombatAssumption DEF CombatAssumption
    <3>2. Rounded(0, maximum_hp) = 0
      BY <2>1 DEF Rounded, TypeOK
    <3> QED
      BY <1>1, <2>3, <3>1, <3>2 DEF Reconfigure, Rescaled, AtMost
  <2>4. (\A amount \in Heals : ~Heal(amount)) /\ ~FullHeal /\ \A h \in HitTypes : ~ManualHit(h)
    BY <1>1 DEF Heal, FullHeal, Recover, is_ko, ManualHit, ApplyHit, HitOutcome
  <2> QED
    BY <1>1, <2>2, <2>3, <2>4, HealthActions
<1>2. Inductive /\ [Next]_combatVars
      => [ current_hp = 0 /\ current_hp' > 0
           => \/ \E percent \in Percents : Revive(percent)
              \/ \E hp \in 0..maximum_hp : SetHp(hp) ]_combatVars
  BY <1>1
<1> QED
  BY <1>2, Invariance, PTL DEF Spec, KoIsAbsorbing
============================================================================
