---------------------------- MODULE CombatState ----------------------------
(***************************************************************************)
(* The local hit point and status engine of the desktop bridge             *)
(* (stories_yggdrasil_osc/combat.py).  Every method of the class runs      *)
(* under one reentrant lock, so each of them is one action here.  The      *)
(* monotonic clock is the integer variable now; durations are constants in *)
(* the same unit.  A status absent from the dictionary of local timers     *)
(* keeps meaningless values in expires_at and next_tick_at.                *)
(***************************************************************************)
EXTENDS Integers, FiniteSetsExt

CONSTANTS
    HitTypes,          \* the keys of damage_values
    Statuses,          \* the keys of status_rules
    Tracked,           \* the statuses Sam.py owns (replace_authoritative_statuses)
    Damage,            \* hit points lost per hit type
    Invulnerability,   \* invulnerability_seconds
    Duration,          \* duration_seconds per status
    TickSeconds,       \* tick_seconds per status, 0 where the rule has none
    TickDamage,        \* damage per tick of a status
    ClearWhenDisabled, \* clear_statuses_when_disabled
    CriticalBypasses,  \* combat.block.critical_bypasses
    BlockWindow,       \* combat.block.window_seconds
    Maxima,            \* the maximum hit points a character sheet may have
    Heals,             \* amounts a heal button or command may give
    Percents,          \* percentages of the maximum a revive may restore
    MaxTime            \* bound on the clock

ASSUME CombatAssumption ==
    /\ Tracked \subseteq Statuses
    /\ Damage \in [HitTypes -> Nat]
    /\ Invulnerability \in Nat
    /\ Duration \in [Statuses -> Nat \ {0}]
    /\ TickSeconds \in [Statuses -> Nat]
    /\ TickDamage \in [Statuses -> Nat]
    /\ ClearWhenDisabled \in BOOLEAN
    /\ CriticalBypasses \in BOOLEAN
    /\ BlockWindow \in Nat
    /\ Maxima \subseteq Nat \ {0}
    /\ Heals \subseteq Nat
    /\ Percents \subseteq 1..100
    /\ MaxTime \in Nat

VARIABLES
    now,                \* time.monotonic()
    maximum_hp,
    current_hp,
    combat_enabled,
    invulnerable_until,
    blocked_until,
    statuses,           \* keys of the dictionary of local timers
    expires_at,         \* their fields, zero where there is no timer
    next_tick_at,
    external_statuses,  \* statuses mirrored from an outside owner
    (* history *)
    disowned,           \* statuses an outside owner has spoken about since the last apply_status
    since,              \* when the present run of a local timer began
    ticked,             \* the time its damage ticks have used up
    last_hit            \* instant of the last damaging hit of this combat session

clockVars   == <<now>>
healthVars  == <<maximum_hp, current_hp>>
windowVars  == <<combat_enabled, invulnerable_until, blocked_until>>
timerVars   == <<statuses, expires_at, next_tick_at, since, ticked>>
mirrorVars  == <<external_statuses, disowned>>
combatVars  == <<clockVars, healthVars, windowVars, timerVars, mirrorVars, last_hit>>

Never == 0 - 1   \* no damaging hit yet
---------------------------------------------------------------------------
is_ko          == current_hp <= 0
is_blocking    == now < blocked_until
is_invulnerable == now < invulnerable_until

AtMost(a, b)  == IF a <= b THEN a ELSE b
AtLeast(a, b) == IF a >= b THEN a ELSE b
Clamped(hp)   == AtLeast(0, AtMost(maximum_hp, hp))

(* Python's round() of n / d: to the nearest integer, halves to the even one. *)
Rounded(n, d) ==
    LET q == n \div d
        r == n % d
    IN  IF 2 * r < d \/ (2 * r = d /\ q % 2 = 0) THEN q ELSE q + 1

NoTimer == [s \in Statuses |-> 0]

Init ==
    /\ now = 0
    /\ maximum_hp \in Maxima
    /\ current_hp \in 0..maximum_hp
    /\ combat_enabled \in BOOLEAN
    /\ invulnerable_until = 0
    /\ blocked_until = 0
    /\ statuses = {}
    /\ expires_at = NoTimer
    /\ next_tick_at = NoTimer
    /\ external_statuses = {}
    /\ disowned = {}
    /\ since = NoTimer
    /\ ticked = NoTimer
    /\ last_hit = Never
---------------------------------------------------------------------------
Without(timer, S) == [s \in Statuses |-> IF s \in S THEN 0 ELSE timer[s]]

DropTimers(S) ==
    /\ statuses' = statuses \ S
    /\ expires_at' = Without(expires_at, S)
    /\ next_tick_at' = Without(next_tick_at, S)
    /\ since' = Without(since, S)
    /\ ticked' = Without(ticked, S)

SetCombatEnabled(enabled) ==
    /\ combat_enabled' = enabled
    /\ IF ~enabled /\ ClearWhenDisabled
       THEN /\ DropTimers(Statuses)
            /\ external_statuses' = {}
            /\ invulnerable_until' = 0
            /\ blocked_until' = 0
            /\ last_hit' = Never
       ELSE UNCHANGED <<timerVars, external_statuses, invulnerable_until, blocked_until, last_hit>>
    /\ UNCHANGED <<clockVars, healthVars, disowned>>

RecordBlock ==
    /\ combat_enabled
    /\ blocked_until' = AtLeast(blocked_until, now + BlockWindow)
    /\ UNCHANGED <<clockVars, healthVars, combat_enabled, invulnerable_until,
                   timerVars, mirrorVars, last_hit>>

(* The EventResult.event of a hit.  No caller passes bypass_iframes.  Names *)
(* of the form Operator_variant are mutants: what the operator would be     *)
(* with a plausible bug.                                                    *)
HitOutcome_no_iframes(blocked) ==
    IF ~combat_enabled \/ is_ko THEN "hit_ignored" ELSE IF blocked THEN "blocked" ELSE "damage"

HitOutcome(blocked) ==
    IF ~combat_enabled \/ is_ko THEN "hit_ignored"
    ELSE IF blocked THEN "blocked"
    ELSE IF is_invulnerable THEN "hit_ignored"
    ELSE "damage"

HpAfter(h) == AtLeast(0, current_hp - Damage[h])

ApplyHit(h, blocked) ==
    /\ HitOutcome(blocked) = "damage"
    /\ current_hp' = HpAfter(h)
    /\ IF Damage[h] > 0
       THEN invulnerable_until' = now + Invulnerability /\ last_hit' = now
       ELSE UNCHANGED <<invulnerable_until, last_hit>>
    /\ UNCHANGED <<clockVars, maximum_hp, combat_enabled, blocked_until, timerVars, mirrorVars>>

(* BridgeController.manual_hit: the block decision of a hit applied at once. *)
HitIsBlocked(h) == is_blocking /\ ~(h = "critical" /\ CriticalBypasses)

ManualHit(h) == ApplyHit(h, HitIsBlocked(h))

(* A refreshed timer keeps its next tick unless that tick is overdue or absent. *)
KeepsCadence(s) == s \in statuses /\ TickSeconds[s] > 0 /\ next_tick_at[s] > now

FirstTick_at_once(s) == now
FirstTick(s) == now + TickSeconds[s]

AcceptsStatus_always(s) == ~is_ko
AcceptsStatus(s) == combat_enabled /\ ~is_ko

ApplyStatus(s) ==
    /\ AcceptsStatus(s)
    /\ statuses' = statuses \cup {s}
    /\ expires_at' = [expires_at EXCEPT ![s] = now + Duration[s]]
    /\ next_tick_at' = [next_tick_at EXCEPT ![s] =
                           IF KeepsCadence(s) THEN @ ELSE FirstTick(s)]
    /\ since' = [since EXCEPT ![s] = IF s \in statuses THEN @ ELSE now]
    /\ disowned' = disowned \ {s}
    /\ UNCHANGED <<clockVars, healthVars, windowVars, ticked, external_statuses, last_hit>>

SuspendTimer_never(s) == UNCHANGED timerVars
SuspendTimer(s) == DropTimers({s})

SetExternalStatus(s, active) ==
    /\ SuspendTimer(s)
    /\ external_statuses' = IF active THEN external_statuses \cup {s} ELSE external_statuses \ {s}
    /\ disowned' = disowned \cup {s}
    /\ UNCHANGED <<clockVars, healthVars, windowVars, last_hit>>

ReplaceAuthoritativeStatuses(names) ==
    /\ DropTimers(Tracked)
    /\ external_statuses' = (external_statuses \ Tracked) \cup (names \cap Tracked)
    /\ disowned' = disowned \cup Tracked
    /\ UNCHANGED <<clockVars, healthVars, windowVars, last_hit>>

ClearStatuses(S) ==
    /\ DropTimers(S)
    /\ external_statuses' = external_statuses \ S
    /\ UNCHANGED <<clockVars, healthVars, windowVars, disowned, last_hit>>

Recover(hp) ==
    /\ ~is_ko
    /\ current_hp' = hp
    /\ UNCHANGED <<clockVars, maximum_hp, windowVars, timerVars, mirrorVars, last_hit>>

Heal(amount) == Recover(AtMost(maximum_hp, current_hp + amount))
FullHeal     == Recover(maximum_hp)

Revive(percent) ==
    /\ is_ko
    /\ current_hp' = AtLeast(1, Rounded(maximum_hp * percent, 100))
    /\ DropTimers(Statuses)
    /\ external_statuses' = {}
    /\ invulnerable_until' = now + Invulnerability
    /\ UNCHANGED <<clockVars, maximum_hp, combat_enabled, blocked_until, disowned, last_hit>>

SetHp(hp) ==
    /\ current_hp' = Clamped(hp)
    /\ UNCHANGED <<clockVars, maximum_hp, windowVars, timerVars, mirrorVars, last_hit>>

(* preserve_ratio keeps the share of the maximum a character has left. *)
Rescaled_alive(maximum) == AtLeast(1, Rounded(current_hp * maximum, maximum_hp))
Rescaled(maximum) == Rounded(current_hp * maximum, maximum_hp)

(* Only the maximum moves here: the damage and status rules are constants.  *)
Reconfigure(maximum, preserve_ratio) ==
    /\ maximum_hp' = maximum
    /\ current_hp' = AtMost(maximum, IF preserve_ratio
                                     THEN Rescaled(maximum)
                                     ELSE current_hp)
    /\ UNCHANGED <<clockVars, windowVars, timerVars, mirrorVars, last_hit>>
---------------------------------------------------------------------------
(* CombatState.tick(): expired timers leave without a final tick; each other *)
(* timer takes every tick that is due, and the loop stops at zero hit points.*)
(* The dictionary order of the timers is abstracted to any order.            *)
Expired == {s \in statuses : expires_at[s] <= now}
Ticking == {s \in statuses \ Expired : TickSeconds[s] > 0 /\ next_tick_at[s] <= now}

DueTicks_one_more(s) ==
    LET last == AtMost(now, expires_at[s] - 1)
    IN  ((last - next_tick_at[s]) \div TickSeconds[s]) + 2

DueTicks(s) ==
    LET last == AtMost(now, expires_at[s] - 1)
    IN  ((last - next_tick_at[s]) \div TickSeconds[s]) + 1

Loss(S) == MapThenSumSet(LAMBDA s : DueTicks(s) * TickDamage[s], S)

(* timer[s] moves on by the ticks s has taken in this call. *)
Advanced(timer, taken) ==
    [s \in Statuses |-> IF s \in Expired THEN 0
                        ELSE IF s \in DOMAIN taken THEN timer[s] + taken[s] * TickSeconds[s]
                        ELSE timer[s]]

TakeTicks(taken) ==
    /\ statuses' = statuses \ Expired
    /\ expires_at' = Without(expires_at, Expired)
    /\ since' = Without(since, Expired)
    /\ next_tick_at' = Advanced(next_tick_at, taken)
    /\ ticked' = Advanced(ticked, taken)
    /\ UNCHANGED <<clockVars, maximum_hp, windowVars, mirrorVars, last_hit>>

TickUnconscious ==
    /\ is_ko
    /\ TakeTicks([s \in {} |-> 0])
    /\ UNCHANGED current_hp

TickSurvived ==
    /\ ~is_ko
    /\ \E hp \in 1..current_hp : hp = current_hp - Loss(Ticking) /\ current_hp' = hp
    /\ TakeTicks([s \in Ticking |-> DueTicks(s)])

(* The timers of done ran dry before last dealt the killing tick, its n-th.  *)
TickKilled(done, last) ==
    /\ ~is_ko
    /\ Loss(done) < current_hp
    /\ \E n \in 1..DueTicks(last) :
          /\ Loss(done) + (n - 1) * TickDamage[last] < current_hp
          /\ Loss(done) + n * TickDamage[last] >= current_hp
          /\ TakeTicks([s \in done \cup {last} |-> IF s = last THEN n ELSE DueTicks(s)])
    /\ current_hp' = 0

Tick ==
    \/ TickUnconscious
    \/ TickSurvived
    \/ \E done \in SUBSET Ticking : \E last \in Ticking \ done : TickKilled(done, last)

Advance ==
    /\ now < MaxTime
    /\ now' = now + 1
    /\ UNCHANGED <<healthVars, windowVars, timerVars, mirrorVars, last_hit>>
---------------------------------------------------------------------------
(* A mirrored set of names is what one Sam.py state snapshot carries. *)
Mirroring ==
    \/ \E s \in Statuses, active \in BOOLEAN : SetExternalStatus(s, active)
    \/ \E names \in SUBSET Tracked : ReplaceAuthoritativeStatuses(names)

Fighting ==
    \/ \E enabled \in BOOLEAN : SetCombatEnabled(enabled)
    \/ RecordBlock
    \/ \E h \in HitTypes : ManualHit(h)
    \/ \E s \in Statuses : ApplyStatus(s) \/ ClearStatuses({s})
    \/ ClearStatuses(Statuses)

Recovering ==
    \/ \E amount \in Heals : Heal(amount)
    \/ FullHeal
    \/ \E percent \in Percents : Revive(percent)
    \/ \E hp \in 0..maximum_hp : SetHp(hp)
    \/ \E maximum \in Maxima, preserve_ratio \in BOOLEAN : Reconfigure(maximum, preserve_ratio)

Next == Mirroring \/ Fighting \/ Recovering \/ Tick \/ Advance

Spec == Init /\ [][Next]_combatVars
---------------------------------------------------------------------------
(* Types, and the range of the hit points: every path that sets them clamps *)
(* (combat.py:36, 167, 283, 300, 309, 318, 344).                            *)
TypeOK ==
    /\ now \in Nat
    /\ maximum_hp \in Nat \ {0}
    /\ current_hp \in 0..maximum_hp
    /\ combat_enabled \in BOOLEAN
    /\ invulnerable_until \in Nat
    /\ blocked_until \in Nat
    /\ statuses \subseteq Statuses
    /\ expires_at \in [Statuses -> Nat]
    /\ next_tick_at \in [Statuses -> Nat]
    /\ external_statuses \subseteq Statuses
    /\ disowned \subseteq Statuses
    /\ since \in [Statuses -> Nat]
    /\ ticked \in [Statuses -> Nat]
    /\ last_hit \in Nat \cup {Never}

(* Damage over time never runs ahead of the clock: however often a timer is *)
(* refreshed (apply_status, combat.py:188-195) and however many ticks one   *)
(* late call of tick() catches up (340-346), the ticks a timer has dealt    *)
(* fit into the time since it was first applied.                            *)
DotWithinTime ==
    \A s \in statuses : TickSeconds[s] > 0 => since[s] + ticked[s] <= now

(* No damage tick belongs to an instant at or after the expiry of its timer *)
(* (combat.py:335-340), refreshes included.                                 *)
DotBeforeExpiry ==
    \A s \in statuses : ticked[s] > 0 => since[s] + ticked[s] < expires_at[s]

(* Only a status the desktop applied itself has a timer: once an outside    *)
(* owner has spoken about it (set_external_status and                       *)
(* replace_authoritative_statuses, combat.py:199-251) the desktop cannot    *)
(* apply a second damage tick for it.                                       *)
TimerOwnership ==
    statuses \cap disowned = {}

(* Between two damaging hits of one combat session lies at least the        *)
(* invulnerability time, whatever revives, heals, blocks and status changes *)
(* happen in between (apply_hit, combat.py:164-169).                        *)
IFrameSpacing ==
    [][ last_hit # Never /\ (\E h \in HitTypes : ManualHit(h) /\ current_hp' < current_hp)
        => now >= last_hit + Invulnerability ]_combatVars

(* With clear_statuses_when_disabled a character whose RP combat is off     *)
(* loses hit points only when somebody sets them or edits the character     *)
(* sheet (combat.py:133-138, 158, 179): no timer survives the switch.       *)
DisabledLosesNoHp ==
    [][ ClearWhenDisabled /\ ~combat_enabled /\ current_hp' < current_hp
        => maximum_hp' # maximum_hp \/ \E hp \in 0..maximum_hp : SetHp(hp) ]_combatVars

(* A character at zero hit points comes back only by a revive or by a set   *)
(* value: no late tick, status change, switch or rescaled character sheet   *)
(* lifts it (combat.py:298, 318, 340-348).                                  *)
KoIsAbsorbing ==
    [][ current_hp = 0 /\ current_hp' > 0
        => \/ \E percent \in Percents : Revive(percent)
           \/ \E hp \in 0..maximum_hp : SetHp(hp) ]_combatVars
============================================================================
