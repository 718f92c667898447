SPECIFICATION Spec
CONSTANTS
    HitTypes <- MCHitTypes
    Statuses <- MCStatuses
    Tracked <- MCTracked
    Damage <- MCDamage
    Invulnerability = 2
    Duration <- MCDuration
    TickSeconds <- MCTickSeconds
    TickDamage <- MCTickDamage
    ClearWhenDisabled = TRUE
    CriticalBypasses = TRUE
    BlockWindow = 1
    Maxima <- MCMaxima
    Heals <- MCHeals
    Percents <- MCPercents
    MaxTime = 3
INVARIANTS DotWithinTime DotBeforeExpiry TimerOwnership
PROPERTIES IFrameSpacing DisabledLosesNoHp KoIsAbsorbing
