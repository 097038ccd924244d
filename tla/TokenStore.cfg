\* Both stores: keys that expire, seconds, outages; the janitor and restarts.
SPECIFICATION Spec
CONSTANTS
    a = a
    b = b
    Token <- TwoTokens
    TicksPerSecond = 2
    AccessTTL = 4
    RefreshTTL = 8
    MaxNow = 12
    MaxFaults = 2
SYMMETRY Names
INVARIANTS
    RevokedStaysDead
    KillCoversOldSeconds
    KillCoversEarlier
    FreshTokensLive
    GatewayTurnsAway
CHECK_DEADLOCK FALSE
