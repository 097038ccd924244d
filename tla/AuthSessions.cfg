\* Two admins who act on each other, or one user in and out of a tenant that
\* closes; two requests in progress, one of them a PATCH of a user.
SPECIFICATION ScopedSpec
CONSTANTS
    u1 = u1
    u2 = u2
    t1 = t1
    s1 = s1
    s2 = s2
    NoTenant = NoTenant
    Keep = Keep
    User <- TwoUsers
    Admins <- TwoUsers
    Tenant <- OneTenant
    Slot <- TwoSlots
    AdminSlot <- OneSlot
    MaxPairs = 2
    MaxPasswords = 1
    MaxFaults = 1
INVARIANTS
    SurvivorsStraddled
    SomeActiveAdmin
    ClosingEndsSessions
    RedemptionsOverlap
CHECK_DEADLOCK FALSE
