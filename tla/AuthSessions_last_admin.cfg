\* Two admins act on each other at once.
SPECIFICATION ScopedSpec
CONSTANTS
    u1 = u1
    u2 = u2
    t1 = t1
    s1 = s1
    s2 = s2
    NoTenant = NoTenant
    Keep = Keep
    User <- TwoUsers
    Admins <- TwoUsers
    Tenant <- NoTenants
    Slot <- TwoSlots
    AdminSlot <- TwoSlots
    MaxPairs = 2
    MaxPasswords = 0
    MaxFaults = 0
INVARIANTS
    SomeActiveAdmin
CHECK_DEADLOCK FALSE
