SPECIFICATION LiveSpec
CONSTANTS
    r1 = r1
    r2 = r2
    t1 = t1
    s1 = s1
    l1 = l1
    o1 = o1
    u1 = u1
    Refreshes = {r1, r2}
    Ticks = {t1}
    Restores = {s1}
    Logins = {l1}
    Logouts = {o1}
    Updates = {u1}
    Free = Free
    Scenarios <- MCScenarios
    InitialSession = {0, 1}
    MaxToken = 5
INVARIANTS RotatedTokenNotReused SessionUsable
PROPERTY CallsReturn
CHECK_DEADLOCK FALSE
