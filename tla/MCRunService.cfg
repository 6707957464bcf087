SPECIFICATION FairSpec
CONSTANTS
    s1 = s1
    s2 = s2
    p1 = p1
    w1 = w1
    w2 = w2
    x1 = x1
    Starts = {s1, s2}
    Stops = {p1}
    Switches = {w1, w2}
    Writes = {x1}
    Scenarios <- MCScenarios
    Free = Free
INVARIANTS OneResultPerWaiter ModeSurvivesRestart
PROPERTY StartAnswered
CHECK_DEADLOCK FALSE
