\* "Runs until stopped": a stop that returns before the listener is published.
SPECIFICATION HttpFairSpec
CONSTANTS
    Starts = {s1}
    Stops = {p1}
    NoCall = NoCall
PROPERTY StopEndsServer
CHECK_DEADLOCK FALSE
