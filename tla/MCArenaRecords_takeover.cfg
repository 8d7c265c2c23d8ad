SPECIFICATION Spec
CONSTANTS
    a1 = a1
    a2 = a2
    d1 = d1
    e1 = e1
    e2 = e2
    e3 = e3
    e4 = e4
    e5 = e5
    w1 = w1
    Cells = {a1, a2}
    Deriveds = {d1}
    Effects = {e1, e2, e3, e4, e5}
    Watchers = {w1}
    Watchable = {a1, d1}
    LaneOf <- MCLaneOf
    Cleans = {e1, e2}
    Body <- MCBody
    Mentions <- MCMentions
    None = None
    Redisposes = FALSE
    Programs = {"takeover"}
    Touches <- MCTouches
    MaxClock <- MCMaxClock
    MaxDepth = 1
INVARIANTS NoRunIsLost
CHECK_DEADLOCK FALSE
