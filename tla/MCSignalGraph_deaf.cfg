\* Two effects over one atom, the first of which throws: what the second still
\* hears.
SPECIFICATION Spec
CONSTANTS
    a = a
    b = b
    c1 = c1
    c2 = c2
    c3 = c3
    e1 = e1
    e2 = e2
    t1 = t1
    t2 = t2
    Oops = Oops
    Atoms = {a}
    Computeds = {c1}
    Effects = {e1, e2}
    Watchable = {}
    Watchers = {}
    Thenables = {}
    Suspensions = {}
    Values <- Bits
    Fulfilments = {1}
    Initial = 0
    None = None
    Shapes = {"throws"}
    Body <- MCBody
    Cycle = Cycle
    Rejection = Rejection
    Written <- WrittenIn
    MaxClock <- Clocks
INVARIANTS StaleIsHeard
CHECK_DEADLOCK FALSE
