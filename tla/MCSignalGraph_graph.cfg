SPECIFICATION Spec
CONSTANTS
    a = a
    b = b
    c1 = c1
    c2 = c2
    c3 = c3
    e1 = e1
    e2 = e2
    t1 = t1
    t2 = t2
    Oops = Oops
    Atoms = {a, b}
    Computeds = {c1, c2}
    Effects = {e1}
    Watchable = {c1}
    Watchers = {w1}
    Thenables = {t1, t2}
    Suspensions = {s1, s2, s3, s4}
    Values <- Bits
    Fulfilments = {1}
    Initial = 0
    None = None
    Shapes <- AllShapes
    Body <- MCBody
    Cycle = Cycle
    Rejection = Rejection
    Written <- WrittenIn
    MaxClock <- Clocks
INVARIANTS TypeOK ReadsAreCurrent NobodyMissesAChange StaleIsHeard Acyclic ParkedIsAwaited
CHECK_DEADLOCK FALSE
