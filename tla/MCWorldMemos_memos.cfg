SPECIFICATION SpecMemos
CONSTANTS
    a = a
    c1 = c1
    c2 = c2
    c3 = c3
    Atoms = {a}
    MaxDrafts = 2
    MaxIntents = 2
    Values <- Bits
    Class <- Identity
    SetValues = {}
    Updaters <- Flip
    Thrown = Thrown
    EffectsThrow = FALSE
    NoLog = NoLog
    Creation <- Apart
    Watched = {c2}
    Shapes = {"await"}
    Body <- MCBody
    Awaited = Awaited
    Answer = 1
    None = None
    HandlersResolve = FALSE
    MaxClock = 5
INVARIANTS MemoServesCurrent NeverServesSpent
CHECK_DEADLOCK FALSE
